SPECIFICATION Spec
CONSTANTS
    MaxRuns = 2
    MaxWrites = 1
    MaxMeddles = 3
    MaxFaults = 2
INVARIANTS DbMeansWhole
PROPERTIES KeepsArchive 
CHECK_DEADLOCK FALSE
