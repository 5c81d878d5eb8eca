SPECIFICATION PurgeFairSpec
CONSTANTS
    Last = 1
    Strangers = {s1}
    s1 = s1
    None = None
    MaxOther = 3
    MaxFaults = 2
INVARIANTS PurgeIsTold
PROPERTIES OnlyTheProvenGoes
CHECK_DEADLOCK FALSE
