SPECIFICATION ResemblanceSpec
CONSTANTS
    File <- MCFile
    Archives <- MCArchives
    Readings <- MCReadings
    Touched = {2, 4}
    Ssim <- MCSsim
    Flat = {}
    Catalogue <- MCCatalogue
    Ending <- MCEnding
    Decisions <- MCDecisions
    Dates = {50}
    MaxLeads = 2
    Gap = 3
    MaxEdits = 1
    MaxStops = 1
INVARIANTS
    GroupsAreWhole
    CopiesAreTwins
    BurstsAreMoments
    HandStands
CHECK_DEADLOCK FALSE
