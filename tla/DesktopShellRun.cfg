SPECIFICATION FairSpec
CONSTANTS
    Dirs = {old, new}
    NoDir = NoDir
    System = old
    MaxProcs = 2
    MaxFaults = 2
    MaxMoves = 2
INVARIANTS ChoiceIsServed
PROPERTIES OnlyFirstIsMade AskedEnds
CHECK_DEADLOCK FALSE
