SPECIFICATION ReorganizeSpec
CONSTANTS
    Photo = {1, 2, 3}
    Side = {4}
    Litter = {5}
    Ext = {"jpg", "raw", "xmp", "litter"}
    Start <- MCStart
    Taken <- MCTaken
    Written <- MCWritten
    FolderMonth <- MCFolderMonth
    Roots = {}
    Strays <- MCStrays
    DayLength = 24
    MonthLength = 720
    Gaps = {6, 12}
    MaxRuns = 2
    MaxEntries <- MCEntries
    MaxUpsets = 1
INVARIANTS PlanIsFair IndexFollows
PROPERTIES SidecarFollows BackAsItWas
CHECK_DEADLOCK FALSE
