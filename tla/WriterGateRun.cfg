SPECIFICATION FairSpec
CONSTANTS
    A = A
    B = B
    Servers = {A, B}
    Cli = Cli
    None = None
    MaxJobs = 2
    Starts <- MCStarts
    MaxFiles = 1
    MaxFaults = 1
INVARIANTS OneWriter StateIsTrue ShutdownIsClean
PROPERTIES AskedStops
