SPECIFICATION FairSpec
CONSTANTS
    Files = {p, q}
    Readers = {r1, r2}
    p = p
    q = q
    r1 = r1
    r2 = r2
    None = None
    Capacity = 1
    PerDisk = 1
    Odd = {2}
    MaxWrites = 2
    MaxFaults = 2
INVARIANTS CurrentIsIndexed
PROPERTIES FinishedMeansRecorded RunEnds
