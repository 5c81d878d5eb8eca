SPECIFICATION ThumbsSpec
CONSTANTS
    photoA = photoA
    photoB = photoB
    Photo = {photoA, photoB}
    Viewer = {"page", "other"}
    ProcOf <- MCProcOf
    Asked = {photoA}
    MaxVersion <- MCVersion
    MaxMishaps = 1
INVARIANTS NeverOlder
PROPERTIES AppearsWholeAndStays RebuildMends
CHECK_DEADLOCK FALSE
