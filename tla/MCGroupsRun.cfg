SPECIFICATION Spec
CONSTANTS
    File <- MCFile
    Worth <- MCWorth
    Dir <- MCDir
    Camera = {1, 2}
    Catalogued = {3}
    Bursts <- MCBursts
    Pictures <- MCPictures
    First <- MCFirst
    Shots <- MCShots
    Requests <- MCRequests
    Writes <- MCWrites
    MaxEdits = 2
    MaxFaults = 1
INVARIANTS ApprovedWasSeen
PROPERTIES NeverEmptied CopyIsHeld DecisionsStand
CHECK_DEADLOCK FALSE
