SPECIFICATION Spec
CONSTANTS
    Worlds <- MCWorlds
    Systems = {"macos", "linux", "windows"}
    Knows <- MCKnows
    Kinds <- MCKinds
    MaxOthers = 2
    MaxOwn = 1
    MaxFaults = 1
INVARIANTS OnlyTheProven PathStands SchemaIsWhole
CHECK_DEADLOCK FALSE
