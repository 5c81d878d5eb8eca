SPECIFICATION Spec
CONSTANTS
    Proc = {"server", "cli"}
    photoA = photoA
    photoB = photoB
    Photo = {photoA, photoB}
    LabelOf <- MCLabelOf
    Sees <- MCSees
    MaxRows <- MCRows
    MaxFaults = 1
INVARIANTS ComesHomeOrStays
PROPERTIES NoteIsKept
CHECK_DEADLOCK FALSE
