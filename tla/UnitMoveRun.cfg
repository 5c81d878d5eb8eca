SPECIFICATION FairSpec
CONSTANTS
    Last = 2
    Strangers = {s1}
    s1 = s1
    None = None
    MaxOther = 3
    MaxFaults = 2
INVARIANTS HeldIsOnRecord RecordIsTrue IndexIsExplained
PROPERTIES KeepsPromise SettleableSettles
CHECK_DEADLOCK FALSE
