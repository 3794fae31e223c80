\* One device, captures in sequence, one failed replication.
CONSTANTS
    Content = {a, b}
    Null = Null
    Commands = {}
    SyncModes = {TRUE}
    KeepLast = 1
    MaxSnapshots = 3
    MaxEdits = 2
    MaxPulls = 0
    MaxFaults = 1
SPECIFICATION Spec
INVARIANT ComparableHeadsSelectable
CHECK_DEADLOCK FALSE
