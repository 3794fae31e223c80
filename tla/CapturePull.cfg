\* The agent captures and replicates while the user pulls.
CONSTANTS
    Content = {a, b}
    Null = Null
    Commands = {"pull"}
    SyncModes = {TRUE}
    KeepLast = 1
    MaxSnapshots = 3
    MaxEdits = 1
    MaxPulls = 1
    MaxFaults = 0
SPECIFICATION FairSpec
PROPERTY PullAdvances
CHECK_DEADLOCK FALSE
