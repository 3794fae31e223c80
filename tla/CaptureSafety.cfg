\* The agent beside push, pull and prune, each in a process of its own, one of
\* them crashing, failing to capture or failing to replicate; one head and
\* two operators.
CONSTANTS
    Content = {a, b}
    Null = Null
    Commands = {"push", "pull", "prune"}
    SyncModes = {TRUE, FALSE}
    KeepLast = 0
    MaxSnapshots = 2
    MaxEdits = 2
    MaxPulls = 1
    MaxFaults = 1
    Server = {"s1", "s2"}
    Endpoint = {"e1", "e2", "e3"}
    ServerOf <- MCTwoToOne
    Key = {"A", "d1"}
    Root = "A"
    Device = {"d1"}
    Item = {"h1", "h2"}
    HeadsOf <- MCOneHead
    NoHead = "none"
    Required = 2
    MaxRecords = 7
    MaxAttempts = 2
    MaxReplicaFaults = 1
INIT MCInit
NEXT MCNext
SYMMETRY Symmetry
INVARIANTS
    CaptureKept
    UploadsRecoverable
    QuorumSound
CHECK_DEADLOCK FALSE
