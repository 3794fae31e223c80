\* One head, a quorum of one of two operators, two failures; two edits with the agent
\* and prune, one crash, error or failed replication.
CONSTANTS
    Content = {a, b}
    Null = Null
    Commands = {"prune"}
    SyncModes = {TRUE, FALSE}
    KeepLast = 1
    MaxSnapshots = 4
    MaxEdits = 2
    MaxPulls = 0
    MaxFaults = 1
    Server = {"s1", "s2"}
    Endpoint = {"e1", "e3"}
    ServerOf <- MCOneEach
    Key = {"A", "d1"}
    Root = "A"
    Device = {"d1"}
    Item = {"h1", "h2"}
    HeadsOf <- MCOneHead
    NoHead = "none"
    Required = 1
    MaxRecords = 16
    MaxAttempts = 3
    MaxReplicaFaults = 2
SPECIFICATION MCSpec
INVARIANT
    HeadsOrdered
PROPERTIES
    HeadsReach
    EditsReach
    DiscoveryRestored
CHECK_DEADLOCK FALSE
