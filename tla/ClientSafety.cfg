\* Three releases and two processes; three devices; two transactions of one
\* commitment; two files in the workbench; two workspaces of one account, two
\* processes and two tabs; two secrets and two snapshots to run with; one key file
\* and two processes; a kit backed up through three endpoints.
CONSTANTS
    Versions = {1, 2, 3}
    FirstVersion = 2
    Pids = {1, 2}
    MaxCommands = 3
    MaxNodeFaults = 2
    NumDevices = 3
    MaxSnapshots = 3
    MaxEpoch = 2
    MaxReads = 2
    Splits = {"a", "b"}
    NumShares = 2
    Threshold = 2
    AnchoredHeads = {"h1"}
    Salts = {1}
    Txs = {"t1", "t2"}
    TxPublishes <- MCTxPublishes
    RevertedTxs = {}
    NoTx = "no"
    RelayClaims <- MCRelayClaims
    AnchorCommands = {"a"}
    Refreshers = {"r1", "r2"}
    Confirmations = 1
    MaxBlock = 3
    MaxReorgs = 1
    MaxAnchors = 1
    MaxRefreshes = 2
    NumPaths = 2
    OperatorSets = {"o1", "o2"}
    MaxTasks = 3
    MaxKeys = 2
    MaxPanics = 1
    Workspaces = {"w1", "w2"}
    AccountProcs = {"p1", "p2"}
    AccountTtl = 1
    MaxAccountTime = 1
    MaxAccountCommands = 4
    MaxAccountCrashes = 1
    Tabs = {"t1", "t2"}
    UiTtl = 1
    MaxUiRequests = 3
    HomeWorkspace = "w1"
    RunProjects = {"p1", "p2"}
    RunProject = "p1"
    RunIds = {"s1", "s2"}
    NumNames = 2
    RunEnvs = {"dev", "prod"}
    Reserved = {2}
    RunPage = 2
    RunShells = {"t1", "t2"}
    VaultHeads = {"h1", "h2"}
    FilesOf <- MCFilesOf
    NoneRun = none
    MaxScopeChanges = 2
    MaxRuns = 2
    MaxVaultChanges = 1
    KeyPaths = {"p1"}
    KeyProcs = {"k1", "k2"}
    MaxFileKeys = 2
    MaxBlobs = 1
    MaxKeyFaults = 2
    BackupEndpoints = {"e1", "e2", "e3"}
    BackupOperatorOf <- MCBackupOperatorOf
    BackupReplicas = 2
    Phrases = {"x", "y"}
    ShortPhrases = {"y"}
    MaxSeals = 1
    MaxBackupFaults = 3
INIT MCInit
NEXT MCNext
INVARIANTS
    NodeSound
    RecoverySound
    AnchorsSound
    WorkbenchSound
    DashboardSound
    RunsSound
    KeystoreSound
PROPERTY
    InstallAdvances
CHECK_DEADLOCK FALSE
