\* One account with a device and two keys; two invitees; two secrets in two
\* environments under two key labels; three principals, two of them founders; one
\* bound repository; three audit events; one migration run by two operators.
CONSTANTS
    AuthDevices = {d1}
    MaxKeys = 2
    MaxSecrets = 2
    MaxTokens = 2
    MaxAuthTime = 1
    MaxOpen = 1
    MaxRequests = 7
    CodeBatch = 1
    Fresh = 1
    HandoffTtl = 1
    SessionTtl = 2
    RecoveryTtl = 1
    Owner = "o"
    Invitees = {"a", "b"}
    Invitations = {"i1", "i2"}
    Vaults = {"v"}
    Locators = {"l1"}
    InvitationTtl = 2
    MaxMemberSteps = 8
    Secrets = {s1, s2}
    Names = {"n1"}
    Envs = {"dev", "prod"}
    Bindings = {}
    Values = {"v1", "v2", "v3"}
    BadValues = {"v2"}
    Labels = {"k1", "k2"}
    Materials = {"m1", "m2"}
    ReceiptKeys = {"r1"}
    Batch = 1
    MaxRings = 2
    MaxSteps = 7
    Principals = {"a", "b", "c"}
    Founders = {"a", "b"}
    MaxScopeTime = 2
    MaxScopeTokens = 1
    MaxInvites = 1
    MaxOpened = 1
    MaxActs = 6
    GrantTtl = 1
    InviteTtl = 1
    TokenTtl = 2
    DenyTtl = 3
    Elevation = 1
    ProofWindow = 1
    ProofRetention = 3
    BoundProjects = {"p1"}
    RepoNames = {"n1", "n2"}
    MaxHooks = 2
    MaxRepoSteps = 8
    ClockSteps = 0
    PageLimit = 2
    MaxEvents = 3
    MaxAuditTime = 1
    MaxAuditSteps = 11
    RunIds = {"r1"}
    NumLines = 2
    FreeNames = {"n2"}
    Heads = {"h1", "h2"}
    FirstHead = "h1"
    ScopedIds = {"s1", "s2", "s3"}
    Operators = {"o1", "o2"}
    PlanHalfSeen = FALSE
    MaxMigrationSteps = 14
    SourceNames <- MCSourceNames
    Contents <- MCContents
INIT MCInit
NEXT MCNext
INVARIANTS
    AuthSound
    RolesSound
    SecretsSound
    RepositoriesSound
    AuditSound
    MigrationSound
PROPERTY
    UsedWhileEntitled
CHECK_DEADLOCK FALSE
