\* Three swarm members and one object; two peers; two callers; two operators under
\* maintenance; two guessers of one key and one of another beside a client with the right answer.
CONSTANTS
    m1 = m1
    m2 = m2
    m3 = m3
    o1 = o1
    c1 = c1
    c2 = c2
    c3 = c3
    c4 = c4
    k1 = k1
    k2 = k2
    Members = {m1, m2, m3}
    Objects = {o1}
    Score <- MCScore
    HeldAtFirst <- MCHeld
    Probationers = {m2}
    RepairTarget = 2
    MaxQueries = 1
    MaxPushesAtOnce = 1
    SendRate = 1
    ReceiveBudget = 1
    Cooldown = 1
    Requeue = 1
    MaxBackoff = 3
    MaxChurn = 1
    MaxAnnounced = 1
    RepairFaults = 1
    SwarmPeers = {"p1", "p2"}
    SwarmTasks = {"t1"}
    Provider = {"p2"}
    DhtRecords <- MCRecorded
    MaxSwarmCalls = 2
    MaxLinks = 1
    MaxBlocks = 1
    Callers = {c1, c2}
    ApiOps = {"getObject", "revokeSession"}
    Shown <- MCShown
    StrictAuth = TRUE
    RateLimit = 1
    RateWindow = 2
    MaxTracked = 1
    PoolSize = 1
    MaxCalls = 2
    Ops = {"e1", "e2"}
    Cids = {"o1", "o2"}
    HoldsAtFirst = {"e1"}
    Replicas = 2
    TermDays = 2
    Runway = 2
    MaxLeft = 5
    MaxTries = 2
    MaxMaintFaults = 2
    Clients = {c1, c2, c3, c4}
    RateKeys = {k1, k2}
    KeyOf <- MCKeyOf
    Guessers = {c2, c3, c4}
    MaxGuesses = 3
    MaxFailures = 2
    LockWindow = 2
    MaxRateKeys = 1
    QuotaWindow = 1
    QuotaMax = 1
SPECIFICATION MCSpec
INVARIANT
    FleetGuarded
PROPERTIES
    RepairProgress
    SwarmCallsEnd
    MaintenanceProgress
    SignInProgress
CHECK_DEADLOCK FALSE
