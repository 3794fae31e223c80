\* One operator log with two authorities; two workers on one identity; two puts;
\* two joins of two identities; two operators with two approvers; two holders of
\* fleet keys; two peers.  Writes fail and the operator restarts.
CONSTANTS
    A = A
    B = B
    devA = devA
    devB = devB
    head = head
    Server = {s1}
    Key <- MCKey
    Item = {head}
    Offered <- MCOffered
    MaxRecords = 4
    PageSize = 2
    MaxFaults = 2
    Workers = {w1, w2}
    Identities <- MCIdentities
    SessionDevices = {devA}
    NoDevice = NoDevice
    Strict = TRUE
    MaxChallenges = 1
    MaxSessions = 1
    ChallengeTTL = 1
    SessionTTL = 2
    MaxTime = 1
    MaxIssued = 2
    MaxAdmin = 2
    SessionFaults = 1
    o1 = o1
    o2 = o2
    holderA = holderA
    Putters = {p1, p2}
    Objects = {o1, o2}
    SizeOf <- MCSizeOf
    Holders = {holderA}
    Grants <- MCGrants
    NoGrant = NoGrant
    MustPay = TRUE
    MaxQuota = 2
    UserQuota = 2
    Vaults = {v}
    NoVault = NoVault
    MaxLeases = 1
    MaxTerm = 2
    MaxDay = 1
    MaxPuts = 3
    VoucherFaults = 1
    Joiners = {j1, j2}
    Ids = {a, b}
    NodeKeys = {"k"}
    Tickets <- MCTickets
    NoKey = NoKey
    MaxPeers = 1
    RouteTTL = 2
    Probation = 1
    Grace = 0
    Overlap = FALSE
    MaxHour = 2
    MaxCalls = 3
    MemberFaults = 1
    Hosts = {h1, h2}
    Approvers = {a1, a2}
    Requests <- MCRequests
    NoRequest = NoRequest
    MaxMinute = 2
    MaxRegistered = 3
    MaxSigned = 2
    ApprovalFaults = 1
    FleetHolders = {"k1", "k2"}
    TicketNodes = {"v1"}
    Nonces = {"n1", "n2"}
    TicketTtl = 1
    MaxPins = 2
    MaxInviteTime = 1
    MaxPinChanges = 1
    Peers = {n1, n2}
    Timeout = 2
    OldSeqs = {2, 20}
    HeartbeatFaults = 2
INIT MCInit
NEXT MCNext
INVARIANTS
    AckedStays
    LogSound
    SessionsSound
    VouchersSound
    AdmissionSound
    ApprovalsSound
    RejoinersSeen
PROPERTY
    StandingKept
CHECK_DEADLOCK FALSE
