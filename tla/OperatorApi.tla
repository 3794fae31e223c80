----------------------------- MODULE OperatorApi ----------------------------
(***************************************************************************)
(* The two front ends of an operator: HTTP (services/operator/src/lib.rs,  *)
(* handlers.rs) and the swarm's RPC (swarm/mod.rs, serve.rs).  A request   *)
(* passes a sliding-window limiter per client, is admitted to a bounded    *)
(* pool and checked for its credentials; over HTTP the check comes before  *)
(* the pool, over the swarm after it.  What an admitted request does to    *)
(* the operator's state is in the modules of that state.                   *)
(***************************************************************************)
EXTENDS Naturals, Sequences, SequencesExt, FiniteSets

CONSTANTS
    Callers,
    ApiOps,         \* operations that are called
    Shown,          \* credentials that are presented
    StrictAuth,     \* security.strict_auth
    RateLimit, RateWindow, MaxTracked,
    PoolSize,       \* permits of bounded_io, MAX_INBOUND_RPC_WORKERS
    MaxCalls        \* bound on requests

ASSUME ApiAssumption ==
    /\ StrictAuth \in BOOLEAN
    /\ RateLimit \in Nat /\ RateWindow \in Nat \ {0} /\ MaxTracked \in Nat
    /\ PoolSize \in Nat \ {0} /\ MaxCalls \in Nat

VARIABLES
    calls,      \* the request of each caller
    hits,       \* the limiters: ages of the admitted requests of each tracked caller
    session,    \* the session the callers may present
    callCount,
    admitted    \* history: ages of admitted requests within the window

apiVars == <<calls, hits, session, callCount, admitted>>

Transports == {"http", "p2p"}
SharedOps == {"info", "challenge", "redeem", "revokeSession", "putObject", "getObject", "prove",
              "lease", "renewLease", "listLeases", "append", "readLog", "announce", "peers",
              "pendingApprovals"}
HttpOps == {"enroll", "issueVoucher", "relay", "graduate", "submitApproval", "join"}
P2pOps == {"repairPush"}
Credentials == [token : {"none", "anonymous", "session"}, vault : {"missing", "own", "other"},
                service : BOOLEAN]
Permissions == {"read", "write", "admin"}
Untracked == <<RateWindow + 1>>
NoCall == [pc |-> "idle"]
Call == {NoCall} \cup [pc : {"sent", "checked", "working", "answered"}, via : Transports,
                       op : ApiOps, credential : Credentials, status : {0, 200, 400, 401, 403, 429, 503}]
ASSUME ApiOpsAssumption ==
    ApiOps \subseteq SharedOps \cup HttpOps \cup P2pOps /\ Shown \subseteq Credentials

RateWindows == SeqOf(0..RateWindow, RateLimit) \cup {Untracked}

ApiTypeOK ==
    /\ calls \in [Callers -> Call]
    /\ hits \in [Transports -> [Callers -> RateWindows]]
    /\ session \in [alive : BOOLEAN, permissions : SUBSET Permissions]
    /\ callCount \in 0..MaxCalls
    /\ admitted \in [Transports -> [Callers -> Seq(0..RateWindow)]]

ApiInit ==
    /\ calls = [c \in Callers |-> NoCall]
    /\ hits = [t \in Transports |-> [c \in Callers |-> Untracked]]
    /\ session \in [alive : {TRUE}, permissions : {{"read"}, {"read", "write"}, Permissions}]
    /\ callCount = 0
    /\ admitted = [t \in Transports |-> [c \in Callers |-> <<>>]]

-----------------------------------------------------------------------------
(* Credentials: 200 lets the request through. *)
HasPermission(k, p) ==
    k.token = "session" /\ session.alive /\ k.vault = "own" /\ p \in session.permissions

RequireSession(k, write) ==
    CASE k.token = "none" -> 401
      [] k.token = "anonymous" /\ ~write -> 200
      [] k.token # "none" /\ (write \/ k.token # "anonymous") /\ k.vault = "missing" -> 400
      [] OTHER -> IF HasPermission(k, IF write THEN "write" ELSE "read") THEN 200 ELSE 401

LegacyCaller(k) == ~StrictAuth /\ k.token = "none"

RequireControlAuth(k) ==
    CASE k.service \/ LegacyCaller(k) -> 200
      [] ~k.service /\ ~LegacyCaller(k) /\ RequireSession(k, TRUE) # 200 -> RequireSession(k, TRUE)
      [] OTHER -> IF HasPermission(k, "admin") THEN 200 ELSE 403

RequireServiceToken(k) == IF k.service THEN 200 ELSE 401

ApprovalScope(k, write) ==
    IF k.service \/ LegacyCaller(k) THEN 200 ELSE RequireSession(k, write)

(* The first check of every HTTP handler, by group. *)
HttpOpen == {"info", "challenge", "redeem"}
HttpService == {"enroll", "issueVoucher"}
HttpOwner == {"revokeSession", "putObject", "lease", "renewLease", "listLeases", "append"}
HttpReader == {"getObject", "prove"}
HttpLog == {"readLog"}
HttpControl == {"announce", "peers", "relay"}
HttpJoin == {"join"}
HttpGraduate == {"graduate"}
HttpGuard(op, k) ==
    CASE op \in HttpOpen \cup HttpLog \cup HttpJoin -> 200
      [] op \in HttpOwner -> RequireSession(k, TRUE)
      [] op \in HttpReader -> RequireSession(k, FALSE)
      [] op \in HttpControl \cup HttpGraduate -> RequireControlAuth(k)
      [] op \in HttpService -> RequireServiceToken(k)
      [] op = "pendingApprovals" -> ApprovalScope(k, FALSE)
      [] op = "submitApproval" -> ApprovalScope(k, TRUE)

(* The first check of every arm of serve_operator_rpc; a repair push       *)
(* carries the sender's own signature instead.                             *)
P2pOpen == {"info", "challenge", "redeem"}
P2pOwner == {"revokeSession", "putObject", "lease"}
P2pLeases == {"renewLease", "listLeases", "append"}
P2pReader == {"getObject", "prove"}
P2pControl == {"announce", "peers"}
P2pSigned == {"repairPush"}
\* Mutant: objects are read without a session.
P2pGuardReadsFreely(op, k) ==
    CASE op \in P2pOpen \cup P2pSigned \cup {"readLog", "getObject"} -> 200
      [] op \in P2pOwner \cup P2pLeases -> RequireSession(k, TRUE)
      [] op = "prove" -> RequireSession(k, FALSE)
      [] op \in P2pControl -> RequireControlAuth(k)
      [] op = "pendingApprovals" -> ApprovalScope(k, FALSE)
P2pGuard(op, k) ==
    CASE op \in P2pOpen \cup P2pSigned \cup {"readLog"} -> 200
      [] op \in P2pOwner \cup P2pLeases -> RequireSession(k, TRUE)
      [] op \in P2pReader -> RequireSession(k, FALSE)
      [] op \in P2pControl -> RequireControlAuth(k)
      [] op = "pendingApprovals" -> ApprovalScope(k, FALSE)

-----------------------------------------------------------------------------
(* rpc_allowed_at and HttpRateLimiter::allowed_at: drop what left the      *)
(* window, evict callers without recent hits when the tracker is half      *)
(* full, and count the request if it fits.                                 *)
\* Mutant: a hit leaves the window one instant early.
ExpiredEarly(age) == age + 1 >= RateWindow
Expired(age) == age >= RateWindow

\* The deque from its first live entry on: entries are in order of admission.
LiveFrom(times, alive) == IF alive = {} THEN <<>> ELSE SubSeq(times, Min(alive), Len(times))
Recent(times) == LiveFrom(times, {i \in DOMAIN times : ~Expired(times[i])})
Tracked(h) == {c \in Callers : h[c] # Untracked}
Hygiene(h) ==
    IF 2 * Cardinality(Tracked(h)) > MaxTracked
    THEN [c \in Callers |-> IF h[c] = Untracked \/ Recent(h[c]) = <<>> THEN Untracked
                            ELSE Recent(h[c])]
    ELSE h
Trackable(h, c) == h[c] # Untracked \/ Cardinality(Tracked(h)) < MaxTracked
HitsBefore(h, c) == IF h[c] = Untracked THEN <<>> ELSE Recent(h[c])
Fits(h, c) == Trackable(h, c) /\ Len(HitsBefore(h, c)) < RateLimit
Counted(h, c) ==
    IF ~Trackable(h, c) THEN h
    ELSE [h EXCEPT ![c] = IF Fits(h, c) THEN Append(HitsBefore(h, c), 0) ELSE HitsBefore(h, c)]

Pooled(call) == call.via = "p2p" \/ call.op \in {"putObject", "getObject", "append", "readLog"}
CallsRunning(t) == {c \in Callers : calls[c].pc = "working" /\ calls[c].via = t /\ Pooled(calls[c])}

-----------------------------------------------------------------------------
Send(c) ==
    /\ calls[c].pc \in {"idle", "answered"} /\ callCount < MaxCalls
    /\ callCount' = callCount + 1
    /\ \E t \in Transports, op \in ApiOps, k \in Shown :
          /\ op \in SharedOps \/ op \in (IF t = "http" THEN HttpOps ELSE P2pOps)
          /\ calls' = [calls EXCEPT ![c] = [pc |-> "sent", via |-> t, op |-> op,
                                            credential |-> k, status |-> 0]]
    /\ UNCHANGED <<hits, session, admitted>>

Answered(call, code) == [call EXCEPT !.pc = "answered", !.status = code]
Answer(c, code) == calls' = [calls EXCEPT ![c] = Answered(@, code)]

(* http_rate_limit: a limit of zero turns the HTTP limiter off; the swarm's *)
(* then refuses everyone.                                                  *)
Unlimited(t) == t = "http" /\ RateLimit = 0

(* The limiter, before anything else is looked at. *)
Admit(c) ==
    /\ calls[c].pc = "sent"
    /\ LET t == calls[c].via
           h == Hygiene(hits[t]) IN
       /\ hits' = IF Unlimited(t) THEN hits ELSE [hits EXCEPT ![t] = Counted(h, c)]
       /\ IF ~Unlimited(t) /\ ~Fits(h, c)
          THEN Answer(c, 429) /\ UNCHANGED admitted
          ELSE /\ calls' = [calls EXCEPT ![c].pc = "checked"]
               /\ admitted' = [admitted EXCEPT ![t][c] = Append(@, 0)]
    /\ UNCHANGED <<session, callCount>>

(* HTTP: the guard, then a permit of bounded_io if the handler uses the    *)
(* disk; a request is turned down rather than queued.                      *)
ServeHttp(c) ==
    /\ calls[c].pc = "checked" /\ calls[c].via = "http"
    /\ LET verdict == HttpGuard(calls[c].op, calls[c].credential) IN
       CASE verdict # 200 -> Answer(c, verdict)
         [] verdict = 200 /\ Pooled(calls[c]) /\ Cardinality(CallsRunning("http")) >= PoolSize ->
               Answer(c, 503)
         [] OTHER -> calls' = [calls EXCEPT ![c].pc = "working"]
    /\ UNCHANGED <<hits, session, callCount, admitted>>

(* The swarm: a worker if there is one, which checks the credentials. *)
ServeP2p(c) ==
    /\ calls[c].pc = "checked" /\ calls[c].via = "p2p"
    /\ IF Cardinality(CallsRunning("p2p")) >= PoolSize THEN Answer(c, 503)
       ELSE calls' = [calls EXCEPT ![c].pc = "working"]
    /\ UNCHANGED <<hits, session, callCount, admitted>>

(* The work ends: over the swarm the guard is part of it.  Revoking the    *)
(* session is the one effect other requests notice here.                   *)
Finish(c) ==
    /\ calls[c].pc = "working"
    /\ LET verdict == IF calls[c].via = "p2p" THEN P2pGuard(calls[c].op, calls[c].credential)
                      ELSE 200 IN
       /\ Answer(c, verdict)
       /\ session' = [session EXCEPT !.alive =
                         @ /\ ~(verdict = 200 /\ calls[c].op = "revokeSession"
                                /\ calls[c].credential.token = "session")]
    /\ UNCHANGED <<hits, callCount, admitted>>

Older(times) == [i \in DOMAIN times |-> IF times[i] < RateWindow THEN times[i] + 1 ELSE times[i]]
InWindow(times) == LiveFrom(times, {i \in DOMAIN times : times[i] < RateWindow})
InstantPasses ==
    /\ \E t \in Transports, c \in Callers : hits[t][c] # Untracked \/ admitted[t][c] # <<>>
    /\ hits' = [t \in Transports |-> [c \in Callers |-> Older(hits[t][c])]]
    /\ admitted' = [t \in Transports |-> [c \in Callers |-> InWindow(Older(admitted[t][c]))]]
    /\ UNCHANGED <<calls, session, callCount>>

ApiNext ==
    \/ InstantPasses
    \/ \E c \in Callers : Send(c) \/ Admit(c) \/ ServeHttp(c) \/ ServeP2p(c) \/ Finish(c)

ApiSpec == ApiInit /\ [][ApiNext]_apiVars

-----------------------------------------------------------------------------
(* Both front ends give one verdict on every operation they share, whatever *)
(* the session's state: serve.rs says "error statuses match that handler    *)
(* exactly".                                                                *)
GuardsAgree ==
    \A op \in SharedOps, k \in Credentials : HttpGuard(op, k) = P2pGuard(op, k)

(* However the requests of a caller, the clock and the eviction of tracked *)
(* callers interleave, no window holds more admitted requests of one       *)
(* caller than the limit, unless the limiter is off (HTTP, limit zero).    *)
AdmittedWithinLimit ==
    \A t \in Transports, c \in Callers : Unlimited(t) \/ Len(admitted[t][c]) <= RateLimit
=============================================================================
