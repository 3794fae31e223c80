---------------------------- MODULE Replication ----------------------------
(***************************************************************************)
(* Replication of signed heads to the operators and the recovery log they  *)
(* are discovered from:                                                    *)
(*   - MultiOperatorPool of crates/storage/src/pool.rs: authenticate_all,  *)
(*     replicate_to_single_operator as one pipeline per endpoint, and the  *)
(*     quorum accounting of replicate_and_verify_inner;                    *)
(*   - the discovery repair of services/maintenance/src/scheduler.rs.      *)
(* The logs are those of RecoveryLog.                                      *)
(*                                                                         *)
(* Several endpoints may lead to one operator.  A client is a device of    *)
(* the vault; it replicates one head at a time and tries again until the   *)
(* quorum verifies it (the watcher's pending uploads).  The objects of a   *)
(* head are one closure, stored or not stored by an operator.              *)
(***************************************************************************)
EXTENDS RecoveryLog, FiniteSets

CONSTANTS
    Endpoint,       \* the configured operator endpoints
    ServerOf,       \* the operator behind each endpoint
    Root,           \* the vault's recovery authority
    Device,         \* its devices
    HeadsOf,        \* the heads of each device
    NoHead,         \* no head
    Required,       \* required_replicas
    MaxAttempts,    \* bound on the replication attempts of a device
    MaxReplicaFaults \* bound on lost answers, failures and crashes

ASSUME ReplicationAssumption ==
    /\ ServerOf \in [Endpoint -> Server]
    /\ Root \in Key /\ Device \subseteq Key \ {Root}
    /\ HeadsOf \in [Device -> SUBSET (Item \ {NoHead})]
    /\ \A d, e \in Device : d # e => HeadsOf[d] \cap HeadsOf[e] = {}
    /\ {Required, MaxAttempts, MaxReplicaFaults} \subseteq Nat /\ Required > 0
    /\ IsFiniteSet(Server)

Heads == UNION {HeadsOf[d] : d \in Device}

VARIABLES
    objects,    \* the heads whose objects each operator stores
    leases,     \* the heads each operator has committed a lease for
    job,        \* the head each device is replicating
    stage,      \* the stage of each pipeline
    verified,   \* the operator keys verified in the attempt
    acked,      \* the heads replicate_and_verify returned Ok for
    repair,     \* the records of a head the maintenance service is about to append
    attempts, replicaFaults

store == <<log, torn, objects, leases>>
client == <<job, stage, verified, acked, attempts>>
replicationVars == <<store, client, repair, replicaFaults>>

\* The records of a head in the order they are published: the bootstrap records
\* of prepare_recovery_set and the head, each appended in the stage so named.
Published(d, h) ==
    [genesis  |-> [kind |-> "genesis", by |-> Root, of |-> Root],
     cert     |-> [kind |-> "cert", by |-> Root, of |-> d],
     envelope |-> [kind |-> "item", by |-> d, of |-> d],
     head     |-> [kind |-> "item", by |-> d, of |-> h]]
AppendStage == {"genesis", "cert", "envelope", "head"}
After == [genesis |-> "cert", cert |-> "envelope", envelope |-> "head", head |-> "discover"]

Running == {"upload", "lease", "readback", "discover"} \cup AppendStage
Stages == Running \cup {"off", "ok", "none"}

NoRepair == [server |-> NoHead, by |-> NoHead, head |-> NoHead, left |-> {}]

ReplicationInit ==
    /\ LogInit
    /\ objects = [s \in Server |-> {}] /\ leases = [s \in Server |-> {}]
    /\ job = [d \in Device |-> NoHead]
    /\ stage = [d \in Device |-> [e \in Endpoint |-> "off"]]
    /\ verified = [d \in Device |-> {}]
    /\ acked = {} /\ attempts = [d \in Device |-> 0]
    /\ repair = NoRepair /\ replicaFaults = 0

At(d, e, st) == stage[d][e] = st
Enter(d, e, st) == stage' = [stage EXCEPT ![d][e] = st]
Fault == replicaFaults < MaxReplicaFaults /\ replicaFaults' = replicaFaults + 1

-----------------------------------------------------------------------------
(* replicate_and_verify_inner *)

\* authenticate_all: sessions on the endpoints of S, the others being down.
Authenticate(d, h, S) ==
    /\ job[d] = NoHead /\ h \in HeadsOf[d] \ acked
    /\ attempts[d] < MaxAttempts /\ Cardinality(S) >= Required
    /\ IF S = Endpoint THEN UNCHANGED replicaFaults ELSE Fault
    /\ attempts' = [attempts EXCEPT ![d] = @ + 1]
    /\ job' = [job EXCEPT ![d] = h]
    /\ stage' = [stage EXCEPT ![d] = [e \in Endpoint |-> IF e \in S THEN "upload" ELSE "off"]]
    /\ UNCHANGED <<store, verified, acked, repair>>

\* Mutant: every endpoint that succeeds counts.
CollectEndpoints(d, e) ==
    /\ stage[d][e] \in {"ok", "none"}
    /\ Enter(d, e, "off")
    /\ verified' = [verified EXCEPT ![d] = IF At(d, e, "ok") THEN @ \cup {e} ELSE @]
    /\ UNCHANGED <<store, job, acked, attempts, repair, replicaFaults>>

\* The loop takes the outcome of a finished pipeline; an operator counts once.
Collect(d, e) ==
    /\ stage[d][e] \in {"ok", "none"}
    /\ Enter(d, e, "off")
    /\ verified' = [verified EXCEPT ![d] = IF At(d, e, "ok") THEN @ \cup {ServerOf[e]} ELSE @]
    /\ UNCHANGED <<store, job, acked, attempts, repair, replicaFaults>>

\* Pipelines whose outcome the loop has not taken.
Pending(d) == {e \in Endpoint : stage[d][e] # "off"}

EndAttempt(d) ==
    /\ job' = [job EXCEPT ![d] = NoHead]
    /\ stage' = [stage EXCEPT ![d] = [e \in Endpoint |-> "off"]]
    /\ verified' = [verified EXCEPT ![d] = {}]

\* Every pipeline is done and enough operators are verified.
ReturnOk(d) ==
    /\ job[d] # NoHead /\ Pending(d) = {} /\ Cardinality(verified[d]) >= Required
    /\ acked' = acked \cup {job[d]}
    /\ EndAttempt(d)
    /\ UNCHANGED <<store, attempts, repair, replicaFaults>>

\* QuorumDeficit: once the pending pipelines cannot reach the quorum they are
\* dropped where they are.
ReturnDeficit(d) ==
    /\ job[d] # NoHead
    /\ Cardinality(verified[d]) + Cardinality(Pending(d)) < Required
    /\ EndAttempt(d)
    /\ UNCHANGED <<store, acked, attempts, repair, replicaFaults>>

\* The upload is cancelled, or the process is killed.
Cancel(d) ==
    /\ job[d] # NoHead /\ Fault
    /\ EndAttempt(d)
    /\ UNCHANGED <<store, acked, attempts, repair>>

-----------------------------------------------------------------------------
(* replicate_to_single_operator *)

\* Objects the operator proves to have are not sent again.
Upload(d, e) ==
    /\ At(d, e, "upload")
    /\ objects' = [objects EXCEPT ![ServerOf[e]] = @ \cup {job[d]}]
    /\ Enter(d, e, "lease")
    /\ UNCHANGED <<log, torn, leases, job, verified, acked, attempts, repair, replicaFaults>>

CommitLease(d, e) ==
    /\ At(d, e, "lease")
    /\ leases' = [leases EXCEPT ![ServerOf[e]] = @ \cup {job[d]}]
    /\ Enter(d, e, "readback")
    /\ UNCHANGED <<log, torn, objects, job, verified, acked, attempts, repair, replicaFaults>>

\* Proof of storage of every object.
Readback(d, e) ==
    /\ At(d, e, "readback")
    /\ Enter(d, e, IF job[d] \in objects[ServerOf[e]] THEN "genesis" ELSE "none")
    /\ UNCHANGED <<store, job, verified, acked, attempts, repair, replicaFaults>>

\* After a rejection: a bootstrap record is skipped, the head is not.
Rejected(st) == IF st = "head" THEN "none" ELSE After[st]

AppendNext(d, e, st) ==
    LET s == ServerOf[e] r == Published(d, job[d])[st]
    IN  /\ At(d, e, st)
        /\ IF Accepts(log[s], r, d)
           THEN WriteFrame(s, r) /\ Enter(d, e, After[st])
           ELSE UNCHANGED <<log, torn>> /\ Enter(d, e, Rejected(st))
        /\ UNCHANGED <<objects, leases, job, verified, acked, attempts, repair, replicaFaults>>

\* The write fails (the operator answers with an error) or the operator crashes
\* (there is no answer, which ends the pipeline).
AppendInterrupted(d, e, st) ==
    LET s == ServerOf[e] r == Published(d, job[d])[st]
    IN  /\ At(d, e, st) /\ Accepts(log[s], r, d) /\ Fault
        /\ WriteInterrupted(s, r)
        /\ \E next \in {"none", Rejected(st)} : Enter(d, e, next)
        /\ UNCHANGED <<objects, leases, job, verified, acked, attempts, repair>>

\* The records a client reads from an operator: none if the tail is incomplete.
Lists(s, r) == ~torn[s] /\ InLog(r, log[s])

\* Mutant: only the head is looked for.
DiscoverHeadOnly(d, e) ==
    /\ At(d, e, "discover")
    /\ Enter(d, e, IF Lists(ServerOf[e], Published(d, job[d])["head"]) THEN "ok" ELSE "none")
    /\ UNCHANGED <<store, job, verified, acked, attempts, repair, replicaFaults>>

\* Discovery readback: all records must be listed.
Discover(d, e) ==
    LET found == \A st \in AppendStage : Lists(ServerOf[e], Published(d, job[d])[st])
    IN  /\ At(d, e, "discover")
        /\ Enter(d, e, IF found THEN "ok" ELSE "none")
        /\ UNCHANGED <<store, job, verified, acked, attempts, repair, replicaFaults>>

\* A request fails, or was served and its answer is lost.
PipelineFails(d, e) ==
    LET s == ServerOf[e]
    IN  /\ stage[d][e] \in Running /\ Fault
        /\ \/ UNCHANGED <<objects, leases>>
           \/ /\ At(d, e, "upload") /\ objects' = [objects EXCEPT ![s] = @ \cup {job[d]}]
              /\ UNCHANGED leases
           \/ /\ At(d, e, "lease") /\ leases' = [leases EXCEPT ![s] = @ \cup {job[d]}]
              /\ UNCHANGED objects
        /\ Enter(d, e, "none")
        /\ UNCHANGED <<log, torn, job, verified, acked, attempts, repair>>

-----------------------------------------------------------------------------
(* The maintenance service *)

\* Mutant: what is in the log file is taken for what the operator lists.
BeginRepairTrustsFile(s, d, h) ==
    LET missing == {st \in AppendStage : ~InLog(Published(d, h)[st], log[s])}
    IN  /\ repair = NoRepair /\ h \in acked /\ missing # {}
        /\ repair' = [server |-> s, by |-> d, head |-> h, left |-> missing]
        /\ UNCHANGED <<store, client, replicaFaults>>

\* An audit finds a verified head undiscoverable on an operator; the records the
\* operator does not list are to be appended again.
BeginRepair(s, d, h) ==
    LET missing == {st \in AppendStage : ~Lists(s, Published(d, h)[st])}
    IN  /\ repair = NoRepair /\ h \in acked /\ missing # {}
        /\ repair' = [server |-> s, by |-> d, head |-> h, left |-> missing]
        /\ UNCHANGED <<store, client, replicaFaults>>

\* They are appended in the order they were published.
Position == [genesis |-> 1, cert |-> 2, envelope |-> 3, head |-> 4]
IsNext(st) == st \in repair.left /\ \A x \in repair.left : Position[st] <= Position[x]
DropNext(st) ==
    repair' = IF repair.left = {st} THEN NoRepair ELSE [repair EXCEPT !.left = @ \ {st}]

\* The error of an append is ignored.
RepairNext(st) ==
    LET s == repair.server r == Published(repair.by, repair.head)[st]
    IN  /\ IsNext(st)
        /\ IF Accepts(log[s], r, repair.by) THEN WriteFrame(s, r) ELSE UNCHANGED <<log, torn>>
        /\ DropNext(st)
        /\ UNCHANGED <<objects, leases, client, replicaFaults>>

RepairInterrupted(st) ==
    LET s == repair.server r == Published(repair.by, repair.head)[st]
    IN  /\ IsNext(st) /\ Accepts(log[s], r, repair.by) /\ Fault
        /\ WriteInterrupted(s, r)
        /\ DropNext(st)
        /\ UNCHANGED <<objects, leases, client>>

-----------------------------------------------------------------------------
Step(d) ==
    \/ \E h \in Heads : Authenticate(d, h, Endpoint)
    \/ ReturnOk(d) \/ ReturnDeficit(d)
    \/ \E e \in Endpoint :
          \/ Upload(d, e) \/ CommitLease(d, e) \/ Readback(d, e) \/ Discover(d, e) \/ Collect(d, e)
          \/ \E st \in AppendStage : AppendNext(d, e, st)

Failure(d) ==
    \/ \E h \in Heads, S \in SUBSET Endpoint : S # Endpoint /\ Authenticate(d, h, S)
    \/ Cancel(d)
    \/ \E e \in Endpoint :
          PipelineFails(d, e) \/ \E st \in AppendStage : AppendInterrupted(d, e, st)

Maintain ==
    \/ \E s \in Server, d \in Device : \E h \in HeadsOf[d] : BeginRepair(s, d, h)
    \/ \E st \in AppendStage : RepairNext(st)

ReplicationNext ==
    \/ \E d \in Device : Step(d) \/ Failure(d)
    \/ Maintain
    \/ \E st \in AppendStage : RepairInterrupted(st)

ReplicationSpec == ReplicationInit /\ [][ReplicationNext]_replicationVars

-----------------------------------------------------------------------------
(* Properties *)

ReplicationTypeOK ==
    /\ LogTypeOK
    /\ objects \in [Server -> SUBSET Heads] /\ leases \in [Server -> SUBSET Heads]
    /\ job \in [Device -> Heads \cup {NoHead}]
    /\ stage \in [Device -> [Endpoint -> Stages]]
    /\ verified \in [Device -> SUBSET Server]
    /\ acked \subseteq Heads
    /\ attempts \in [Device -> 0..MaxAttempts] /\ replicaFaults \in 0..MaxReplicaFaults
    /\ \/ repair = NoRepair
       \/ repair \in [server : Server, by : Device, head : Heads, left : SUBSET AppendStage]

\* The operator has the objects of head h, a lease on them and all the records
\* a clean machine needs to find and authenticate it.
Recoverable(s, d, h) ==
    /\ h \in objects[s] /\ h \in leases[s]
    /\ \A st \in AppendStage : InLog(Published(d, h)[st], log[s])

\* A head reported as replicated is recoverable from Required distinct operators,
\* whichever pipelines were slow, dropped or interrupted and whatever the
\* operators went through since.
QuorumHolds ==
    \A d \in Device : \A h \in HeadsOf[d] \cap acked :
        Cardinality({s \in Server : Recoverable(s, d, h)}) >= Required

\* Every head is eventually replicated, while the logs have room for the
\* records each attempt appends.
HeadsAcked == \A h \in Heads : <>(h \in acked)

\* An operator whose log ends in an incomplete frame serves no record of it; the
\* next append or the maintenance service makes it discoverable again.
DiscoveryRestored == \A s \in Server, h \in Heads : h \in acked /\ torn[s] ~> ~torn[s]

\* The operators and pipelines are of their types, and a head reported as
\* replicated has its quorum.
QuorumSound == ReplicationTypeOK /\ QuorumHolds
=============================================================================
