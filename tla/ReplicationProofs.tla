------------------------- MODULE ReplicationProofs -------------------------
(***************************************************************************)
(* The quorum behind every head that replicate_and_verify reported, for    *)
(* any number of operators, endpoints, devices, heads, attempts and        *)
(* faults.  QuorumHolds is not inductive: what the loop counts at the end  *)
(* was established endpoint by endpoint, stage by stage.  IInv says what   *)
(* each stage of a pipeline has left at its operator, and the logs, object *)
(* stores and leases only grow, so it is still there when the loop counts  *)
(* and ever after.                                                         *)
(***************************************************************************)
EXTENDS Replication, FiniteSetTheorems, SequenceTheorems, TLAPS

\* The stages a pipeline is in once its objects, and once its lease, are stored.
Leased == {"readback", "discover", "ok"} \cup AppendStage
Uploaded == {"lease"} \cup Leased

\* A device works on one of its own heads.
JobInv ==
    \A d \in Device :
        /\ job[d] # NoHead => job[d] \in HeadsOf[d]
        /\ \A e \in Endpoint : stage[d][e] # "off" => job[d] # NoHead

\* What the stages passed have left at the endpoint's operator.
PipelineInv ==
    \A d \in Device, e \in Endpoint :
        /\ stage[d][e] \in Uploaded => job[d] \in objects[ServerOf[e]]
        /\ stage[d][e] \in Leased => job[d] \in leases[ServerOf[e]]
        /\ stage[d][e] = "ok" => Recoverable(ServerOf[e], d, job[d])

\* The operators counted in an attempt can all recover its head.
VerifiedInv ==
    \A d \in Device : \A s \in verified[d] : job[d] # NoHead /\ Recoverable(s, d, job[d])

\* The maintenance service repairs a head for the device it belongs to.
RepairInv == repair.left # {} => repair.head \in HeadsOf[repair.by]

IInv == ReplicationTypeOK /\ JobInv /\ PipelineInv /\ VerifiedInv /\ RepairInv /\ QuorumHolds

-----------------------------------------------------------------------------
(* Facts about the constants *)

LEMMA ConstFacts ==
    /\ \A e \in Endpoint : ServerOf[e] \in Server
    /\ \A d \in Device : HeadsOf[d] \subseteq Heads /\ HeadsOf[d] \subseteq Item
    /\ \A d \in Device : \A h \in HeadsOf[d] : h # NoHead
    /\ \A d \in Device : d \in Key
    /\ NoHead \notin Heads
    /\ Required \in Nat /\ MaxAttempts \in Nat /\ MaxReplicaFaults \in Nat
BY ReplicationAssumption DEF Heads

\* Every published record is a record of the log.
LEMMA PublishedType ==
    ASSUME NEW d \in Device, NEW h \in HeadsOf[d], NEW st \in AppendStage
    PROVE  Published(d, h)[st] \in Record
BY ReplicationAssumption DEF Published, AppendStage, Record

\* The device of a head is the one it belongs to.
LEMMA HeadOwner ==
    ASSUME NEW d \in Device, NEW e \in Device, NEW h \in HeadsOf[d], h \in HeadsOf[e]
    PROVE  d = e
BY ReplicationAssumption

-----------------------------------------------------------------------------
(* Operators never lose what they were given *)

\* What a step may do to the operators.
Grows ==
    \A s \in Server :
        /\ objects[s] \subseteq objects'[s] /\ leases[s] \subseteq leases'[s]
        /\ \A r \in Record : InLog(r, log[s]) => InLog(r, log'[s])

\* An append, complete or interrupted, keeps the type and the records of a log.
LEMMA WriteGrows ==
    ASSUME LogTypeOK, NEW s \in Server, NEW r \in Record,
           WriteFrame(s, r) \/ WriteInterrupted(s, r)
    PROVE  LogTypeOK' /\ \A t \in Server : \A x \in Record : InLog(x, log[t]) => InLog(x, log'[t])
<1>1. torn' \in [Server -> BOOLEAN] BY DEF WriteFrame, WriteInterrupted, LogTypeOK
<1>2. CASE UNCHANGED log BY <1>1, <1>2 DEF LogTypeOK
<1>3. CASE WriteFrame(s, r)
  <2>1. log[s] \in Seq(Record) /\ Len(log[s]) \in Nat BY LenProperties DEF LogTypeOK
  <2>2. /\ Append(log[s], r) \in Seq(Record) /\ Len(Append(log[s], r)) = Len(log[s]) + 1
        /\ \A n \in 1..Len(log[s]) : Append(log[s], r)[n] = log[s][n]
    BY <2>1, AppendProperties
  <2>3. log' \in [Server -> Seq(Record)] BY <1>3, <2>2 DEF WriteFrame, LogTypeOK
  <2>4. log'[s] = Append(log[s], r) /\ \A t \in Server \ {s} : log'[t] = log[t]
    BY <1>3 DEF WriteFrame, LogTypeOK
  <2>5. \A n \in 1..Len(log[s]) : n \in 1..Len(log'[s]) /\ log'[s][n] = log[s][n]
    BY <2>1, <2>2, <2>4
  <2>. QED BY <1>1, <2>3, <2>4, <2>5 DEF LogTypeOK, InLog
<1>. QED BY <1>2, <1>3 DEF WriteInterrupted

\* A recoverable head stays recoverable.
LEMMA RecoverableStays ==
    ASSUME Grows, NEW s \in Server, NEW d \in Device, NEW h \in HeadsOf[d], Recoverable(s, d, h)
    PROVE  Recoverable(s, d, h)'
<1>1. \A st \in AppendStage : InLog(Published(d, h)[st], log'[s])
  BY PublishedType DEF Grows, Recoverable
<1>2. h \in objects'[s] /\ h \in leases'[s] BY DEF Grows, Recoverable
<1>. QED BY <1>1, <1>2 DEF Recoverable

\* A set of operators that can recover a head bounds how many can.
LEMMA CountRecoverable ==
    ASSUME NEW d \in Device, NEW h, NEW S, NEW n \in Nat,
           S \subseteq {s \in Server : Recoverable(s, d, h)'}, Cardinality(S) >= n
    PROVE  Cardinality({s \in Server : Recoverable(s, d, h)'}) >= n
<1>. DEFINE T == {s \in Server : Recoverable(s, d, h)'}
<1>1. IsFiniteSet(T)
  <2>1. IsFiniteSet(Server) BY ReplicationAssumption
  <2>2. T \subseteq Server OBVIOUS
  <2>. QED BY <2>1, <2>2, FS_Subset
<1>2. S \subseteq T OBVIOUS
<1>. HIDE DEF T
<1>3. IsFiniteSet(S) /\ Cardinality(S) <= Cardinality(T) BY <1>1, <1>2, FS_Subset
<1>4. Cardinality(S) \in Nat /\ Cardinality(T) \in Nat BY <1>1, <1>3, FS_CardinalityType
<1>5. Cardinality(T) >= n BY <1>3, <1>4
<1>. QED BY <1>5 DEF T

\* Growing operators and unchanged reports keep every quorum.
LEMMA QuorumStays ==
    ASSUME Grows, QuorumHolds, acked' = acked
    PROVE  QuorumHolds'
<1>. SUFFICES ASSUME NEW d \in Device, NEW h \in HeadsOf[d] \cap acked
              PROVE  Cardinality({s \in Server : Recoverable(s, d, h)'}) >= Required
  BY DEF QuorumHolds
<1>. DEFINE S == {s \in Server : Recoverable(s, d, h)}
<1>1. Cardinality(S) >= Required BY DEF QuorumHolds
<1>2. S \subseteq {s \in Server : Recoverable(s, d, h)'} BY RecoverableStays
<1>. HIDE DEF S
<1>. QED BY <1>1, <1>2, CountRecoverable, ConstFacts

\* What a pipeline or an attempt relies on survives a step of another one.
LEMMA OthersStay ==
    ASSUME IInv, Grows, NEW d \in Device, job'[d] = job[d]
    PROVE  /\ \A e \in Endpoint : stage'[d][e] = stage[d][e] =>
                /\ stage'[d][e] \in Uploaded => job'[d] \in objects'[ServerOf[e]]
                /\ stage'[d][e] \in Leased => job'[d] \in leases'[ServerOf[e]]
                /\ stage'[d][e] = "ok" => Recoverable(ServerOf[e], d, job[d])'
           /\ verified'[d] = verified[d] =>
                \A s \in verified'[d] : job'[d] # NoHead /\ Recoverable(s, d, job[d])'
<1>1. ASSUME NEW e \in Endpoint, stage'[d][e] = stage[d][e]
      PROVE  /\ stage'[d][e] \in Uploaded => job'[d] \in objects'[ServerOf[e]]
             /\ stage'[d][e] \in Leased => job'[d] \in leases'[ServerOf[e]]
             /\ stage'[d][e] = "ok" => Recoverable(ServerOf[e], d, job[d])'
  <2>1. ServerOf[e] \in Server BY ConstFacts
  <2>2. stage'[d][e] = "ok" => Recoverable(ServerOf[e], d, job[d])'
    <3>1. stage[d][e] = "ok" => job[d] \in HeadsOf[d] /\ Recoverable(ServerOf[e], d, job[d])
      BY DEF IInv, JobInv, PipelineInv
    <3>2. stage[d][e] = "ok" => Recoverable(ServerOf[e], d, job[d])' BY <2>1, <3>1, RecoverableStays
    <3>. QED BY <1>1, <3>2
  <2>. QED BY <1>1, <2>1, <2>2 DEF IInv, PipelineInv, Grows
<1>2. ASSUME verified'[d] = verified[d], NEW s \in verified'[d]
      PROVE  job'[d] # NoHead /\ Recoverable(s, d, job[d])'
  <2>1. s \in Server BY <1>2 DEF IInv, ReplicationTypeOK
  <2>2. job[d] \in HeadsOf[d] /\ Recoverable(s, d, job[d])
    BY <1>2 DEF IInv, VerifiedInv, JobInv
  <2>3. Recoverable(s, d, job[d])' BY <2>1, <2>2, RecoverableStays
  <2>. QED BY <1>2, <2>2, <2>3, ConstFacts
<1>. QED BY <1>1, <1>2

-----------------------------------------------------------------------------
(* The two shapes of a client's step *)

\* A pipeline enters stage st with what that stage stands for.
LEMMA PipelineStep ==
    ASSUME IInv, ReplicationTypeOK', Grows, NEW d \in Device, NEW e \in Endpoint, NEW st \in Stages,
           UNCHANGED <<job, verified, acked, repair>>, Enter(d, e, st), stage[d][e] # "off",
           st \in Uploaded => job[d] \in objects'[ServerOf[e]],
           st \in Leased => job[d] \in leases'[ServerOf[e]],
           st = "ok" => Recoverable(ServerOf[e], d, job[d])'
    PROVE  IInv'
<1>1. /\ stage'[d][e] = st
      /\ \A f \in Endpoint \ {e} : stage'[d][f] = stage[d][f]
      /\ \A g \in Device \ {d} : stage'[g] = stage[g]
  BY DEF IInv, ReplicationTypeOK, Enter
<1>2. JobInv' BY <1>1 DEF IInv, JobInv
<1>3. PipelineInv'
  <2>1. SUFFICES ASSUME NEW g \in Device, NEW f \in Endpoint
                 PROVE  /\ stage'[g][f] \in Uploaded => job'[g] \in objects'[ServerOf[f]]
                        /\ stage'[g][f] \in Leased => job'[g] \in leases'[ServerOf[f]]
                        /\ stage'[g][f] = "ok" => Recoverable(ServerOf[f], g, job[g])'
    BY DEF PipelineInv
  <2>2. CASE g = d /\ f = e BY <1>1, <2>2
  <2>3. CASE ~(g = d /\ f = e)
    <3>1. stage'[g][f] = stage[g][f] BY <1>1, <2>3
    <3>. QED BY <3>1, OthersStay
  <2>. QED BY <2>2, <2>3
<1>4. VerifiedInv' BY OthersStay DEF VerifiedInv
<1>5. QuorumHolds' BY QuorumStays DEF IInv
<1>6. RepairInv' BY DEF IInv, RepairInv
<1>. QED BY <1>2, <1>3, <1>4, <1>5, <1>6 DEF IInv

\* An attempt of d ends; the operators are as they were.
LEMMA EndAttemptStep ==
    ASSUME IInv, NEW d \in Device, EndAttempt(d), UNCHANGED <<store, attempts, repair>>,
           acked' \subseteq Heads, replicaFaults' \in 0..MaxReplicaFaults, QuorumHolds'
    PROVE  IInv'
<1>1. Grows BY DEF Grows, store
<1>2. /\ job'[d] = NoHead /\ verified'[d] = {} /\ \A e \in Endpoint : stage'[d][e] = "off"
      /\ \A g \in Device \ {d} : job'[g] = job[g] /\ verified'[g] = verified[g] /\ stage'[g] = stage[g]
  BY DEF EndAttempt, IInv, ReplicationTypeOK
<1>3. ReplicationTypeOK'
  <2>1. job' \in [Device -> Heads \cup {NoHead}] BY DEF EndAttempt, IInv, ReplicationTypeOK
  <2>2. stage' \in [Device -> [Endpoint -> Stages]]
    BY DEF EndAttempt, IInv, ReplicationTypeOK, Stages
  <2>3. verified' \in [Device -> SUBSET Server] BY DEF EndAttempt, IInv, ReplicationTypeOK
  <2>. QED BY <2>1, <2>2, <2>3 DEF IInv, ReplicationTypeOK, LogTypeOK, store
<1>4. JobInv' BY <1>2 DEF IInv, JobInv
<1>5. PipelineInv'
  <2>1. SUFFICES ASSUME NEW g \in Device, NEW f \in Endpoint
                 PROVE  /\ stage'[g][f] \in Uploaded => job'[g] \in objects'[ServerOf[f]]
                        /\ stage'[g][f] \in Leased => job'[g] \in leases'[ServerOf[f]]
                        /\ stage'[g][f] = "ok" => Recoverable(ServerOf[f], g, job[g])'
    BY DEF PipelineInv
  <2>2. CASE g = d BY <1>2, <2>2 DEF Uploaded, Leased, AppendStage
  <2>3. CASE g # d BY <1>1, <1>2, <2>3, OthersStay
  <2>. QED BY <2>2, <2>3
<1>6. VerifiedInv' BY <1>1, <1>2, OthersStay DEF VerifiedInv
<1>7. RepairInv' BY DEF IInv, RepairInv
<1>. QED BY <1>3, <1>4, <1>5, <1>6, <1>7 DEF IInv

LEMMA FaultType ==
    ASSUME replicaFaults \in 0..MaxReplicaFaults, Fault PROVE replicaFaults' \in 0..MaxReplicaFaults
BY ConstFacts DEF Fault

LEMMA EnterType ==
    ASSUME stage \in [Device -> [Endpoint -> Stages]], NEW d \in Device, NEW e \in Endpoint,
           NEW st \in Stages, Enter(d, e, st)
    PROVE  stage' \in [Device -> [Endpoint -> Stages]]
BY DEF Enter

-----------------------------------------------------------------------------
(* One lemma per action *)

LEMMA AuthenticatePreserves ==
    ASSUME IInv, NEW d \in Device, NEW h \in Heads, NEW S \in SUBSET Endpoint, Authenticate(d, h, S)
    PROVE  IInv'
<1>. USE DEF Authenticate
<1>1. Grows BY DEF Grows, store
<1>2. /\ job'[d] = h /\ h \in HeadsOf[d] /\ h # NoHead
      /\ \A e \in Endpoint : stage'[d][e] \in {"upload", "off"}
      /\ \A g \in Device \ {d} : job'[g] = job[g] /\ stage'[g] = stage[g]
  BY ConstFacts DEF IInv, ReplicationTypeOK
<1>3. ReplicationTypeOK'
  <2>1. attempts' \in [Device -> 0..MaxAttempts]
    BY ConstFacts DEF IInv, ReplicationTypeOK
  <2>2. stage' \in [Device -> [Endpoint -> Stages]]
    BY DEF IInv, ReplicationTypeOK, Stages, Running
  <2>3. replicaFaults' \in 0..MaxReplicaFaults BY FaultType DEF IInv, ReplicationTypeOK
  <2>4. job' \in [Device -> Heads \cup {NoHead}] BY DEF IInv, ReplicationTypeOK
  <2>. QED BY <2>1, <2>2, <2>3, <2>4 DEF IInv, ReplicationTypeOK, LogTypeOK, store
<1>4. JobInv' BY <1>2 DEF IInv, JobInv
<1>5. PipelineInv'
  <2>1. SUFFICES ASSUME NEW g \in Device, NEW f \in Endpoint
                 PROVE  /\ stage'[g][f] \in Uploaded => job'[g] \in objects'[ServerOf[f]]
                        /\ stage'[g][f] \in Leased => job'[g] \in leases'[ServerOf[f]]
                        /\ stage'[g][f] = "ok" => Recoverable(ServerOf[f], g, job[g])'
    BY DEF PipelineInv
  <2>2. CASE g = d BY <1>2, <2>2 DEF Uploaded, Leased, AppendStage
  <2>3. CASE g # d BY <1>1, <1>2, <2>3, OthersStay
  <2>. QED BY <2>2, <2>3
<1>6. VerifiedInv'
  <2>1. verified[d] = {} BY DEF IInv, VerifiedInv
  <2>. QED BY <1>1, <1>2, <2>1, OthersStay DEF VerifiedInv
<1>7. QuorumHolds' BY <1>1, QuorumStays DEF IInv
<1>8. RepairInv' BY DEF IInv, RepairInv
<1>. QED BY <1>3, <1>4, <1>5, <1>6, <1>7, <1>8 DEF IInv

\* The operator of a pipeline that ended well joins those counted.
LEMMA CollectPreserves ==
    ASSUME IInv, NEW d \in Device, NEW e \in Endpoint, Collect(d, e)
    PROVE  IInv'
<1>. USE DEF Collect
<1>1. Grows BY DEF Grows, store
<1>2. /\ stage'[d][e] = "off" /\ \A f \in Endpoint \ {e} : stage'[d][f] = stage[d][f]
      /\ \A g \in Device \ {d} : stage'[g] = stage[g] /\ verified'[g] = verified[g]
  BY DEF Enter, IInv, ReplicationTypeOK
<1>3. ReplicationTypeOK'
  <2>1. stage' \in [Device -> [Endpoint -> Stages]]
    BY EnterType DEF IInv, ReplicationTypeOK, Stages
  <2>2. verified' \in [Device -> SUBSET Server] BY ConstFacts DEF IInv, ReplicationTypeOK
  <2>. QED BY <2>1, <2>2 DEF IInv, ReplicationTypeOK, LogTypeOK, store
<1>4. JobInv' BY <1>2 DEF IInv, JobInv
<1>5. PipelineInv'
  <2>1. SUFFICES ASSUME NEW g \in Device, NEW f \in Endpoint
                 PROVE  /\ stage'[g][f] \in Uploaded => job'[g] \in objects'[ServerOf[f]]
                        /\ stage'[g][f] \in Leased => job'[g] \in leases'[ServerOf[f]]
                        /\ stage'[g][f] = "ok" => Recoverable(ServerOf[f], g, job[g])'
    BY DEF PipelineInv
  <2>2. CASE g = d /\ f = e BY <1>2, <2>2 DEF Uploaded, Leased, AppendStage
  <2>3. CASE ~(g = d /\ f = e)
    <3>1. stage'[g][f] = stage[g][f] BY <1>2, <2>3
    <3>. QED BY <1>1, <3>1, OthersStay
  <2>. QED BY <2>2, <2>3
<1>6. VerifiedInv'
  <2>1. SUFFICES ASSUME NEW g \in Device, NEW s \in verified'[g]
                 PROVE  job'[g] # NoHead /\ Recoverable(s, g, job[g])'
    BY DEF VerifiedInv
  <2>2. CASE s \in verified[g]
    <3>1. s \in Server /\ job[g] \in HeadsOf[g] /\ Recoverable(s, g, job[g])
      BY <2>2 DEF IInv, ReplicationTypeOK, VerifiedInv, JobInv
    <3>2. Recoverable(s, g, job[g])' BY <1>1, <3>1, RecoverableStays
    <3>. QED BY <3>1, <3>2, ConstFacts
  <2>3. CASE s \notin verified[g]
    <3>1. g = d /\ s = ServerOf[e] /\ stage[d][e] = "ok"
      BY <1>2, <2>3 DEF At, IInv, ReplicationTypeOK
    <3>2. s \in Server /\ job[d] \in HeadsOf[d] /\ Recoverable(s, d, job[d])
      BY <3>1, ConstFacts DEF IInv, JobInv, PipelineInv
    <3>3. Recoverable(s, d, job[d])' BY <1>1, <3>2, RecoverableStays
    <3>. QED BY <3>1, <3>2, <3>3, ConstFacts
  <2>. QED BY <2>2, <2>3
<1>7. QuorumHolds' BY <1>1, QuorumStays DEF IInv
<1>8. RepairInv' BY DEF IInv, RepairInv
<1>. QED BY <1>3, <1>4, <1>5, <1>6, <1>7, <1>8 DEF IInv

\* The operators counted are a quorum for the head that is reported.
LEMMA ReturnOkPreserves ==
    ASSUME IInv, NEW d \in Device, ReturnOk(d) PROVE IInv'
<1>. USE DEF ReturnOk
<1>1. Grows BY DEF Grows, store
<1>2. job[d] \in HeadsOf[d] /\ job[d] \in Heads BY ConstFacts DEF IInv, JobInv
<1>3. \A s \in verified[d] : s \in Server /\ Recoverable(s, d, job[d])
  BY DEF IInv, ReplicationTypeOK, VerifiedInv
<1>4. QuorumHolds'
  <2>1. SUFFICES ASSUME NEW g \in Device, NEW h \in HeadsOf[g] \cap acked'
                 PROVE  Cardinality({s \in Server : Recoverable(s, g, h)'}) >= Required
    BY DEF QuorumHolds
  <2>2. CASE h \in acked
    <3>. DEFINE S == {s \in Server : Recoverable(s, g, h)}
    <3>1. Cardinality(S) >= Required BY <2>2 DEF IInv, QuorumHolds
    <3>2. S \subseteq {s \in Server : Recoverable(s, g, h)'} BY <1>1, RecoverableStays
    <3>. HIDE DEF S
    <3>. QED BY <3>1, <3>2, CountRecoverable, ConstFacts
  <2>3. CASE h \notin acked
    <3>1. h = job[d] BY <2>3
    <3>2. g = d BY <1>2, <3>1, HeadOwner
    <3>3. verified[d] \subseteq {s \in Server : Recoverable(s, g, h)'}
      BY <1>1, <1>2, <1>3, <3>1, <3>2, RecoverableStays
    <3>. QED BY <3>3, CountRecoverable, ConstFacts
  <2>. QED BY <2>2, <2>3
<1>5. acked' \subseteq Heads /\ replicaFaults' \in 0..MaxReplicaFaults
  BY <1>2 DEF IInv, ReplicationTypeOK
<1>. QED BY <1>4, <1>5, EndAttemptStep

LEMMA StopPreserves ==
    ASSUME IInv, NEW d \in Device, ReturnDeficit(d) \/ Cancel(d) PROVE IInv'
<1>. USE DEF ReturnDeficit, Cancel
<1>1. Grows BY DEF Grows, store
<1>2. QuorumHolds' BY <1>1, QuorumStays DEF IInv
<1>3. acked' \subseteq Heads /\ replicaFaults' \in 0..MaxReplicaFaults
  BY FaultType DEF IInv, ReplicationTypeOK
<1>. QED BY <1>2, <1>3, EndAttemptStep

\* The objects, and then the lease, are at the operator when the next stage begins.
LEMMA UploadPreserves ==
    ASSUME IInv, NEW d \in Device, NEW e \in Endpoint, Upload(d, e) \/ CommitLease(d, e)
    PROVE  IInv'
<1>. USE DEF Upload, CommitLease
<1>0. ServerOf[e] \in Server BY ConstFacts
<1>1. stage[d][e] # "off" /\ job[d] \in HeadsOf[d] /\ job[d] \in Heads
  BY ConstFacts DEF At, IInv, JobInv
<1>2. objects' \in [Server -> SUBSET Heads] /\ leases' \in [Server -> SUBSET Heads]
  <2>1. objects \in [Server -> SUBSET Heads] /\ leases \in [Server -> SUBSET Heads]
    BY DEF IInv, ReplicationTypeOK
  <2>2. CASE Upload(d, e) BY <1>0, <1>1, <2>1, <2>2
  <2>3. CASE CommitLease(d, e) BY <1>0, <1>1, <2>1, <2>3
  <2>. QED BY <2>2, <2>3
<1>3. Grows BY <1>0 DEF Grows, IInv, ReplicationTypeOK
<1>4. CASE Upload(d, e)
  <2>1. ReplicationTypeOK'
    BY <1>2, <1>4, EnterType DEF IInv, ReplicationTypeOK, LogTypeOK, Stages, Running
  <2>2. job[d] \in objects'[ServerOf[e]] BY <1>0, <1>4 DEF IInv, ReplicationTypeOK
  <2>3. "lease" \in Stages /\ "lease" \notin Leased BY DEF Stages, Running, Leased, AppendStage
  <2>. QED BY <1>1, <1>3, <1>4, <2>1, <2>2, <2>3, PipelineStep
<1>5. CASE CommitLease(d, e)
  <2>1. ReplicationTypeOK'
    BY <1>2, <1>5, EnterType DEF IInv, ReplicationTypeOK, LogTypeOK, Stages, Running
  <2>2. job[d] \in leases'[ServerOf[e]] BY <1>0, <1>5 DEF IInv, ReplicationTypeOK
  <2>3. job[d] \in objects'[ServerOf[e]] BY <1>5 DEF IInv, PipelineInv, At, Uploaded
  <2>4. "readback" \in Stages BY DEF Stages, Running
  <2>. QED BY <1>1, <1>3, <1>5, <2>1, <2>2, <2>3, <2>4, PipelineStep
<1>. QED BY <1>4, <1>5

\* A pipeline that has its lease goes on to st; its operator may have a new frame.
LEMMA LeasedStep ==
    ASSUME IInv, LogTypeOK', NEW d \in Device, NEW e \in Endpoint,
           NEW st \in AppendStage \cup {"discover", "none"},
           stage[d][e] \in Leased, Enter(d, e, st),
           \A t \in Server : \A x \in Record : InLog(x, log[t]) => InLog(x, log'[t]),
           UNCHANGED <<objects, leases, job, verified, acked, attempts, repair>>,
           replicaFaults' \in 0..MaxReplicaFaults
    PROVE  IInv'
<1>1. Grows BY DEF Grows
<1>2. st \in Stages /\ stage[d][e] # "off" /\ stage[d][e] \in Uploaded /\ st # "ok"
  BY DEF Stages, Running, Leased, Uploaded, AppendStage
<1>3. ReplicationTypeOK'
  BY <1>2, EnterType DEF IInv, ReplicationTypeOK
<1>4. job[d] \in objects'[ServerOf[e]] /\ job[d] \in leases'[ServerOf[e]]
  BY <1>2 DEF IInv, PipelineInv
<1>. QED BY <1>1, <1>2, <1>3, <1>4, PipelineStep

\* The stage after a record is appended or skipped.
LEMMA NextStage ==
    ASSUME NEW st \in AppendStage
    PROVE  /\ After[st] \in AppendStage \cup {"discover", "none"}
           /\ Rejected(st) \in AppendStage \cup {"discover", "none"}
BY DEF AppendStage, After, Rejected

LEMMA ReadbackPreserves ==
    ASSUME IInv, NEW d \in Device, NEW e \in Endpoint, Readback(d, e) PROVE IInv'
<1>. DEFINE st == IF job[d] \in objects[ServerOf[e]] THEN "genesis" ELSE "none"
<1>1. st \in AppendStage \cup {"discover", "none"} /\ Enter(d, e, st)
  BY DEF Readback, AppendStage
<1>2. stage[d][e] \in Leased BY DEF Readback, At, Leased
<1>3. /\ LogTypeOK' /\ replicaFaults' \in 0..MaxReplicaFaults
      /\ \A t \in Server : \A x \in Record : InLog(x, log[t]) => InLog(x, log'[t])
      /\ UNCHANGED <<objects, leases, job, verified, acked, attempts, repair>>
  BY DEF Readback, store, IInv, ReplicationTypeOK, LogTypeOK
<1>. HIDE DEF st
<1>. QED BY <1>1, <1>2, <1>3, LeasedStep

LEMMA AppendNextPreserves ==
    ASSUME IInv, NEW d \in Device, NEW e \in Endpoint, NEW st \in AppendStage, AppendNext(d, e, st)
    PROVE  IInv'
<1>. DEFINE r == Published(d, job[d])[st]
<1>1. stage[d][e] \in Leased BY DEF AppendNext, At, Leased
<1>2. ServerOf[e] \in Server /\ job[d] \in HeadsOf[d] /\ r \in Record
  <2>1. stage[d][e] # "off" BY <1>1 DEF Leased, AppendStage
  <2>2. job[d] \in HeadsOf[d] BY <2>1 DEF IInv, JobInv
  <2>. QED BY <2>2, ConstFacts, PublishedType
<1>. HIDE DEF r
<1>3. LogTypeOK BY DEF IInv, ReplicationTypeOK
<1>4. /\ WriteFrame(ServerOf[e], r) \/ UNCHANGED <<log, torn>>
      /\ Enter(d, e, After[st]) \/ Enter(d, e, Rejected(st))
      /\ UNCHANGED <<objects, leases, job, verified, acked, attempts, repair, replicaFaults>>
  BY DEF AppendNext, r
<1>5. LogTypeOK' /\ \A t \in Server : \A x \in Record : InLog(x, log[t]) => InLog(x, log'[t])
  BY <1>2, <1>3, <1>4, WriteGrows DEF LogTypeOK
<1>6. replicaFaults' \in 0..MaxReplicaFaults BY <1>4 DEF IInv, ReplicationTypeOK
<1>. QED BY <1>1, <1>4, <1>5, <1>6, NextStage, LeasedStep

LEMMA AppendInterruptedPreserves ==
    ASSUME IInv, NEW d \in Device, NEW e \in Endpoint, NEW st \in AppendStage,
           AppendInterrupted(d, e, st)
    PROVE  IInv'
<1>. DEFINE r == Published(d, job[d])[st]
<1>1. stage[d][e] \in Leased BY DEF AppendInterrupted, At, Leased
<1>2. ServerOf[e] \in Server /\ job[d] \in HeadsOf[d] /\ r \in Record
  <2>1. stage[d][e] # "off" BY <1>1 DEF Leased, AppendStage
  <2>2. job[d] \in HeadsOf[d] BY <2>1 DEF IInv, JobInv
  <2>. QED BY <2>2, ConstFacts, PublishedType
<1>. HIDE DEF r
<1>3. LogTypeOK BY DEF IInv, ReplicationTypeOK
<1>4. /\ WriteInterrupted(ServerOf[e], r)
      /\ Enter(d, e, "none") \/ Enter(d, e, Rejected(st))
      /\ UNCHANGED <<objects, leases, job, verified, acked, attempts, repair>>
  BY DEF AppendInterrupted, r
<1>5. LogTypeOK' /\ \A t \in Server : \A x \in Record : InLog(x, log[t]) => InLog(x, log'[t])
  BY <1>2, <1>3, <1>4, WriteGrows
<1>6. replicaFaults' \in 0..MaxReplicaFaults
  BY FaultType DEF AppendInterrupted, IInv, ReplicationTypeOK
<1>. QED BY <1>1, <1>4, <1>5, <1>6, NextStage, LeasedStep

\* What is listed is in the log, beside the objects and the lease of the pipeline.
LEMMA DiscoverPreserves ==
    ASSUME IInv, NEW d \in Device, NEW e \in Endpoint, Discover(d, e) PROVE IInv'
<1>. DEFINE found == \A st \in AppendStage : Lists(ServerOf[e], Published(d, job[d])[st])
            st == IF found THEN "ok" ELSE "none"
<1>1. /\ stage[d][e] # "off" /\ stage[d][e] \in Leased /\ stage[d][e] \in Uploaded
      /\ st \in Stages
  BY DEF Discover, At, Leased, Uploaded, Stages
<1>2. Enter(d, e, st) BY DEF Discover
<1>3. Grows BY DEF Discover, Grows, store
<1>4. job[d] \in objects[ServerOf[e]] /\ job[d] \in leases[ServerOf[e]]
  BY <1>1 DEF IInv, PipelineInv
<1>5. st = "ok" => Recoverable(ServerOf[e], d, job[d])
  BY <1>4 DEF Recoverable, Lists
<1>6. /\ UNCHANGED <<job, verified, acked, repair>>
      /\ st = "ok" => Recoverable(ServerOf[e], d, job[d])'
      /\ job[d] \in objects'[ServerOf[e]] /\ job[d] \in leases'[ServerOf[e]]
  BY <1>4, <1>5 DEF Discover, store, Recoverable
<1>7. ReplicationTypeOK'
  <2>1. stage' \in [Device -> [Endpoint -> Stages]]
    BY <1>1, <1>2, EnterType DEF IInv, ReplicationTypeOK
  <2>. QED BY <2>1 DEF Discover, IInv, ReplicationTypeOK, LogTypeOK, store
<1>. HIDE DEF found, st
<1>. QED BY <1>1, <1>2, <1>3, <1>6, <1>7, PipelineStep

\* A failed request ends its pipeline; what it stored stays.
LEMMA PipelineFailsPreserves ==
    ASSUME IInv, NEW d \in Device, NEW e \in Endpoint, PipelineFails(d, e) PROVE IInv'
<1>. USE DEF PipelineFails
<1>0. ServerOf[e] \in Server BY ConstFacts
<1>1. stage[d][e] # "off" /\ job[d] \in Heads
  BY ConstFacts DEF IInv, JobInv, Running, AppendStage
<1>2. objects' \in [Server -> SUBSET Heads] /\ leases' \in [Server -> SUBSET Heads]
  BY <1>0, <1>1 DEF IInv, ReplicationTypeOK
<1>3. Grows BY <1>0 DEF Grows, IInv, ReplicationTypeOK
<1>4. "none" \in Stages /\ "none" \notin Uploaded /\ "none" \notin Leased
  BY DEF Stages, Uploaded, Leased, AppendStage
<1>5. ReplicationTypeOK'
  BY <1>2, <1>4, EnterType, FaultType DEF IInv, ReplicationTypeOK, LogTypeOK
<1>. QED BY <1>1, <1>3, <1>4, <1>5, PipelineStep

\* A step of the maintenance service may add a frame to a log, and nothing else.
LEMMA RepairStep ==
    ASSUME IInv, LogTypeOK', UNCHANGED <<objects, leases, client>>,
           \A t \in Server : \A x \in Record : InLog(x, log[t]) => InLog(x, log'[t]),
           replicaFaults' \in 0..MaxReplicaFaults,
           \/ repair' = NoRepair
           \/ repair' \in [server : Server, by : Device, head : Heads, left : SUBSET AppendStage],
           repair'.left # {} => repair'.head \in HeadsOf[repair'.by]
    PROVE  IInv'
<1>1. Grows BY DEF Grows
<1>2. ReplicationTypeOK' BY DEF IInv, ReplicationTypeOK, client
<1>3. JobInv' BY DEF IInv, JobInv, client
<1>4. PipelineInv' BY <1>1, OthersStay DEF PipelineInv, client
<1>5. VerifiedInv' BY <1>1, OthersStay DEF VerifiedInv, client
<1>6. QuorumHolds' BY <1>1, QuorumStays DEF IInv, client
<1>7. RepairInv' BY DEF RepairInv
<1>. QED BY <1>2, <1>3, <1>4, <1>5, <1>6, <1>7 DEF IInv

LEMMA BeginRepairPreserves ==
    ASSUME IInv, NEW s \in Server, NEW d \in Device, NEW h \in HeadsOf[d], BeginRepair(s, d, h)
    PROVE  IInv'
<1>1. /\ repair' \in [server : Server, by : Device, head : Heads, left : SUBSET AppendStage]
      /\ repair'.head \in HeadsOf[repair'.by]
  BY ConstFacts DEF BeginRepair
<1>2. /\ LogTypeOK' /\ UNCHANGED <<objects, leases, client>>
      /\ replicaFaults' \in 0..MaxReplicaFaults
      /\ \A t \in Server : \A x \in Record : InLog(x, log[t]) => InLog(x, log'[t])
  BY DEF BeginRepair, store, IInv, ReplicationTypeOK, LogTypeOK
<1>. QED BY <1>1, <1>2, RepairStep

\* The record a repair appends, and what it has left to do.
LEMMA RepairFacts ==
    ASSUME IInv, NEW st \in AppendStage, IsNext(st), DropNext(st)
    PROVE  /\ repair.server \in Server /\ Published(repair.by, repair.head)[st] \in Record
           /\ \/ repair' = NoRepair
              \/ repair' \in [server : Server, by : Device, head : Heads, left : SUBSET AppendStage]
           /\ repair'.left # {} => repair'.head \in HeadsOf[repair'.by]
<1>1. repair.left # {} BY DEF IsNext
<1>2. repair \in [server : Server, by : Device, head : Heads, left : SUBSET AppendStage]
  BY <1>1 DEF IInv, ReplicationTypeOK, NoRepair
<1>3. repair.head \in HeadsOf[repair.by] BY <1>1 DEF IInv, RepairInv
<1>4. Published(repair.by, repair.head)[st] \in Record BY <1>2, <1>3, PublishedType
<1>5. CASE repair' = NoRepair BY <1>2, <1>4, <1>5 DEF NoRepair
<1>6. CASE repair' = [repair EXCEPT !.left = @ \ {st}] BY <1>2, <1>3, <1>4, <1>6
<1>. QED BY <1>5, <1>6 DEF DropNext

LEMMA RepairPreserves ==
    ASSUME IInv, NEW st \in AppendStage, RepairNext(st) \/ RepairInterrupted(st) PROVE IInv'
<1>. DEFINE s == repair.server
            r == Published(repair.by, repair.head)[st]
<1>1. IsNext(st) /\ DropNext(st) BY DEF RepairNext, RepairInterrupted
<1>2. /\ s \in Server /\ r \in Record
      /\ \/ repair' = NoRepair
         \/ repair' \in [server : Server, by : Device, head : Heads, left : SUBSET AppendStage]
      /\ repair'.left # {} => repair'.head \in HeadsOf[repair'.by]
  BY <1>1, RepairFacts
<1>3. /\ WriteFrame(s, r) \/ WriteInterrupted(s, r) \/ UNCHANGED <<log, torn>>
      /\ UNCHANGED <<objects, leases, client>>
  BY DEF RepairNext, RepairInterrupted
<1>4. replicaFaults' \in 0..MaxReplicaFaults
  BY FaultType DEF RepairNext, RepairInterrupted, IInv, ReplicationTypeOK
<1>5. LogTypeOK BY DEF IInv, ReplicationTypeOK
<1>. HIDE DEF s, r
<1>6. LogTypeOK' /\ \A t \in Server : \A x \in Record : InLog(x, log[t]) => InLog(x, log'[t])
  BY <1>2, <1>3, <1>5, WriteGrows DEF LogTypeOK
<1>. QED BY <1>2, <1>3, <1>4, <1>6, RepairStep

-----------------------------------------------------------------------------
(* The theorem *)

LEMMA InitIInv == ASSUME ReplicationInit PROVE IInv
<1>. USE DEF ReplicationInit, LogInit
<1>1. ReplicationTypeOK
  <2>1. log \in [Server -> Seq(Record)] BY EmptySeq
  <2>2. stage \in [Device -> [Endpoint -> Stages]] BY DEF Stages
  <2>3. attempts \in [Device -> 0..MaxAttempts] /\ replicaFaults \in 0..MaxReplicaFaults
    BY ConstFacts
  <2>. QED BY <2>1, <2>2, <2>3 DEF ReplicationTypeOK, LogTypeOK
<1>2. JobInv BY DEF JobInv
<1>3. PipelineInv BY DEF PipelineInv, Uploaded, Leased, AppendStage
<1>4. VerifiedInv /\ RepairInv /\ QuorumHolds BY DEF VerifiedInv, RepairInv, NoRepair, QuorumHolds
<1>. QED BY <1>1, <1>2, <1>3, <1>4 DEF IInv

LEMMA NextPreserves == ASSUME IInv, [ReplicationNext]_replicationVars PROVE IInv'
<1>1. CASE \E d \in Device : Step(d)
  BY <1>1, AuthenticatePreserves, ReturnOkPreserves, StopPreserves, UploadPreserves,
     ReadbackPreserves, DiscoverPreserves, CollectPreserves, AppendNextPreserves DEF Step
<1>2. CASE \E d \in Device : Failure(d)
  BY <1>2, AuthenticatePreserves, StopPreserves, PipelineFailsPreserves, AppendInterruptedPreserves
     DEF Failure
<1>3. CASE Maintain BY <1>3, BeginRepairPreserves, RepairPreserves DEF Maintain
<1>4. CASE \E st \in AppendStage : RepairInterrupted(st) BY <1>4, RepairPreserves
<1>5. CASE UNCHANGED replicationVars
  <2>1. /\ UNCHANGED <<objects, leases, client>> /\ repair' = repair /\ log' = log /\ torn' = torn
        /\ replicaFaults' = replicaFaults
    BY <1>5 DEF replicationVars, store
  <2>2. /\ LogTypeOK' /\ replicaFaults' \in 0..MaxReplicaFaults
        /\ \/ repair' = NoRepair
           \/ repair' \in [server : Server, by : Device, head : Heads, left : SUBSET AppendStage]
        /\ repair'.left # {} => repair'.head \in HeadsOf[repair'.by]
    BY <2>1 DEF IInv, ReplicationTypeOK, LogTypeOK, RepairInv
  <2>. QED BY <2>1, <2>2, RepairStep
<1>. QED BY <1>1, <1>2, <1>3, <1>4, <1>5 DEF ReplicationNext

\* A head that replicate_and_verify has reported is recoverable from Required
\* distinct operators for ever after: endpoints that lead to one operator count
\* once, and no lost answer, interrupted append, dropped pipeline or repair takes
\* a counted copy away.
THEOREM ReportedHeadsHaveQuorum == ReplicationSpec => []QuorumSound
<1>1. ReplicationInit => IInv BY InitIInv
<1>2. IInv /\ [ReplicationNext]_replicationVars => IInv' BY NextPreserves
<1>3. IInv => QuorumSound BY DEF IInv, QuorumSound
<1>. QED BY <1>1, <1>2, <1>3, PTL DEF ReplicationSpec
=============================================================================
