--------------------------- MODULE CaptureProofs ---------------------------
(***************************************************************************)
(* The safety of Capture for every set of contents and commands and every  *)
(* bound.  ChunksRetained and UploadsRecoverable are not inductive: what a *)
(* prune deletes depends on the targets it selected many steps before, and *)
(* what a capture commits on the snapshot it saved before.  IInv says what *)
(* each process still relies on between two of its steps.                  *)
(***************************************************************************)
EXTENDS Capture, TLAPS

\* No table and no operator names a snapshot that was not created.
KnownInv ==
    /\ rows \cup pending \cup sets \cup heads \cup published \cup Settled \subseteq 1..created
    /\ \A s \in 1..created : record[s].content \in Content

\* A stored snapshot is pending until it is settled, and no operator lists a head
\* that is neither retained nor settled.
StoreInv == rows \subseteq pending \cup Settled /\ published \subseteq heads \cup Settled

\* Between create_snapshot and set_head only the capturing process knows the
\* snapshot; afterwards it is a retained head or settled.
Capturing == {"save", "increment", "prepare", "head"}

CaptureInv ==
    \A p \in Capturer :
        /\ pc[p] \in Capturing =>
               /\ loc[p].id \in 1..created
               /\ loc[p].id \notin heads \cup Settled
               /\ \A q \in Capturer \ {p} : pc[q] \in Capturing => loc[q].id # loc[p].id
        /\ pc[p] \in {"increment", "prepare", "head"} => loc[p].id \in rows \cap pending
        /\ pc[p] = "head" => loc[p].id \in sets
        /\ pc[p] = "replicate" => loc[p].id \in heads \cup Settled
        /\ pc[p] = "complete" => loc[p].id \in durable

\* pull restores a listed head; prune deletes settled snapshots only.
PullInv == "pull" \in Proc /\ pc["pull"] \in {"restore", "save", "head"} => loc["pull"].id \in published
PruneInv == "prune" \in Proc /\ pc["prune"] \in {"guard", "delete"} => loc["prune"].targets \subseteq Settled

IInv ==
    /\ TypeOK /\ KnownInv /\ StoreInv /\ CaptureInv /\ PullInv /\ PruneInv
    /\ ChunksRetained /\ UploadsRecoverable

-----------------------------------------------------------------------------
(* Facts about the constants and the types *)

LEMMA ProcFacts ==
    "agent" \in Capturer /\ Capturer \subseteq Proc /\ Capturer \subseteq {"agent", "push"}
BY DEF Capturer, Proc

LEMMA BoundFacts == {KeepLast, MaxSnapshots, MaxEdits, MaxPulls, MaxFaults} \subseteq Nat
BY CaptureAssumption

\* Counting a fault stays within its bound.
LEMMA CountFault ==
    ASSUME faults \in 0..MaxFaults, faults < MaxFaults, faults' = faults + 1
    PROVE faults' \in 0..MaxFaults
BY BoundFacts

LEMMA GotoType ==
    ASSUME NEW p \in Proc, NEW l \in Labels, pc \in [Proc -> Labels], Goto(p, l)
    PROVE pc' \in [Proc -> Labels]
BY DEF Goto

LEMMA DoneType ==
    ASSUME NEW p \in Proc, pc \in [Proc -> Labels], loc \in [Proc -> Locals], Done(p)
    PROVE pc' \in [Proc -> Labels] /\ loc' \in [Proc -> Locals]
BY DEF Done, Labels, Locals, NoLocals, NoId

\* Assigning a local variable of p keeps the type of the locals.
LEMMA LocalsType ==
    ASSUME NEW p \in Proc, loc \in [Proc -> Locals]
    PROVE /\ \A n \in Nat : [loc EXCEPT ![p].counter = n] \in [Proc -> Locals]
          /\ \A s \in Id \cup {NoId} : [loc EXCEPT ![p].parent = s] \in [Proc -> Locals]
          /\ \A s \in Id \cup {NoId} : [loc EXCEPT ![p].id = s] \in [Proc -> Locals]
          /\ \A T \in SUBSET Id : [loc EXCEPT ![p].targets = T] \in [Proc -> Locals]
          /\ \A T \in SUBSET Id : [loc EXCEPT ![p].pending = T] \in [Proc -> Locals]
BY DEF Locals

\* A step that touches neither the store nor the operators preserves what is
\* said of them alone.
LEMMA LocalStep ==
    ASSUME KnownInv, StoreInv, ChunksRetained, UploadsRecoverable,
           UNCHANGED <<db, snapshots, remote>>
    PROVE (KnownInv /\ StoreInv /\ ChunksRetained /\ UploadsRecoverable)'
BY DEF KnownInv, StoreInv, ChunksRetained, UploadsRecoverable, Settled, db, snapshots, remote

-----------------------------------------------------------------------------
(* One lemma per action: capture and replication *)

\* The agent starts idle; the store is not touched.
LEMMA AgentStartPreserves ==
    ASSUME IInv, AgentStart PROVE IInv'
<1>. USE ProcFacts DEF IInv, Settled, Replicating, agent, AgentStart, Goto, Done, db, snapshots, remote, budget
<1>1. TypeOK'
  <2>1. pc' \in [Proc -> Labels] BY DoneType DEF TypeOK
  <2>2. loc' \in [Proc -> Locals] BY DoneType DEF TypeOK
  <2>3. cache' \in Content \cup {Null} BY DEF TypeOK, Records, NoId
  <2>4. sync' \in BOOLEAN BY CaptureAssumption
  <2>. QED BY <2>1, <2>2, <2>3, <2>4 DEF TypeOK
<1>2. (KnownInv /\ StoreInv /\ ChunksRetained /\ UploadsRecoverable)' BY LocalStep
<1>3. CaptureInv' BY DEF TypeOK, CaptureInv, Capturing
<1>4. PullInv' BY DEF TypeOK, PullInv
<1>5. PruneInv' BY DEF TypeOK, PruneInv
<1>. QED BY <1>1, <1>2, <1>3, <1>4, <1>5

\* Only the control point and the counter read change.
LEMMA BeginCapturePreserves ==
    ASSUME IInv, NEW p \in Capturer, BeginCapture(p) PROVE IInv'
<1>. USE ProcFacts DEF IInv, Settled, Replicating, agent, BeginCapture, Goto, Done, db, snapshots, remote, budget
<1>1. TypeOK'
  <2>1. pc' \in [Proc -> Labels] BY GotoType DEF TypeOK, Labels
  <2>2. loc' \in [Proc -> Locals] BY LocalsType, counter + 1 \in Nat DEF TypeOK
  <2>. QED BY <2>1, <2>2 DEF TypeOK
<1>2. (KnownInv /\ StoreInv /\ ChunksRetained /\ UploadsRecoverable)' BY LocalStep
<1>3. CaptureInv' BY DEF TypeOK, CaptureInv, Capturing
<1>4. PullInv' BY DEF TypeOK, PullInv
<1>5. PruneInv' BY DEF TypeOK, PruneInv
<1>. QED BY <1>1, <1>2, <1>3, <1>4, <1>5

\* Only the control point and the parent change.
LEMMA ReadParentPreserves ==
    ASSUME IInv, NEW p \in Capturer, ReadParent(p) PROVE IInv'
<1>. USE ProcFacts DEF IInv, Settled, Replicating, agent, ReadParent, Goto, Done, db, snapshots, remote, budget
<1>1. TypeOK'
  <2>1. pc' \in [Proc -> Labels] BY GotoType DEF TypeOK, Labels
  <2>2. loc' \in [Proc -> Locals] BY LocalsType DEF TypeOK
  <2>. QED BY <2>1, <2>2 DEF TypeOK
<1>2. (KnownInv /\ StoreInv /\ ChunksRetained /\ UploadsRecoverable)' BY LocalStep
<1>3. CaptureInv' BY DEF TypeOK, CaptureInv, Capturing
<1>4. PullInv' BY DEF TypeOK, PullInv
<1>5. PruneInv' BY DEF TypeOK, PruneInv
<1>. QED BY <1>1, <1>2, <1>3, <1>4, <1>5

\* The new identifier is in no table and with no other process.
LEMMA CreateSnapshotPreserves ==
    ASSUME IInv, NEW p \in Capturer, CreateSnapshot(p) PROVE IInv'
<1>. USE ProcFacts DEF IInv, Settled, Replicating, agent, CreateSnapshot, Goto, Done, db, snapshots, remote, budget
<1>0. created + 1 \in Id /\ created + 1 \in 0..MaxSnapshots
  BY BoundFacts DEF TypeOK, Id
<1>1. TypeOK'
  <2>1. pc' \in [Proc -> Labels] BY GotoType DEF TypeOK, Labels
  <2>2. loc' \in [Proc -> Locals] BY <1>0, LocalsType DEF TypeOK
  <2>3. record' \in [Id -> Records]
    <3>1. [parent |-> loc[p].parent, counter |-> loc[p].counter, content |-> file] \in Records
      BY DEF TypeOK, Records, Locals
    <3>. QED BY <3>1, <1>0 DEF TypeOK
  <2>. QED BY <1>0, <2>1, <2>2, <2>3 DEF TypeOK
<1>2. KnownInv'
  <2>1. 1..created \subseteq 1..created' BY <1>0 DEF TypeOK
  <2>2. \A s \in 1..created' : record'[s].content \in Content BY <1>0 DEF KnownInv, TypeOK, Id
  <2>. QED BY <2>1, <2>2 DEF KnownInv
<1>3. StoreInv' BY DEF StoreInv
<1>4. CaptureInv' BY DEF TypeOK, Id, KnownInv, CaptureInv, Capturing, Locals
<1>5. PullInv' BY DEF TypeOK, PullInv
<1>6. PruneInv' BY DEF TypeOK, PruneInv
<1>7. ChunksRetained' BY DEF TypeOK, Id, KnownInv, ChunksRetained
<1>8. UploadsRecoverable' BY DEF TypeOK, Id, KnownInv, UploadsRecoverable
<1>. QED BY <1>1, <1>2, <1>3, <1>4, <1>5, <1>6, <1>7, <1>8

\* The snapshot is stored with its chunk and its pending upload.
LEMMA SavePreserves ==
    ASSUME IInv, NEW p \in Capturer, Save(p) PROVE IInv'
<1>. USE ProcFacts DEF IInv, Settled, Replicating, agent, Save, Goto, Done, db, snapshots, remote, budget, SaveSnapshot
<1>0. loc[p].id \in 1..created /\ loc[p].id \in Id
  BY BoundFacts DEF CaptureInv, Capturing, TypeOK, Id
<1>1. TypeOK'
  <2>1. pc' \in [Proc -> Labels] BY GotoType DEF TypeOK, Labels
  <2>2. loc' \in [Proc -> Locals] BY DEF TypeOK
  <2>. QED BY <1>0, <2>1, <2>2 DEF TypeOK, KnownInv
<1>2. KnownInv' BY <1>0 DEF KnownInv
<1>3. StoreInv' BY DEF StoreInv
<1>4. CaptureInv' BY DEF TypeOK, CaptureInv, Capturing
<1>5. PullInv' BY DEF TypeOK, PullInv
<1>6. PruneInv' BY DEF TypeOK, PruneInv
<1>7. ChunksRetained' BY <1>0 DEF ChunksRetained, TypeOK
<1>8. UploadsRecoverable' BY DEF UploadsRecoverable
<1>. QED BY <1>1, <1>2, <1>3, <1>4, <1>5, <1>6, <1>7, <1>8

\* Only the device counter and the control point change.
LEMMA IncrementPreserves ==
    ASSUME IInv, NEW p \in Capturer, Increment(p) PROVE IInv'
<1>. USE ProcFacts DEF IInv, Settled, Replicating, agent, Increment, Goto, Done, db, snapshots, remote, budget
<1>1. TypeOK'
  <2>1. pc' \in [Proc -> Labels] BY GotoType DEF TypeOK, Labels
  <2>2. loc' \in [Proc -> Locals] BY DEF TypeOK
  <2>. QED BY <2>1, <2>2 DEF TypeOK
<1>2. KnownInv' BY DEF KnownInv
<1>3. StoreInv' BY DEF StoreInv
<1>4. CaptureInv' BY DEF TypeOK, CaptureInv, Capturing
<1>5. PullInv' BY DEF TypeOK, PullInv
<1>6. PruneInv' BY DEF TypeOK, PruneInv
<1>7. ChunksRetained' BY DEF ChunksRetained
<1>8. UploadsRecoverable' BY DEF UploadsRecoverable
<1>. QED BY <1>1, <1>2, <1>3, <1>4, <1>5, <1>6, <1>7, <1>8

\* The recovery set of the stored snapshot is added.
LEMMA PrepareRecoverySetPreserves ==
    ASSUME IInv, NEW p \in Capturer, PrepareRecoverySet(p) PROVE IInv'
<1>. USE ProcFacts DEF IInv, Settled, Replicating, agent, PrepareRecoverySet, Goto, Done, db, snapshots, remote, budget
<1>0. loc[p].id \in 1..created /\ loc[p].id \in Id
  BY BoundFacts DEF CaptureInv, Capturing, TypeOK, Id
<1>1. TypeOK'
  <2>1. pc' \in [Proc -> Labels] BY GotoType DEF TypeOK, Labels
  <2>2. loc' \in [Proc -> Locals] BY DEF TypeOK
  <2>. QED BY <1>0, <2>1, <2>2 DEF TypeOK
<1>2. KnownInv' BY <1>0 DEF KnownInv
<1>3. StoreInv' BY DEF StoreInv
<1>4. CaptureInv' BY DEF TypeOK, CaptureInv, Capturing
<1>5. PullInv' BY DEF TypeOK, PullInv
<1>6. PruneInv' BY DEF TypeOK, PruneInv
<1>7. ChunksRetained' BY DEF ChunksRetained
<1>8. UploadsRecoverable' BY DEF UploadsRecoverable
<1>. QED BY <1>1, <1>2, <1>3, <1>4, <1>5, <1>6, <1>7, <1>8

\* The new head has its pending upload, record, set and chunk.
LEMMA CommitHeadPreserves ==
    ASSUME IInv, NEW p \in Capturer, CommitHead(p) PROVE IInv'
<1>. USE ProcFacts DEF IInv, Settled, Replicating, agent, CommitHead, Goto, Done, db, snapshots, remote, budget, SetHead
<1>0. loc[p].id \in 1..created /\ loc[p].id \in Id
  BY BoundFacts DEF CaptureInv, Capturing, TypeOK, Id
<1>1. TypeOK'
  <2>1. pc' \in [Proc -> Labels] BY GotoType DEF TypeOK, Labels
  <2>2. loc' \in [Proc -> Locals] BY DEF TypeOK
  <2>3. cache' \in Content \cup {Null} BY <1>0 DEF TypeOK, Records
  <2>. QED BY <1>0, <2>1, <2>2, <2>3 DEF TypeOK
<1>2. KnownInv' BY <1>0 DEF KnownInv
<1>3. StoreInv' BY DEF StoreInv
<1>4. CaptureInv' BY DEF TypeOK, CaptureInv, Capturing
<1>5. PullInv' BY DEF TypeOK, PullInv
<1>6. PruneInv' BY DEF TypeOK, PruneInv
<1>7. ChunksRetained' BY DEF ChunksRetained
<1>8. UploadsRecoverable' BY DEF UploadsRecoverable, ChunksRetained, CaptureInv
<1>. QED BY <1>1, <1>2, <1>3, <1>4, <1>5, <1>6, <1>7, <1>8

\* push --local leaves the store alone.
LEMMA StopLocalPreserves ==
    ASSUME IInv, StopLocal PROVE IInv'
<1>. USE ProcFacts DEF IInv, Settled, Replicating, agent, StopLocal, Goto, Done, db, snapshots, remote, budget
<1>1. TypeOK'
  <2>1. pc' \in [Proc -> Labels] BY DoneType DEF TypeOK
  <2>2. loc' \in [Proc -> Locals] BY DoneType DEF TypeOK
  <2>. QED BY <2>1, <2>2 DEF TypeOK
<1>2. (KnownInv /\ StoreInv /\ ChunksRetained /\ UploadsRecoverable)' BY LocalStep
<1>3. CaptureInv' BY DEF TypeOK, CaptureInv, Capturing
<1>4. PullInv' BY DEF TypeOK, PullInv
<1>5. PruneInv' BY DEF TypeOK, PruneInv
<1>. QED BY <1>1, <1>2, <1>3, <1>4, <1>5

\* A verified head needs its pending upload no more.
LEMMA ReplicatePreserves ==
    ASSUME IInv, NEW p \in Capturer, Replicate(p) PROVE IInv'
<1>. USE ProcFacts DEF IInv, Settled, Replicating, agent, Replicate, Goto, Done, db, snapshots, remote, budget
<1>0. loc[p].id \in 1..created /\ loc[p].id \in Id /\ loc[p].id \in heads \cup Settled
  BY DEF CaptureInv, KnownInv, TypeOK, Id
<1>1. TypeOK'
  <2>1. pc' \in [Proc -> Labels] BY GotoType, DoneType DEF TypeOK, Labels
  <2>2. loc' \in [Proc -> Locals] BY DoneType DEF TypeOK
  <2>. QED BY <1>0, <2>1, <2>2 DEF TypeOK
<1>2. KnownInv' BY <1>0 DEF KnownInv
<1>3. StoreInv' BY <1>0 DEF StoreInv
<1>4. CaptureInv' BY <1>0 DEF TypeOK, CaptureInv, Capturing
<1>5. PullInv' BY DEF TypeOK, PullInv
<1>6. PruneInv' BY DEF TypeOK, PruneInv
<1>7. ChunksRetained' BY DEF ChunksRetained
<1>8. UploadsRecoverable' BY DEF UploadsRecoverable
<1>. QED BY <1>1, <1>2, <1>3, <1>4, <1>5, <1>6, <1>7, <1>8

\* An operator that lists the head all the same lists a retained one.
LEMMA ReplicateFailsPreserves ==
    ASSUME IInv, NEW p \in Capturer, ReplicateFails(p) PROVE IInv'
<1>. USE ProcFacts DEF IInv, Settled, Replicating, agent, ReplicateFails, Goto, Done, db, snapshots, remote, budget
<1>0. loc[p].id \in 1..created /\ loc[p].id \in Id /\ loc[p].id \in heads \cup Settled
  BY DEF CaptureInv, KnownInv, TypeOK, Id
<1>1. TypeOK'
  <2>1. pc' \in [Proc -> Labels] BY DoneType DEF TypeOK
  <2>2. loc' \in [Proc -> Locals] BY DoneType DEF TypeOK
  <2>3. faults' \in 0..MaxFaults BY CountFault DEF TypeOK
  <2>. QED BY <1>0, <2>1, <2>2, <2>3 DEF TypeOK
<1>2. KnownInv' BY <1>0 DEF KnownInv
<1>3. StoreInv' BY <1>0 DEF StoreInv
<1>4. CaptureInv' BY DEF TypeOK, CaptureInv, Capturing
<1>5. PullInv' BY DEF TypeOK, PullInv
<1>6. PruneInv' BY DEF TypeOK, PruneInv
<1>7. ChunksRetained' BY DEF ChunksRetained
<1>8. UploadsRecoverable' BY DEF UploadsRecoverable
<1>. QED BY <1>1, <1>2, <1>3, <1>4, <1>5, <1>6, <1>7, <1>8

\* A local-only agent settles the snapshot it has captured.
LEMMA KeepLocalPreserves ==
    ASSUME IInv, KeepLocal PROVE IInv'
<1>. USE ProcFacts DEF IInv, Settled, Replicating, agent, KeepLocal, Goto, Done, db, snapshots, remote, budget, MarkUploadCompleted
<1>0. loc["agent"].id \in 1..created /\ loc["agent"].id \in Id
  BY DEF CaptureInv, KnownInv, TypeOK, Id
<1>1. TypeOK'
  <2>1. pc' \in [Proc -> Labels] BY DoneType DEF TypeOK
  <2>2. loc' \in [Proc -> Locals] BY DoneType DEF TypeOK
  <2>. QED BY <1>0, <2>1, <2>2 DEF TypeOK
<1>2. KnownInv' BY <1>0 DEF KnownInv
<1>3. StoreInv' BY DEF StoreInv, CaptureInv
<1>4. CaptureInv' BY DEF TypeOK, CaptureInv, Capturing
<1>5. PullInv' BY DEF TypeOK, PullInv
<1>6. PruneInv' BY DEF TypeOK, PruneInv
<1>7. ChunksRetained' BY DEF ChunksRetained
<1>8. UploadsRecoverable' BY DEF UploadsRecoverable, CaptureInv
<1>. QED BY <1>1, <1>2, <1>3, <1>4, <1>5, <1>6, <1>7, <1>8

\* A replicated snapshot stops being pending once a quorum has it.
LEMMA CompletePreserves ==
    ASSUME IInv, Complete PROVE IInv'
<1>. USE ProcFacts DEF IInv, Settled, Replicating, agent, Complete, Goto, Done, db, snapshots, remote, budget, MarkUploadCompleted
<1>1. TypeOK'
  <2>1. pc' \in [Proc -> Labels] BY DoneType DEF TypeOK
  <2>2. loc' \in [Proc -> Locals] BY DoneType DEF TypeOK
  <2>. QED BY <2>1, <2>2 DEF TypeOK
<1>2. KnownInv' BY DEF KnownInv
<1>3. StoreInv' BY DEF StoreInv, CaptureInv
<1>4. CaptureInv' BY DEF TypeOK, CaptureInv, Capturing
<1>5. PullInv' BY DEF TypeOK, PullInv
<1>6. PruneInv' BY DEF TypeOK, PruneInv
<1>7. ChunksRetained' BY DEF ChunksRetained
<1>8. UploadsRecoverable' BY DEF UploadsRecoverable, CaptureInv
<1>. QED BY <1>1, <1>2, <1>3, <1>4, <1>5, <1>6, <1>7, <1>8

\* A retried upload is one of a retained head.
LEMMA RetryPendingUploadPreserves ==
    ASSUME IInv, NEW s \in Id, RetryPendingUpload(s) PROVE IInv'
<1>. USE ProcFacts DEF IInv, Settled, Replicating, agent, RetryPendingUpload, Goto, Done, db, snapshots, remote, budget
<1>1. TypeOK'
  <2>1. pc' \in [Proc -> Labels] BY GotoType DEF TypeOK, Labels
  <2>2. loc' \in [Proc -> Locals] BY LocalsType DEF TypeOK
  <2>. QED BY <2>1, <2>2 DEF TypeOK
<1>2. (KnownInv /\ StoreInv /\ ChunksRetained /\ UploadsRecoverable)' BY LocalStep
<1>3. CaptureInv' BY DEF TypeOK, CaptureInv, Capturing
<1>4. PullInv' BY DEF TypeOK, PullInv
<1>5. PruneInv' BY DEF TypeOK, PruneInv
<1>. QED BY <1>1, <1>2, <1>3, <1>4, <1>5

-----------------------------------------------------------------------------
(* pull and prune *)

\* select_head returns one of the listed heads.
LEMMA BeginPullPreserves ==
    ASSUME IInv, "pull" \in Proc, BeginPull PROVE IInv'
<1>. USE ProcFacts DEF IInv, Settled, Replicating, agent, BeginPull, Goto, Done, db, snapshots, remote, budget
<1>0. SelectHead(published) \in published
  BY DEF SelectHead
<1>1. TypeOK'
  <2>1. pc' \in [Proc -> Labels] BY GotoType DEF TypeOK, Labels
  <2>2. loc' \in [Proc -> Locals] BY <1>0, LocalsType DEF TypeOK
  <2>3. pulls' \in 0..MaxPulls BY BoundFacts DEF TypeOK
  <2>. QED BY <1>0, <2>1, <2>2, <2>3 DEF TypeOK
<1>2. (KnownInv /\ StoreInv /\ ChunksRetained /\ UploadsRecoverable)' BY LocalStep
<1>3. CaptureInv' BY DEF TypeOK, CaptureInv, Capturing
<1>4. PullInv' BY <1>0 DEF TypeOK, PullInv
<1>5. PruneInv' BY DEF TypeOK, PruneInv
<1>. QED BY <1>1, <1>2, <1>3, <1>4, <1>5

\* Only the workspace and the control point change.
LEMMA PullRestorePreserves ==
    ASSUME IInv, "pull" \in Proc, PullRestore PROVE IInv'
<1>. USE ProcFacts DEF IInv, Settled, Replicating, agent, PullRestore, Goto, Done, db, snapshots, remote, budget
<1>1. TypeOK'
  <2>1. pc' \in [Proc -> Labels] BY GotoType DEF TypeOK, Labels
  <2>2. loc' \in [Proc -> Locals] BY DEF TypeOK
  <2>3. file' \in Content BY DEF PullInv, KnownInv
  <2>. QED BY <2>1, <2>2, <2>3 DEF TypeOK
<1>2. (KnownInv /\ StoreInv /\ ChunksRetained /\ UploadsRecoverable)' BY LocalStep
<1>3. CaptureInv' BY DEF TypeOK, CaptureInv, Capturing
<1>4. PullInv' BY DEF TypeOK, PullInv
<1>5. PruneInv' BY DEF TypeOK, PruneInv
<1>. QED BY <1>1, <1>2, <1>3, <1>4, <1>5

\* The pulled snapshot is stored with its chunk and a pending upload.
LEMMA PullSavePreserves ==
    ASSUME IInv, "pull" \in Proc, PullSave PROVE IInv'
<1>. USE ProcFacts DEF IInv, Settled, Replicating, agent, PullSave, Goto, Done, db, snapshots, remote, budget, SaveSnapshot
<1>0. loc["pull"].id \in 1..created /\ loc["pull"].id \in Id
  BY DEF PullInv, KnownInv, TypeOK, Id
<1>1. TypeOK'
  <2>1. pc' \in [Proc -> Labels] BY GotoType DEF TypeOK, Labels
  <2>2. loc' \in [Proc -> Locals] BY DEF TypeOK
  <2>. QED BY <1>0, <2>1, <2>2 DEF TypeOK, KnownInv
<1>2. KnownInv' BY <1>0 DEF KnownInv
<1>3. StoreInv' BY DEF StoreInv
<1>4. CaptureInv' BY DEF TypeOK, CaptureInv, Capturing
<1>5. PullInv' BY DEF TypeOK, PullInv
<1>6. PruneInv' BY DEF TypeOK, PruneInv
<1>7. ChunksRetained' BY DEF ChunksRetained
<1>8. UploadsRecoverable' BY DEF UploadsRecoverable
<1>. QED BY <1>1, <1>2, <1>3, <1>4, <1>5, <1>6, <1>7, <1>8

\* A listed head that is not settled is retained already, with all it needs.
LEMMA PullHeadPreserves ==
    ASSUME IInv, "pull" \in Proc, PullHead PROVE IInv'
<1>. USE ProcFacts DEF IInv, Settled, Replicating, agent, PullHead, Goto, Done, db, snapshots, remote, budget, SetHead
<1>0. loc["pull"].id \in Id /\ loc["pull"].id \in heads \cup Settled
  BY DEF PullInv, StoreInv, TypeOK
<1>1. TypeOK'
  <2>1. pc' \in [Proc -> Labels] BY DoneType DEF TypeOK
  <2>2. loc' \in [Proc -> Locals] BY DoneType DEF TypeOK
  <2>. QED BY <1>0, <2>1, <2>2 DEF TypeOK
<1>2. KnownInv' BY <1>0 DEF KnownInv
<1>3. StoreInv' BY DEF StoreInv
<1>4. CaptureInv' BY <1>0 DEF TypeOK, CaptureInv, Capturing
<1>5. PullInv' BY DEF TypeOK, PullInv
<1>6. PruneInv' BY DEF TypeOK, PruneInv
<1>7. ChunksRetained' BY DEF ChunksRetained
<1>8. UploadsRecoverable' BY <1>0 DEF UploadsRecoverable
<1>. QED BY <1>1, <1>2, <1>3, <1>4, <1>5, <1>6, <1>7, <1>8

\* What is stored and not pending is settled.
LEMMA BeginPrunePreserves ==
    ASSUME IInv, "prune" \in Proc, BeginPrune PROVE IInv'
<1>. USE ProcFacts DEF IInv, Settled, Replicating, agent, BeginPrune, Goto, Done, db, snapshots, remote, budget
<1>0. Targets \subseteq Id /\ Targets \subseteq Settled
  BY DEF Targets, StoreInv, TypeOK
<1>1. TypeOK'
  <2>1. pc' \in [Proc -> Labels] BY GotoType DEF TypeOK, Labels
  <2>2. loc' \in [Proc -> Locals] BY <1>0, LocalsType DEF TypeOK
  <2>. QED BY <1>0, <2>1, <2>2 DEF TypeOK
<1>2. (KnownInv /\ StoreInv /\ ChunksRetained /\ UploadsRecoverable)' BY LocalStep
<1>3. CaptureInv' BY DEF TypeOK, CaptureInv, Capturing
<1>4. PullInv' BY DEF TypeOK, PullInv
<1>5. PruneInv' BY <1>0 DEF TypeOK, PruneInv, Locals
<1>. QED BY <1>1, <1>2, <1>3, <1>4, <1>5

\* Only what prune remembers changes.
LEMMA ReadGuardsPreserves ==
    ASSUME IInv, "prune" \in Proc, ReadGuards PROVE IInv'
<1>. USE ProcFacts DEF IInv, Settled, Replicating, agent, ReadGuards, Goto, Done, db, snapshots, remote, budget
<1>1. TypeOK'
  <2>1. pc' \in [Proc -> Labels] BY GotoType DEF TypeOK, Labels
  <2>2. loc' \in [Proc -> Locals] BY LocalsType, (pending \cup {active}) \ {NoId} \in SUBSET Id DEF TypeOK
  <2>. QED BY <2>1, <2>2 DEF TypeOK
<1>2. (KnownInv /\ StoreInv /\ ChunksRetained /\ UploadsRecoverable)' BY LocalStep
<1>3. CaptureInv' BY DEF TypeOK, CaptureInv, Capturing
<1>4. PullInv' BY DEF TypeOK, PullInv
<1>5. PruneInv' BY DEF TypeOK, PruneInv, Locals
<1>. QED BY <1>1, <1>2, <1>3, <1>4, <1>5

\* Only settled snapshots go, and no chunk of a retained recovery set.
LEMMA PrunePreserves ==
    ASSUME IInv, "prune" \in Proc, Prune PROVE IInv'
<1>. USE ProcFacts DEF IInv, Settled, Replicating, agent, Prune, Goto, Done, db, snapshots, remote, budget, PruneTransaction
<1>1. TypeOK'
  <2>1. pc' \in [Proc -> Labels] BY DoneType DEF TypeOK
  <2>2. loc' \in [Proc -> Locals] BY DoneType DEF TypeOK
  <2>. QED BY <2>1, <2>2 DEF TypeOK
<1>2. KnownInv' BY DEF KnownInv
<1>3. StoreInv' BY DEF StoreInv, PruneInv
<1>4. CaptureInv' BY DEF TypeOK, CaptureInv, Capturing, PruneInv
<1>5. PullInv' BY DEF TypeOK, PullInv
<1>6. PruneInv' BY DEF TypeOK, PruneInv
<1>7. ChunksRetained' BY DEF ChunksRetained
<1>8. UploadsRecoverable' BY DEF UploadsRecoverable, PruneInv
<1>. QED BY <1>1, <1>2, <1>3, <1>4, <1>5, <1>6, <1>7, <1>8

-----------------------------------------------------------------------------
(* The environment *)

\* The store is not touched.
LEMMA EditPreserves ==
    ASSUME IInv, NEW v \in Content, Edit(v) PROVE IInv'
<1>. USE ProcFacts DEF IInv, Settled, Replicating, agent, Edit, Goto, Done, db, snapshots, remote, budget
<1>1. TypeOK'
  <2>1. pc' \in [Proc -> Labels] BY DEF TypeOK
  <2>2. loc' \in [Proc -> Locals] BY DEF TypeOK
  <2>3. edits' \in 0..MaxEdits BY BoundFacts DEF TypeOK
  <2>. QED BY <2>1, <2>2, <2>3 DEF TypeOK
<1>2. (KnownInv /\ StoreInv /\ ChunksRetained /\ UploadsRecoverable)' BY LocalStep
<1>3. CaptureInv' BY DEF TypeOK, CaptureInv, Capturing
<1>4. PullInv' BY DEF TypeOK, PullInv
<1>5. PruneInv' BY DEF TypeOK, PruneInv
<1>. QED BY <1>1, <1>2, <1>3, <1>4, <1>5

\* The process forgets what it relied on.
LEMMA CrashPreserves ==
    ASSUME IInv, NEW p \in Proc, Crash(p) PROVE IInv'
<1>. USE ProcFacts DEF IInv, Settled, Replicating, agent, Crash, Goto, Done, db, snapshots, remote, budget
<1>1. TypeOK'
  <2>1. pc' \in [Proc -> Labels] BY DEF TypeOK, Labels
  <2>2. loc' \in [Proc -> Locals] BY DEF TypeOK, Locals, NoLocals, NoId
  <2>3. faults' \in 0..MaxFaults BY CountFault DEF TypeOK
  <2>. QED BY <2>1, <2>2, <2>3 DEF TypeOK
<1>2. (KnownInv /\ StoreInv /\ ChunksRetained /\ UploadsRecoverable)' BY LocalStep
<1>3. CaptureInv' BY DEF TypeOK, CaptureInv, Capturing
<1>4. PullInv' BY DEF TypeOK, PullInv
<1>5. PruneInv' BY DEF TypeOK, PruneInv
<1>. QED BY <1>1, <1>2, <1>3, <1>4, <1>5

\* The capture forgets what it relied on.
LEMMA CaptureFailsPreserves ==
    ASSUME IInv, NEW p \in Capturer, CaptureFails(p) PROVE IInv'
<1>. USE ProcFacts DEF IInv, Settled, Replicating, agent, CaptureFails, Goto, Done, db, snapshots, remote, budget
<1>1. TypeOK'
  <2>1. pc' \in [Proc -> Labels] BY DoneType DEF TypeOK
  <2>2. loc' \in [Proc -> Locals] BY DoneType DEF TypeOK
  <2>3. faults' \in 0..MaxFaults BY CountFault DEF TypeOK
  <2>. QED BY <2>1, <2>2, <2>3 DEF TypeOK
<1>2. (KnownInv /\ StoreInv /\ ChunksRetained /\ UploadsRecoverable)' BY LocalStep
<1>3. CaptureInv' BY DEF TypeOK, CaptureInv, Capturing
<1>4. PullInv' BY DEF TypeOK, PullInv
<1>5. PruneInv' BY DEF TypeOK, PruneInv
<1>. QED BY <1>1, <1>2, <1>3, <1>4, <1>5

-----------------------------------------------------------------------------
(* The theorem *)

LEMMA InitIInv == ASSUME Init PROVE IInv
<1>. USE DEF Init, NoId, Settled
<1>1. TypeOK
  <2>1. record \in [Id -> Records] BY DEF Records
  <2>2. pc \in [Proc -> Labels] BY DEF Labels
  <2>3. loc \in [Proc -> Locals] BY DEF Locals, NoLocals
  <2>4. created \in 0..MaxSnapshots /\ edits \in 0..MaxEdits /\ pulls \in 0..MaxPulls
            /\ faults \in 0..MaxFaults
    BY BoundFacts
  <2>. QED BY <2>1, <2>2, <2>3, <2>4 DEF TypeOK
<1>2. KnownInv /\ StoreInv BY DEF KnownInv, StoreInv
<1>3. CaptureInv BY ProcFacts DEF CaptureInv, Capturing
<1>4. PullInv /\ PruneInv BY DEF PullInv, PruneInv
<1>5. ChunksRetained /\ UploadsRecoverable BY DEF ChunksRetained, UploadsRecoverable
<1>. QED BY <1>1, <1>2, <1>3, <1>4, <1>5 DEF IInv

LEMMA CaptureStepPreserves ==
    ASSUME IInv, NEW p \in Capturer, CaptureStep(p) PROVE IInv'
BY BeginCapturePreserves, ReadParentPreserves, CreateSnapshotPreserves, SavePreserves,
   IncrementPreserves, PrepareRecoverySetPreserves, CommitHeadPreserves, ReplicatePreserves
   DEF CaptureStep

LEMMA StutterPreserves == ASSUME IInv, UNCHANGED vars PROVE IInv'
BY DEF IInv, vars, db, snapshots, remote, agent, budget, Settled, TypeOK, KnownInv, StoreInv, CaptureInv, PullInv,
       PruneInv, ChunksRetained, UploadsRecoverable

LEMMA NextPreserves == ASSUME IInv, [Next]_vars PROVE IInv'
<1>1. CASE AgentStep
  BY <1>1, AgentStartPreserves, CaptureStepPreserves, KeepLocalPreserves, CompletePreserves,
     ProcFacts DEF AgentStep
<1>2. CASE "push" \in Proc /\ CaptureStep("push")
  <2>1. "push" \in Capturer BY <1>2 DEF Capturer
  <2>. QED BY <1>2, <2>1, CaptureStepPreserves
<1>3. CASE StopLocal BY <1>3, StopLocalPreserves
<1>4. CASE \E s \in Id : RetryPendingUpload(s) BY <1>4, RetryPendingUploadPreserves
<1>5. CASE PullStep
  BY <1>5, BeginPullPreserves, PullRestorePreserves, PullSavePreserves, PullHeadPreserves
     DEF PullStep
<1>6. CASE PruneStep
  BY <1>6, BeginPrunePreserves, ReadGuardsPreserves, PrunePreserves DEF PruneStep
<1>7. CASE \E p \in Capturer : ReplicateFails(p) \/ CaptureFails(p)
  BY <1>7, ReplicateFailsPreserves, CaptureFailsPreserves
<1>8. CASE \E p \in Proc : Crash(p) BY <1>8, CrashPreserves
<1>9. CASE \E v \in Content : Edit(v) BY <1>9, EditPreserves
<1>10. CASE UNCHANGED vars BY <1>10, StutterPreserves
<1>. QED BY <1>1, <1>2, <1>3, <1>4, <1>5, <1>6, <1>7, <1>8, <1>9, <1>10 DEF Next

\* Whatever the watcher, push, pull and prune do in their own processes, crash or
\* fail at (watcher.rs, push.rs, restore.rs, db.rs prune_snapshots): no prune
\* collects a chunk a stored snapshot needs.
THEOREM CaptureSafety == Spec => []CaptureKept
<1>1. IInv => CaptureKept BY DEF IInv, CaptureKept
<1>. QED BY <1>1, InitIInv, NextPreserves, PTL DEF Spec

\* Under the same interleavings and failures (save_head, retry_pending_uploads,
\* prune_snapshots): every saved head can be replicated until a quorum has it.
THEOREM UploadsStayRecoverable == Spec => []UploadsRecoverable
<1>1. IInv => UploadsRecoverable BY DEF IInv
<1>. QED BY <1>1, InitIInv, NextPreserves, PTL DEF Spec

-----------------------------------------------------------------------------
(* The order of the heads *)

\* What the agent relies on while it is the only capturer: the counter it read
\* is still the next one, and the heads have used only earlier ones.
Used == heads \cup published \cup local

CounterInv ==
    /\ durable \subseteq published
    /\ \A s \in Used : record[s].counter <= counter
    /\ pc["agent"] \in {"parent", "create", "save", "increment"} =>
           loc["agent"].counter = counter + 1
    /\ pc["agent"] \in Capturing => record[loc["agent"].id].counter = loc["agent"].counter
    /\ pc["agent"] \in {"prepare", "head"} =>
           /\ loc["agent"].counter = counter
           /\ \A s \in Used : record[s].counter < counter
    /\ \A s, t \in Used : record[s].counter = record[t].counter => s = t

\* Without push, a capture's counter is not taken by another one.
LEMMA CounterStep ==
    ASSUME "push" \notin Commands, IInv, CounterInv, [Next]_vars
    PROVE  CounterInv'
<1>. USE DEF CounterInv, Used, Capturing
<1>0. /\ Capturer = {"agent"} /\ "agent" \in Proc /\ "push" \notin Proc
      /\ "prune" # "agent" /\ "pull" # "agent"
  BY CaptureAssumption DEF Capturer, Proc
<1>1. /\ counter \in Nat /\ created \in Nat /\ Used \subseteq 1..created /\ Used \subseteq Id
      /\ record \in [Id -> Records] /\ \A s \in Id : record[s].counter \in Nat
      /\ pc \in [Proc -> Labels] /\ loc \in [Proc -> Locals]
  BY DEF IInv, TypeOK, KnownInv, Settled, Records
<1>2. pc["agent"] \in Capturing =>
          loc["agent"].id \in 1..created /\ loc["agent"].id \notin Used
  <2>1. published \subseteq heads \cup Settled BY DEF IInv, StoreInv
  <2>. QED BY <1>0, <2>1 DEF IInv, CaptureInv, Settled
<1>3. CASE AgentStart BY <1>0, <1>1, <1>3 DEF AgentStart, Done, db, snapshots, remote
<1>4. CASE BeginCapture("agent")
  BY <1>0, <1>1, <1>4 DEF BeginCapture, Goto, db, snapshots, remote
<1>5. CASE ReadParent("agent")
  BY <1>0, <1>1, <1>5 DEF ReadParent, Goto, db, snapshots, remote
<1>6. CASE CreateSnapshot("agent")
  <2>1. created + 1 \in Id /\ created + 1 \notin Used
    BY <1>1, <1>6, BoundFacts DEF CreateSnapshot, Id, IInv, TypeOK
  <2>2. \A s \in Used : record'[s] = record[s] BY <1>1, <1>6, <2>1 DEF CreateSnapshot
  <2>3. /\ pc'["agent"] = "save" /\ loc'["agent"].id = created + 1
        /\ loc'["agent"].counter = loc["agent"].counter
        /\ record'[created + 1].counter = loc["agent"].counter
    BY <1>0, <1>1, <1>6, <2>1 DEF CreateSnapshot, Goto, Locals
  <2>. QED BY <1>6, <2>1, <2>2, <2>3 DEF CreateSnapshot, db, remote
<1>7. CASE Save("agent")
  BY <1>0, <1>1, <1>7 DEF Save, Goto, snapshots, remote
<1>8. CASE Increment("agent")
  BY <1>0, <1>1, <1>8 DEF Increment, Goto, snapshots, remote
<1>9. CASE PrepareRecoverySet("agent")
  BY <1>0, <1>1, <1>9 DEF PrepareRecoverySet, Goto, snapshots, remote
<1>10. CASE CommitHead("agent")
  <2>1. record[loc["agent"].id].counter = counter BY <1>10 DEF CommitHead
  <2>2. /\ heads' = heads \cup {loc["agent"].id} /\ counter' = counter
        /\ UNCHANGED <<record, published, durable, local>> /\ pc'["agent"] = "replicate"
    BY <1>0, <1>1, <1>10 DEF CommitHead, SetHead, Goto, snapshots, remote
  <2>. QED BY <1>1, <1>10, <2>1, <2>2 DEF CommitHead
<1>11. CASE Replicate("agent")
  <2>1. loc["agent"].id \in Used BY <1>0, <1>11 DEF Replicate, Replicating, IInv, CaptureInv, Settled
  <2>2. Used' = Used /\ durable' \subseteq published' BY <1>11, <2>1 DEF Replicate, db
  <2>. QED BY <1>0, <1>1, <1>11, <2>2 DEF Replicate, Goto, db, snapshots
<1>12. CASE Complete BY <1>0, <1>1, <1>12 DEF Complete, Done, snapshots, remote
<1>21. CASE KeepLocal
  <2>1. loc["agent"].id \in Used BY <1>0, <1>21 DEF KeepLocal, IInv, CaptureInv, Settled
  <2>2. Used' = Used BY <1>21, <2>1 DEF KeepLocal
  <2>. QED BY <1>0, <1>1, <1>21, <2>2 DEF KeepLocal, Done, snapshots
<1>13. CASE \E s \in Id : RetryPendingUpload(s)
  BY <1>0, <1>1, <1>13 DEF RetryPendingUpload, Goto, db, snapshots, remote
<1>14. CASE PullStep
  <2>1. CASE PullHead
    <3>1. loc["pull"].id \in published BY <1>14, <2>1 DEF PullStep, PullHead, IInv, PullInv
    <3>2. Used' = Used BY <2>1, <3>1 DEF PullHead, SetHead, remote
    <3>3. pc'["agent"] = pc["agent"] /\ loc'["agent"] = loc["agent"]
      BY <1>0, <1>1, <2>1 DEF PullHead, Done
    <3>. QED BY <2>1, <3>2, <3>3 DEF PullHead, snapshots, remote
  <2>2. CASE ~PullHead
    BY <1>0, <1>1, <1>14, <2>2
       DEF PullStep, BeginPull, PullRestore, PullSave, Goto, db, snapshots, remote
  <2>. QED BY <2>1, <2>2
<1>15. CASE PruneStep
  BY <1>0, <1>1, <1>15
     DEF PruneStep, BeginPrune, ReadGuards, Prune, PruneTransaction, Goto, Done, db, snapshots, remote
<1>16. CASE ReplicateFails("agent")
  <2>1. loc["agent"].id \in Used BY <1>0, <1>16 DEF ReplicateFails, Replicating, IInv, CaptureInv, Settled
  <2>2. Used' = Used /\ durable' \subseteq published' BY <1>16, <2>1 DEF ReplicateFails, db
  <2>. QED BY <1>0, <1>1, <1>16, <2>2 DEF ReplicateFails, Done, db, snapshots
<1>17. CASE CaptureFails("agent")
  BY <1>0, <1>1, <1>17 DEF CaptureFails, Done, db, snapshots, remote
<1>18. CASE \E p \in Proc : Crash(p)
  BY <1>0, <1>1, <1>18 DEF Crash, db, snapshots, remote
<1>19. CASE \E v \in Content : Edit(v) BY <1>19 DEF Edit, db, snapshots, remote
<1>20. CASE UNCHANGED vars BY <1>20 DEF vars, db, snapshots, remote
<1>. QED
  BY <1>0, <1>3, <1>4, <1>5, <1>6, <1>7, <1>8, <1>9, <1>10, <1>11, <1>12, <1>13, <1>14, <1>15,
     <1>16, <1>17, <1>18, <1>19, <1>20, <1>21
     DEF Next, AgentStep, CaptureStep, StopLocal

\* The agent's counters order its heads: as long as no push runs beside it,
\* no two retained or published heads carry one counter, whatever pull and prune
\* do and wherever a capture stops.
THEOREM CountersOrderHeads ==
    ASSUME "push" \notin Commands
    PROVE  Spec => []CountersUnique
<1>1. Init => CounterInv
  <2>1. "agent" \in Proc BY DEF Proc
  <2>. QED BY <2>1 DEF Init, CounterInv, Used, Capturing
<1>2. IInv /\ CounterInv /\ [Next]_vars => CounterInv' BY CounterStep
<1>3. CounterInv => CountersUnique BY DEF CounterInv, CountersUnique, Used
<1>. QED BY <1>1, <1>2, <1>3, InitIInv, NextPreserves, PTL DEF Spec

\* A prune in progress has not selected the active head: it skips the active
\* head when it selects, and later heads are not settled yet.
ActiveInv ==
    /\ ActiveHeadStored
    /\ "prune" \in Proc /\ pc["prune"] \in {"guard", "delete"} =>
           active \notin loc["prune"].targets

\* Without pull, the active head only moves to snapshots just saved.
LEMMA ActiveStep ==
    ASSUME "pull" \notin Commands, IInv, ActiveInv, [Next]_vars
    PROVE  ActiveInv'
<1>. USE DEF ActiveInv, ActiveHeadStored
<1>0. "pull" \notin Proc /\ Capturer \subseteq Proc /\ "prune" \notin Capturer /\ "agent" \in Capturer
  BY DEF Capturer, Proc
<1>1. pc \in [Proc -> Labels] /\ loc \in [Proc -> Locals] /\ rows \subseteq Id
  BY DEF IInv, TypeOK
<1>2. CASE \E p \in Capturer : CommitHead(p)
  <2>1. PICK p \in Capturer : CommitHead(p) BY <1>2
  <2>2. loc[p].id \in rows /\ loc[p].id \notin Settled
    BY <2>1 DEF CommitHead, IInv, CaptureInv, Capturing
  <2>3. "prune" \in Proc => pc'["prune"] = pc["prune"] /\ loc'["prune"] = loc["prune"]
    BY <1>0, <1>1, <2>1 DEF CommitHead, Goto
  <2>4. "prune" \in Proc /\ pc["prune"] \in {"guard", "delete"} => loc["prune"].targets \subseteq Settled
    BY DEF IInv, PruneInv
  <2>. QED BY <2>1, <2>2, <2>3, <2>4 DEF CommitHead, SetHead
<1>3. CASE PruneStep
  <2>1. CASE BeginPrune
    BY <1>1, <1>3, <2>1 DEF PruneStep, BeginPrune, Targets, Goto, db, Locals
  <2>2. CASE ReadGuards
    BY <1>1, <1>3, <2>2 DEF PruneStep, ReadGuards, Goto, db, Locals
  <2>3. CASE Prune
    BY <1>1, <1>3, <2>3 DEF PruneStep, Prune, PruneTransaction, Done
  <2>. QED BY <1>3, <2>1, <2>2, <2>3 DEF PruneStep
<1>4. CASE AgentStart \/ KeepLocal \/ Complete
  BY <1>0, <1>1, <1>4 DEF AgentStart, KeepLocal, Complete, Done, db
<1>5. CASE \E p \in Capturer : \/ BeginCapture(p) \/ ReadParent(p) \/ CreateSnapshot(p) \/ Save(p)
                               \/ Increment(p) \/ PrepareRecoverySet(p)
  <2>1. UNCHANGED <<active, heads>> /\ rows \subseteq rows'
    BY <1>5 DEF BeginCapture, ReadParent, CreateSnapshot, Save, SaveSnapshot, Increment,
                PrepareRecoverySet, db
  <2>2. "prune" \in Proc => pc'["prune"] = pc["prune"] /\ loc'["prune"] = loc["prune"]
    BY <1>0, <1>1, <1>5 DEF BeginCapture, ReadParent, CreateSnapshot, Save, Increment,
                            PrepareRecoverySet, Goto
  <2>. QED BY <2>1, <2>2
<1>6. CASE \E p \in Capturer : Replicate(p) \/ ReplicateFails(p) \/ CaptureFails(p)
  BY <1>0, <1>1, <1>6 DEF Replicate, ReplicateFails, CaptureFails, Goto, Done, db
<1>7. CASE StopLocal BY <1>1, <1>7 DEF StopLocal, Done, db
<1>8. CASE \E s \in Id : RetryPendingUpload(s)
  BY <1>0, <1>1, <1>8 DEF RetryPendingUpload, Goto, db
<1>9. CASE \E p \in Proc : Crash(p) BY <1>1, <1>9 DEF Crash, db
<1>10. CASE \E v \in Content : Edit(v) BY <1>10 DEF Edit, db
<1>11. CASE UNCHANGED vars BY <1>11 DEF vars, db
<1>12. "push" \in Proc => "push" \in Capturer BY DEF Capturer
<1>. QED
  BY <1>0, <1>2, <1>3, <1>4, <1>5, <1>6, <1>7, <1>8, <1>9, <1>10, <1>11, <1>12
     DEF Next, AgentStep, CaptureStep, PullStep

\* The active head can be opened: as long as no pull moves it, the row of the
\* active head is stored, although prune selects its targets long before it
\* deletes them and captures go on meanwhile.
THEOREM ActiveHeadOpens ==
    ASSUME "pull" \notin Commands
    PROVE  Spec => []ActiveHeadStored
<1>1. Init => ActiveInv
  BY DEF Init, ActiveInv, ActiveHeadStored
<1>2. IInv /\ ActiveInv /\ [Next]_vars => ActiveInv' BY ActiveStep
<1>3. ActiveInv => ActiveHeadStored BY DEF ActiveInv
<1>. QED BY <1>1, <1>2, <1>3, InitIInv, NextPreserves, PTL DEF Spec

\* What the watcher promises as the only capturer, beside prune: its counters
\* order the heads and the active one can be opened.
THEOREM HeadsStayOrdered ==
    ASSUME Commands \subseteq {"prune"}
    PROVE  Spec => []HeadsOrdered
<1>1. "push" \notin Commands /\ "pull" \notin Commands OBVIOUS
<1>2. HeadsOrdered <=> CountersUnique /\ ActiveHeadStored BY DEF HeadsOrdered
<1>. QED BY <1>1, <1>2, CountersOrderHeads, ActiveHeadOpens, PTL
=============================================================================
