------------------------------ MODULE Capture ------------------------------
(***************************************************************************)
(* Capture of snapshots into the local vault and their replication:        *)
(*   - the SQLite store of crates/local-store/src/db.rs, whose statements  *)
(*     and transactions are atomic but whose callers take no lock across   *)
(*     them;                                                               *)
(*   - the watcher of apps/agent/src/watcher.rs (process "agent");         *)
(*   - the commands push, pull and prune of apps/cli/src/commands, which   *)
(*     run in processes of their own beside the agent.                     *)
(*                                                                         *)
(* The tracked files are one file with a content; a content is stored as   *)
(* one chunk, addressed by the content.  A snapshot is an identifier whose *)
(* record (parent, device counter, content) never changes.  Of the         *)
(* operators only the outcome of replicate_and_verify is kept: which heads *)
(* some operator lists and which ones a quorum has verified.               *)
(***************************************************************************)
EXTENDS Naturals, FiniteSets

CONSTANTS
    Content,        \* contents of the tracked files
    Null,           \* no content
    Commands,       \* the commands in use: a subset of {"push", "pull", "prune"}
    SyncModes,      \* what agents may be started as: TRUE replicates, FALSE is local-only
    KeepLast,       \* prune --keep-last
    MaxSnapshots,   \* bound on the snapshots created
    MaxEdits,       \* bound on the edits of the tracked files
    MaxPulls,       \* bound on the pulls that find another head
    MaxFaults       \* bound on crashes, errors and failed replications

ASSUME CaptureAssumption ==
    /\ Null \notin Content
    /\ Commands \subseteq {"push", "pull", "prune"}
    /\ SyncModes \subseteq BOOLEAN /\ SyncModes # {}
    /\ {KeepLast, MaxSnapshots, MaxEdits, MaxPulls, MaxFaults} \subseteq Nat

Id == 1..MaxSnapshots
NoId == 0                       \* no snapshot: the parent of a first snapshot
Proc == {"agent"} \cup Commands
Capturer == Proc \cap {"agent", "push"}

VARIABLES
    \* vault.db
    counter,    \* vault_metadata.device_counter
    rows,       \* snapshots
    chunks,     \* local_chunks
    pending,    \* pending_uploads
    sets,       \* recovery_sets
    heads,      \* heads
    active,     \* the row of heads with is_active = 1
    \* The snapshot records, by identifier, and how many exist.
    record, created,
    \* The operators.
    published,  \* heads that some operator lists
    durable,    \* snapshots a quorum of operators has verified
    local,      \* snapshots a local-only agent has marked completed itself
    \* The workspace and the processes.
    file,       \* content of the tracked files
    cache,      \* the watcher's hash baseline
    sync,       \* the running agent replicates: --sync, with operators configured
    pc, loc,    \* control point and local variables of each process
    edits, pulls, faults

db == <<counter, rows, chunks, pending, sets, heads, active>>
snapshots == <<record, created>>
remote == <<published, durable, local>>
agent == <<cache, sync>>
budget == <<edits, pulls, faults>>
vars == <<db, snapshots, remote, file, agent, pc, loc, budget>>

Records == [parent : Id \cup {NoId}, counter : Nat, content : Content \cup {Null}]
Locals == [counter : Nat, parent : Id \cup {NoId}, id : Id \cup {NoId},
           targets : SUBSET Id, pending : SUBSET Id]
Labels == {"down", "idle", "parent", "create", "save", "increment", "prepare", "head", "replicate",
           "complete", "restore", "guard", "delete"}
NoLocals == [counter |-> 0, parent |-> NoId, id |-> NoId, targets |-> {}, pending |-> {}]

Init ==
    /\ counter = 0 /\ rows = {} /\ chunks = {} /\ pending = {} /\ sets = {}
    /\ heads = {} /\ active = NoId
    /\ record = [s \in Id |-> [parent |-> NoId, counter |-> 0, content |-> Null]]
    /\ created = 0
    /\ published = {} /\ durable = {} /\ local = {}
    /\ file \in Content /\ cache = Null /\ sync = FALSE
    /\ pc = [p \in Proc |-> IF p = "agent" THEN "down" ELSE "idle"]
    /\ loc = [p \in Proc |-> NoLocals]
    /\ edits = 0 /\ pulls = 0 /\ faults = 0

Goto(p, l) == pc' = [pc EXCEPT ![p] = l]
Done(p) == pc' = [pc EXCEPT ![p] = "idle"] /\ loc' = [loc EXCEPT ![p] = NoLocals]

-----------------------------------------------------------------------------
(* The store's transactions *)

\* save_snapshot: the rows of the snapshot, its chunks and its pending upload.
SaveSnapshot(s) ==
    /\ rows' = rows \cup {s}
    /\ chunks' = chunks \cup {record[s].content}
    /\ pending' = pending \cup {s}

\* set_head: s becomes the only active head; other heads are retained.
SetHead(s) == heads' = heads \cup {s} /\ active' = s

\* mark_upload_completed
MarkUploadCompleted(s) == pending' = pending \ {s}

\* Mutant: chunks are collected although a retained snapshot has no recovery set.
PruneTransactionAlwaysCollects(doomed) ==
    /\ rows' = rows \ doomed
    /\ sets' = sets \ doomed
    /\ heads' = heads \ (doomed \ {active})
    /\ chunks' = chunks \cap {record[s].content : s \in (rows \ doomed) \cap sets}

\* prune_snapshots after its guards: rows, recovery sets and inactive heads of
\* the doomed snapshots, then the chunks no retained recovery set refers to.
PruneTransaction(doomed) ==
    LET retained == rows \ doomed
        complete == retained \subseteq sets
        referenced == {record[s].content : s \in retained \cap sets}
    IN  /\ rows' = retained
        /\ sets' = sets \ doomed
        /\ heads' = heads \ (doomed \ {active})
        /\ chunks' = IF complete THEN chunks \cap referenced ELSE chunks

-----------------------------------------------------------------------------
(* Capture: capture_and_sync and cmd_push *)

\* VaultWatcher::new: the baseline is the manifest of the active head.  Whether it
\* replicates is read again from the options and the configuration.
AgentStart ==
    /\ pc["agent"] = "down"
    /\ active # NoId => active \in rows
    /\ cache' = IF active = NoId THEN Null ELSE record[active].content
    /\ sync' \in SyncModes
    /\ Done("agent")
    /\ UNCHANGED <<db, snapshots, remote, file, budget>>

\* A worker job finds a change (check_for_changes), or the user runs push.
BeginCapture(p) ==
    /\ pc[p] = "idle"
    /\ p = "agent" => file # cache
    /\ Goto(p, "parent") /\ loc' = [loc EXCEPT ![p].counter = counter + 1]
    /\ UNCHANGED <<db, snapshots, remote, file, agent, budget>>

\* The active head becomes the parent.
ReadParent(p) ==
    /\ pc[p] = "parent"
    /\ Goto(p, "create") /\ loc' = [loc EXCEPT ![p].parent = active]
    /\ UNCHANGED <<db, snapshots, remote, file, agent, budget>>

\* Mutant: the snapshot is built from the watcher's baseline.
CreateSnapshotFromCache(p) ==
    /\ pc[p] = "create" /\ created < MaxSnapshots
    /\ created' = created + 1
    /\ record' = [record EXCEPT ![created + 1] =
                    [parent |-> loc[p].parent, counter |-> loc[p].counter, content |-> cache]]
    /\ Goto(p, "save") /\ loc' = [loc EXCEPT ![p].id = created + 1]
    /\ UNCHANGED <<db, remote, file, agent, budget>>

\* Mutant: the head is saved before the snapshot it points to.
CreateSnapshotHeadFirst(p) ==
    /\ pc[p] = "create" /\ created < MaxSnapshots
    /\ created' = created + 1
    /\ record' = [record EXCEPT ![created + 1] =
                    [parent |-> loc[p].parent, counter |-> loc[p].counter, content |-> file]]
    /\ Goto(p, "head") /\ loc' = [loc EXCEPT ![p].id = created + 1]
    /\ UNCHANGED <<db, remote, file, agent, budget>>

\* create_snapshot reads the tracked files and signs the record.
CreateSnapshot(p) ==
    /\ pc[p] = "create" /\ created < MaxSnapshots
    /\ created' = created + 1
    /\ record' = [record EXCEPT ![created + 1] =
                    [parent |-> loc[p].parent, counter |-> loc[p].counter, content |-> file]]
    /\ Goto(p, "save") /\ loc' = [loc EXCEPT ![p].id = created + 1]
    /\ UNCHANGED <<db, remote, file, agent, budget>>

Save(p) ==
    /\ pc[p] = "save"
    /\ SaveSnapshot(loc[p].id)
    /\ Goto(p, "increment")
    /\ UNCHANGED <<counter, sets, heads, active, snapshots, remote, file, agent, loc, budget>>

\* Mutant: the counter of the new snapshot is not stored.
IncrementNotStored(p) ==
    /\ pc[p] = "increment"
    /\ Goto(p, "prepare")
    /\ UNCHANGED <<db, snapshots, remote, file, agent, loc, budget>>

\* increment_device_counter
Increment(p) ==
    /\ pc[p] = "increment"
    /\ counter' = counter + 1
    /\ Goto(p, "prepare")
    /\ UNCHANGED <<rows, chunks, pending, sets, heads, active, snapshots, remote, file, agent,
                   loc, budget>>

\* prepare_recovery_set: needs the stored snapshot.
PrepareRecoverySet(p) ==
    /\ pc[p] = "prepare" /\ loc[p].id \in rows
    /\ sets' = sets \cup {loc[p].id}
    /\ Goto(p, "head")
    /\ UNCHANGED <<counter, rows, chunks, pending, heads, active, snapshots, remote, file, agent,
                   loc, budget>>

\* Mutant: what the files hold now is acknowledged, not what was captured.
CommitHeadAcksCurrent(p) ==
    /\ pc[p] = "head"
    /\ SetHead(loc[p].id)
    /\ cache' = IF p = "agent" THEN file ELSE cache
    /\ Goto(p, "replicate")
    /\ UNCHANGED <<counter, rows, chunks, pending, sets, snapshots, remote, file, sync, loc, budget>>

\* The signed head is saved; the watcher then acknowledges the captured bytes.
CommitHead(p) ==
    /\ pc[p] = "head"
    /\ SetHead(loc[p].id)
    /\ cache' = IF p = "agent" THEN record[loc[p].id].content ELSE cache
    /\ Goto(p, "replicate")
    /\ UNCHANGED <<counter, rows, chunks, pending, sets, snapshots, remote, file, sync, loc, budget>>

\* push --local stops here.
StopLocal ==
    /\ "push" \in Proc /\ pc["push"] = "replicate"
    /\ Done("push")
    /\ UNCHANGED <<db, snapshots, remote, file, agent, budget>>

\* The process has operators to send the snapshot to.
Replicating(p) == pc[p] = "replicate" /\ (p = "agent" => sync)

\* replicate_and_verify succeeds.  Only the watcher clears the pending upload.
Replicate(p) ==
    /\ Replicating(p) /\ record[loc[p].id].content \in chunks
    /\ published' = published \cup {loc[p].id}
    /\ durable' = durable \cup {loc[p].id}
    /\ IF p = "agent" THEN Goto(p, "complete") /\ UNCHANGED loc ELSE Done(p)
    /\ UNCHANGED <<db, snapshots, local, file, agent, budget>>

\* Mutant: a failed replication is marked completed.
ReplicateFailsCompletes(p) ==
    /\ Replicating(p) /\ faults < MaxFaults
    /\ faults' = faults + 1
    /\ Goto(p, "complete")
    /\ UNCHANGED <<db, snapshots, remote, file, agent, loc, edits, pulls>>

\* No quorum, a timeout or a cancellation: some operators may list the head.
ReplicateFails(p) ==
    /\ Replicating(p) /\ faults < MaxFaults
    /\ faults' = faults + 1
    /\ published' \in {published, published \cup {loc[p].id}}
    /\ Done(p)
    /\ UNCHANGED <<db, snapshots, durable, local, file, agent, edits, pulls>>

\* An agent without --sync or operators clears the upload and sends nothing.
KeepLocal ==
    /\ pc["agent"] = "replicate" /\ ~sync
    /\ MarkUploadCompleted(loc["agent"].id)
    /\ local' = local \cup {loc["agent"].id}
    /\ Done("agent")
    /\ UNCHANGED <<counter, rows, chunks, sets, heads, active, snapshots, published, durable, file,
                   agent, budget>>

Complete ==
    /\ pc["agent"] = "complete"
    /\ MarkUploadCompleted(loc["agent"].id)
    /\ Done("agent")
    /\ UNCHANGED <<counter, rows, chunks, sets, heads, active, snapshots, remote, file, agent,
                   budget>>

\* Mutant: only the upload of the active head is tried again.
RetryActiveOnly(s) ==
    /\ pc["agent"] = "idle" /\ sync
    /\ s = active /\ s \in pending \cap rows \cap sets \cap heads
    /\ Goto("agent", "replicate") /\ loc' = [loc EXCEPT !["agent"].id = s]
    /\ UNCHANGED <<db, snapshots, remote, file, agent, budget>>

\* retry_pending_uploads of a replicating agent: an item without record, recovery set and retained head
\* only has its attempts counted; the others are replicated again.  The retry
\* follows a scan, but the files may have changed again since.
RetryPendingUpload(s) ==
    /\ pc["agent"] = "idle" /\ sync
    /\ s \in pending \cap rows \cap sets \cap heads
    /\ Goto("agent", "replicate") /\ loc' = [loc EXCEPT !["agent"].id = s]
    /\ UNCHANGED <<db, snapshots, remote, file, agent, budget>>

-----------------------------------------------------------------------------
(* pull *)

\* select_head over the published heads of one authority: distinct counters and
\* a single head that is not a parent of another one.
SelectHead(P) ==
    LET maximal == P \ {record[s].parent : s \in P}
    IN  IF /\ \A s, t \in P : record[s].counter = record[t].counter => s = t
           /\ Cardinality(maximal) = 1
        THEN CHOOSE s \in maximal : TRUE
        ELSE NoId

\* cmd_pull: another head than the local one, and no uncommitted modification.
BeginPull ==
    /\ pc["pull"] = "idle" /\ pulls < MaxPulls
    /\ pulls' = pulls + 1
    /\ SelectHead(published) \notin {NoId, active}
    /\ active \in rows /\ file = record[active].content
    /\ Goto("pull", "restore") /\ loc' = [loc EXCEPT !["pull"].id = SelectHead(published)]
    /\ UNCHANGED <<db, snapshots, remote, file, agent, edits, faults>>

PullRestore ==
    /\ pc["pull"] = "restore"
    /\ file' = record[loc["pull"].id].content
    /\ Goto("pull", "save")
    /\ UNCHANGED <<db, snapshots, remote, agent, loc, budget>>

PullSave ==
    /\ pc["pull"] = "save"
    /\ SaveSnapshot(loc["pull"].id)
    /\ Goto("pull", "head")
    /\ UNCHANGED <<counter, sets, heads, active, snapshots, remote, file, agent, loc, budget>>

PullHead ==
    /\ pc["pull"] = "head"
    /\ SetHead(loc["pull"].id)
    /\ Done("pull")
    /\ UNCHANGED <<counter, rows, chunks, pending, sets, snapshots, remote, file, agent, budget>>

-----------------------------------------------------------------------------
(* prune *)

\* select_prune_targets: neither head, nor pending, nor among the newest.
Targets ==
    {s \in rows : /\ s # active /\ s \notin pending
                  /\ Cardinality({t \in rows : t > s}) >= KeepLast}

BeginPrune ==
    /\ pc["prune"] = "idle" /\ Targets # {}
    /\ Goto("prune", "guard") /\ loc' = [loc EXCEPT !["prune"].targets = Targets]
    /\ UNCHANGED <<db, snapshots, remote, file, agent, budget>>

\* prune_snapshots reads the active head and the pending uploads...
ReadGuards ==
    /\ pc["prune"] = "guard"
    /\ Goto("prune", "delete") /\ loc' = [loc EXCEPT !["prune"].pending = (pending \cup {active}) \ {NoId}]
    /\ UNCHANGED <<db, snapshots, remote, file, agent, budget>>

\* ...and then opens the transaction that deletes.
Prune ==
    /\ pc["prune"] = "delete"
    /\ PruneTransaction((loc["prune"].targets \ loc["prune"].pending) \cap rows)
    /\ Done("prune")
    /\ UNCHANGED <<counter, pending, active, snapshots, remote, file, agent, budget>>

-----------------------------------------------------------------------------
(* The environment *)

\* The user edits a tracked file.
Edit(v) ==
    /\ edits < MaxEdits /\ v # file
    /\ edits' = edits + 1 /\ file' = v
    /\ UNCHANGED <<db, snapshots, remote, agent, pc, loc, pulls, faults>>

\* A process is killed between two of its steps; the agent loses its baseline.
Crash(p) ==
    /\ pc[p] \notin {"idle", "down"} /\ faults < MaxFaults
    /\ faults' = faults + 1
    /\ pc' = [pc EXCEPT ![p] = IF p = "agent" THEN "down" ELSE "idle"]
    /\ loc' = [loc EXCEPT ![p] = NoLocals]
    /\ cache' = IF p = "agent" THEN Null ELSE cache
    /\ UNCHANGED <<db, snapshots, remote, file, sync, edits, pulls>>

\* A step of a capture returns an error before the head is saved.
CaptureFails(p) ==
    /\ pc[p] \in {"parent", "create", "save", "increment", "prepare", "head"}
    /\ faults < MaxFaults
    /\ faults' = faults + 1
    /\ Done(p)
    /\ UNCHANGED <<db, snapshots, remote, file, agent, edits, pulls>>

CaptureStep(p) ==
    \/ BeginCapture(p) \/ ReadParent(p) \/ CreateSnapshot(p) \/ Save(p) \/ Increment(p)
    \/ PrepareRecoverySet(p) \/ CommitHead(p) \/ Replicate(p)

AgentStep == AgentStart \/ CaptureStep("agent") \/ KeepLocal \/ Complete

PullStep == "pull" \in Proc /\ (BeginPull \/ PullRestore \/ PullSave \/ PullHead)
PruneStep == "prune" \in Proc /\ (BeginPrune \/ ReadGuards \/ Prune)

Next ==
    \/ AgentStep
    \/ "push" \in Proc /\ CaptureStep("push")
    \/ StopLocal
    \/ \E s \in Id : RetryPendingUpload(s)
    \/ PullStep
    \/ PruneStep
    \/ \E p \in Capturer : ReplicateFails(p) \/ CaptureFails(p)
    \/ \E p \in Proc : Crash(p)
    \/ \E v \in Content : Edit(v)

Spec == Init /\ [][Next]_vars

\* The agent is restarted and scans every three seconds, its worker runs what it
\* was given, and every 30 seconds each pending upload is tried again.
FairSpec == Spec /\ WF_vars(AgentStep) /\ \A s \in Id : SF_vars(RetryPendingUpload(s))

-----------------------------------------------------------------------------
(* Properties *)

TypeOK ==
    /\ counter \in Nat
    /\ rows \subseteq Id /\ pending \subseteq Id /\ sets \subseteq Id /\ heads \subseteq Id
    /\ chunks \subseteq Content /\ active \in Id \cup {NoId}
    /\ record \in [Id -> Records] /\ created \in 0..MaxSnapshots
    /\ published \subseteq Id /\ durable \subseteq Id /\ local \subseteq Id
    /\ file \in Content /\ cache \in Content \cup {Null} /\ sync \in BOOLEAN
    /\ pc \in [Proc -> Labels]
    /\ loc \in [Proc -> Locals]
    /\ edits \in 0..MaxEdits /\ pulls \in 0..MaxPulls /\ faults \in 0..MaxFaults

\* prune_snapshots collects no chunk a retained snapshot needs, even one that is
\* being captured and has no recovery set yet.
ChunksRetained == \A s \in rows : record[s].content \in chunks

\* What no upload is owed for: a quorum has it, or a local-only agent kept it.
Settled == durable \cup local

\* A snapshot whose head was saved can be replicated until a quorum has it: its
\* upload stays pending, with its record, recovery set and chunk in the store.
\* The watcher's local-only branch alone gives up that promise, and only for the
\* snapshot it has just captured.
UploadsRecoverable ==
    \A s \in heads \ Settled :
        s \in pending /\ s \in rows /\ s \in sets /\ record[s].content \in chunks

\* The active head is a stored snapshot: watcher, pull and diff can open it.
ActiveHeadStored == active # NoId => active \in rows /\ active \in heads

\* The counters of one device order its heads: no two retained or published
\* heads carry the same counter.
CountersUnique ==
    \A s, t \in heads \cup published : record[s].counter = record[t].counter => s = t

\* Ancestry of the snapshot DAG, through records operators may not have.
Ancestors[s \in Id] ==
    LET q == record[s].parent IN IF q = NoId THEN {} ELSE {q} \cup Ancestors[q]

\* The documented recovery rule: published heads that are not concurrent have a
\* unique maximal one, and select_head finds it.
ComparableHeadsSelectable ==
    (published # {} /\ \A s, t \in published : s = t \/ s \in Ancestors[t] \/ t \in Ancestors[s])
        => SelectHead(published) # NoId

\* "Advance local head": a pull never replaces the active head by its ancestor.
PullAdvances ==
    [][pc["pull"] = "head" /\ pc'["pull"] = "idle" /\ active' # active
        => active' \notin Ancestors[active]]_vars

\* An edit that stays is eventually in the active head, whatever notification
\* was lost, capture failed or agent killed before.
EditsCaptured ==
    \A v \in Content :
        <>[](file = v) => <>[](active # NoId /\ record[active].content = v)

\* With an agent that replicates from some time on, every snapshot whose head was
\* saved is eventually verified by a quorum, the ones an earlier local-only agent
\* left pending too; it owes nothing to those such an agent marked completed.
HeadsReplicated == <>[]sync => \A s \in Id : s \in heads ~> s \in Settled

\* With the agent as the only capturer and no pull beside it, the counters order
\* the heads and the active head can be opened.
HeadsOrdered == CountersUnique /\ ActiveHeadStored

\* The store is of its types and has the chunks of every snapshot it retains.
CaptureKept == TypeOK /\ ChunksRetained
=============================================================================
