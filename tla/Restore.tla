------------------------------ MODULE Restore ------------------------------
(***************************************************************************)
(* The journaled restore of crates/snapshot/src/restore.rs: publication of *)
(* the N verified files of a snapshot into a target directory.             *)
(*                                                                         *)
(* A call of publish_with or recover_interrupted_restore runs entirely     *)
(* under the exclusive lock of the target, so at most one call is ever in  *)
(* progress: its control point and local variables are pc, i, seen, mem,   *)
(* after and todo, and pc = "idle" means the lock is free.  A call may be  *)
(* killed between any two file operations (Crash), any of them may fail    *)
(* (the ...Fails actions), and processes that do not take the lock may     *)
(* edit a destination at any time (Edit).                                  *)
(*                                                                         *)
(* A file is its content, and a digest is the content it was computed from *)
(* (SHA-256 has no collisions here); Absent is the content of a missing    *)
(* file.  Paths are the indices of the snapshot's entries: the preflight   *)
(* of lines 226-256 makes the destinations of distinct entries distinct.   *)
(***************************************************************************)
EXTENDS Naturals

CONSTANTS
    N,              \* number of files in the snapshot
    Content,        \* contents a file may have
    Absent,         \* "content" of a file that does not exist
    None,           \* no journal, no request, no edit
    MaxCrashes,     \* bound on the number of crashes
    MaxFaults,      \* bound on the number of failed file operations
    MaxEdits        \* bound on the number of edits by other processes

ASSUME RestoreAssumption ==
    /\ N \in Nat \ {0}
    /\ Absent \notin Content
    /\ None \notin Content \cup {Absent}
    /\ None \notin [1..N -> Content]
    /\ None \notin [prev : [1..N -> Content \cup {Absent}], new : [1..N -> Content]]
    /\ None \notin [committed : BOOLEAN,
                    prev : [1..N -> Content \cup {Absent}], new : [1..N -> Content]]
    /\ {MaxCrashes, MaxFaults, MaxEdits} \subseteq Nat

Path == 1..N
Val == Content \cup {Absent}
Files == [Path -> Content]
Tree == [Path -> Val]

VARIABLES
    \* On disk.
    dest,       \* the destination files
    stage,      \* whether the .ciphervault-restore directory exists
    journal,    \* journal.json: None or [committed, prev, new]
    backup,     \* the backup-<index> files of the stage directory
    \* The call that holds the lock.
    pc, i,
    seen,       \* the digest last computed of a destination
    mem,        \* the in-memory journal entries: None or [prev, new]
    after,      \* why the stage directory is rolled back or removed
    todo,       \* the files to publish once recover_locked returns
    \* History, read by the properties only.
    old,        \* what each destination held when its digest was recorded
    files,      \* the files of the last transaction
    ext,        \* the last edit of each destination by another process
    raced,      \* destinations edited between a check and its replacement
    torn,       \* the commit record was written but reported as failed
    crashes, faults, edits

disk == <<dest, stage, journal, backup>>
call == <<pc, i, seen, mem, after, todo>>
history == <<old, files, ext, raced, torn>>
budget == <<crashes, faults, edits>>
vars == <<disk, call, history, budget>>

PC == {"idle", "recover", "digest", "backup", "journal", "check", "publish",
       "commit", "rbCheck", "rbWrite", "cleanup"}

Journals == [committed : BOOLEAN, prev : Tree, new : Files]
Entries == [prev : Tree, new : Files]

NoEdits == [p \in Path |-> None]
NoBackups == [p \in Path |-> Absent]

Init ==
    /\ dest \in Tree
    /\ stage = FALSE /\ journal = None /\ backup = NoBackups
    /\ pc = "idle" /\ i = 0 /\ seen = Absent /\ mem = None
    /\ after = "none" /\ todo = None
    /\ old = dest /\ files \in Files /\ ext = NoEdits /\ raced = {} /\ torn = FALSE
    /\ crashes = 0 /\ faults = 0 /\ edits = 0

-----------------------------------------------------------------------------
(* Control shared by the actions *)

Fault == faults < MaxFaults /\ faults' = faults + 1 /\ UNCHANGED <<crashes, edits>>
NoFault == UNCHANGED budget

\* The call ends, whatever the outcome: its locals and the lock are gone.
Return ==
    /\ pc' = "idle" /\ i' = 0 /\ seen' = Absent /\ mem' = None
    /\ after' = "none" /\ todo' = None

\* The error path of publish_with once journal.publishing is set.
StartRollback ==
    /\ pc' = "rbCheck" /\ i' = N /\ after' = "failed"
    /\ UNCHANGED <<seen, mem, todo>>

\* The error path of publish_with while journal.publishing is still false.
DropStage ==
    /\ pc' = "cleanup" /\ after' = "failed"
    /\ UNCHANGED <<i, seen, mem, todo>>

\* create_dir of the stage directory and an empty in-memory journal for f.
CreateStage(f) ==
    /\ stage' = TRUE
    /\ pc' = "digest" /\ i' = 1 /\ seen' = Absent
    /\ mem' = [prev |-> [p \in Path |-> Absent], new |-> f]
    /\ after' = "none" /\ todo' = None
    /\ old' = dest /\ files' = f /\ ext' = NoEdits /\ raced' = {} /\ torn' = FALSE

-----------------------------------------------------------------------------
(* Entry points and recover_locked *)

\* publish_verified_files: take the lock, then recover or start staging.
BeginRestore(f) ==
    /\ pc = "idle"
    /\ IF stage
       THEN /\ pc' = "recover" /\ todo' = f
            /\ UNCHANGED <<stage, i, seen, mem, after, history>>
       ELSE CreateStage(f)
    /\ UNCHANGED <<dest, journal, backup>> /\ NoFault

\* recover_interrupted_restore: nothing to do unless a stage directory exists.
BeginRecover ==
    /\ pc = "idle" /\ stage
    /\ pc' = "recover"
    /\ UNCHANGED <<disk, i, seen, mem, after, todo, history>> /\ NoFault

\* Mutant: an interrupted restore is cleaned up without looking at committed.
ReadJournalNeverRollsBack ==
    /\ pc = "recover" /\ pc' = "cleanup" /\ after' = "recover"
    /\ UNCHANGED <<disk, i, seen, mem, todo, history>> /\ NoFault

\* Mutant: a stage directory without a journal is an error instead of garbage.
ReadJournalNeedsJournal ==
    /\ pc = "recover"
    /\ IF journal = None
       THEN Return
       ELSE IF journal.committed
            THEN pc' = "cleanup" /\ after' = "recover" /\ UNCHANGED <<i, seen, mem, todo>>
            ELSE /\ pc' = "rbCheck" /\ i' = N /\ after' = "recover"
                 /\ mem' = [prev |-> journal.prev, new |-> journal.new]
                 /\ UNCHANGED <<seen, todo>>
    /\ UNCHANGED <<disk, history>> /\ NoFault

\* recover_locked reads the journal: an uncommitted one is rolled back.
ReadJournal ==
    /\ pc = "recover"
    /\ after' = "recover"
    /\ IF journal # None /\ ~journal.committed
       THEN pc' = "rbCheck" /\ i' = N /\ mem' = [prev |-> journal.prev, new |-> journal.new]
       ELSE pc' = "cleanup" /\ UNCHANGED <<i, mem>>
    /\ UNCHANGED <<disk, seen, todo, history>> /\ NoFault

ReadJournalFails ==
    /\ pc = "recover" /\ Return /\ Fault
    /\ UNCHANGED <<disk, history>>

-----------------------------------------------------------------------------
(* publish_with: staging *)

\* Mutant: the staging loop runs once too often.
NextStagedPastEnd ==
    IF i > N THEN pc' = "journal" /\ UNCHANGED i ELSE pc' = "digest" /\ i' = i + 1

NextStaged == IF i = N THEN pc' = "journal" /\ UNCHANGED i ELSE pc' = "digest" /\ i' = i + 1

\* The digest of destination i, the state a rollback would return it to.
TakeDigest ==
    /\ pc = "digest"
    /\ seen' = dest[i]
    /\ old' = [old EXCEPT ![i] = dest[i]]
    /\ ext' = [ext EXCEPT ![i] = None]
    /\ IF dest[i] = Absent THEN NextStaged ELSE pc' = "backup" /\ UNCHANGED i
    /\ UNCHANGED <<disk, mem, after, todo, files, raced, torn>> /\ NoFault

\* Mutant: the prior content is recorded but not copied.
TakeBackupWithoutCopy ==
    /\ pc = "backup"
    /\ mem' = [prev |-> [mem.prev EXCEPT ![i] = seen], new |-> mem.new]
    /\ NextStaged
    /\ UNCHANGED <<disk, seen, after, todo, history>> /\ NoFault

\* Copy destination i to backup-i; the copy must have the digest just taken.
TakeBackup ==
    /\ pc = "backup"
    /\ backup' = [backup EXCEPT ![i] = dest[i]]
    /\ IF dest[i] = seen
       THEN /\ mem' = [prev |-> [mem.prev EXCEPT ![i] = seen], new |-> mem.new]
            /\ NextStaged /\ UNCHANGED <<seen, after, todo>>
       ELSE DropStage
    /\ UNCHANGED <<dest, stage, journal, history>> /\ NoFault

StagingFails ==
    /\ pc \in {"digest", "backup"} /\ DropStage /\ Fault
    /\ UNCHANGED <<disk, history>>

\* lock_secret_directory fails: publish_with returns and leaves the stage.
SecureStageFails ==
    /\ pc = "digest" /\ i = 1 /\ Return /\ Fault
    /\ UNCHANGED <<disk, history>>

-----------------------------------------------------------------------------
(* publish_with: journal, publication and commit *)

Record(c) == [committed |-> c, prev |-> mem.prev, new |-> mem.new]

\* Mutant: the first journal already says committed.
WriteJournalCommitted ==
    /\ pc = "journal"
    /\ journal' = Record(TRUE)
    /\ pc' = "check" /\ i' = 1
    /\ UNCHANGED <<dest, stage, backup, seen, mem, after, todo, history>> /\ NoFault

WriteJournal ==
    /\ pc = "journal"
    /\ journal' = Record(FALSE)
    /\ pc' = "check" /\ i' = 1
    /\ UNCHANGED <<dest, stage, backup, seen, mem, after, todo, history>> /\ NoFault

\* write_journal fails, before or after the rename that makes it visible.
WriteJournalFails ==
    /\ pc = "journal"
    /\ journal' \in {journal, Record(FALSE)}
    /\ StartRollback /\ Fault
    /\ UNCHANGED <<dest, stage, backup, history>>

\* Destination i must still hold what the journal says before it is replaced.
CheckUnchanged ==
    /\ pc = "check"
    /\ seen' = dest[i]
    /\ IF dest[i] = mem.prev[i]
       THEN pc' = "publish" /\ UNCHANGED <<i, after>>
       ELSE pc' = "rbCheck" /\ i' = N /\ after' = "failed"
    /\ UNCHANGED <<disk, mem, todo, history>> /\ NoFault

CheckFails ==
    /\ pc = "check" /\ StartRollback /\ Fault
    /\ UNCHANGED <<disk, history>>

\* An edit the transaction must not overwrite: foreign content that was there
\* when its file was last checked.
Protected(p) == ext[p] \notin {None, Absent, old[p], files[p]} /\ p \notin raced

\* Replacing destination i: an edit that is not protected is forgotten.
Replace(v) ==
    /\ dest' = [dest EXCEPT ![i] = v]
    /\ ext' = IF Protected(i) THEN ext ELSE [ext EXCEPT ![i] = None]
    /\ raced' = raced \ {i}
    /\ UNCHANGED <<stage, journal, backup, old, files, torn>>

\* Mutant: the commit record is written before the last file is replaced.
PublishCommitsEarly ==
    /\ pc = "publish"
    /\ Replace(mem.new[i])
    /\ IF i >= N - 1 THEN pc' = "commit" /\ UNCHANGED i ELSE pc' = "check" /\ i' = i + 1
    /\ UNCHANGED <<seen, mem, after, todo>> /\ NoFault

Publish ==
    /\ pc = "publish"
    /\ Replace(mem.new[i])
    /\ IF i = N THEN pc' = "commit" /\ UNCHANGED i ELSE pc' = "check" /\ i' = i + 1
    /\ UNCHANGED <<seen, mem, after, todo>> /\ NoFault

\* The replacement fails, or only the sync of its parent directory does.
PublishFails ==
    /\ pc = "publish"
    /\ Replace(mem.new[i]) \/ UNCHANGED <<disk, history>>
    /\ StartRollback /\ Fault

Commit ==
    /\ pc = "commit"
    /\ journal' = Record(TRUE)
    /\ pc' = "cleanup" /\ after' = "done"
    /\ UNCHANGED <<dest, stage, backup, i, seen, mem, todo, history>> /\ NoFault

\* write_journal fails before the rename of the commit record.
CommitFails ==
    /\ pc = "commit" /\ StartRollback /\ Fault
    /\ UNCHANGED <<disk, history>>

\* The commit record replaces the journal, then sync_directory fails.
CommitSyncFails ==
    /\ pc = "commit"
    /\ journal' = Record(TRUE)
    /\ torn' = TRUE
    /\ StartRollback /\ Fault
    /\ UNCHANGED <<dest, stage, backup, old, files, ext, raced>>

-----------------------------------------------------------------------------
(* rollback and the removal of the stage directory *)

\* Mutant: rollback trusts the journal and does not look at the destination.
MayRollBackBlindly == backup[i] = mem.prev[i] \/ mem.prev[i] = Absent

\* rollback may touch entry i: no foreign content, and an intact backup.
MayRollBack ==
    /\ dest[i] \in {Absent, mem.new[i], mem.prev[i]}
    /\ backup[i] = mem.prev[i] \/ mem.prev[i] = Absent

RollbackCheck ==
    /\ pc = "rbCheck" /\ MayRollBack
    /\ pc' = "rbWrite"
    /\ UNCHANGED <<disk, i, seen, mem, after, todo, history>> /\ NoFault

\* "changed outside this transaction" or "backup missing": journal retained.
RollbackStops ==
    /\ pc = "rbCheck" /\ ~MayRollBack
    /\ Return
    /\ UNCHANGED <<disk, history>> /\ NoFault

RollbackWrite ==
    /\ pc = "rbWrite"
    /\ Replace(mem.prev[i])
    /\ IF i = 1 THEN pc' = "cleanup" /\ UNCHANGED i ELSE pc' = "rbCheck" /\ i' = i - 1
    /\ UNCHANGED <<seen, mem, after, todo>> /\ NoFault

RollbackFails ==
    /\ pc \in {"rbCheck", "rbWrite"}
    /\ UNCHANGED <<disk, history>> \/ (pc = "rbWrite" /\ Replace(mem.prev[i]))
    /\ Return /\ Fault

\* remove_dir_all unlinks the entries of the stage one by one, in any order.
RemoveEntry ==
    /\ pc = "cleanup"
    /\ \/ journal # None /\ journal' = None /\ UNCHANGED backup
       \/ \E p \in Path : /\ backup[p] # Absent
                          /\ backup' = [backup EXCEPT ![p] = Absent]
                          /\ UNCHANGED journal
    /\ UNCHANGED <<dest, stage, call, history>> /\ NoFault

\* The emptied directory goes; publish_with then continues after a recovery.
RemoveStage ==
    /\ pc = "cleanup" /\ journal = None /\ backup = NoBackups
    /\ IF todo # None
       THEN CreateStage(todo)
       ELSE stage' = FALSE /\ Return /\ UNCHANGED history
    /\ UNCHANGED <<dest, journal, backup>> /\ NoFault

\* An unlink fails, or only what follows the removal does: the sync of the
\* target or the preflight of the files still to be published.
CleanupFails ==
    /\ pc = "cleanup"
    /\ \/ UNCHANGED stage
       \/ journal = None /\ backup = NoBackups /\ stage' = FALSE
    /\ Return /\ Fault
    /\ UNCHANGED <<dest, journal, backup, history>>

-----------------------------------------------------------------------------
(* The environment *)

\* The process is killed: the lock and its locals go, the disk stays.
Crash ==
    /\ pc # "idle" /\ crashes < MaxCrashes
    /\ crashes' = crashes + 1
    /\ Return
    /\ UNCHANGED <<disk, history, faults, edits>>

\* A process that does not take the lock writes or deletes a destination.
Edit(p, v) ==
    /\ edits < MaxEdits /\ v # dest[p]
    /\ edits' = edits + 1
    /\ dest' = [dest EXCEPT ![p] = v]
    /\ ext' = [ext EXCEPT ![p] = v]
    /\ raced' = IF pc \in {"publish", "rbWrite"} /\ p = i THEN raced \cup {p} ELSE raced
    /\ UNCHANGED <<stage, journal, backup, call, old, files, torn, crashes, faults>>

Step ==
    \/ ReadJournal \/ TakeDigest \/ TakeBackup \/ WriteJournal
    \/ CheckUnchanged \/ Publish \/ Commit
    \/ RollbackCheck \/ RollbackStops \/ RollbackWrite
    \/ RemoveEntry \/ RemoveStage

Failure ==
    \/ ReadJournalFails \/ SecureStageFails \/ StagingFails \/ WriteJournalFails
    \/ CheckFails \/ PublishFails \/ CommitFails \/ CommitSyncFails 
    \/ RollbackFails \/ CleanupFails

Next ==
    \/ \E f \in Files : BeginRestore(f)
    \/ BeginRecover
    \/ Step
    \/ Failure
    \/ Crash
    \/ \E p \in Path, v \in Val : Edit(p, v)

Spec == Init /\ [][Next]_vars

\* The OS schedules the call in progress, and an interrupted restore is
\* eventually followed by another call of recover_interrupted_restore.
FairSpec == Spec /\ WF_vars(Step) /\ WF_vars(BeginRecover)

-----------------------------------------------------------------------------
(* Properties *)

TypeOK ==
    /\ dest \in Tree /\ stage \in BOOLEAN
    /\ journal \in Journals \cup {None} /\ backup \in Tree
    /\ pc \in PC /\ i \in 0..N /\ seen \in Val
    /\ mem \in Entries \cup {None}
    /\ after \in {"none", "recover", "failed", "done"}
    /\ todo \in Files \cup {None}
    /\ old \in Tree /\ files \in Files /\ ext \in [Path -> Val \cup {None}]
    /\ raced \subseteq Path /\ torn \in BOOLEAN
    /\ crashes \in 0..MaxCrashes /\ faults \in 0..MaxFaults /\ edits \in 0..MaxEdits

\* The destinations nobody else has edited all hold the content of t.
Holds(t) == \A p \in Path : ext[p] = None => dest[p] = t[p]

\* No call is running and the last transaction left nothing to recover.
Settled == pc = "idle" /\ ~stage

\* publish_with and recover_locked: once no stage directory is left, the last
\* restore has happened for every file or for none, however it was interrupted.
AllOrNothing == Settled /\ ~torn => Holds(old) \/ Holds(files)

\* A commit record on disk means that every file has been published: cleaning
\* up without a rollback (recover_locked) loses nothing.
CommittedIsComplete ==
    journal # None /\ journal.committed /\ ~torn => Holds(files)

\* While a journal is uncommitted, what a published file replaced is still in
\* the stage directory: no crash loses the only copy of the prior content.
PriorContentKept ==
    journal # None /\ ~journal.committed =>
        \A p \in Path : ext[p] = None /\ dest[p] # old[p] /\ old[p] # Absent
                            => backup[p] = old[p]

\* Content written by another process, other than the two versions of the
\* transaction, is never overwritten by publication, rollback or recovery,
\* unless it was written between the check of the file and its replacement.
EditSurvives == \A p \in Path : Protected(p) => dest[p] = ext[p]

\* An uncommitted journal can be rolled back: the backups it needs exist.
Backed ==
    journal # None /\ ~journal.committed =>
        \A p \in Path : journal.prev[p] \in {Absent, backup[p]}

\* As long as no interrupted removal has left a journal without its backups,
\* every interrupted restore is eventually rolled back or cleaned up.
RecoveryCompletes == []Backed => (stage ~> ~stage)

\* The documented promise: a subsequent recover_interrupted_restore rolls back
\* an uncommitted journal or cleans up a committed one.
InterruptedRestoreRecovers == stage ~> ~stage

\* The tree a user has once pending recovery is done: an uncommitted journal
\* stands for the previous contents.
LogicalTree == IF journal # None /\ ~journal.committed THEN journal.prev ELSE dest

Atomic == INSTANCE AtomicRestore WITH tree <- LogicalTree

\* Without edits and failed operations, crashes at any point leave a restore
\* atomic: the logical tree changes only by one whole snapshot at a time.
AtomicSpec == Atomic!Spec

\* What a restore leaves is of its types, complete once committed, and has
\* destroyed no content it did not put there.
RestoreSound == TypeOK /\ CommittedIsComplete /\ PriorContentKept
=============================================================================
