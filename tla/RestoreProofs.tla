--------------------------- MODULE RestoreProofs ---------------------------
(***************************************************************************)
(* The safety of the journaled restore, for every number of files, every   *)
(* set of contents and any number of crashes, failed operations and edits. *)
(***************************************************************************)
EXTENDS Restore, TLAPS

Staging == {"digest", "backup", "journal"}
Publishing == {"check", "publish", "commit"}
RollingBack == {"rbCheck", "rbWrite"}
Uncommitted == journal # None /\ ~journal.committed

\* Every file that existed has its backup.
BackupsTaken == \A p \in Path : old[p] # Absent => backup[p] = old[p]

\* Where the call in progress is, and what its journal says.
ControlInv ==
    /\ pc # "idle" => stage
    /\ ~stage => journal = None /\ backup = NoBackups
    /\ pc \in Staging \cup Publishing \cup RollingBack =>
          i \in Path /\ mem \in Entries /\ mem.new = files
    /\ pc \in Publishing \cup RollingBack \cup {"journal"} => mem.prev = old
    /\ pc \in Staging => journal = None /\ Holds(old)
    /\ pc \in Staging \cup Publishing => ~torn
    /\ pc \in Publishing => Uncommitted
    /\ pc \in Publishing \cup {"journal"} => BackupsTaken
    /\ pc = "commit" => i = N
    /\ torn => ~Uncommitted
    /\ journal # None => journal.prev = old /\ journal.new = files

\* The entries staged so far.
StagedInv ==
    pc \in {"digest", "backup"} =>
        /\ \A p \in Path : p < i => /\ mem.prev[p] = old[p]
                                    /\ old[p] # Absent => backup[p] = old[p]
        /\ \A p \in Path : p >= i => mem.prev[p] = Absent
        /\ pc = "backup" => seen = old[i]

\* Which of the two versions each unedited destination holds.
DestInv ==
    /\ Uncommitted => \A p \in Path : ext[p] = None => dest[p] \in {old[p], files[p]}
    /\ pc \in {"check", "publish"} =>
          \A p \in Path : ext[p] = None => dest[p] = (IF p < i THEN files[p] ELSE old[p])
    /\ pc = "commit" => Holds(files)
    /\ pc \in RollingBack /\ ~torn =>
          /\ journal = None => Holds(old)
          /\ journal # None => ~journal.committed
          /\ \A p \in Path : ext[p] = None /\ p > i => dest[p] = old[p]
    /\ pc = "cleanup" /\ Uncommitted => Holds(old)
    /\ pc \in {"idle", "recover", "cleanup"} /\ journal = None /\ ~torn =>
          Holds(old) \/ Holds(files)

\* A replacement is reached only when no protected edit is in the way.
EditInv == pc \in {"publish", "rbWrite"} => ~Protected(i)

IInv ==
    /\ TypeOK /\ ControlInv /\ StagedInv /\ DestInv /\ EditInv
    /\ CommittedIsComplete /\ PriorContentKept /\ EditSurvives

-----------------------------------------------------------------------------
(* Each action preserves the invariant *)

USE RestoreAssumption
    DEF Path, Val, Files, Tree, Entries, Journals, PC, Staging, Publishing, RollingBack,
        Uncommitted, BackupsTaken, Holds, Fault, NoFault,
        vars, disk, call, history, budget

\* A call may end anywhere: the disk alone satisfies the invariant.
LEMMA InterruptionPreserves ==
  ASSUME IInv, Return, UNCHANGED <<disk, history>>,
         crashes' \in 0..MaxCrashes, faults' \in 0..MaxFaults, edits' \in 0..MaxEdits
  PROVE  IInv'
  <1>1. TypeOK'
    BY DEF IInv, TypeOK, ControlInv, Return
  <1>2. ControlInv'
    BY DEF IInv, TypeOK, ControlInv, StagedInv, Return
  <1>3. StagedInv'
    BY DEF IInv, TypeOK, ControlInv, StagedInv, Return
  <1>4. DestInv'
    BY DEF IInv, TypeOK, ControlInv, DestInv, EditInv, CommittedIsComplete, Return
  <1>5. EditInv' /\ EditSurvives'
    BY DEF IInv, TypeOK, ControlInv, EditInv, EditSurvives, Protected, Return
  <1>6. CommittedIsComplete' /\ PriorContentKept'
    BY DEF IInv, TypeOK, ControlInv, DestInv, EditInv, CommittedIsComplete,
         PriorContentKept, Return
  <1> QED BY <1>1, <1>2, <1>3, <1>4, <1>5, <1>6 DEF IInv

\* A failure before the commit record starts a rollback of what was published.
LEMMA StartRollbackPreserves ==
  ASSUME IInv, pc \in {"check", "commit"}, StartRollback, UNCHANGED <<disk, history>>, Fault
  PROVE  IInv'
  <1>1. TypeOK'
    BY DEF IInv, TypeOK, ControlInv, StartRollback
  <1>2. ControlInv'
    BY DEF IInv, TypeOK, ControlInv, StagedInv, StartRollback
  <1>3. StagedInv'
    BY DEF IInv, TypeOK, ControlInv, StagedInv, StartRollback
  <1>4. DestInv'
    BY DEF IInv, TypeOK, ControlInv, DestInv, EditInv, CommittedIsComplete, StartRollback
  <1>5. EditInv' /\ EditSurvives'
    BY DEF IInv, TypeOK, ControlInv, EditInv, EditSurvives, Protected, StartRollback
  <1>6. CommittedIsComplete' /\ PriorContentKept'
    BY DEF IInv, TypeOK, ControlInv, DestInv, EditInv, CommittedIsComplete,
         PriorContentKept, StartRollback
  <1> QED BY <1>1, <1>2, <1>3, <1>4, <1>5, <1>6 DEF IInv

\* The actions that only end the call.
LEMMA StopPreserves ==
  ASSUME IInv, ReadJournalFails \/ SecureStageFails \/ RollbackStops \/ Crash
  PROVE  IInv'
  <1>1. Return /\ UNCHANGED <<disk, history>>
    BY DEF ReadJournalFails, SecureStageFails, RollbackStops, Crash
  <1>2. crashes \in 0..MaxCrashes /\ faults \in 0..MaxFaults /\ edits \in 0..MaxEdits
    BY DEF IInv, TypeOK
  <1>3. {MaxCrashes, MaxFaults, MaxEdits} \subseteq Nat BY RestoreAssumption
  <1>4. crashes' \in 0..MaxCrashes /\ faults' \in 0..MaxFaults /\ edits' \in 0..MaxEdits
    BY <1>2, <1>3 DEF ReadJournalFails, SecureStageFails, RollbackStops, Crash, Fault, NoFault
  <1> QED BY <1>1, <1>4, InterruptionPreserves

\* The failures that only start a rollback.
LEMMA AbortPreserves ==
  ASSUME IInv, CheckFails \/ CommitFails
  PROVE  IInv'
  BY StartRollbackPreserves DEF CheckFails, CommitFails

\* A new transaction starts from an empty stage directory.
LEMMA CreateStagePreserves ==
  ASSUME NEW f \in Files, IInv, CreateStage(f), NoFault,
         journal = None, backup = NoBackups, UNCHANGED <<dest, journal, backup>>
  PROVE  IInv'
  <1>1. TypeOK'
    <2>1. NoEdits \in [Path -> Val \cup {None}] /\ [p \in Path |-> Absent] \in Tree
      BY DEF NoEdits
    <2>2. mem' \in Entries BY <2>1 DEF CreateStage
    <2>3. ext' = NoEdits /\ old' = dest /\ files' = f /\ raced' = {} /\ torn' = FALSE
      BY DEF CreateStage
    <2>4. stage' \in BOOLEAN /\ torn' \in BOOLEAN BY DEF CreateStage
    <2> QED BY <2>1, <2>2, <2>3, <2>4 DEF IInv, TypeOK, ControlInv, CreateStage
  <1>2. ControlInv'
    BY DEF IInv, TypeOK, ControlInv, StagedInv, CreateStage, NoEdits, NoBackups
  <1>3. StagedInv'
    BY DEF IInv, TypeOK, ControlInv, StagedInv, CreateStage, NoEdits, NoBackups
  <1>4. DestInv'
    BY DEF IInv, TypeOK, ControlInv, DestInv, EditInv, CommittedIsComplete,
         CreateStage, NoEdits, NoBackups
  <1>5. EditInv' /\ EditSurvives'
    BY DEF IInv, TypeOK, ControlInv, EditInv, EditSurvives, Protected, CreateStage,
         NoEdits, NoBackups
  <1>6. CommittedIsComplete' /\ PriorContentKept'
    BY DEF IInv, TypeOK, ControlInv, DestInv, EditInv, CommittedIsComplete,
         PriorContentKept, CreateStage, NoEdits, NoBackups
  <1> QED BY <1>1, <1>2, <1>3, <1>4, <1>5, <1>6 DEF IInv

\* publish_with on a target with or without an interrupted restore.
LEMMA BeginRestorePreserves ==
  ASSUME NEW f \in Files, IInv, BeginRestore(f)
  PROVE  IInv'
  <1>1. CASE stage
    <2>1. TypeOK'
      BY <1>1 DEF IInv, TypeOK, ControlInv, BeginRestore
    <2>2. ControlInv'
      BY <1>1 DEF IInv, TypeOK, ControlInv, StagedInv, BeginRestore
    <2>3. StagedInv'
      BY <1>1 DEF IInv, TypeOK, ControlInv, StagedInv, BeginRestore
    <2>4. DestInv'
      BY <1>1 DEF IInv, TypeOK, ControlInv, DestInv, EditInv, CommittedIsComplete, BeginRestore
    <2>5. EditInv' /\ EditSurvives'
      BY <1>1 DEF IInv, TypeOK, ControlInv, EditInv, EditSurvives, Protected, BeginRestore
    <2>6. CommittedIsComplete' /\ PriorContentKept'
      BY <1>1 DEF IInv, TypeOK, ControlInv, DestInv, EditInv, CommittedIsComplete,
           PriorContentKept, BeginRestore
    <2> QED BY <2>1, <2>2, <2>3, <2>4, <2>5, <2>6 DEF IInv
  <1>2. CASE ~stage
    BY <1>2, CreateStagePreserves DEF IInv, ControlInv, BeginRestore
  <1> QED BY <1>1, <1>2

\* A call of recover_interrupted_restore.
LEMMA BeginRecoverPreserves ==
  ASSUME IInv, BeginRecover
  PROVE  IInv'
  <1>1. TypeOK'
    BY DEF IInv, TypeOK, ControlInv, BeginRecover
  <1>2. ControlInv'
    BY DEF IInv, TypeOK, ControlInv, StagedInv, BeginRecover
  <1>3. StagedInv'
    BY DEF IInv, TypeOK, ControlInv, StagedInv, BeginRecover
  <1>4. DestInv'
    BY DEF IInv, TypeOK, ControlInv, DestInv, EditInv, CommittedIsComplete, BeginRecover
  <1>5. EditInv' /\ EditSurvives'
    BY DEF IInv, TypeOK, ControlInv, EditInv, EditSurvives, Protected, BeginRecover
  <1>6. CommittedIsComplete' /\ PriorContentKept'
    BY DEF IInv, TypeOK, ControlInv, DestInv, EditInv, CommittedIsComplete,
         PriorContentKept, BeginRecover
  <1> QED BY <1>1, <1>2, <1>3, <1>4, <1>5, <1>6 DEF IInv

\* recover_locked decides between rollback and cleanup.
LEMMA ReadJournalPreserves ==
  ASSUME IInv, ReadJournal
  PROVE  IInv'
  <1>1. TypeOK'
    BY DEF IInv, TypeOK, ControlInv, ReadJournal
  <1>2. ControlInv'
    BY DEF IInv, TypeOK, ControlInv, StagedInv, ReadJournal
  <1>3. StagedInv'
    BY DEF IInv, TypeOK, ControlInv, StagedInv, ReadJournal
  <1>4. DestInv'
    BY DEF IInv, TypeOK, ControlInv, DestInv, EditInv, CommittedIsComplete, ReadJournal
  <1>5. EditInv' /\ EditSurvives'
    BY DEF IInv, TypeOK, ControlInv, EditInv, EditSurvives, Protected, ReadJournal
  <1>6. CommittedIsComplete' /\ PriorContentKept'
    BY DEF IInv, TypeOK, ControlInv, DestInv, EditInv, CommittedIsComplete,
         PriorContentKept, ReadJournal
  <1> QED BY <1>1, <1>2, <1>3, <1>4, <1>5, <1>6 DEF IInv

\* Recording the digest of a destination.
LEMMA TakeDigestPreserves ==
  ASSUME IInv, TakeDigest
  PROVE  IInv'
  <1>1. TypeOK'
    BY DEF IInv, TypeOK, ControlInv, TakeDigest, NextStaged
  <1>2. ControlInv'
    BY DEF IInv, TypeOK, ControlInv, StagedInv, TakeDigest, NextStaged
  <1>3. StagedInv'
    BY DEF IInv, TypeOK, ControlInv, StagedInv, TakeDigest, NextStaged
  <1>4. DestInv'
    BY DEF IInv, TypeOK, ControlInv, DestInv, EditInv, CommittedIsComplete, TakeDigest,
         NextStaged
  <1>5. EditInv' /\ EditSurvives'
    BY DEF IInv, TypeOK, ControlInv, EditInv, EditSurvives, Protected, TakeDigest, NextStaged
  <1>6. CommittedIsComplete' /\ PriorContentKept'
    BY DEF IInv, TypeOK, ControlInv, DestInv, EditInv, CommittedIsComplete,
         PriorContentKept, TakeDigest, NextStaged
  <1> QED BY <1>1, <1>2, <1>3, <1>4, <1>5, <1>6 DEF IInv

\* Copying a destination to its backup.
LEMMA TakeBackupPreserves ==
  ASSUME IInv, TakeBackup
  PROVE  IInv'
  <1>a. ASSUME dest[i] = seen PROVE TypeOK' /\ ControlInv'
    <2>0. /\ mem' \in Entries /\ mem'.new = files
          /\ mem'.prev = [mem.prev EXCEPT ![i] = seen]
      <3>1. mem \in Entries /\ mem.new = files /\ i \in Path /\ seen \in Val
        BY DEF IInv, TypeOK, ControlInv, TakeBackup
      <3>2. mem' = [prev |-> [mem.prev EXCEPT ![i] = seen], new |-> mem.new]
        BY <1>a DEF TakeBackup
      <3> QED BY <3>1, <3>2
    <2>1. TypeOK'
      BY <1>a, <2>0 DEF IInv, TypeOK, ControlInv, TakeBackup, NextStaged
    <2>2. ASSUME i = N PROVE mem'.prev = old /\ BackupsTaken'
      <3>1. \A p \in Path : mem'.prev[p] = old[p]
        BY <1>a, <2>0, <2>2 DEF IInv, TypeOK, ControlInv, StagedInv, TakeBackup
      <3>2. mem'.prev = old BY <2>0, <3>1 DEF IInv, TypeOK
      <3>3. BackupsTaken'
        BY <1>a, <2>0, <2>2 DEF IInv, TypeOK, ControlInv, StagedInv, TakeBackup
      <3> QED BY <3>2, <3>3
    <2>3. ControlInv'
      BY <1>a, <2>0, <2>2 DEF IInv, TypeOK, ControlInv, TakeBackup, NextStaged
    <2> QED BY <2>1, <2>3
  <1>b. ASSUME dest[i] # seen PROVE TypeOK' /\ ControlInv'
    BY <1>b DEF IInv, TypeOK, ControlInv, TakeBackup, DropStage
  <1>1. TypeOK' /\ ControlInv' BY <1>a, <1>b
  <1>3. StagedInv'
    BY DEF IInv, TypeOK, ControlInv, StagedInv, TakeBackup, NextStaged, DropStage
  <1>4. DestInv'
    BY DEF IInv, TypeOK, ControlInv, DestInv, EditInv, CommittedIsComplete, TakeBackup,
         NextStaged, DropStage
  <1>5. EditInv' /\ EditSurvives'
    BY DEF IInv, TypeOK, ControlInv, EditInv, EditSurvives, Protected, TakeBackup,
         NextStaged, DropStage
  <1>6. CommittedIsComplete' /\ PriorContentKept'
    BY DEF IInv, TypeOK, ControlInv, DestInv, EditInv, CommittedIsComplete,
         PriorContentKept, TakeBackup, NextStaged, DropStage
  <1> QED BY <1>1, <1>3, <1>4, <1>5, <1>6 DEF IInv

\* A failure while staging.
LEMMA StagingFailsPreserves ==
  ASSUME IInv, StagingFails
  PROVE  IInv'
  <1>1. TypeOK'
    BY DEF IInv, TypeOK, ControlInv, StagingFails, DropStage
  <1>2. ControlInv'
    BY DEF IInv, TypeOK, ControlInv, StagedInv, StagingFails, DropStage
  <1>3. StagedInv'
    BY DEF IInv, TypeOK, ControlInv, StagedInv, StagingFails, DropStage
  <1>4. DestInv'
    BY DEF IInv, TypeOK, ControlInv, DestInv, EditInv, CommittedIsComplete,
         StagingFails, DropStage
  <1>5. EditInv' /\ EditSurvives'
    BY DEF IInv, TypeOK, ControlInv, EditInv, EditSurvives, Protected, StagingFails, DropStage
  <1>6. CommittedIsComplete' /\ PriorContentKept'
    BY DEF IInv, TypeOK, ControlInv, DestInv, EditInv, CommittedIsComplete,
         PriorContentKept, StagingFails, DropStage
  <1> QED BY <1>1, <1>2, <1>3, <1>4, <1>5, <1>6 DEF IInv

\* The journal becomes visible; publication may begin.
LEMMA WriteJournalPreserves ==
  ASSUME IInv, WriteJournal
  PROVE  IInv'
  <1>1. TypeOK'
    BY DEF IInv, TypeOK, ControlInv, WriteJournal, Record
  <1>2. ControlInv'
    <2>1. journal' \in Journals /\ ~journal'.committed
          /\ journal'.prev = mem.prev /\ journal'.new = mem.new
      BY DEF IInv, TypeOK, ControlInv, WriteJournal, Record
    <2>2. journal' # None BY <2>1
    <2>3. Uncommitted' BY <2>1, <2>2
    <2>4. /\ ~torn /\ mem \in Entries /\ mem.prev = old /\ mem.new = files
          /\ stage /\ BackupsTaken
      BY DEF IInv, ControlInv, WriteJournal
    <2>5. pc' = "check" /\ i' \in Path /\ UNCHANGED <<stage, backup, mem, old, files, torn>>
      BY DEF WriteJournal
    <2>6. BackupsTaken' BY <2>4, <2>5
    <2> HIDE DEF BackupsTaken
    <2>7. journal'.prev = old' /\ journal'.new = files' BY <2>1, <2>4, <2>5
    <2> QED BY <2>2, <2>3, <2>4, <2>5, <2>6, <2>7 DEF ControlInv
  <1>3. StagedInv'
    BY DEF IInv, TypeOK, ControlInv, StagedInv, WriteJournal, Record
  <1>4. DestInv'
    BY DEF IInv, TypeOK, ControlInv, DestInv, EditInv, CommittedIsComplete,
         WriteJournal, Record
  <1>5. EditInv' /\ EditSurvives'
    BY DEF IInv, TypeOK, ControlInv, EditInv, EditSurvives, Protected, WriteJournal, Record
  <1>6. CommittedIsComplete' /\ PriorContentKept'
    BY DEF IInv, TypeOK, ControlInv, DestInv, EditInv, CommittedIsComplete,
         PriorContentKept, WriteJournal, Record
  <1> QED BY <1>1, <1>2, <1>3, <1>4, <1>5, <1>6 DEF IInv

\* write_journal fails before publication.
LEMMA WriteJournalFailsPreserves ==
  ASSUME IInv, WriteJournalFails
  PROVE  IInv'
  <1>1. TypeOK'
    <2>1. CASE journal' = journal BY <2>1 DEF IInv, TypeOK, ControlInv,
         WriteJournalFails, Record, StartRollback
    <2>2. CASE journal' = Record(FALSE) BY <2>2 DEF IInv, TypeOK, ControlInv,
         WriteJournalFails, Record, StartRollback
    <2> QED BY <2>1, <2>2 DEF WriteJournalFails
  <1>2. ControlInv'
    BY DEF IInv, TypeOK, ControlInv, StagedInv, WriteJournalFails, Record, StartRollback
  <1>3. StagedInv'
    BY DEF IInv, TypeOK, ControlInv, StagedInv, WriteJournalFails, Record, StartRollback
  <1>4. DestInv'
    BY DEF IInv, TypeOK, ControlInv, DestInv, EditInv, CommittedIsComplete,
         WriteJournalFails, Record, StartRollback
  <1>5. EditInv' /\ EditSurvives'
    BY DEF IInv, TypeOK, ControlInv, EditInv, EditSurvives, Protected,
         WriteJournalFails, Record, StartRollback
  <1>6. CommittedIsComplete' /\ PriorContentKept'
    BY DEF IInv, TypeOK, ControlInv, DestInv, EditInv, CommittedIsComplete,
         PriorContentKept, WriteJournalFails, Record, StartRollback
  <1> QED BY <1>1, <1>2, <1>3, <1>4, <1>5, <1>6 DEF IInv

\* The destination is compared with the journal before it is replaced.
LEMMA CheckUnchangedPreserves ==
  ASSUME IInv, CheckUnchanged
  PROVE  IInv'
  <1>1. TypeOK'
    BY DEF IInv, TypeOK, ControlInv, CheckUnchanged
  <1>2. ControlInv'
    BY DEF IInv, TypeOK, ControlInv, StagedInv, CheckUnchanged
  <1>3. StagedInv'
    BY DEF IInv, TypeOK, ControlInv, StagedInv, CheckUnchanged
  <1>4. DestInv'
    BY DEF IInv, TypeOK, ControlInv, DestInv, EditInv, CommittedIsComplete, CheckUnchanged
  <1>5. EditInv' /\ EditSurvives'
    BY DEF IInv, TypeOK, ControlInv, EditInv, EditSurvives, Protected, CheckUnchanged
  <1>6. CommittedIsComplete' /\ PriorContentKept'
    BY DEF IInv, TypeOK, ControlInv, DestInv, EditInv, CommittedIsComplete,
         PriorContentKept, CheckUnchanged
  <1> QED BY <1>1, <1>2, <1>3, <1>4, <1>5, <1>6 DEF IInv

\* Publication of one file.
LEMMA PublishPreserves ==
  ASSUME IInv, Publish
  PROVE  IInv'
  <1>1. TypeOK'
    BY DEF IInv, TypeOK, ControlInv, Publish, Replace, Protected
  <1>2. ControlInv'
    BY DEF IInv, TypeOK, ControlInv, StagedInv, Publish, Replace, Protected
  <1>3. StagedInv'
    BY DEF IInv, TypeOK, ControlInv, StagedInv, Publish, Replace, Protected
  <1>4. DestInv'
    BY DEF IInv, TypeOK, ControlInv, DestInv, EditInv, CommittedIsComplete, Publish,
         Replace, Protected
  <1>5. EditInv' /\ EditSurvives'
    BY DEF IInv, TypeOK, ControlInv, EditInv, EditSurvives, Protected, Publish, Replace
  <1>6. CommittedIsComplete' /\ PriorContentKept'
    BY DEF IInv, TypeOK, ControlInv, DestInv, EditInv, CommittedIsComplete,
         PriorContentKept, Publish, Replace, Protected
  <1> QED BY <1>1, <1>2, <1>3, <1>4, <1>5, <1>6 DEF IInv

\* Publication fails before or after the replacement.
LEMMA PublishFailsPreserves ==
  ASSUME IInv, PublishFails
  PROVE  IInv'
  <1>1. TypeOK'
    <2>1. CASE Replace(mem.new[i]) BY <2>1 DEF IInv, TypeOK, ControlInv, PublishFails,
         Replace, Protected, StartRollback
    <2>2. CASE UNCHANGED <<disk, history>> BY <2>2 DEF IInv, TypeOK, ControlInv,
         PublishFails, Replace, Protected, StartRollback
    <2> QED BY <2>1, <2>2 DEF PublishFails
  <1>2. ControlInv'
    <2>1. CASE Replace(mem.new[i]) BY <2>1 DEF IInv, TypeOK, ControlInv, StagedInv,
         PublishFails, Replace, Protected, StartRollback
    <2>2. CASE UNCHANGED <<disk, history>> BY <2>2 DEF IInv, TypeOK, ControlInv,
         StagedInv, PublishFails, Replace, Protected, StartRollback
    <2> QED BY <2>1, <2>2 DEF PublishFails
  <1>3. StagedInv'
    BY DEF IInv, TypeOK, ControlInv, StagedInv, PublishFails, Replace, Protected, StartRollback
  <1>4. DestInv'
    <2>1. CASE Replace(mem.new[i]) BY <2>1 DEF IInv, TypeOK, ControlInv, DestInv,
         EditInv, CommittedIsComplete, PublishFails, Replace, Protected, StartRollback
    <2>2. CASE UNCHANGED <<disk, history>> BY <2>2 DEF IInv, TypeOK, ControlInv,
         DestInv, EditInv, CommittedIsComplete, PublishFails, Replace, Protected,
         StartRollback
    <2> QED BY <2>1, <2>2 DEF PublishFails
  <1>5. EditInv' /\ EditSurvives'
    BY DEF IInv, TypeOK, ControlInv, EditInv, EditSurvives, Protected, PublishFails,
         Replace, StartRollback
  <1>6. CommittedIsComplete' /\ PriorContentKept'
    BY DEF IInv, TypeOK, ControlInv, DestInv, EditInv, CommittedIsComplete,
         PriorContentKept, PublishFails, Replace, Protected, StartRollback
  <1> QED BY <1>1, <1>2, <1>3, <1>4, <1>5, <1>6 DEF IInv

\* The commit record.
LEMMA CommitPreserves ==
  ASSUME IInv, Commit
  PROVE  IInv'
  <1>1. TypeOK'
    BY DEF IInv, TypeOK, ControlInv, Commit, Record
  <1>2. ControlInv'
    BY DEF IInv, TypeOK, ControlInv, StagedInv, Commit, Record
  <1>3. StagedInv'
    BY DEF IInv, TypeOK, ControlInv, StagedInv, Commit, Record
  <1>4. DestInv'
    BY DEF IInv, TypeOK, ControlInv, DestInv, EditInv, CommittedIsComplete, Commit, Record
  <1>5. EditInv' /\ EditSurvives'
    BY DEF IInv, TypeOK, ControlInv, EditInv, EditSurvives, Protected, Commit, Record
  <1>6. CommittedIsComplete' /\ PriorContentKept'
    BY DEF IInv, TypeOK, ControlInv, DestInv, EditInv, CommittedIsComplete,
         PriorContentKept, Commit, Record
  <1> QED BY <1>1, <1>2, <1>3, <1>4, <1>5, <1>6 DEF IInv

\* A commit record that is visible but reported as failed.
LEMMA CommitSyncFailsPreserves ==
  ASSUME IInv, CommitSyncFails
  PROVE  IInv'
  <1>1. TypeOK'
    BY DEF IInv, TypeOK, ControlInv, CommitSyncFails, Record, StartRollback
  <1>2. ControlInv'
    BY DEF IInv, TypeOK, ControlInv, StagedInv, CommitSyncFails, Record, StartRollback
  <1>3. StagedInv'
    BY DEF IInv, TypeOK, ControlInv, StagedInv, CommitSyncFails, Record, StartRollback
  <1>4. DestInv'
    BY DEF IInv, TypeOK, ControlInv, DestInv, EditInv, CommittedIsComplete,
         CommitSyncFails, Record, StartRollback
  <1>5. EditInv' /\ EditSurvives'
    BY DEF IInv, TypeOK, ControlInv, EditInv, EditSurvives, Protected, CommitSyncFails,
         Record, StartRollback
  <1>6. CommittedIsComplete' /\ PriorContentKept'
    BY DEF IInv, TypeOK, ControlInv, DestInv, EditInv, CommittedIsComplete,
         PriorContentKept, CommitSyncFails, Record, StartRollback
  <1> QED BY <1>1, <1>2, <1>3, <1>4, <1>5, <1>6 DEF IInv

\* rollback checks an entry.
LEMMA RollbackCheckPreserves ==
  ASSUME IInv, RollbackCheck
  PROVE  IInv'
  <1>1. TypeOK'
    BY DEF IInv, TypeOK, ControlInv, RollbackCheck, MayRollBack
  <1>2. ControlInv'
    BY DEF IInv, TypeOK, ControlInv, StagedInv, RollbackCheck, MayRollBack
  <1>3. StagedInv'
    BY DEF IInv, TypeOK, ControlInv, StagedInv, RollbackCheck, MayRollBack
  <1>4. DestInv'
    BY DEF IInv, TypeOK, ControlInv, DestInv, EditInv, CommittedIsComplete,
         RollbackCheck, MayRollBack
  <1>5. EditInv' /\ EditSurvives'
    BY DEF IInv, TypeOK, ControlInv, EditInv, EditSurvives, Protected, RollbackCheck,
         MayRollBack
  <1>6. CommittedIsComplete' /\ PriorContentKept'
    BY DEF IInv, TypeOK, ControlInv, DestInv, EditInv, CommittedIsComplete,
         PriorContentKept, RollbackCheck, MayRollBack
  <1> QED BY <1>1, <1>2, <1>3, <1>4, <1>5, <1>6 DEF IInv

\* rollback returns a destination to its previous content.
LEMMA RollbackWritePreserves ==
  ASSUME IInv, RollbackWrite
  PROVE  IInv'
  <1>1. TypeOK'
    BY DEF IInv, TypeOK, ControlInv, RollbackWrite, Replace, Protected
  <1>2. ControlInv'
    BY DEF IInv, TypeOK, ControlInv, StagedInv, RollbackWrite, Replace, Protected
  <1>3. StagedInv'
    BY DEF IInv, TypeOK, ControlInv, StagedInv, RollbackWrite, Replace, Protected
  <1>4. DestInv'
    BY DEF IInv, TypeOK, ControlInv, DestInv, EditInv, CommittedIsComplete,
         RollbackWrite, Replace, Protected
  <1>5. EditInv' /\ EditSurvives'
    BY DEF IInv, TypeOK, ControlInv, EditInv, EditSurvives, Protected, RollbackWrite, Replace
  <1>6. CommittedIsComplete' /\ PriorContentKept'
    BY DEF IInv, TypeOK, ControlInv, DestInv, EditInv, CommittedIsComplete,
         PriorContentKept, RollbackWrite, Replace, Protected
  <1> QED BY <1>1, <1>2, <1>3, <1>4, <1>5, <1>6 DEF IInv

\* rollback fails before or after it replaced a destination.
LEMMA RollbackFailsPreserves ==
  ASSUME IInv, RollbackFails
  PROVE  IInv'
  <1>1. CASE UNCHANGED <<disk, history>>
    BY <1>1, InterruptionPreserves DEF RollbackFails, IInv, TypeOK
  <1>2. CASE pc = "rbWrite" /\ Replace(mem.prev[i])
    <2>1. TypeOK'
      BY <1>2 DEF IInv, TypeOK, ControlInv, RollbackFails, Replace, Protected, Return
    <2>2. ControlInv'
      BY <1>2 DEF IInv, TypeOK, ControlInv, StagedInv, RollbackFails, Replace,
           Protected, Return
    <2>3. StagedInv'
      BY <1>2 DEF IInv, TypeOK, ControlInv, StagedInv, RollbackFails, Replace,
           Protected, Return
    <2>4. DestInv'
      BY <1>2 DEF IInv, TypeOK, ControlInv, DestInv, EditInv, CommittedIsComplete,
           RollbackFails, Replace, Protected, Return
    <2>5. EditInv' /\ EditSurvives'
      BY <1>2 DEF IInv, TypeOK, ControlInv, EditInv, EditSurvives, Protected,
           RollbackFails, Replace, Return
    <2>6. CommittedIsComplete' /\ PriorContentKept'
      BY <1>2 DEF IInv, TypeOK, ControlInv, DestInv, EditInv, CommittedIsComplete,
           PriorContentKept, RollbackFails, Replace, Protected, Return
    <2> QED BY <2>1, <2>2, <2>3, <2>4, <2>5, <2>6 DEF IInv
  <1> QED BY <1>1, <1>2 DEF RollbackFails

\* Removal of one entry of the stage directory.
LEMMA RemoveEntryPreserves ==
  ASSUME IInv, RemoveEntry
  PROVE  IInv'
  <1>1. TypeOK'
    BY DEF IInv, TypeOK, ControlInv, RemoveEntry, NoBackups
  <1>2. ControlInv'
    BY DEF IInv, TypeOK, ControlInv, StagedInv, RemoveEntry, NoBackups
  <1>3. StagedInv'
    BY DEF IInv, TypeOK, ControlInv, StagedInv, RemoveEntry, NoBackups
  <1>4. DestInv'
    BY DEF IInv, TypeOK, ControlInv, DestInv, EditInv, CommittedIsComplete,
         RemoveEntry, NoBackups
  <1>5. EditInv' /\ EditSurvives'
    BY DEF IInv, TypeOK, ControlInv, EditInv, EditSurvives, Protected, RemoveEntry, NoBackups
  <1>6. CommittedIsComplete' /\ PriorContentKept'
    BY DEF IInv, TypeOK, ControlInv, DestInv, EditInv, CommittedIsComplete,
         PriorContentKept, RemoveEntry, NoBackups
  <1> QED BY <1>1, <1>2, <1>3, <1>4, <1>5, <1>6 DEF IInv

\* The stage directory is gone, and a waiting restore creates its own.
LEMMA RemoveStagePreserves ==
  ASSUME IInv, RemoveStage
  PROVE  IInv'
  <1>1. CASE todo # None
    BY <1>1, CreateStagePreserves DEF IInv, TypeOK, RemoveStage
  <1>2. CASE todo = None
    <2>1. TypeOK'
      <3>1. stage' \in BOOLEAN BY <1>2 DEF RemoveStage
      <3> QED BY <1>2, <3>1 DEF IInv, TypeOK, RemoveStage, Return
    <2>2. ControlInv'
      BY <1>2 DEF IInv, TypeOK, ControlInv, StagedInv, RemoveStage, Return
    <2>3. StagedInv'
      BY <1>2 DEF IInv, TypeOK, ControlInv, StagedInv, RemoveStage, Return
    <2>4. DestInv'
      BY <1>2 DEF IInv, TypeOK, ControlInv, DestInv, EditInv, CommittedIsComplete,
           RemoveStage, Return
    <2>5. EditInv' /\ EditSurvives'
      BY <1>2 DEF IInv, TypeOK, ControlInv, EditInv, EditSurvives, Protected,
           RemoveStage, Return
    <2>6. CommittedIsComplete' /\ PriorContentKept'
      BY <1>2 DEF IInv, TypeOK, ControlInv, DestInv, EditInv, CommittedIsComplete,
           PriorContentKept, RemoveStage, Return
    <2> QED BY <2>1, <2>2, <2>3, <2>4, <2>5, <2>6 DEF IInv
  <1> QED BY <1>1, <1>2

\* The removal of the stage directory fails, or what follows it does.
LEMMA CleanupFailsPreserves ==
  ASSUME IInv, CleanupFails
  PROVE  IInv'
  <1>1. CASE UNCHANGED stage
    BY <1>1, InterruptionPreserves DEF CleanupFails, IInv, TypeOK
  <1>2. CASE journal = None /\ backup = NoBackups /\ stage' = FALSE
    <2>1. TypeOK'
      <3>1. stage' \in BOOLEAN BY <1>2 DEF CleanupFails
      <3> QED BY <1>2, <3>1 DEF IInv, TypeOK, CleanupFails, Return
    <2>2. ControlInv'
      BY <1>2 DEF IInv, TypeOK, ControlInv, StagedInv, CleanupFails, Return
    <2>3. StagedInv'
      BY <1>2 DEF IInv, TypeOK, ControlInv, StagedInv, CleanupFails, Return
    <2>4. DestInv'
      BY <1>2 DEF IInv, TypeOK, ControlInv, DestInv, EditInv, CommittedIsComplete,
           CleanupFails, Return
    <2>5. EditInv' /\ EditSurvives'
      BY <1>2 DEF IInv, TypeOK, ControlInv, EditInv, EditSurvives, Protected,
           CleanupFails, Return
    <2>6. CommittedIsComplete' /\ PriorContentKept'
      BY <1>2 DEF IInv, TypeOK, ControlInv, DestInv, EditInv, CommittedIsComplete,
           PriorContentKept, CleanupFails, Return
    <2> QED BY <2>1, <2>2, <2>3, <2>4, <2>5, <2>6 DEF IInv
  <1> QED BY <1>1, <1>2 DEF CleanupFails

\* Another process writes or deletes a destination.
LEMMA EditPreserves ==
  ASSUME NEW p \in Path, NEW v \in Val, IInv, Edit(p, v)
  PROVE  IInv'
  <1>1. TypeOK'
    BY DEF IInv, TypeOK, ControlInv, Edit
  <1>2. ControlInv'
    BY DEF IInv, TypeOK, ControlInv, StagedInv, Edit
  <1>3. StagedInv'
    BY DEF IInv, TypeOK, ControlInv, StagedInv, Edit
  <1>4. DestInv'
    BY DEF IInv, TypeOK, ControlInv, DestInv, EditInv, CommittedIsComplete, Edit
  <1>5. EditInv' /\ EditSurvives'
    BY DEF IInv, TypeOK, ControlInv, EditInv, EditSurvives, Protected, Edit
  <1>6. CommittedIsComplete' /\ PriorContentKept'
    BY DEF IInv, TypeOK, ControlInv, DestInv, EditInv, CommittedIsComplete,
         PriorContentKept, Edit
  <1> QED BY <1>1, <1>2, <1>3, <1>4, <1>5, <1>6 DEF IInv

-----------------------------------------------------------------------------
(* The theorems *)

\* The invariant holds initially and is preserved by every step.
LEMMA Inductive ==
  /\ Init => IInv
  /\ IInv /\ [Next]_vars => IInv'
  <1>1. ASSUME Init PROVE IInv
    <2>1. NoBackups \in Tree /\ NoEdits \in [Path -> Val \cup {None}] BY DEF NoBackups, NoEdits
    <2>2. stage \in BOOLEAN /\ torn \in BOOLEAN BY <1>1 DEF Init
    <2>3. TypeOK BY <1>1, <2>1, <2>2 DEF Init, TypeOK
    <2>6. ControlInv /\ StagedInv /\ DestInv /\ EditInv
      BY <1>1 DEF Init, ControlInv, StagedInv, DestInv, EditInv
    <2>4. CommittedIsComplete /\ PriorContentKept BY <1>1 DEF Init,
         CommittedIsComplete, PriorContentKept
    <2>5. EditSurvives BY <1>1 DEF Init, EditSurvives, Protected, NoEdits
    <2> QED BY <2>3, <2>4, <2>5, <2>6 DEF IInv
  <1>2. ASSUME IInv, Next PROVE IInv'
    <2>1. CASE \E f \in Files : BeginRestore(f) BY <1>2, <2>1, BeginRestorePreserves
    <2>2. CASE BeginRecover BY <1>2, <2>2, BeginRecoverPreserves
    <2>3. CASE Step
      BY <1>2, <2>3, ReadJournalPreserves, TakeDigestPreserves, TakeBackupPreserves,
         WriteJournalPreserves, CheckUnchangedPreserves, PublishPreserves, CommitPreserves,
         RollbackCheckPreserves, StopPreserves, RollbackWritePreserves,
         RemoveEntryPreserves, RemoveStagePreserves DEF Step
    <2>4. CASE Failure
      BY <1>2, <2>4, StopPreserves, StagingFailsPreserves, WriteJournalFailsPreserves,
         AbortPreserves, PublishFailsPreserves, CommitSyncFailsPreserves,
         RollbackFailsPreserves, CleanupFailsPreserves DEF Failure
    <2>5. CASE Crash BY <1>2, <2>5, StopPreserves
    <2>6. CASE \E p \in Path, v \in Val : Edit(p, v) BY <1>2, <2>6, EditPreserves
    <2> QED BY <1>2, <2>1, <2>2, <2>3, <2>4, <2>5, <2>6 DEF Next
  <1>3. ASSUME IInv, UNCHANGED vars PROVE IInv'
    BY <1>3 DEF IInv, TypeOK, ControlInv, StagedInv, DestInv, EditInv, Protected,
                CommittedIsComplete, PriorContentKept, EditSurvives
  <1> QED BY <1>1, <1>2, <1>3

\* Every restore is all or nothing, a commit record is complete, no crash loses
\* prior content and no edit is overwritten, for any number of files, crashes,
\* failed operations and edits.
THEOREM RestoreSafety ==
  Spec => [](TypeOK /\ AllOrNothing /\ CommittedIsComplete /\ PriorContentKept /\ EditSurvives)
  <1>1. IInv => TypeOK /\ AllOrNothing /\ CommittedIsComplete /\ PriorContentKept /\ EditSurvives
    BY DEF IInv, AllOrNothing, Settled, ControlInv, DestInv
  <1> QED BY <1>1, Inductive, PTL DEF Spec

\* publish_with and its recovery keep their promise about content: whatever is
\* killed or fails, a commit record speaks of a complete restore, and what a file
\* held before is in place or still in its backup.
THEOREM RestoreKeepsContent == Spec => []RestoreSound
  <1>1. IInv => RestoreSound BY DEF IInv, RestoreSound
  <1> QED BY <1>1, Inductive, PTL DEF Spec

\* restore_is_safe and the checks before every replacement protect a foreign
\* edit: no step of a restore or of its recovery writes over one it has seen.
THEOREM EditsAreKept == Spec => []EditSurvives
  <1>1. IInv => EditSurvives BY DEF IInv
  <1> QED BY <1>1, Inductive, PTL DEF Spec

\* No edit is pending and the commit record was never torn.
QuietInv == ext = NoEdits /\ torn = FALSE

\* What every step of a quiet run does to the logical tree.
LEMMA QuietStep ==
  ASSUME MaxFaults = 0, MaxEdits = 0, IInv, QuietInv, [Next]_vars
  PROVE  QuietInv' /\ [Atomic!Next]_LogicalTree
  <1> USE DEF QuietInv, NoEdits
  <1>1. faults = 0 /\ edits = 0 BY DEF IInv, TypeOK
  <1>2. ~Failure
    BY <1>1 DEF Failure, ReadJournalFails, SecureStageFails, StagingFails, WriteJournalFails,
       CheckFails, PublishFails, CommitFails, CommitSyncFails, RollbackFails, CleanupFails
  <1>3. \A p \in Path, v \in Val : ~Edit(p, v) BY <1>1 DEF Edit
  <1>4. QuietInv'
    BY <1>2, <1>3 DEF IInv, TypeOK, ControlInv, Next, Step, BeginRestore, BeginRecover, CreateStage,
       ReadJournal, TakeDigest, TakeBackup, WriteJournal, CheckUnchanged, Publish, Commit,
       RollbackCheck, RollbackStops, RollbackWrite, Replace, Protected, RemoveEntry, RemoveStage,
       Crash
  <1> SUFFICES [Atomic!Next]_LogicalTree BY <1>4
  <1>0. \A t \in Tree : Holds(t) => dest = t
    <2> SUFFICES ASSUME NEW t \in Tree, Holds(t) PROVE dest = t OBVIOUS
    <2>1. \A p \in Path : dest[p] = t[p] OBVIOUS
    <2>2. dest \in [Path -> Val] /\ t \in [Path -> Val] BY DEF IInv, TypeOK
    <2> QED BY <2>1, <2>2
  <1> HIDE DEF Holds
  <1>5. CASE Commit
    <2>1. dest = files /\ dest' = dest
      <3>1. Holds(files) BY <1>5 DEF IInv, DestInv, Commit
      <3>2. files \in Tree BY DEF IInv, TypeOK
      <3> QED BY <1>0, <1>5, <3>1, <3>2 DEF Commit
    <2>2. LogicalTree' = dest BY <1>5, <2>1 DEF Commit, Record, LogicalTree
    <2> QED BY <2>1, <2>2 DEF IInv, TypeOK, Atomic!Next, Atomic!RestoreAll
  <1>6. CASE WriteJournal
    <2>1. dest = old /\ mem.prev = old
      BY <1>0, <1>6 DEF IInv, TypeOK, ControlInv, WriteJournal
    <2>2. LogicalTree = dest BY <1>6 DEF IInv, ControlInv, WriteJournal, LogicalTree
    <2>3. LogicalTree' = mem.prev
      BY <1>6, <2>1 DEF IInv, TypeOK, ControlInv, WriteJournal, Record, LogicalTree
    <2> QED BY <2>1, <2>2, <2>3
  <1>7. CASE Publish
    BY <1>7 DEF IInv, ControlInv, Publish, Replace, LogicalTree
  <1>8. CASE RollbackWrite
    <2>1. CASE journal = None
      <3>1. dest = old BY <1>0, <1>8, <2>1 DEF IInv, TypeOK, DestInv, RollbackWrite
      <3>2. dest' = dest BY <1>8, <3>1 DEF IInv, TypeOK, ControlInv, RollbackWrite, Replace
      <3> QED BY <1>8, <2>1, <3>2 DEF RollbackWrite, Replace, LogicalTree
    <2>2. CASE journal # None
      BY <1>8, <2>2 DEF IInv, DestInv, RollbackWrite, Replace, LogicalTree
    <2> QED BY <2>1, <2>2
  <1>9. CASE RemoveEntry
    <2>1. CASE Uncommitted /\ journal' = None
      <3>1. dest = old /\ journal.prev = old
        BY <1>0, <1>9, <2>1 DEF IInv, TypeOK, ControlInv, DestInv, RemoveEntry
      <3> QED BY <1>9, <2>1, <3>1 DEF RemoveEntry, LogicalTree
    <2>2. CASE ~(Uncommitted /\ journal' = None)
      BY <1>9, <2>2 DEF RemoveEntry, LogicalTree
    <2> QED BY <2>1, <2>2
  <1>10. CASE UNCHANGED <<dest, journal>>
    BY <1>10 DEF LogicalTree
  <1>11. \/ UNCHANGED <<dest, journal>>
         \/ Commit \/ WriteJournal \/ Publish \/ RollbackWrite \/ RemoveEntry
    BY <1>2, <1>3 DEF Next, Step, BeginRestore, BeginRecover, ReadJournal, TakeDigest, TakeBackup,
       CheckUnchanged, RollbackCheck, RollbackStops, RemoveStage, Crash
  <1> QED BY <1>4, <1>5, <1>6, <1>7, <1>8, <1>9, <1>10, <1>11

\* A restore that is only ever killed, never disturbed by failing disks or other
\* writers, is atomic: publish_with with its recovery implements AtomicRestore.
THEOREM RestoreIsAtomic ==
  ASSUME MaxFaults = 0, MaxEdits = 0
  PROVE  Spec => AtomicSpec
  <1>1. Init => QuietInv /\ Atomic!Init
    BY DEF Init, QuietInv, LogicalTree, Atomic!Init
  <1>2. IInv /\ QuietInv /\ [Next]_vars => QuietInv' /\ [Atomic!Next]_LogicalTree
    BY QuietStep
  <1> QED BY <1>1, <1>2, Inductive, PTL DEF Spec, AtomicSpec, Atomic!Spec
=============================================================================
