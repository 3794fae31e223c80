----------------------------- MODULE AuditChain -----------------------------
(***************************************************************************)
(* The account service's audit log and its off-host copies (services/      *)
(* account audit_chain, disaster_recovery and the export route): events    *)
(* appended under the database lock and chained by hash, the chain walked  *)
(* in the order of (created_at_utc, rowid), exported page by page while    *)
(* writers go on, backed up online and rehearsed from the backup.          *)
(* An event is identified with its hash, which is its rowid: prev = 0 is   *)
(* the genesis hash.                                                       *)
(***************************************************************************)
EXTENDS Naturals, Sequences, FiniteSets, SequencesExt

CONSTANTS
    ClockSteps,             \* how far the wall clock may be set back
    PageLimit,
    MaxEvents, MaxAuditTime, MaxAuditSteps

ASSUME AuditChainAssumption ==
    /\ {ClockSteps, MaxEvents, MaxAuditTime, MaxAuditSteps} \subseteq Nat
    /\ ClockSteps <= MaxAuditTime
    /\ PageLimit \in Nat \ {0}

VARIABLES
    auditStore,          \* [events, sessions]: the live database
    auditClock,
    walk,           \* the client's walk over the export
    backup,         \* the backup and the process writing it
    drill,          \* the rehearsal; was: its copy before the revocation (history)
    past,           \* every state the database was in (history)
    auditSteps

auditVars == <<auditStore, auditClock, walk, backup, drill, past, auditSteps>>

Event == [at : 0..MaxAuditTime, prev : 0..MaxEvents]
NoFile == [is |-> "none"]

AuditTypeOK ==
    /\ auditStore.events \in Seq(Event) /\ auditStore.sessions \in 0..2
    /\ auditClock \in 0..MaxAuditTime
    /\ walk.cursor \in 0..MaxEvents /\ walk.got \in Seq(1..MaxEvents)
    /\ walk.state \in {"walking", "complete", "broken"}
    /\ backup.phase \in {"idle", "pinned", "copied", "receipted"}
    /\ drill.phase \in {"idle", "checked", "copied", "validated", "revoked", "reported"}
    /\ auditSteps \in 0..MaxAuditSteps

AuditInit ==
    /\ auditStore = [events |-> <<>>, sessions |-> 0]
    /\ auditClock = ClockSteps
    /\ walk = [cursor |-> 0, got |-> <<>>, state |-> "walking", upTo |-> 0]
    /\ backup = [phase |-> "idle", snap |-> NoFile, file |-> NoFile, receipt |-> NoFile]
    /\ drill = [phase |-> "idle", file |-> NoFile, was |-> NoFile, report |-> FALSE]
    /\ past = {auditStore}
    /\ auditSteps = 0

-----------------------------------------------------------------------------
(* The chain. *)

(* ORDER BY created_at_utc, rowid. *)
Before(events, i, j) ==
    \/ events[i].at < events[j].at
    \/ events[i].at = events[j].at /\ i <= j
Rank(events, i) == Cardinality({j \in DOMAIN events : Before(events, j, i)})
InOrder(events) ==
    [k \in DOMAIN events |-> CHOOSE i \in DOMAIN events : Rank(events, i) = k]

\* Mutant: the head is the last row of an earlier second.
HeadOldest(events) ==
    IF events = <<>> THEN 0 ELSE InOrder(events)[1]
(* The head the writer links to. *)
Head0(events) ==
    IF events = <<>> THEN 0 ELSE Last(InOrder(events))

(* row_linkage_ok along the rows, from a seed hash. *)
LinkedFrom(events, rows, seed) ==
    \A k \in DOMAIN rows :
        events[rows[k]].prev = IF k = 1 THEN seed ELSE rows[k - 1]
(* verify_chain *)
VerifyChain(events) == LinkedFrom(events, InOrder(events), 0)

(* audit_secret_event: every audited operation appends under the lock, at  *)
(* the clock it reads there.                                               *)
AuditSecretEvent ==
    /\ Len(auditStore.events) < MaxEvents
    /\ auditStore' = [auditStore EXCEPT !.events =
                    Append(@, [at |-> auditClock, prev |-> Head0(@)])]
    /\ UNCHANGED <<auditClock, walk, backup, drill>>
(* Sign-ins of the same database, which a restored copy must not revive.   *)
OpenSession ==
    /\ auditStore.sessions < 2
    /\ auditStore' = [auditStore EXCEPT !.sessions = @ + 1]
    /\ UNCHANGED <<auditClock, walk, backup, drill>>

(* The wall clock runs, and is set back by at most ClockSteps.             *)
AuditClockTicks ==
    /\ \/ auditClock < MaxAuditTime /\ auditClock' = auditClock + 1
       \/ \E back \in 1..ClockSteps : back <= auditClock /\ auditClock' = auditClock - back
    /\ UNCHANGED <<auditStore, walk, backup, drill>>

-----------------------------------------------------------------------------
(* The export. *)

\* Mutant: the page after a cursor starts with the next second.
RowsAfterSecond(events, cursor) ==
    LET upTo == IF cursor = 0 THEN 0
                ELSE Cardinality({j \in DOMAIN events : events[j].at <= events[cursor].at}) IN
    SubSeq(InOrder(events), upTo + 1, Len(events))
(* The rows after the cursor, in order.                                    *)
RowsAfter(events, cursor) ==
    LET upTo == IF cursor = 0 THEN 0 ELSE Rank(events, cursor) IN
    SubSeq(InOrder(events), upTo + 1, Len(events))

(* verify_and_export_audit_page, one snapshot per page, over-fetching one  *)
(* row to learn whether another page follows.                              *)
AuditPage(cursor) ==
    LET rows == RowsAfter(auditStore.events, cursor)
        page == SubSeq(rows, 1, IF Len(rows) < PageLimit THEN Len(rows) ELSE PageLimit) IN
    [rows |-> page, more |-> Len(rows) > PageLimit,
     valid |-> LinkedFrom(auditStore.events, page, cursor)]
GetAuditExportPage ==
    LET page == AuditPage(walk.cursor) IN
    /\ walk.state = "walking"
    /\ walk' = IF ~page.valid THEN [walk EXCEPT !.state = "broken"]
               ELSE [walk EXCEPT !.got = @ \o page.rows,
                                 !.cursor = IF page.more THEN Last(page.rows) ELSE @,
                                 !.state = IF page.more THEN @ ELSE "complete",
                                 !.upTo = Len(auditStore.events)]
    /\ UNCHANGED <<auditStore, auditClock, backup, drill>>

-----------------------------------------------------------------------------
(* The backup: a read transaction is pinned, the pages are copied, the     *)
(* copy is checked, and the receipt is written last.  A crash leaves the   *)
(* new directory as it is; the next backup needs another directory.        *)

PinSource ==
    /\ backup.phase = "idle"
    /\ backup' = [backup EXCEPT !.phase = "pinned", !.snap = auditStore,
                                !.file = NoFile, !.receipt = NoFile]
    /\ UNCHANGED <<auditStore, auditClock, walk, drill>>
\* Mutant: the pages are copied without a pinned transaction.
CopyUnpinned ==
    /\ backup.phase = "pinned"
    /\ backup' = [backup EXCEPT !.phase = "copied",
                                !.file = [backup.snap EXCEPT !.sessions = auditStore.sessions]]
    /\ UNCHANGED <<auditStore, auditClock, walk, drill>>
CopyConsistent ==
    /\ backup.phase = "pinned"
    /\ backup' = [backup EXCEPT !.phase = "copied", !.file = backup.snap]
    /\ UNCHANGED <<auditStore, auditClock, walk, drill>>

(* validate_database fails on a damaged file and on a broken chain.        *)
ValidDatabase(file) == "events" \in DOMAIN file /\ VerifyChain(file.events)
(* backup_accounts after the copy: validation, digest, receipt.            *)
WriteReceipt ==
    /\ backup.phase = "copied" /\ ValidDatabase(backup.file)
    /\ backup' = [backup EXCEPT !.phase = "receipted", !.receipt = backup.file]
    /\ UNCHANGED <<auditStore, auditClock, walk, drill>>
BackupFails ==
    /\ backup.phase \in {"pinned", "copied"}
    /\ backup' = [backup EXCEPT !.phase = "idle"]
    /\ UNCHANGED <<auditStore, auditClock, walk, drill>>
(* The medium loses bits of the stored backup.                             *)
DamageBackup ==
    /\ backup.file # NoFile
    /\ backup' = [backup EXCEPT !.file = [is |-> "damaged"]]
    /\ UNCHANGED <<auditStore, auditClock, walk, drill>>

-----------------------------------------------------------------------------
(* rehearse_restore, step by step, each of which may also fail.            *)

Rehearse(from, to, guard, file) ==
    /\ drill.phase = from /\ guard
    /\ drill' = [drill EXCEPT !.phase = to, !.file = file,
                              !.was = IF to = "revoked" THEN @ ELSE file]
    /\ UNCHANGED <<auditStore, auditClock, walk, backup>>

DigestMatches(file) == backup.receipt # NoFile /\ file = backup.receipt
CheckBackup == Rehearse("idle", "checked", DigestMatches(backup.file), NoFile)
CopyBackup == Rehearse("checked", "copied", TRUE, backup.file)
\* Mutant: the copy is not digested again.
ValidateUndigested ==
    Rehearse("copied", "validated", TRUE, drill.file)
ValidateCopy ==
    Rehearse("copied", "validated", DigestMatches(drill.file) /\ ValidDatabase(drill.file), drill.file)
(* One transaction revokes the copied sessions and deletes challenges,     *)
(* handoffs and proofs.                                                    *)
RevokeCopied ==
    Rehearse("validated", "revoked", TRUE, [drill.file EXCEPT !.sessions = 0])
WriteReport ==
    /\ drill.phase = "revoked"
    /\ drill' = [drill EXCEPT !.phase = "reported", !.report = TRUE]
    /\ UNCHANGED <<auditStore, auditClock, walk, backup>>
RehearsalFails ==
    /\ drill.phase \in {"checked", "copied", "validated", "revoked"}
    /\ drill' = [drill EXCEPT !.phase = "idle", !.file = NoFile]
    /\ UNCHANGED <<auditStore, auditClock, walk, backup>>

AuditStep ==
    \/ AuditSecretEvent \/ OpenSession \/ AuditClockTicks \/ GetAuditExportPage
    \/ PinSource \/ CopyConsistent \/ WriteReceipt \/ BackupFails \/ DamageBackup
    \/ CheckBackup \/ CopyBackup \/ ValidateCopy \/ RevokeCopied \/ WriteReport
    \/ RehearsalFails
AuditNext ==
    /\ auditSteps < MaxAuditSteps /\ auditSteps' = auditSteps + 1
    /\ AuditStep
    /\ past' = past \cup {auditStore'}

AuditSpec == AuditInit /\ [][AuditNext]_auditVars

-----------------------------------------------------------------------------
(* PROPERTY (audit_chain.rs:267, "Recomputes a tenant's hash chain in      *)
(* append order").  The chain the writers leave behind verifies: nothing   *)
(* that the service itself appends reads as tampering.                     *)
ChainVerifies == VerifyChain(auditStore.events)

(* PROPERTY (verify_and_export_audit_page).  The pages of a walk from      *)
(* genesis, taken while writers append, put together are the beginning of  *)
(* the chain with no event missing or twice, and a completed walk has      *)
(* every event there was when its last page was taken.                     *)
WalkIsPrefix ==
    /\ walk.got = SubSeq(InOrder(auditStore.events), 1, Len(walk.got))
    /\ walk.state = "complete" => Len(walk.got) = walk.upTo

(* PROPERTY (rehearse_restore).  A rehearsal reports success only for a    *)
(* copy that is the database as it was at one moment, whatever was written *)
(* during the backup or lost from the medium since, and with no session    *)
(* left in it.                                                             *)
ReportedIsReal ==
    drill.report => drill.was \in past /\ drill.file = [drill.was EXCEPT !.sessions = 0]

(* What the audit chain, its export and the backup rehearsal promise       *)
(* (audit_chain.rs, disaster_recovery.rs).                                 *)
AuditSound == AuditTypeOK /\ ChainVerifies /\ WalkIsPrefix /\ ReportedIsReal
=============================================================================
