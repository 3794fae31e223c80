----------------------------- MODULE KeyBackup -----------------------------
(***************************************************************************)
(* The passphrase backup of a recovery kit                                 *)
(* (apps/cli/src/commands/recovery_key.rs, crates/recovery/src/kit.rs,     *)
(* crates/crypto/src/passphrase_backup.rs).  `recovery key-backup` parses  *)
(* a kit or combines guardian sheets, seals the canonical text under a     *)
(* passphrase, stores the envelope on every operator it can sign in to and *)
(* reads it back, and records the backup when enough have confirmed it.    *)
(* `recovery key-restore` fetches the envelope by its digest from any      *)
(* operator and writes the kit.  Operators refuse, lose answers, and lose  *)
(* or damage what they hold; either command may die at any step.  An       *)
(* envelope is named by the order of sealing, which stands for its digest: *)
(* salt and nonce are fresh, so no two are equal.                          *)
(***************************************************************************)
EXTENDS Naturals, Sequences, FiniteSets

CONSTANTS
    BackupEndpoints,   \* the configured endpoints, after MultiOperatorPool::new
    BackupOperatorOf,  \* the operator an endpoint leads to
    BackupReplicas,    \* --replicas
    Phrases, ShortPhrases,
    MaxSeals, MaxBackupFaults  \* bounds

ASSUME BackupAssumption ==
    /\ BackupReplicas \in Nat \ {0}           \* resolve_required_replicas
    /\ ShortPhrases \subseteq Phrases
    /\ IsFiniteSet(BackupEndpoints) /\ "none" \notin BackupEndpoints
    /\ MaxSeals \in Nat /\ MaxBackupFaults \in Nat

VARIABLES
    seals,        \* the envelopes: what each was sealed from and under
    keyObjects,   \* operator -> envelope -> "none", "whole" or "damaged"
    backup,       \* the backup command
    keyRecords,   \* envelope -> the recorded backups (activity rows)
    restoring,    \* the restore command
    kitOutput,    \* the file a restore writes
    backupFaults
keyBackupVars ==
    <<seals, keyObjects, backup, keyRecords, restoring, kitOutput, backupFaults>>

BackupOperators == {BackupOperatorOf[e] : e \in BackupEndpoints}
Seals == 1 .. MaxSeals
NoKit == [secret |-> "none", sum |-> "none", urls |-> {}]
Foreign == [secret |-> "other", sum |-> "other", urls |-> {}]

(***************************************************************************)
(* A printed kit: its secret, what its checksum and public descriptors     *)
(* were computed from, and its endpoints.  Parsing keeps the http ones,    *)
(* and refuses a kit whose secret does not match the rest.                 *)
(***************************************************************************)
KitTexts == [secret : {"R", "typo"}, sum : {"R"}, urls : SUBSET {"http", "p2p"}]
ValidateAndExtractSecret(kit) == kit.secret = kit.sum
ParseKit(text) ==
    IF ValidateAndExtractSecret(text) THEN [text EXCEPT !.urls = @ \cap {"http"}] ELSE NoKit

(* Guardian sheets of one split or of several: sheets that do not belong   *)
(* together are refused.                                                   *)
SheetSets == [splits : {{"a"}, {"a", "b"}}, urls : SUBSET {"http", "p2p"}]
CombineSheets(sheet) ==
    IF Cardinality(sheet.splits) = 1
    THEN [secret |-> "R", sum |-> "R", urls |-> sheet.urls \cap {"http"}] ELSE NoKit

(* load_canonical_kit_text *)
CanonicalKits ==
    ({ParseKit(t) : t \in KitTexts} \cup {CombineSheets(s) : s \in SheetSets}) \ {NoKit}

(* check_passphrase_pair *)
PassphrasePair(first, second) == first = second /\ first \notin ShortPhrases

(* seal_passphrase_backup and open_passphrase_backup, of a whole envelope. *)
SealBackup(kit, phrase) == [kit |-> kit, phrase |-> phrase]
OpenBackup(l, phrase) == IF seals[l].phrase = phrase THEN seals[l].kit ELSE NoKit

-----------------------------------------------------------------------------
NoBackup == [at |-> "idle", locator |-> 0, todo |-> {}, on |-> "none", confirmed |-> {},
             intact |-> {}]
NoRestore == [at |-> "idle", locator |-> 0]
NotRecorded == [confirmed |-> {}, intact |-> {}]

KeyBackupInit ==
    /\ seals = <<>>
    /\ keyObjects = [o \in BackupOperators |-> [l \in Seals |-> "none"]]
    /\ backup = NoBackup
    /\ keyRecords = [l \in Seals |-> NotRecorded]
    /\ restoring = NoRestore
    /\ kitOutput = NoKit
    /\ backupFaults = 0

BackupFault == backupFaults < MaxBackupFaults /\ backupFaults' = backupFaults + 1
Holds(o, what) == keyObjects' = [keyObjects EXCEPT ![o][backup.locator] = what]

(***************************************************************************)
(* cmd_recovery_key_backup up to the uploads: the endpoints of authed let  *)
(* the device sign in; with none of them nothing is stored.                *)
(***************************************************************************)
BeginBackup(kit, first, second, authed) ==
    /\ backup.at = "idle" /\ Len(seals) < MaxSeals
    /\ PassphrasePair(first, second) /\ authed # {}
    /\ seals' = Append(seals, SealBackup(kit, first))
    /\ backup' = [NoBackup EXCEPT !.at = "put", !.locator = Len(seals) + 1, !.todo = authed]
    /\ UNCHANGED <<keyObjects, keyRecords, restoring, kitOutput, backupFaults>>

(* put_object: stored, or failed, perhaps with only the answer lost. *)
PutEnvelope(e) ==
    /\ backup.at = "put" /\ e \in backup.todo
    /\ Holds(BackupOperatorOf[e], "whole")
    /\ backup' = [backup EXCEPT !.at = "get", !.todo = @ \ {e}, !.on = e]
    /\ UNCHANGED <<seals, keyRecords, restoring, kitOutput, backupFaults>>
PutEnvelopeFails(e) ==
    /\ backup.at = "put" /\ e \in backup.todo /\ BackupFault
    /\ Holds(BackupOperatorOf[e], "whole") \/ UNCHANGED keyObjects
    /\ backup' = [backup EXCEPT !.todo = @ \ {e}]
    /\ UNCHANGED <<seals, keyRecords, restoring, kitOutput>>

(* get_object and the comparison: an endpoint is counted only when what it  *)
(* returns is the envelope.                                                 *)
ReadBackTrusted(e) == TRUE
ReadBack(e) == keyObjects[BackupOperatorOf[e]][backup.locator] = "whole"

ConfirmReplica ==
    /\ backup.at = "get"
    /\ backup' = [backup EXCEPT !.at = "put", !.on = "none",
          !.confirmed = IF ReadBack(backup.on) THEN @ \cup {backup.on} ELSE @,
          !.intact = IF ReadBack(backup.on) THEN @ \cup {backup.on} ELSE @]
    /\ UNCHANGED <<seals, keyObjects, keyRecords, restoring, kitOutput, backupFaults>>
ReadBackFails ==
    /\ backup.at = "get" /\ BackupFault
    /\ backup' = [backup EXCEPT !.at = "put", !.on = "none"]
    /\ UNCHANGED <<seals, keyObjects, keyRecords, restoring, kitOutput>>

(* The end of cmd_recovery_key_backup: the quorum, and the activity row. *)
RecordBackup ==
    /\ backup.at = "put" /\ backup.todo = {}
    /\ keyRecords' = IF Cardinality(backup.confirmed) < BackupReplicas THEN keyRecords
                     ELSE [keyRecords EXCEPT ![backup.locator] =
                             [confirmed |-> backup.confirmed, intact |-> backup.intact]]
    /\ backup' = NoBackup
    /\ UNCHANGED <<seals, keyObjects, restoring, kitOutput, backupFaults>>

-----------------------------------------------------------------------------
(* fetch_object_from_any: an answer whose digest is not the locator is      *)
(* passed over.                                                             *)
FetchObjectFromAny(l, ends) == \E e \in ends : keyObjects[BackupOperatorOf[e]][l] = "whole"

(* cmd_recovery_key_restore up to the prompt. *)
FetchBackup(l, ends) ==
    /\ restoring.at = "idle" /\ ends # {}
    /\ kitOutput = NoKit
    /\ FetchObjectFromAny(l, ends)
    /\ restoring' = [at |-> "prompt", locator |-> l]
    /\ UNCHANGED <<seals, keyObjects, backup, keyRecords, kitOutput, backupFaults>>

(* The rest of it: what the passphrase opens must be a kit before the file, *)
(* whose absence was checked before the prompt, is written.                 *)
WriteKit(phrase) ==
    LET kit == ParseKit(OpenBackup(restoring.locator, phrase)) IN
    /\ restoring.at = "prompt"
    /\ kitOutput' = IF OpenBackup(restoring.locator, phrase) = NoKit THEN kitOutput ELSE kit
    /\ restoring' = NoRestore
    /\ UNCHANGED <<seals, keyObjects, backup, keyRecords, backupFaults>>

-----------------------------------------------------------------------------
(* Somebody else writes the output file, or takes it away. *)
OutputChanges ==
    /\ kitOutput' = IF kitOutput = NoKit THEN Foreign ELSE NoKit
    /\ UNCHANGED <<seals, keyObjects, backup, keyRecords, restoring, backupFaults>>

(* A command is interrupted. *)
BackupDies ==
    /\ BackupFault /\ (backup.at # "idle" \/ restoring.at # "idle")
    /\ backup' = NoBackup /\ restoring' = NoRestore
    /\ UNCHANGED <<seals, keyObjects, keyRecords, kitOutput>>

(* An operator loses or damages an envelope. *)
OperatorHarms(o, l, what) ==
    LET spared(ends) == {e \in ends : BackupOperatorOf[e] # o} IN
    /\ BackupFault /\ keyObjects[o][l] = "whole"
    /\ keyObjects' = [keyObjects EXCEPT ![o][l] = what]
    /\ keyRecords' = [keyRecords EXCEPT ![l].intact = spared(@)]
    /\ backup' = IF backup.locator = l THEN [backup EXCEPT !.intact = spared(@)] ELSE backup
    /\ UNCHANGED <<seals, restoring, kitOutput>>

KeyBackupNext ==
    \/ \E kit \in CanonicalKits, p, q \in Phrases, authed \in SUBSET BackupEndpoints :
          BeginBackup(kit, p, q, authed)
    \/ \E e \in BackupEndpoints : PutEnvelope(e)
    \/ \E e \in BackupEndpoints : PutEnvelopeFails(e)
    \/ ConfirmReplica
    \/ ReadBackFails
    \/ RecordBackup
    \/ \E l \in Seals, ends \in SUBSET BackupEndpoints : FetchBackup(l, ends)
    \/ \E p \in Phrases : WriteKit(p)
    \/ OutputChanges
    \/ BackupDies
    \/ \E o \in BackupOperators, l \in Seals, what \in {"none", "damaged"} :
          OperatorHarms(o, l, what)

KeyBackupSpec == KeyBackupInit /\ [][KeyBackupNext]_keyBackupVars

-----------------------------------------------------------------------------
(* The backup's variables have these values. *)
KeyBackupTypeOK ==
    /\ seals \in Seq([kit : CanonicalKits, phrase : Phrases]) /\ Len(seals) \in 0 .. MaxSeals
    /\ keyObjects \in [BackupOperators -> [Seals -> {"none", "whole", "damaged"}]]
    /\ backup.at \in {"idle", "put", "get"} /\ backup.locator \in 0 .. Len(seals)
    /\ backup.confirmed \cup backup.todo \cup backup.intact \subseteq BackupEndpoints
    /\ keyRecords \in [Seals -> [confirmed : SUBSET BackupEndpoints,
                                 intact : SUBSET BackupEndpoints]]
    /\ restoring.at \in {"idle", "prompt"} /\ restoring.locator \in 0 .. Len(seals)
    /\ kitOutput \in CanonicalKits \cup {NoKit, Foreign}
    /\ backupFaults \in 0 .. MaxBackupFaults

(***************************************************************************)
(* A recorded backup was confirmed by as many endpoints as it required,    *)
(* and whichever answers were lost and whatever happened between upload    *)
(* and readback, it can be restored with its passphrase, to the very kit   *)
(* that was sealed, through any confirming endpoint whose operator has not *)
(* lost it since ("confirmed < required", recovery_key.rs:177).            *)
(***************************************************************************)
RecordedRestores ==
    \A l \in Seals :
        keyRecords[l] # NotRecorded =>
            /\ Cardinality(keyRecords[l].confirmed) >= BackupReplicas
            /\ \A e \in keyRecords[l].intact : FetchObjectFromAny(l, {e})
            /\ ParseKit(OpenBackup(l, seals[l].phrase)) = seals[l].kit
=============================================================================
