--------------------------- MODULE VaultRecovery ---------------------------
(***************************************************************************)
(* The life of a vault across devices: a device captures and publishes     *)
(* snapshots and rotates its epoch key, its machine is lost, and the vault *)
(* is recovered from the offline kit or from guardian shares onto a fresh  *)
(* device that goes on publishing (apps/cli/src/commands/recover.rs,       *)
(* recovery_kit.rs, init.rs; crates/recovery/src/kit.rs, trust.rs;         *)
(* crates/local-store/src/db.rs). A publication may be cut short between   *)
(* its records and its head, a recovery may read incomplete logs, and a    *)
(* device given up for lost may come back. Uploads that fail and are       *)
(* retried are the subject of Capture. Signatures are taken as unforgeable *)
(* and a secret reconstructed from mixed shares as different from R.       *)
(***************************************************************************)
EXTENDS Naturals, Sequences, FiniteSets

CONSTANTS NumDevices,     \* devices, certified in order
          MaxSnapshots, MaxEpoch, MaxReads,  \* bounds
          Splits,         \* splits of the kit into guardian shares
          NumShares, Threshold

ASSUME RecoveryAssumption ==
  /\ NumDevices \in Nat \ {0} /\ MaxEpoch \in Nat \ {0}
  /\ NumShares \in Nat /\ Threshold \in 2..NumShares

VARIABLES
  stores,     \* the local store of each device
  snapshots,  \* snapshot records, by number
  recordLog,  \* the recovery records the operators hold
  sheets,     \* guardian shares written, <<split, index>>
  recovery,   \* the recovery command
  branched,   \* a head was published that does not follow the newest
  reads       \* recoveries so far

recoveryVars == <<stores, snapshots, recordLog, sheets, recovery, branched, reads>>

VaultDevices == 1..NumDevices
NoStore == [alive |-> FALSE]

Genesis == [kind |-> "genesis"]
Cert(d) == [kind |-> "cert", device |-> d]
Envelope(d, epoch, key) == [kind |-> "envelope", device |-> d, epoch |-> epoch, key |-> key]
HeadOf(n) == [kind |-> "head", snapshot |-> n]
PublishedHeads == {r.snapshot : r \in {x \in recordLog : x.kind = "head"}}

InitVaultAtFirstEpoch(d, epoch, key, head) ==
  [alive |-> TRUE, epoch |-> 1, key |-> key, counter |-> 0, head |-> head, upload |-> 0]

\* init_vault_at_epoch: a store for a freshly certified device. An epoch key is
\* named after the device and epoch that minted it.
InitVaultAtEpoch(d, epoch, key, head) ==
  [alive |-> TRUE, epoch |-> epoch, key |-> key, counter |-> 0, head |-> head, upload |-> 0]

NoRecovery == [stage |-> "idle", said |-> "nothing", read |-> {}, partial |-> FALSE,
               head |-> 0, key |-> <<0, 0>>]

\* cmd_init on the first device.
RecoveryInit ==
  /\ stores = [d \in VaultDevices |->
                IF d = 1 THEN InitVaultAtEpoch(1, 1, <<1, 1>>, 0) ELSE NoStore]
  /\ snapshots = <<>>
  /\ recordLog = {} /\ sheets = {}
  /\ recovery = NoRecovery
  /\ branched = FALSE /\ reads = 0

-----------------------------------------------------------------------------
(* The device at work *)

\* cmd_push up to the upload: capture, save, count, move the active head.
CaptureSnapshot(d) ==
  /\ stores[d].alive /\ stores[d].upload = 0 /\ Len(snapshots) < MaxSnapshots
  /\ snapshots' = Append(snapshots,
       [device |-> d, counter |-> stores[d].counter + 1, parent |-> stores[d].head,
        epoch |-> stores[d].epoch, key |-> stores[d].key])
  /\ stores' = [stores EXCEPT ![d] =
       [stores[d] EXCEPT !.counter = @ + 1, !.head = Len(snapshots) + 1,
                         !.upload = Len(snapshots) + 1]]
  /\ UNCHANGED <<recordLog, sheets, recovery, branched, reads>>

\* prepare_recovery_set_signed: genesis, certificate and envelope of a snapshot.
RecoverySet(n) == {Genesis, Cert(snapshots[n].device),
                   Envelope(snapshots[n].device, snapshots[n].epoch, snapshots[n].key)}

PublishRecords(d) ==
  /\ stores[d].alive /\ stores[d].upload /= 0
  /\ ~RecoverySet(stores[d].upload) \subseteq recordLog
  /\ recordLog' = recordLog \cup RecoverySet(stores[d].upload)
  /\ UNCHANGED <<stores, snapshots, sheets, recovery, branched, reads>>

PublishHead(d) ==
  LET n == stores[d].upload IN
  /\ stores[d].alive /\ n /= 0 /\ RecoverySet(n) \subseteq recordLog
  /\ recordLog' = recordLog \cup {HeadOf(n)}
  /\ stores' = [stores EXCEPT ![d].upload = 0]
  /\ branched' = (branched \/ \E m \in PublishedHeads : \A k \in PublishedHeads :
                               k <= m /\ m /= snapshots[n].parent)
  /\ UNCHANGED <<snapshots, sheets, recovery, reads>>

\* The push is cut short; the capture stays in the store, its head unpublished.
PublishInterrupted(d) ==
  /\ stores[d].alive /\ stores[d].upload /= 0
  /\ stores' = [stores EXCEPT ![d].upload = 0]
  /\ UNCHANGED <<snapshots, recordLog, sheets, recovery, branched, reads>>

\* rotate_epoch_key.
RotateEpochKey(d) ==
  /\ stores[d].alive /\ stores[d].upload = 0 /\ stores[d].epoch < MaxEpoch
  /\ stores' = [stores EXCEPT ![d].epoch = @ + 1, ![d].key = <<d, stores[d].epoch + 1>>]
  /\ UNCHANGED <<snapshots, recordLog, sheets, recovery, branched, reads>>

LoseDevice(d) ==
  /\ stores[d].alive
  /\ stores' = [stores EXCEPT ![d] = NoStore]
  /\ UNCHANGED <<snapshots, recordLog, sheets, recovery, branched, reads>>

\* split_kit: one share per guardian.
Shares(s) == {<<s, i>> : i \in 1..NumShares}

\* cmd_recovery_split writes one sheet per guardian.
SplitKit(s) ==
  /\ ~\E sheet \in sheets : sheet[1] = s
  /\ sheets' = sheets \cup Shares(s)
  /\ UNCHANGED <<stores, snapshots, recordLog, recovery, branched, reads>>

-----------------------------------------------------------------------------
(* cmd_recover *)

\* combine_kits: enough sheets, distinct guardians, and a secret that matches
\* the descriptors printed on them.
CombineKits(some) ==
  /\ Cardinality(some) >= Threshold
  /\ \A a, b \in some : a[2] = b[2] => a = b
  /\ \A a, b \in some : a[1] = b[1]

\* The kit is opened and the operators are asked for the vault's records; a
\* record may be missing from every operator that answers.
ReadRecords(missing) ==
  /\ recovery.stage = "idle" /\ reads < MaxReads
  /\ recordLog /= {}
  /\ missing \subseteq recordLog
  /\ recovery' = [NoRecovery EXCEPT !.stage = "read", !.read = recordLog \ missing,
                                    !.partial = missing /= {}]
  /\ reads' = reads + 1
  /\ UNCHANGED <<stores, snapshots, recordLog, sheets, branched>>

RecoverWithShares(some) == CombineKits(some) /\ ReadRecords({})

\* Heads signed by a device the recovery root certified.
TrustedHeads(read) ==
  {n \in {r.snapshot : r \in {x \in read : x.kind = "head"}} :
     Cert(snapshots[n].device) \in read}

\* select_head, without a conflict between counters: the heads that are no
\* parent of another.
Maximal(read) ==
  TrustedHeads(read) \ {snapshots[n].parent : n \in TrustedHeads(read)}

CountersConflict(read) ==
  \E m, n \in TrustedHeads(read) :
    m /= n /\ snapshots[m].device = snapshots[n].device
    /\ snapshots[m].counter = snapshots[n].counter

SelectHead ==
  /\ recovery.stage = "read"
  /\ recovery' =
       IF ~CountersConflict(recovery.read) /\ Cardinality(Maximal(recovery.read)) = 1
       THEN [recovery EXCEPT !.stage = "selected",
                             !.head = CHOOSE n \in Maximal(recovery.read) : TRUE]
       ELSE [recovery EXCEPT !.stage = "idle", !.read = {},
               !.said = IF TrustedHeads(recovery.read) = {} THEN "no head" ELSE "fork"]
  /\ UNCHANGED <<stores, snapshots, recordLog, sheets, branched, reads>>

EnvelopesOfEpoch(read, n) ==
  {r \in read : r.kind = "envelope" /\ r.epoch = snapshots[n].epoch}

\* select_envelope: an envelope of the snapshot's epoch by the snapshot's device.
Envelopes(read, n) ==
  {r \in read : r.kind = "envelope" /\ r.epoch = snapshots[n].epoch
                /\ r.device = snapshots[n].device}

\* Envelope, manifest and chunks; the files are restored.
RestoreFiles ==
  /\ recovery.stage = "selected"
  /\ recovery' \in
       {[recovery EXCEPT !.stage = "restored", !.key = e.key] :
          e \in Envelopes(recovery.read, recovery.head)}
       \cup (IF Envelopes(recovery.read, recovery.head) = {}
             THEN {[NoRecovery EXCEPT !.said = "no envelope"]} ELSE {})
  /\ UNCHANGED <<stores, snapshots, recordLog, sheets, branched, reads>>

\* rebuild_store_after_recovery: a store for a new device at the recovered epoch
\* and head; in place of an existing store only with --force. Its writes are one
\* step: a rebuild that dies between them is not modelled.
RebuildStore(d, over) ==
  /\ recovery.stage = "restored" /\ Genesis \in recovery.read
  /\ \A e \in VaultDevices : e < d => stores[e].alive \/ \E n \in DOMAIN snapshots :
                                                          snapshots[n].device = e
  /\ ~stores[d].alive /\ ~\E n \in DOMAIN snapshots : snapshots[n].device = d
  /\ stores' = [e \in VaultDevices |->
       IF e = d THEN InitVaultAtEpoch(d, snapshots[recovery.head].epoch,
                                      recovery.key, recovery.head)
       ELSE IF e = over THEN NoStore ELSE stores[e]]
  /\ recovery' = [NoRecovery EXCEPT !.said = "recovered"]
  /\ UNCHANGED <<snapshots, recordLog, sheets, branched, reads>>

\* Without the genesis record, and without --force over an existing store, there
\* is no rebuild; the files stay.
RebuildRefused ==
  /\ recovery.stage = "restored"
  /\ Genesis \notin recovery.read \/ \E d \in VaultDevices : stores[d].alive
  /\ recovery' = [NoRecovery EXCEPT !.said = "not rebuilt"]
  /\ UNCHANGED <<stores, snapshots, recordLog, sheets, branched, reads>>

RecoveryNext ==
  \/ \E d \in VaultDevices :
       \/ CaptureSnapshot(d) \/ PublishRecords(d) \/ PublishHead(d)
       \/ PublishInterrupted(d) \/ RotateEpochKey(d) \/ LoseDevice(d)
       \/ \E over \in 0..NumDevices : RebuildStore(d, over)
  \/ \E s \in Splits : SplitKit(s)
  \/ \E r \in recordLog : ReadRecords({r})
  \/ ReadRecords({})
  \/ \E some \in SUBSET sheets : RecoverWithShares(some)
  \/ SelectHead \/ RestoreFiles \/ RebuildRefused

RecoverySpec == RecoveryInit /\ [][RecoveryNext]_recoveryVars

-----------------------------------------------------------------------------
\* Types of stores, records and the recovery command.
RecoveryTypeOK ==
  /\ \A d \in VaultDevices : stores[d] = NoStore \/
       (stores[d].epoch \in 1..MaxEpoch /\ stores[d].head \in 0..Len(snapshots)
        /\ stores[d].upload \in {0, stores[d].head})
  /\ \A n \in DOMAIN snapshots : snapshots[n].parent < n
  /\ PublishedHeads \subseteq DOMAIN snapshots
  /\ recovery.stage \in {"idle", "read", "selected", "restored"}
  /\ recovery.head \in 0..Len(snapshots)

\* The snapshots a snapshot descends from, itself included: what is in every set
\* that holds it and, with a snapshot, the snapshot's parent.
Ancestry(n) ==
  {k \in DOMAIN snapshots : \A line \in SUBSET DOMAIN snapshots :
     n \in line /\ (\A m \in line : snapshots[m].parent \in line \cup {0}) => k \in line}

\* What a recovery restores is the vault (select_head, select_envelope): every
\* certified head it was shown is the chosen one or one of its ancestors, even
\* if two devices published or records were missing, and the key it opened is
\* the one the chosen snapshot was sealed with, also where two devices have
\* minted different keys for one epoch.
RecoveryFaithful ==
  /\ recovery.stage \in {"selected", "restored"} =>
       TrustedHeads(recovery.read) \subseteq Ancestry(recovery.head)
  /\ recovery.stage = "restored" => recovery.key = snapshots[recovery.head].key

\* A history goes on across recoveries (init_vault_at_epoch, select_head): along
\* a line of snapshots the epoch never falls and one epoch has one key, and a
\* vault whose heads were published one after another, each on the newest, is
\* never refused as forked by a recovery that sees all of it (a head left
\* unpublished in between is the gap of CaptureGap).
HistoryContinues ==
  /\ \A n \in DOMAIN snapshots : snapshots[n].parent /= 0 =>
       LET p == snapshots[snapshots[n].parent] IN
       /\ snapshots[n].epoch >= p.epoch
       /\ snapshots[n].epoch = p.epoch => snapshots[n].key = p.key
  /\ recovery.said = "fork" => branched \/ recovery.partial
=============================================================================
