--------------------------- MODULE ScopedSecrets ----------------------------
(***************************************************************************)
(* Scoped secrets of one project (services/account): secrets, their sealed *)
(* versions, rotation receipts, the versioned key-encryption keys and the  *)
(* rehearsal of a restore.  A handler first reads the key file and         *)
(* registers its identities under one lock (wrapping_for), and then works  *)
(* under a second one: store is the database, rings holds what the         *)
(* requests between the two have read.  Sealing is symbolic: a version     *)
(* opens under the scope and the key it was sealed with.  Who may do what  *)
(* is in ScopeGrants, the order of the audit events in AuditChain; here    *)
(* every request is authorized and trail is the set of events.             *)
(***************************************************************************)
EXTENDS Naturals, FiniteSets

CONSTANTS
    Secrets,                \* secret ids, each generated once
    Names, Envs, Bindings,
    Values,                 \* plaintexts; one the verifier turns down is in BadValues
    BadValues,
    Labels,                 \* versions of the key-encryption key
    Materials,              \* key bytes
    ReceiptKeys,            \* idempotency keys
    Batch,                  \* limit of a rewrap
    MaxRings,               \* bound on requests between their two locks
    MaxSteps                \* bound on the steps of a behaviour

ASSUME ScopedSecretsAssumption ==
    /\ {MaxRings, MaxSteps} \subseteq Nat /\ Batch \in Nat \ {0}
    /\ BadValues \subseteq Values /\ "none" \notin Materials

VARIABLES store, keyfile, rings, steps

secretVars == <<store, keyfile, rings, steps>>

None == "none"
NoSecretRow == [version |-> 0]
(* The key file: an active label and the labels it has bytes for. *)
KeyFile == {f \in [active : Labels, keys : [Labels -> Materials \cup {None}]] :
                f.keys[f.active] # None}
Row == [env : Envs, name : Names, version : 1..(MaxSteps + 1), binding : Bindings \cup {None},
        status : {"active", "deprecated", "scheduled_deletion"}]
(* by: the idempotency key of the rotation that wrote it (history).        *)
Version == [secret : Secrets, version : 1..(MaxSteps + 1), env : Envs, value : Values,
            label : Labels, bytes : Materials, by : ReceiptKeys \cup {None}]
Receipt == [secret : Secrets, key : ReceiptKeys, value : Values, committed : BOOLEAN,
            version : 0..(MaxSteps + 1)]

TrailEvent == [secret : Secrets, version : 1..(MaxSteps + 1), env : Envs]
Store == [secrets : [Secrets -> Row \cup {NoSecretRow}], versions : SUBSET Version,
          receipts : SUBSET Receipt, trail : SUBSET TrailEvent,
          prints : [Labels -> Materials \cup {None}], written : [Secrets -> Values \cup {None}]]

SecretsTypeOK ==
    /\ store \in Store /\ keyfile \in [file : KeyFile, clear : BOOLEAN]
    /\ rings \subseteq KeyFile /\ steps \in 0..MaxSteps

SecretsInit ==
    /\ store = [secrets |-> [s \in Secrets |-> NoSecretRow], versions |-> {}, receipts |-> {},
                trail |-> {}, prints |-> [l \in Labels |-> None],
                written |-> [s \in Secrets |-> None]]
    /\ keyfile \in {[file |-> f, clear |-> FALSE] : f \in
                       {f \in KeyFile : \A l \in Labels : l # f.active => f.keys[l] = None}}
    /\ rings = {} /\ steps = 0

-----------------------------------------------------------------------------
(* The key file, edited by the administrator (services/account/README.md). *)

(* register: a label in the file is new, or has its recorded fingerprint;  *)
(* for a label without a fingerprint, one stored key (any: LIMIT 1) must   *)
(* unwrap with it.                                                         *)
Registers(f) ==
    \A l \in Labels : f.keys[l] # None =>
        IF store.prints[l] # None THEN store.prints[l] = f.keys[l]
        ELSE LET sealed == {v \in store.versions : v.label = l}
             IN sealed = {} \/ \E v \in sealed : v.bytes = f.keys[l]

(* wrapping_for: the first lock of a handler that seals or opens values.   *)
WrappingFor ==
    /\ Cardinality(rings) < MaxRings /\ Registers(keyfile.file)
    /\ rings' = rings \cup {keyfile.file}
    /\ store' = [store EXCEPT !.prints =
            [l \in Labels |-> IF keyfile.file.keys[l] # None THEN keyfile.file.keys[l] ELSE @[l]]]
    /\ UNCHANGED keyfile

(* A label is added, retyped or made the active one. *)
EditKeyFile ==
    /\ \E l \in Labels, m \in Materials :
          keyfile' = [file |-> [active |-> l, keys |-> [keyfile.file.keys EXCEPT ![l] = m]],
                      clear |-> FALSE]
    /\ keyfile' # keyfile /\ UNCHANGED <<store, rings>>

(* A historical key goes once a rewrap has reported remaining = 0 after    *)
(* the last request that had read an older file.                           *)
DropHistoricalKeys ==
    /\ keyfile.clear
    /\ keyfile' = [keyfile EXCEPT !.file.keys =
            [l \in Labels |-> IF l = keyfile.file.active THEN @[l] ELSE None]]
    /\ keyfile' # keyfile /\ UNCHANGED <<store, rings>>

-----------------------------------------------------------------------------
(* seal_version and the INSERT of a version. *)
Sealed(f, s, n, e, v, k) ==
    [secret |-> s, version |-> n, env |-> e, value |-> v,
     label |-> f.active, bytes |-> f.keys[f.active], by |-> k]
Live(s) == store.secrets[s] # NoSecretRow /\ store.secrets[s].status # "scheduled_deletion"
(* UNIQUE (project_id, environment_id, name): deleted rows count too. *)
NameFree(s, e, n) ==
    \A t \in Secrets \ {s} : store.secrets[t] # NoSecretRow =>
        <<store.secrets[t].env, store.secrets[t].name>> # <<e, n>>
\* Mutant: the event has the environment of the row read first.
AuditedBefore(d, s) ==
    [d EXCEPT !.trail = @ \cup {[secret |-> s, version |-> d.secrets[s].version,
        env |-> IF store.secrets[s] = NoSecretRow THEN d.secrets[s].env ELSE store.secrets[s].env]}]

(* audit_secret_event with the secret's row as the transaction leaves it.  *)
Audited(d, s) ==
    [d EXCEPT !.trail = @ \cup {[secret |-> s, version |-> d.secrets[s].version,
                                 env |-> d.secrets[s].env]}]
(* open_current_version: the row's version, key and scope must all agree.  *)
Unwraps(f, v) == f.keys[v.label] = v.bytes
Opened(f, s) ==
    {v.value : v \in {v \in store.versions :
        /\ v.secret = s /\ v.version = store.secrets[s].version
        /\ v.env = store.secrets[s].env /\ Unwraps(f, v)}}

(* A request that read the key file ends here, whatever comes of it.       *)
With(f, d) == rings' = rings \ {f} /\ store' = d /\ UNCHANGED keyfile

CreateSecret(f, s, e, n, b, v) ==
    /\ store.secrets[s] = NoSecretRow /\ NameFree(s, e, n)
    /\ With(f, Audited(
          [store EXCEPT
             !.secrets[s] = [env |-> e, name |-> n, version |-> 1, binding |-> b,
                             status |-> "active"],
             !.versions = @ \cup {Sealed(f, s, 1, e, v, None)},
             !.written[s] = v], s))

(* get_secret_value, and materialize of a batch: all values or none.       *)
ReadValues(f, batch) ==
    /\ batch # {} /\ \A s \in batch : Live(s)
    /\ With(f, IF \A s \in batch : Opened(f, s) # {}
               THEN [store EXCEPT !.trail = @ \cup
                        {[secret |-> s, version |-> store.secrets[s].version,
                          env |-> store.secrets[s].env] : s \in batch}]
               ELSE store)

\* Mutant: the value is sealed again under its old number.
NewVersionKeepsNumber(d, f, s, e, v, k) ==
    [d EXCEPT !.versions = @ \cup {Sealed(f, s, d.secrets[s].version, e, v, k)},
              !.secrets[s].env = e]

NewVersion(d, f, s, e, v, k) ==
    LET n == d.secrets[s].version + 1 IN
    [d EXCEPT !.versions = @ \cup {Sealed(f, s, n, e, v, k)},
              !.secrets[s].version = n, !.secrets[s].env = e]

(* rotate_secret: a receipt with this key is replayed if committed, and    *)
(* deleted and tried again if the verifier had turned the value down; a    *)
(* receipt for another value is a conflict.                                *)
ReceiptFor(s, k) == {r \in store.receipts : r.secret = s /\ r.key = k}
\* Mutant: only a receipt for the same value stops a rotation.
FreshWhenUncommitted(s, k, v) ==
    \A r \in ReceiptFor(s, k) : r.value # v \/ ~r.committed

FreshRotation(s, k, v) == \A r \in ReceiptFor(s, k) : r.value = v /\ ~r.committed
RotateSecret(f, s, k, v) ==
    /\ Live(s)
    /\ With(f, IF ~FreshRotation(s, k, v) THEN store
               ELSE LET passes == v \notin BadValues
                        receipt == [secret |-> s, key |-> k, value |-> v, committed |-> passes,
                                    version |-> IF passes THEN store.secrets[s].version + 1
                                                ELSE 0]
                        tried == [store EXCEPT !.receipts =
                                     (@ \ ReceiptFor(s, k)) \cup {receipt}]
                    IN IF ~passes THEN tried
                       ELSE Audited([NewVersion(tried, f, s, store.secrets[s].env, v, k)
                                        EXCEPT !.written[s] = v], s))

(* move_secret: a new environment seals the current value again, a new     *)
(* name alone touches the row.                                             *)
MoveSecret(f, s, e, n) ==
    LET row == store.secrets[s]
        renamed == [store EXCEPT !.secrets[s].name = n]
    IN
    /\ Live(s) /\ NameFree(s, e, n) /\ <<e, n>> # <<row.env, row.name>>
    /\ IF e = row.env THEN With(f, Audited(renamed, s))
       ELSE IF Opened(f, s) = {} THEN With(f, store)
       ELSE With(f, Audited(NewVersion(renamed, f, s, e,
                                       CHOOSE v \in Opened(f, s) : TRUE, None), s))

(* update_secret_metadata; rebind_secret (the scope of a seal has no       *)
(* binding); delete_secret keeps the row and its versions.                 *)
Edited(d, s) == store' = Audited(d, s) /\ UNCHANGED <<keyfile, rings>>
UpdateSecretMetadata(s, status) ==
    Live(s) /\ Edited([store EXCEPT !.secrets[s].status = status], s)
RebindSecret(s, b) ==
    Live(s) /\ Edited([store EXCEPT !.secrets[s].binding = b], s)
DeleteSecret(s) ==
    Live(s) /\ Edited([store EXCEPT !.secrets[s].status = "scheduled_deletion"], s)

(* rewrap_project: up to Batch versions, deleted secrets' included, go to  *)
(* the active key, or none if one does not unwrap.  The administrator      *)
(* trusts a report of remaining = 0 only if it is for the file in place    *)
(* and no request still holds another.                                     *)
Historical(f, d) == {v \in d.versions : v.label # f.active}
RewrapProject(f) ==
    LET old == Historical(f, store)
        size == IF Cardinality(old) < Batch THEN Cardinality(old) ELSE Batch
    IN \E part \in SUBSET old :
          LET done == [store EXCEPT !.versions = (@ \ part) \cup
                  {[v EXCEPT !.label = f.active, !.bytes = f.keys[f.active]] : v \in part}]
              ok == \A v \in part : Unwraps(f, v)
          IN /\ Cardinality(part) = size
             /\ rings' = rings \ {f}
             /\ store' = IF ok THEN done ELSE store
             /\ keyfile' = [keyfile EXCEPT !.clear =
                    \/ @
                    \/ /\ ok /\ Historical(f, done) = {} /\ f = keyfile.file
                       /\ rings \subseteq {f}]

(* The handlers, for every request body.                                   *)
PostSecret(f) ==
    \E s \in Secrets, e \in Envs, n \in Names, b \in Bindings \cup {None}, v \in Values :
        CreateSecret(f, s, e, n, b, v)
GetSecretValueRoute(f) == \E s \in Secrets : ReadValues(f, {s})
PostMaterialize(f) == \E batch \in SUBSET Secrets : ReadValues(f, batch)
PostSecretMove(f) ==
    \E s \in Secrets, e \in Envs, n \in Names : MoveSecret(f, s, e, n)
PostSecretRotate(f) ==
    \E s \in Secrets, k \in ReceiptKeys, v \in Values : RotateSecret(f, s, k, v)
PatchSecret ==
    \E s \in Secrets, status \in {"active", "deprecated"} : UpdateSecretMetadata(s, status)
PostSecretRebind == \E s \in Secrets, b \in Bindings \cup {None} : RebindSecret(s, b)
DeleteSecretRoute == \E s \in Secrets : DeleteSecret(s)
PostRewrapKeys(f) == RewrapProject(f)

SecretsStep ==
    \/ WrappingFor \/ EditKeyFile \/ DropHistoricalKeys
    \/ PatchSecret \/ PostSecretRebind \/ DeleteSecretRoute
    \/ \E f \in rings :
          \/ PostSecret(f) \/ GetSecretValueRoute(f) \/ PostMaterialize(f)
          \/ PostSecretMove(f) \/ PostSecretRotate(f) \/ PostRewrapKeys(f)
SecretsNext == steps < MaxSteps /\ steps' = steps + 1 /\ SecretsStep

SecretsSpec == SecretsInit /\ [][SecretsNext]_secretVars

-----------------------------------------------------------------------------
(* check_envelopes of a rehearsed restore of this database, with every     *)
(* key that was ever registered: the scope of a version is looked for in   *)
(* the row and in the audit events of that version.                        *)
Rehearsed(v) ==
    /\ v.bytes = store.prints[v.label]
    /\ \/ v.env = store.secrets[v.secret].env
       \/ [secret |-> v.secret, version |-> v.version, env |-> v.env] \in store.trail

(* PROPERTY (docs/ACCOUNT_BACKUP_AND_RECOVERY.md:79).  A restore rehearsed *)
(* at any moment decrypts every retained version, those of deleted secrets *)
(* and those sealed in an earlier environment included, and no version is  *)
(* sealed with bytes other than the registered ones of its label.          *)
RehearsalOpensAll == \A v \in store.versions : Rehearsed(v)

(* PROPERTY.  The value of a secret is the one last written: its current   *)
(* version exists, is the only one with its number, opens in the secret's  *)
(* scope with the key of its label, and holds what the last create or      *)
(* rotation wrote, whatever moves, rewraps and retries came between.       *)
CurrentOpens ==
    \A s \in Secrets : store.secrets[s] # NoSecretRow =>
        LET current == {v \in store.versions :
                v.secret = s /\ v.version = store.secrets[s].version}
        IN /\ Cardinality(current) = 1
           /\ \A v \in current : v.env = store.secrets[s].env /\ v.value = store.written[s]

(* PROPERTY.  A rotation retried with its idempotency key rotates once.    *)
RotatedOnce ==
    \A v \in store.versions, w \in store.versions :
        v.by # None /\ v.by = w.by /\ v.secret = w.secret => v.version = w.version

(* PROPERTY (services/account/README.md, keep historical keys until all    *)
(* dependent versions have been rewrapped).  After the administrator has   *)
(* dropped the historical keys on a report of remaining = 0, every version *)
(* still unwraps with the key file, those of deleted secrets included, if  *)
(* the file's labels have their registered bytes.                          *)
KeysCoverVersions ==
    keyfile.clear => \A v \in store.versions : Unwraps(keyfile.file, v)

(* What the scoped secrets promise through writes, moves, rotations and    *)
(* key rewraps (secrets.rs).                                               *)
SecretsSound ==
    SecretsTypeOK /\ RehearsalOpensAll /\ CurrentOpens /\ RotatedOnce /\ KeysCoverVersions
=============================================================================
