---------------------------- MODULE ClientProofs ----------------------------
(***************************************************************************)
(* The client's commands, for any processes, paths and faults.             *)
(*                                                                         *)
(* Keystore.  That a sealed secret stays openable is not inductive: it     *)
(* takes that what a power loss would leave of a key file is the key a     *)
(* reader finds or nothing (DiskInv), and that a secret counted as kept    *)
(* was sealed with the key that is on disk (KeptInv).                      *)
(*                                                                         *)
(* Anchoring.  A shown anchor is backed by a receipt of the chain or by a  *)
(* proof that was checked against one: AnchoringIInv follows both.         *)
(*                                                                         *)
(* Backup of the kit.  A recorded backup restores because every replica    *)
(* counted as intact holds the envelope whole (HeldInv), so that the       *)
(* counting of replicas says something of the operators.                   *)
(*                                                                         *)
(* Recovery.  That the selected head descends from every head shown is     *)
(* an induction over the snapshots, which goes through the least or the    *)
(* greatest counterexample (LeastNatural, GreatestNatural).                *)
(*                                                                         *)
(* Runs.  A command goes on with a digest it read earlier; the digest      *)
(* covers all that tells the values apart (RevisionTells), and a page that *)
(* is not full has left nothing out (PageIsWhole).                         *)
(*                                                                         *)
(* Updates and the managed node.  That a reported stop is a stop rests on  *)
(* who holds the port and which process each recorded number names         *)
(* (DaemonInv), and on the token being written before the configuration    *)
(* (FolderInv); that nothing goes back rests on what a download is for     *)
(* (UpdateInv).                                                            *)
(*                                                                         *)
(* Account and dashboard.  What a command holds in memory must be what     *)
(* this account's record said once (AccountIInv), and what a request in    *)
(* progress was let through for (UiInv).                                   *)
(*                                                                         *)
(* Workbench.  That a kind of task runs alone rests on every task running  *)
(* under its guard (Guarded), and what the inspector shows on every        *)
(* inspection being of the file in its row (Inspecting).                   *)
(***************************************************************************)
EXTENDS MCClient, FiniteSetTheorems, WellFoundedInduction, TLAPS

-----------------------------------------------------------------------------
(* Keystore: the inductive invariant *)

DiskInv ==
    \A path \in KeyPaths : keyDisk[path] # NoFileKey =>
        keyFiles[path] \in {keyDisk[path], Truncated}

\* A kept secret's key is in the environment, or in its key file and on disk.
KeptInv ==
    \A b \in blobs :
        /\ b.env.master # "unset" => MasterKey(b.env) = b.key /\ b.key # Refused
        /\ b.env.master = "unset" /\ b.kept =>
              /\ b.key \in FileKeys
              /\ keyDisk[b.env.path] \in {b.key, Truncated}
              /\ keyFiles[b.env.path] \in {b.key, Truncated}

\* A process at work on the key file has no master key in its environment.
FileSealer == {s \in Sealer : s.at # "idle" => s.env.master = "unset"}
SealerInv == sealers \in [KeyProcs -> FileSealer]

KeystoreIInv == KeystoreTypeOK /\ DiskInv /\ KeptInv /\ SealerInv

-----------------------------------------------------------------------------
(* Keystore: the steps *)

LEMMA KeysDiffer ==
    /\ NoFileKey \notin FileKeys /\ Truncated \notin FileKeys /\ Refused \notin FileKeys
    /\ NoFileKey # Truncated /\ Refused # NoFileKey /\ Refused # Truncated
    /\ Refused \notin MasterKeys
BY DEF NoFileKey, Truncated, Refused, FileKeys, FileKey, MasterKeys

LEMMA FileKeyDrawn == ASSUME NEW n \in 1..MaxFileKeys PROVE FileKey(n) \in FileKeys
BY DEF FileKeys

\* The environment's key is refused, or one of the keys an environment can give.
LEMMA MasterKeyShape ==
    ASSUME NEW env \in KeyEnvs, env.master # "unset", MasterKey(env) # Refused
    PROVE  MasterKey(env) \in MasterKeys
<1>1. env.master \in {"empty", "raw", "phrase"} /\ env.salt \in {"unset", "given", "bad"} /\ env.path \in KeyPaths
  BY DEF KeyEnvs
<1>2. CASE env.master = "empty" BY <1>2 DEF MasterKey
<1>3. CASE env.master = "raw" BY <1>3 DEF MasterKey, MasterKeys
<1>4. CASE env.master = "phrase"
  <2>1. PassphraseSalt(env) # Refused /\ MasterKey(env) = <<"derived", PassphraseSalt(env)>>
    BY <1>4 DEF MasterKey
  <2>2. CASE env.salt = "bad" BY <2>1, <2>2 DEF PassphraseSalt
  <2>3. CASE env.salt = "given" BY <2>1, <2>3 DEF PassphraseSalt, MasterKeys
  <2>4. CASE env.salt = "unset" BY <1>1, <2>1, <2>4 DEF PassphraseSalt, MasterKeys
  <2>. QED BY <1>1, <2>2, <2>3, <2>4
<1>. QED BY <1>1, <1>2, <1>3, <1>4

LEMMA IdleSealerShape == ASSUME keyEnv \in KeyEnvs PROVE IdleSealer \in FileSealer
<1>1. (CHOOSE e \in KeyEnvs : TRUE) \in KeyEnvs OBVIOUS
<1>. QED BY <1>1 DEF IdleSealer, Sealer, FileSealer

\* A file and what a power loss would leave of it stay as they are, and every secret
\* that is new is the environment's, or has the key of its file.
FilesStay == keyFiles' = keyFiles /\ keyDisk' = keyDisk

LEMMA EndSealerShape ==
    ASSUME KeystoreIInv, NEW p \in KeyProcs, EndSealer(p) PROVE sealers' \in [KeyProcs -> FileSealer]
<1>1. IdleSealer \in FileSealer BY IdleSealerShape DEF KeystoreIInv, KeystoreTypeOK
<1>. QED BY <1>1 DEF KeystoreIInv, SealerInv, EndSealer

LEMMA SealerAtShape ==
    ASSUME KeystoreIInv, NEW p \in KeyProcs, NEW step \in {"idle", "write", "link", "sync", "read"},
           sealers[p].at # "idle", SealerAt(p, step)
    PROVE  sealers' \in [KeyProcs -> FileSealer]
<1>. DEFINE new == [sealers[p] EXCEPT !.at = step]
<1>1. sealers \in [KeyProcs -> FileSealer] BY DEF KeystoreIInv, SealerInv
<1>2. new \in FileSealer BY <1>1 DEF Sealer, FileSealer
<1>3. sealers' = [sealers EXCEPT ![p] = new] BY <1>1 DEF SealerAt
<1>. HIDE DEF new
<1>. QED BY <1>1, <1>2, <1>3

\* Steps that touch neither files nor secrets.
LEMMA QuietKeystore ==
    ASSUME KeystoreIInv, FilesStay, blobs' = blobs, keyEnv' \in KeyEnvs,
           sealers' \in [KeyProcs -> FileSealer], keysDrawn' \in 0..MaxFileKeys, keyFaults' \in 0..MaxKeyFaults
    PROVE  KeystoreIInv'
<1>1. KeystoreTypeOK' BY DEF KeystoreIInv, KeystoreTypeOK, FilesStay, FileSealer
<1>. QED BY <1>1 DEF KeystoreIInv, FilesStay, DiskInv, KeptInv, SealerInv, MasterKey, PassphraseSalt

\* A secret is sealed with a key that is not refused.
LEMMA SealedPreserves ==
    ASSUME KeystoreIInv, NEW key, NEW env \in KeyEnvs, key # Refused, key = ResolveKey(env),
           FilesStay, blobs' = blobs \cup {Sealed(key, env)}, UNCHANGED <<keyEnv, keysDrawn, keyFaults>>,
           sealers' \in [KeyProcs -> FileSealer]
    PROVE  KeystoreIInv'
<1>. DEFINE kept == env.master # "unset" \/ keyDisk[env.path] # NoFileKey
            b == [key |-> key, label |-> "v2", env |-> env, kept |-> kept]
<1>1. Sealed(key, env) = b BY DEF Sealed
<1>2. env.path \in KeyPaths BY DEF KeyEnvs
<1>3. env.master # "unset" => key = MasterKey(env) /\ key \in MasterKeys
  BY MasterKeyShape DEF ResolveKey
<1>4. env.master = "unset" => key = keyFiles[env.path] /\ key \in FileKeys
  BY <1>2 DEF ResolveKey, ReadKeyFile, KeystoreIInv, KeystoreTypeOK
<1>5. kept \in BOOLEAN /\ (env.master = "unset" => (kept <=> keyDisk[env.path] # NoFileKey)) OBVIOUS
<1>. HIDE DEF kept
<1>6. b \in Blob /\ b.key = key /\ b.env = env /\ b.kept = kept BY <1>3, <1>4, <1>5 DEF Blob
<1>. HIDE DEF b
<1>7. KeystoreTypeOK' BY <1>1, <1>6 DEF KeystoreIInv, KeystoreTypeOK, FilesStay, FileSealer
<1>8. DiskInv' BY DEF KeystoreIInv, DiskInv, FilesStay
<1>9. ASSUME env.master = "unset", kept
      PROVE  keyDisk[env.path] \in {key, Truncated} /\ keyFiles[env.path] \in {key, Truncated}
  <2>1. keyFiles[env.path] = key /\ key \in FileKeys BY <1>4, <1>9
  <2>2. keyDisk[env.path] # NoFileKey BY <1>5, <1>9
  <2>3. keyFiles[env.path] \in {keyDisk[env.path], Truncated} BY <1>2, <2>2 DEF KeystoreIInv, DiskInv
  <2>4. keyFiles[env.path] # Truncated BY <2>1, KeysDiffer
  <2>. QED BY <2>1, <2>3, <2>4
<1>10. KeptInv'
  <2>. SUFFICES ASSUME NEW c \in blobs'
               PROVE  /\ c.env.master # "unset" => MasterKey(c.env) = c.key /\ c.key # Refused
                      /\ c.env.master = "unset" /\ c.kept =>
                            /\ c.key \in FileKeys
                            /\ keyDisk[c.env.path] \in {c.key, Truncated}
                            /\ keyFiles[c.env.path] \in {c.key, Truncated}
    BY DEF KeptInv, FilesStay, MasterKey, PassphraseSalt
  <2>1. CASE c \in blobs BY <2>1 DEF KeystoreIInv, KeptInv
  <2>2. CASE c = b BY <1>3, <1>4, <1>6, <1>9, <2>2
  <2>. QED BY <1>1, <2>1, <2>2
<1>. QED BY <1>7, <1>8, <1>10 DEF KeystoreIInv, SealerInv

LEMMA ProtectPreserves ==
    ASSUME KeystoreIInv, NEW p \in KeyProcs, Protect(p) PROVE KeystoreIInv'
<1>. USE KeystoreAssumption
<1>1. FilesStay /\ keyEnv' = keyEnv /\ keyFaults' = keyFaults BY DEF Protect, FilesStay
<1>2. /\ keyEnv \in KeyEnvs /\ keysDrawn \in 0..MaxFileKeys /\ keyFaults \in 0..MaxKeyFaults
      /\ sealers \in [KeyProcs -> FileSealer]
  BY DEF KeystoreIInv, KeystoreTypeOK, SealerInv
<1>3. CASE keyEnv.master # "unset"
  <2>1. /\ sealers' = sealers /\ keysDrawn' = keysDrawn
        /\ blobs' = IF MasterKey(keyEnv) = Refused THEN blobs
                    ELSE blobs \cup {Sealed(MasterKey(keyEnv), keyEnv)}
    BY <1>3 DEF Protect
  <2>2. CASE MasterKey(keyEnv) = Refused BY <1>1, <1>2, <2>1, <2>2, QuietKeystore
  <2>3. CASE MasterKey(keyEnv) # Refused
    <3>1. MasterKey(keyEnv) = ResolveKey(keyEnv) BY <1>3 DEF ResolveKey
    <3>. QED BY <1>1, <1>2, <2>1, <2>3, <3>1, SealedPreserves
  <2>. QED BY <2>2, <2>3
<1>4. CASE keyEnv.master = "unset" /\ ProvisionsAt(keyEnv.path)
  <2>. DEFINE new == [at |-> "write", drawn |-> FileKey(keysDrawn + 1), env |-> keyEnv]
  <2>1. /\ keysDrawn < MaxFileKeys /\ keysDrawn' = keysDrawn + 1 /\ blobs' = blobs
        /\ sealers' = [sealers EXCEPT ![p] = new]
    BY <1>4 DEF Protect
  <2>2. keysDrawn + 1 \in 1..MaxFileKeys /\ keysDrawn' \in 0..MaxFileKeys BY <1>2, <2>1
  <2>3. new \in FileSealer BY <1>2, <1>4, <2>2, FileKeyDrawn DEF Sealer, FileSealer
  <2>. HIDE DEF new
  <2>4. sealers' \in [KeyProcs -> FileSealer] BY <1>2, <2>1, <2>3
  <2>. QED BY <1>1, <1>2, <2>1, <2>2, <2>4, QuietKeystore
<1>5. CASE keyEnv.master = "unset" /\ ~ProvisionsAt(keyEnv.path)
  <2>. DEFINE new == [at |-> "read", drawn |-> NoFileKey, env |-> keyEnv]
  <2>1. keysDrawn' = keysDrawn /\ blobs' = blobs /\ sealers' = [sealers EXCEPT ![p] = new]
    BY <1>5 DEF Protect
  <2>2. new \in FileSealer BY <1>2, <1>5 DEF Sealer, FileSealer
  <2>. HIDE DEF new
  <2>3. sealers' \in [KeyProcs -> FileSealer] BY <1>2, <2>1, <2>2
  <2>. QED BY <1>1, <1>2, <2>1, <2>3, QuietKeystore
<1>. QED BY <1>3, <1>4, <1>5

LEMMA SealerStepsPreserve ==
    ASSUME KeystoreIInv, NEW p \in KeyProcs, WriteTemporary(p) \/ SyncKeyFails(p) \/ SealerDies(p)
    PROVE  KeystoreIInv'
<1>1. FilesStay /\ keyEnv' = keyEnv /\ blobs' = blobs /\ keysDrawn' = keysDrawn
  BY DEF WriteTemporary, SyncKeyFails, SealerDies, FilesStay
<1>2. keyEnv \in KeyEnvs /\ keysDrawn \in 0..MaxFileKeys /\ keyFaults \in 0..MaxKeyFaults
  BY DEF KeystoreIInv, KeystoreTypeOK
<1>3. (SealerAt(p, "link") /\ sealers[p].at = "write") \/ EndSealer(p) BY DEF WriteTemporary, SyncKeyFails, SealerDies
<1>4. sealers' \in [KeyProcs -> FileSealer] BY <1>3, EndSealerShape, SealerAtShape
<1>5. keyFaults' = keyFaults \/ (keyFaults < MaxKeyFaults /\ keyFaults' = keyFaults + 1)
  BY DEF WriteTemporary, SyncKeyFails, SealerDies
<1>6. keyFaults' \in 0..MaxKeyFaults BY <1>2, <1>5, KeystoreAssumption
<1>. QED BY <1>1, <1>2, <1>4, <1>6, QuietKeystore

\* A key file is linked only where there is none, and so no secret depends on it.
LEMMA LinkKeyPreserves ==
    ASSUME KeystoreIInv, NEW p \in KeyProcs, LinkKey(p) PROVE KeystoreIInv'
<1>. DEFINE path == sealers[p].env.path
            key == sealers[p].drawn
<1>1. /\ keyEnv \in KeyEnvs /\ keysDrawn \in 0..MaxFileKeys /\ keyFaults \in 0..MaxKeyFaults
      /\ keyFiles \in [KeyPaths -> FileKeys \cup {NoFileKey, Truncated}]
  BY DEF KeystoreIInv, KeystoreTypeOK
<1>2. path \in KeyPaths /\ key \in FileKeys \cup {NoFileKey}
  BY DEF KeystoreIInv, KeystoreTypeOK, Sealer, KeyEnvs
<1>3. UNCHANGED <<keyDisk, keyEnv, blobs, keysDrawn, keyFaults>> BY DEF LinkKey
<1>4. (SealerAt(p, "sync") \/ SealerAt(p, "read")) /\ sealers[p].at = "link" BY DEF LinkKey
<1>5. sealers' \in [KeyProcs -> FileSealer] BY <1>4, SealerAtShape
<1>6. CASE ~MayLink(path)
  <2>1. keyFiles' = keyFiles BY <1>6 DEF LinkKey
  <2>. QED BY <1>1, <1>3, <1>5, <2>1, QuietKeystore DEF FilesStay
<1>7. CASE MayLink(path)
  <2>1. keyFiles[path] = NoFileKey /\ keyFiles' = [keyFiles EXCEPT ![path] = key]
    BY <1>7 DEF LinkKey, MayLink
  <2>. HIDE DEF path, key
  <2>2. /\ keyFiles' \in [KeyPaths -> FileKeys \cup {NoFileKey, Truncated}]
        /\ \A o \in KeyPaths \ {path} : keyFiles'[o] = keyFiles[o]
    BY <1>1, <1>2, <2>1
  <2>3. keyDisk[path] = NoFileKey BY <1>2, <2>1, KeysDiffer DEF KeystoreIInv, DiskInv
  <2>4. KeystoreTypeOK' BY <1>3, <1>5, <2>2 DEF KeystoreIInv, KeystoreTypeOK, FileSealer
  <2>5. DiskInv' BY <1>3, <2>2, <2>3 DEF KeystoreIInv, DiskInv
  <2>6. ASSUME NEW b \in blobs, b.env.master = "unset", b.kept PROVE b.env.path \in KeyPaths \ {path}
    <3>1. b.env.path \in KeyPaths BY DEF KeystoreIInv, KeystoreTypeOK, Blob, KeyEnvs
    <3>2. b.key \in FileKeys /\ keyFiles[b.env.path] \in {b.key, Truncated}
      BY <2>6 DEF KeystoreIInv, KeptInv
    <3>. QED BY <2>1, <3>1, <3>2, KeysDiffer
  <2>7. KeptInv'
    <3>. SUFFICES ASSUME NEW b \in blobs
                 PROVE  /\ b.env.master # "unset" => MasterKey(b.env) = b.key /\ b.key # Refused
                        /\ b.env.master = "unset" /\ b.kept =>
                              /\ b.key \in FileKeys
                              /\ keyDisk[b.env.path] \in {b.key, Truncated}
                              /\ keyFiles'[b.env.path] \in {b.key, Truncated}
      BY <1>3 DEF KeptInv, MasterKey, PassphraseSalt
    <3>. QED BY <2>2, <2>6 DEF KeystoreIInv, KeptInv
  <2>. QED BY <1>5, <2>4, <2>5, <2>7 DEF KeystoreIInv, SealerInv
<1>. QED BY <1>6, <1>7

\* What is on disk becomes what is in place, or the other way round after a power loss.
LEMMA SettledPreserves ==
    ASSUME KeystoreIInv, blobs' = blobs, keyEnv' = keyEnv, keysDrawn' = keysDrawn,
           keyFaults' \in 0..MaxKeyFaults, sealers' \in [KeyProcs -> FileSealer],
           keyFiles' \in [KeyPaths -> FileKeys \cup {NoFileKey, Truncated}],
           keyDisk' \in [KeyPaths -> FileKeys \cup {NoFileKey, Truncated}],
           \A path \in KeyPaths :
              \/ keyDisk'[path] = keyDisk[path] /\ keyFiles'[path] \in {keyFiles[path], Truncated}
                 /\ (keyDisk[path] = NoFileKey => keyFiles'[path] = keyFiles[path])
              \/ keyDisk'[path] = keyFiles'[path] /\ keyFiles'[path] \in {keyFiles[path], keyDisk[path]}
    PROVE  KeystoreIInv'
<1>1. KeystoreTypeOK' BY DEF KeystoreIInv, KeystoreTypeOK, FileSealer
<1>2. DiskInv' BY DEF KeystoreIInv, DiskInv
<1>3. KeptInv'
  <2>. SUFFICES ASSUME NEW b \in blobs
               PROVE  /\ b.env.master # "unset" => MasterKey(b.env) = b.key /\ b.key # Refused
                      /\ b.env.master = "unset" /\ b.kept =>
                            /\ b.key \in FileKeys
                            /\ keyDisk'[b.env.path] \in {b.key, Truncated}
                            /\ keyFiles'[b.env.path] \in {b.key, Truncated}
    BY DEF KeptInv, MasterKey, PassphraseSalt
  <2>1. b.env.path \in KeyPaths BY DEF KeystoreIInv, KeystoreTypeOK, Blob, KeyEnvs
  <2>. QED BY <2>1 DEF KeystoreIInv, KeptInv
<1>. QED BY <1>1, <1>2, <1>3 DEF KeystoreIInv, SealerInv

LEMMA SyncKeyDirectoryPreserves ==
    ASSUME KeystoreIInv, NEW p \in KeyProcs, SyncKeyDirectory(p) PROVE KeystoreIInv'
<1>. DEFINE path == sealers[p].env.path
<1>1. path \in KeyPaths BY DEF KeystoreIInv, KeystoreTypeOK, Sealer, KeyEnvs
<1>2. /\ keyDisk' = [keyDisk EXCEPT ![path] = keyFiles[path]]
      /\ UNCHANGED <<keyFiles, keyEnv, blobs, keysDrawn, keyFaults>> /\ SealerAt(p, "read")
      /\ sealers[p].at = "sync"
  BY DEF SyncKeyDirectory
<1>3. sealers' \in [KeyProcs -> FileSealer] BY <1>2, SealerAtShape
<1>. HIDE DEF path
<1>4. /\ keyDisk' \in [KeyPaths -> FileKeys \cup {NoFileKey, Truncated}]
      /\ keyDisk'[path] = keyFiles[path] /\ \A o \in KeyPaths \ {path} : keyDisk'[o] = keyDisk[o]
  BY <1>1, <1>2 DEF KeystoreIInv, KeystoreTypeOK
<1>5. /\ keyFiles' \in [KeyPaths -> FileKeys \cup {NoFileKey, Truncated}]
      /\ keyFaults' \in 0..MaxKeyFaults
  BY <1>2 DEF KeystoreIInv, KeystoreTypeOK
<1>. QED BY <1>2, <1>3, <1>4, <1>5, SettledPreserves

LEMMA PowerLossPreserves == ASSUME KeystoreIInv, PowerLoss PROVE KeystoreIInv'
<1>1. UNCHANGED <<keyEnv, blobs, keysDrawn>> /\ keyDisk' = keyFiles'
      /\ keyFaults < MaxKeyFaults /\ keyFaults' = keyFaults + 1
      /\ sealers' = [p \in KeyProcs |-> IdleSealer]
  BY DEF PowerLoss
<1>2. \A p \in KeyPaths : keyFiles'[p] \in {keyFiles[p], keyDisk[p]} BY DEF PowerLoss
<1>3. DOMAIN keyFiles' = KeyPaths /\ keyFiles' = [p \in KeyPaths |-> keyFiles'[p]] BY DEF PowerLoss
<1>4. keyFiles' \in [KeyPaths -> FileKeys \cup {NoFileKey, Truncated}]
  BY <1>2, <1>3 DEF KeystoreIInv, KeystoreTypeOK
<1>5. sealers' \in [KeyProcs -> FileSealer] BY <1>1, IdleSealerShape DEF KeystoreIInv, KeystoreTypeOK
<1>6. keyFaults' \in 0..MaxKeyFaults
  BY <1>1, KeystoreAssumption DEF KeystoreIInv, KeystoreTypeOK
<1>. QED BY <1>1, <1>2, <1>4, <1>5, <1>6, SettledPreserves

LEMMA TruncateKeyPreserves ==
    ASSUME KeystoreIInv, NEW path \in KeyPaths, TruncateKey(path) PROVE KeystoreIInv'
<1>1. /\ keyFiles[path] = keyDisk[path] /\ keyFiles[path] # NoFileKey
      /\ keyFiles' = [keyFiles EXCEPT ![path] = Truncated]
      /\ UNCHANGED <<keyDisk, keyEnv, sealers, blobs, keysDrawn>>
      /\ keyFaults < MaxKeyFaults /\ keyFaults' = keyFaults + 1
  BY DEF TruncateKey
<1>2. /\ keyFiles' \in [KeyPaths -> FileKeys \cup {NoFileKey, Truncated}]
      /\ keyFiles'[path] = Truncated /\ \A o \in KeyPaths \ {path} : keyFiles'[o] = keyFiles[o]
  BY <1>1 DEF KeystoreIInv, KeystoreTypeOK
<1>3. /\ keyDisk' \in [KeyPaths -> FileKeys \cup {NoFileKey, Truncated}]
      /\ sealers' \in [KeyProcs -> FileSealer] /\ keyFaults' \in 0..MaxKeyFaults
  BY <1>1, KeystoreAssumption DEF KeystoreIInv, KeystoreTypeOK, SealerInv
<1>. QED BY <1>1, <1>2, <1>3, SettledPreserves

LEMMA SealWithFilePreserves ==
    ASSUME KeystoreIInv, NEW p \in KeyProcs, SealWithFile(p) PROVE KeystoreIInv'
<1>. DEFINE env == sealers[p].env
<1>1. FilesStay /\ UNCHANGED <<keyEnv, keysDrawn, keyFaults>> /\ EndSealer(p)
  BY DEF SealWithFile, FilesStay
<1>2. sealers' \in [KeyProcs -> FileSealer] BY <1>1, EndSealerShape
<1>3. env \in KeyEnvs /\ env.master = "unset"
  BY DEF KeystoreIInv, SealerInv, SealWithFile, FileSealer, Sealer
<1>4. SealingKey(p) = ResolveKey(env) BY <1>3 DEF SealingKey, ResolveKey
<1>5. blobs' = IF SealingKey(p) = Refused THEN blobs ELSE blobs \cup {Sealed(SealingKey(p), env)}
  BY DEF SealWithFile
<1>. HIDE DEF env
<1>6. CASE SealingKey(p) = Refused
  BY <1>1, <1>2, <1>5, <1>6, QuietKeystore DEF KeystoreIInv, KeystoreTypeOK
<1>7. CASE SealingKey(p) # Refused BY <1>1, <1>2, <1>3, <1>4, <1>5, <1>7, SealedPreserves
<1>. QED BY <1>6, <1>7

LEMMA KeystoreNextPreserves ==
    ASSUME KeystoreIInv, [KeystoreNext]_keystoreVars PROVE KeystoreIInv'
<1>1. CASE KeystoreNext
  <2>1. CASE SetKeyEnv
    <3>1. FilesStay /\ UNCHANGED <<sealers, blobs, keysDrawn, keyFaults>> /\ keyEnv' \in KeyEnvs
      BY <2>1 DEF SetKeyEnv, FilesStay
    <3>. QED BY <3>1, QuietKeystore DEF KeystoreIInv, KeystoreTypeOK, SealerInv
  <2>2. ASSUME NEW p \in KeyProcs, Protect(p) PROVE KeystoreIInv' BY <2>2, ProtectPreserves
  <2>3. ASSUME NEW p \in KeyProcs, WriteTemporary(p) \/ SyncKeyFails(p) \/ SealerDies(p)
        PROVE  KeystoreIInv'
    BY <2>3, SealerStepsPreserve
  <2>4. ASSUME NEW p \in KeyProcs, LinkKey(p) PROVE KeystoreIInv' BY <2>4, LinkKeyPreserves
  <2>5. ASSUME NEW p \in KeyProcs, SyncKeyDirectory(p) PROVE KeystoreIInv'
    BY <2>5, SyncKeyDirectoryPreserves
  <2>6. ASSUME NEW p \in KeyProcs, SealWithFile(p) PROVE KeystoreIInv' BY <2>6, SealWithFilePreserves
  <2>7. CASE PowerLoss BY <2>7, PowerLossPreserves
  <2>8. ASSUME NEW path \in KeyPaths, TruncateKey(path) PROVE KeystoreIInv'
    BY <2>8, TruncateKeyPreserves
  <2>. QED BY <1>1, <2>1, <2>2, <2>3, <2>4, <2>5, <2>6, <2>7, <2>8 DEF KeystoreNext
<1>2. CASE UNCHANGED keystoreVars
  BY <1>2 DEF keystoreVars, KeystoreIInv, KeystoreTypeOK, DiskInv, KeptInv, SealerInv, MasterKey, PassphraseSalt
<1>. QED BY <1>1, <1>2

LEMMA KeystoreInitIInv == ASSUME KeystoreInit PROVE KeystoreIInv
<1>. DEFINE env == [keyEnv EXCEPT !.master = "raw"]
            old == [key |-> <<"raw">>, label |-> "v1", kept |-> TRUE, env |-> env]
<1>1. keyEnv \in KeyEnvs BY DEF KeystoreInit
<1>2. env \in KeyEnvs /\ env.master = "raw" BY <1>1 DEF KeyEnvs
<1>3. blobs \subseteq {old} BY DEF KeystoreInit
<1>. HIDE DEF env
<1>4. <<"raw">> \in MasterKeys /\ <<"raw">> # Refused BY DEF MasterKeys, Refused
<1>5. old \in Blob /\ old.env = env /\ old.key = <<"raw">> BY <1>2, <1>4 DEF Blob
<1>6. MasterKey(env) = <<"raw">> BY <1>2 DEF MasterKey
<1>. HIDE DEF old
<1>7. sealers \in [KeyProcs -> FileSealer] BY <1>1, IdleSealerShape DEF KeystoreInit
<1>8. KeystoreTypeOK
  BY <1>1, <1>3, <1>5, <1>7, KeystoreAssumption DEF KeystoreInit, KeystoreTypeOK, FileSealer
<1>9. DiskInv BY DEF KeystoreInit, DiskInv
<1>10. KeptInv BY <1>2, <1>3, <1>4, <1>5, <1>6 DEF KeptInv
<1>. QED BY <1>7, <1>8, <1>9, <1>10 DEF KeystoreIInv, SealerInv

\* However processes race to provision key files, die and lose power: a secret that
\* was sealed when its key was durable opens in its environment until its key file
\* is truncated.
THEOREM SealedSecretsOpen == KeystoreSpec => []KeystoreSound
<1>1. KeystoreInit => KeystoreIInv BY KeystoreInitIInv
<1>2. KeystoreIInv /\ [KeystoreNext]_keystoreVars => KeystoreIInv' BY KeystoreNextPreserves
<1>3. KeystoreIInv => KeystoreSound
  <2>. SUFFICES ASSUME KeystoreIInv, NEW b \in blobs, b.kept
               PROVE  Unprotects(b) \/ (b.env.master = "unset" /\ keyFiles[b.env.path] = Truncated)
    BY DEF KeystoreSound, SealedStaysOpenable, KeystoreIInv
  <2>1. b \in Blob BY DEF KeystoreIInv, KeystoreTypeOK
  <2>2. b.label \in {"v1", "v2"} BY <2>1 DEF Blob
  <2>3. CASE b.env.master # "unset"
    <3>1. ResolveKey(b.env) = b.key /\ b.key # Refused BY <2>3 DEF KeystoreIInv, KeptInv, ResolveKey
    <3>. QED BY <2>2, <3>1 DEF Unprotects, UnprotectWithKey
  <2>4. CASE b.env.master = "unset" /\ keyFiles[b.env.path] # Truncated
    <3>1. keyFiles[b.env.path] = b.key /\ b.key \in FileKeys BY <2>4 DEF KeystoreIInv, KeptInv
    <3>2. ResolveKey(b.env) = b.key /\ b.key # Refused
      BY <2>4, <3>1, KeysDiffer DEF ResolveKey, ReadKeyFile
    <3>. QED BY <2>2, <3>2 DEF Unprotects, UnprotectWithKey
  <2>. QED BY <2>3, <2>4
<1>. QED BY <1>1, <1>2, <1>3, PTL DEF KeystoreSpec

-----------------------------------------------------------------------------
(* Anchoring: the inductive invariant *)

Blocks == [Txs -> 0..MaxBlock]
AnchorRun ==
    {NoAnchor} \cup [stage : {"begun"}, of : Commitments, registry : BOOLEAN]
               \cup [stage : {"waiting"}, of : Commitments, registry : BOOLEAN, tx : Txs]
RefreshBegun == [stage : {"begun"}, feed : SUBSET Txs, prev : Blocks, tip : 0..MaxBlock]
RefreshSeen ==
    [stage : {"observed"}, feed : SUBSET Txs, prev : Blocks,
     status : [Txs -> Statuses], block : Blocks]
Cache ==
    [fresh : BOOLEAN, status : [Txs -> Statuses], deep : Blocks, reported : Blocks,
     observed : Blocks, raced : BOOLEAN]

EvidenceRow == [tx : Txs \cup {NoTx}, block : 0..MaxBlock, known : BOOLEAN, registry : BOOLEAN]
RelayRow == [queued : BOOLEAN, tx : Txs \cup {NoTx}, block : 0..MaxBlock]
History == [proven : SUBSET (Txs \X Commitments \X (1..MaxBlock)), landed : SUBSET (Txs \X (1..MaxBlock)),
            loose : SUBSET Txs]

AnchorTypes ==
    /\ chain \in [tip : 1..MaxBlock, mined : Blocks]
    /\ evidence \in [Commitments -> EvidenceRow]
    /\ anchoring \in [AnchorCommands -> AnchorRun]
    /\ relayed \in [Commitments -> RelayRow]
    /\ anchorPast \in History
    /\ feed \in SUBSET Txs
    /\ cache \in Cache
    /\ refreshes \in [Refreshers -> {NoRefresh} \cup RefreshBegun \cup RefreshSeen]

\* The registry's log: what has the event now is among what ever had it, and what
\* is mined now among what ever was.
EmitInv ==
    /\ \A t \in Txs : chain.mined[t] <= chain.tip
    /\ \A t \in Txs, c \in Commitments : Emitter(t, c) => <<t, c, chain.mined[t]>> \in anchorPast.proven
    /\ \A t \in Txs \ RevertedTxs :
          chain.mined[t] # 0 => <<t, chain.mined[t]>> \in anchorPast.landed

\* Transactions the registry's log once bound to some commitment, or that were
\* recorded unchecked.
Once(past) ==
    {t \in Txs : t \in past.loose \/ \E c \in Commitments, b \in 1..MaxBlock : <<t, c, b>> \in past.proven}

RelayBacked(rel, past) ==
    \A c \in Commitments : rel[c].tx # NoTx =>
        /\ rel[c].block \in 1..MaxBlock
        /\ <<rel[c].tx, c, rel[c].block>> \in past.proven
        /\ <<rel[c].tx, rel[c].block>> \in past.landed

\* A row with a transaction and a block has its receipt.
RowBacked(e, c, past) ==
    e.tx # NoTx /\ e.block # 0 =>
        \E b \in 1..MaxBlock :
            /\ IF e.registry THEN <<e.tx, c, b>> \in past.proven ELSE <<e.tx, b>> \in past.landed
            /\ e.block = b \/ <<e.tx, e.block>> \in RelayClaims
EvidenceBacked(ev, past) ==
    \A c \in Commitments :
        RowBacked(ev[c], c, past) /\ (ev[c].tx # NoTx => ev[c].tx \in Once(past))

\* A refresh reads a feed of such transactions, says nothing of others, and calls
\* deep what succeeded in the block it saw.
RefreshOK(f, past) ==
    /\ f \in RefreshBegun \cup RefreshSeen => f.feed \subseteq Once(past)
    /\ f \in RefreshSeen =>
          /\ \A t \in Txs : t \notin f.feed => f.status[t] = "none"
          /\ \A t \in Txs : f.status[t] = "deeply_confirmed" => <<t, f.block[t]>> \in past.landed

\* What the feed reported.
ReportOK(rep, past) ==
    \A t \in Txs : rep[t] # 0 => t \in Once(past) /\ <<t, rep[t]>> \in past.landed

\* While refreshes do not overlap, the memory is what was shown.
MemoryInv == cache.raced \/ cache.deep = cache.reported

AnchoringIInv ==
    /\ AnchorTypes /\ EmitInv
    /\ RelayBacked(relayed, anchorPast) /\ EvidenceBacked(evidence, anchorPast)
    /\ feed \subseteq Once(anchorPast)
    /\ \A r \in Refreshers : RefreshOK(refreshes[r], anchorPast)
    /\ ReportOK(cache.reported, anchorPast)
    /\ MemoryInv /\ AlarmSticky

LEMMA AnchoringIInvSound == AnchoringIInv => AnchorsSound
<1> SUFFICES ASSUME AnchoringIInv PROVE AnchorsSound
  OBVIOUS
<1>1. AnchoringTypeOK
  <2>1. \A r \in Refreshers : refreshes[r].stage \in {"idle", "begun", "observed"}
    BY DEF AnchoringIInv, AnchorTypes, NoRefresh, RefreshBegun, RefreshSeen
  <2>2. cache.status \in [Txs -> Statuses] /\ cache.deep \in Blocks
    BY DEF AnchoringIInv, AnchorTypes, Cache
  <2>3. chain.tip \in 1..MaxBlock /\ chain.mined \in Blocks
    BY DEF AnchoringIInv, AnchorTypes
  <2> QED
    BY <2>1, <2>2, <2>3 DEF AnchoringIInv, AnchorTypes, AnchoringTypeOK, Blocks, EvidenceRow, RelayRow
<1>2. AnchorsBacked
  BY DEF AnchoringIInv, AnchorsBacked, RelayBacked, EvidenceBacked, RowBacked, ReportOK, Once
<1> QED
  BY <1>1, <1>2 DEF AnchoringIInv, AnchorsSound

-----------------------------------------------------------------------------
(* Anchoring: the steps *)

LEMMA AnchoringInitOK == AnchoringInit => AnchoringIInv
<1> SUFFICES ASSUME AnchoringInit PROVE AnchoringIInv
  OBVIOUS
<1> USE AnchoringAssumption
<1>1. AnchorTypes
  BY DEF AnchoringInit, AnchorTypes, Blocks, NoEvidence, NotRelayed, AnchorRun, Cache, Statuses,
         EvidenceRow, RelayRow, History
<1>2. EmitInv
  BY DEF AnchoringInit, EmitInv, Emitter, Publishers
<1>3. RelayBacked(relayed, anchorPast) /\ EvidenceBacked(evidence, anchorPast)
  BY DEF AnchoringInit, RelayBacked, EvidenceBacked, RowBacked, NoEvidence, NotRelayed
<1>4. /\ feed \subseteq Once(anchorPast)
      /\ ReportOK(cache.reported, anchorPast)
      /\ MemoryInv /\ AlarmSticky
  BY DEF AnchoringInit, MemoryInv, AlarmSticky, ReportOK
<1>5. \A r \in Refreshers : RefreshOK(refreshes[r], anchorPast)
  BY DEF AnchoringInit, RefreshOK, NoRefresh, RefreshBegun, RefreshSeen
<1> QED
  BY <1>1, <1>2, <1>3, <1>4, <1>5 DEF AnchoringIInv

\* What was once bound stays so: the history only grows.
Grows(past, more) ==
    past.proven \subseteq more.proven /\ past.landed \subseteq more.landed /\ past.loose \subseteq more.loose

LEMMA BackingGrows ==
    ASSUME NEW rel, NEW ev, NEW f, NEW rep, NEW past, NEW more, Grows(past, more)
    PROVE  /\ Once(past) \subseteq Once(more)
           /\ RelayBacked(rel, past) => RelayBacked(rel, more)
           /\ EvidenceBacked(ev, past) => EvidenceBacked(ev, more)
           /\ RefreshOK(f, past) => RefreshOK(f, more)
           /\ ReportOK(rep, past) => ReportOK(rep, more)
<1>1. Once(past) \subseteq Once(more)
  BY DEF Once, Grows
<1>2. RelayBacked(rel, past) => RelayBacked(rel, more)
  BY DEF RelayBacked, Grows
<1>3. EvidenceBacked(ev, past) => EvidenceBacked(ev, more)
  <2>1. \A c \in Commitments : RowBacked(ev[c], c, past) => RowBacked(ev[c], c, more)
    BY DEF RowBacked, Grows
  <2> QED
    BY <1>1, <2>1 DEF EvidenceBacked
<1>4. RefreshOK(f, past) => RefreshOK(f, more)
  BY <1>1 DEF RefreshOK, Grows
<1>5. ReportOK(rep, past) => ReportOK(rep, more)
  BY <1>1 DEF ReportOK, Grows
<1> QED
  BY <1>1, <1>2, <1>3, <1>4, <1>5

\* A verified receipt is bound to the commitment, in the block it is mined in.
LEMMA VerifiedIsProven ==
    ASSUME AnchoringIInv, NEW t, NEW c \in Commitments, ReceiptVerified(t, c)
    PROVE  /\ t \in Txs /\ chain.mined[t] \in 1..MaxBlock
           /\ <<t, c, chain.mined[t]>> \in anchorPast.proven
           /\ <<t, chain.mined[t]>> \in anchorPast.landed
<1>1. Emitter(t, c)
  BY DEF ReceiptVerified, ReceiptBinds
<1>2. t \in Txs \ RevertedTxs /\ chain.mined[t] # 0
  BY <1>1 DEF Emitter, Publishers
<1>3. chain.mined[t] \in 0..MaxBlock
  BY <1>2 DEF AnchoringIInv, AnchorTypes, Blocks
<1>4. chain.mined[t] \in 1..MaxBlock
  BY <1>2, <1>3, AnchoringAssumption
<1> QED
  BY <1>1, <1>2, <1>4 DEF AnchoringIInv, EmitInv

\* Steps of the chain: the log and its history.
LEMMA ChainStep ==
    ASSUME AnchoringIInv, chain' \in [tip : 1..MaxBlock, mined : Blocks],
           anchorPast' \in History, Grows(anchorPast, anchorPast'), EmitInv',
           UNCHANGED <<evidence, anchoring, relayed, feed, cache, refreshes>>
    PROVE  AnchoringIInv'
<1>1. AnchorTypes'
  BY DEF AnchoringIInv, AnchorTypes
<1>2. RelayBacked(relayed, anchorPast)' /\ EvidenceBacked(evidence, anchorPast)'
  BY BackingGrows DEF AnchoringIInv
<1>3. /\ (feed \subseteq Once(anchorPast))'
      /\ ReportOK(cache.reported, anchorPast)'
  BY BackingGrows DEF AnchoringIInv
<1>4. (\A r \in Refreshers : RefreshOK(refreshes[r], anchorPast))'
  BY BackingGrows DEF AnchoringIInv
<1>5. MemoryInv' /\ AlarmSticky'
  BY DEF AnchoringIInv, MemoryInv, AlarmSticky
<1> QED
  BY <1>1, <1>2, <1>3, <1>4, <1>5 DEF AnchoringIInv

LEMMA MineTxOK ==
    ASSUME AnchoringIInv, NEW t \in Txs, MineTx(t)
    PROVE  AnchoringIInv'
<1> DEFINE before == chain.mined
           after == [chain.mined EXCEPT ![t] = chain.tip + 1]
<1>1. /\ chain.tip \in 1..MaxBlock /\ before \in Blocks
      /\ chain'.tip = chain.tip + 1 /\ chain'.mined = after
      /\ before[t] = 0 /\ chain.tip < MaxBlock
  BY DEF AnchoringIInv, AnchorTypes, MineTx
<1>2. /\ chain.tip \in Nat /\ MaxBlock \in Nat /\ chain.tip + 1 \in 1..MaxBlock
      /\ after \in Blocks /\ after[t] = chain.tip + 1
      /\ \A u \in Txs : u # t => after[u] = before[u]
      /\ \A u \in Txs : before[u] \in 0..MaxBlock
  BY <1>1, AnchoringAssumption DEF Blocks
<1>3. chain' \in [tip : 1..MaxBlock, mined : Blocks]
  BY <1>1, <1>2 DEF MineTx
<1>4. /\ anchorPast \in History /\ anchorPast' \in History /\ Grows(anchorPast, anchorPast')
      /\ t \notin RevertedTxs => <<t, chain.tip + 1>> \in anchorPast'.landed
  <2>1. /\ anchorPast \in History
        /\ TxPublishes[t] \in Commitments
    BY AnchoringAssumption DEF AnchoringIInv, AnchorTypes, Commitments
  <2>2. /\ <<t, TxPublishes[t], chain.tip + 1>> \in Txs \X Commitments \X (1..MaxBlock)
        /\ <<t, chain.tip + 1>> \in Txs \X (1..MaxBlock)
    BY <1>2, <2>1
  <2>3. anchorPast' =
          [anchorPast EXCEPT
             !.proven = @ \cup (IF t \notin RevertedTxs /\ Publishers(TxPublishes[t]) = {}
                                THEN {<<t, TxPublishes[t], chain.tip + 1>>} ELSE {}),
             !.landed = @ \cup (IF t \notin RevertedTxs THEN {<<t, chain.tip + 1>>} ELSE {})]
    BY DEF MineTx
  <2> DEFINE newProven == IF t \notin RevertedTxs /\ Publishers(TxPublishes[t]) = {}
                          THEN {<<t, TxPublishes[t], chain.tip + 1>>} ELSE {}
             newLanded == IF t \notin RevertedTxs THEN {<<t, chain.tip + 1>>} ELSE {}
  <2>4. /\ newProven \in SUBSET (Txs \X Commitments \X (1..MaxBlock))
        /\ newLanded \in SUBSET (Txs \X (1..MaxBlock))
        /\ t \notin RevertedTxs => <<t, chain.tip + 1>> \in newLanded
    BY <2>2
  <2>5. anchorPast' = [anchorPast EXCEPT !.proven = @ \cup newProven, !.landed = @ \cup newLanded]
    BY <2>3
  <2> HIDE DEF newProven, newLanded
  <2>6. /\ anchorPast' = [proven |-> anchorPast.proven \cup newProven,
                          landed |-> anchorPast.landed \cup newLanded, loose |-> anchorPast.loose]
        /\ anchorPast.proven \in SUBSET (Txs \X Commitments \X (1..MaxBlock))
        /\ anchorPast.landed \in SUBSET (Txs \X (1..MaxBlock)) /\ anchorPast.loose \in SUBSET Txs
    BY <2>1, <2>5 DEF History
  <2>7. /\ anchorPast'.proven = anchorPast.proven \cup newProven
        /\ anchorPast'.landed = anchorPast.landed \cup newLanded /\ anchorPast'.loose = anchorPast.loose
    BY <2>6
  <2>8. Grows(anchorPast, anchorPast') /\ (t \notin RevertedTxs => <<t, chain.tip + 1>> \in anchorPast'.landed)
    BY <2>4, <2>7 DEF Grows
  <2>9. /\ anchorPast.proven \cup newProven \in SUBSET (Txs \X Commitments \X (1..MaxBlock))
        /\ anchorPast.landed \cup newLanded \in SUBSET (Txs \X (1..MaxBlock))
    BY <2>4, <2>6
  <2>10. anchorPast' \in History
    BY <2>6, <2>9 DEF History
  <2> QED
    BY <2>1, <2>8, <2>10
<1>5. \A u \in Txs : before[u] <= chain.tip
  BY DEF AnchoringIInv, EmitInv
<1>6. ASSUME NEW u \in Txs PROVE chain'.mined[u] <= chain'.tip
  <2>1. after[u] = IF u = t THEN chain.tip + 1 ELSE before[u]
    BY <1>2
  <2>2. before[u] <= chain.tip /\ before[u] \in Nat
    BY <1>2, <1>5
  <2> HIDE DEF before, after
  <2> QED
    BY <1>1, <1>2, <2>1, <2>2
<1>7. ASSUME NEW u \in Txs, NEW c \in Commitments, Emitter(u, c)'
      PROVE  <<u, c, chain'.mined[u]>> \in anchorPast'.proven
  <2>1. /\ u \notin RevertedTxs /\ after[u] # 0 /\ TxPublishes[u] = c
        /\ \A v \in Txs \ RevertedTxs :
              after[v] # 0 /\ TxPublishes[v] = c => after[u] <= after[v]
    BY <1>1, <1>7 DEF Emitter, Publishers
  <2>2. CASE u = t
    <3>1. ASSUME NEW v \in Publishers(c) PROVE FALSE
      <4>1. /\ v \in Txs \ RevertedTxs /\ before[v] # 0 /\ TxPublishes[v] = c
        BY <3>1 DEF Publishers
      <4>2. v # t /\ after[v] = before[v] /\ before[v] \in Nat /\ before[v] <= chain.tip
        BY <1>1, <1>2, <1>5, <4>1
      <4>3. chain.tip + 1 <= before[v]
        BY <1>2, <2>1, <2>2, <4>1, <4>2
      <4> HIDE DEF before
      <4> QED
        BY <1>2, <4>2, <4>3
    <3>2. Publishers(TxPublishes[t]) = {}
      BY <2>1, <2>2, <3>1
    <3>3. <<t, TxPublishes[t], chain.tip + 1>> \in anchorPast'.proven
      BY <1>4, <2>1, <2>2, <3>2 DEF MineTx, History
    <3> QED
      BY <1>1, <1>2, <2>1, <2>2, <3>3
  <2>3. CASE u # t
    <3>1. u \in Publishers(c) /\ after[u] = before[u]
      BY <1>2, <2>1, <2>3 DEF Publishers
    <3>2. ASSUME NEW v \in Publishers(c) PROVE before[u] <= before[v]
      <4>1. /\ v \in Txs \ RevertedTxs /\ before[v] # 0 /\ TxPublishes[v] = c
        BY <3>2 DEF Publishers
      <4>2. after[v] = before[v]
        BY <1>1, <1>2, <4>1
      <4> QED
        BY <2>1, <3>1, <4>1, <4>2
    <3>3. Emitter(u, c)
      BY <3>1, <3>2 DEF Emitter
    <3>4. <<u, c, before[u]>> \in anchorPast.proven
      BY <3>3 DEF AnchoringIInv, EmitInv
    <3> QED
      BY <1>1, <1>4, <3>1, <3>4 DEF Grows
  <2> QED
    BY <2>2, <2>3
<1>9. ASSUME NEW u \in Txs \ RevertedTxs, chain'.mined[u] # 0
      PROVE  <<u, chain'.mined[u]>> \in anchorPast'.landed
  <2>1. CASE u = t
    BY <1>1, <1>2, <1>4, <2>1
  <2>2. CASE u # t
    <3>1. after[u] = before[u] /\ before[u] # 0
      BY <1>1, <1>2, <1>9, <2>2
    <3>2. <<u, before[u]>> \in anchorPast.landed
      BY <3>1 DEF AnchoringIInv, EmitInv
    <3> QED
      BY <1>1, <1>4, <3>1, <3>2 DEF Grows
  <2> QED
    BY <2>1, <2>2
<1>8. EmitInv'
  BY <1>6, <1>7, <1>9 DEF EmitInv
<1> QED
  BY <1>3, <1>4, <1>8, ChainStep DEF MineTx

LEMMA MineBlockOK ==
    ASSUME AnchoringIInv, MineBlock
    PROVE  AnchoringIInv'
<1>1. /\ chain.tip \in 1..MaxBlock /\ chain.mined \in Blocks
      /\ chain'.tip = chain.tip + 1 /\ chain'.mined = chain.mined /\ chain.tip < MaxBlock
      /\ chain' \in [tip : {chain.tip + 1}, mined : Blocks]
  BY DEF AnchoringIInv, AnchorTypes, MineBlock
<1>2. chain' \in [tip : 1..MaxBlock, mined : Blocks]
  BY <1>1, AnchoringAssumption
<1>3. ASSUME NEW u \in Txs PROVE chain'.mined[u] <= chain'.tip
  <2>1. chain.mined[u] \in 0..MaxBlock /\ chain.mined[u] <= chain.tip
    BY <1>1 DEF Blocks, AnchoringIInv, EmitInv
  <2> QED
    BY <1>1, <2>1, AnchoringAssumption
<1>4. \A u \in Txs, c \in Commitments : Emitter(u, c)' <=> Emitter(u, c)
  BY <1>1 DEF Emitter, Publishers
<1>5. EmitInv'
  BY <1>1, <1>3, <1>4 DEF EmitInv, AnchoringIInv, MineBlock
<1>6. anchorPast' \in History /\ Grows(anchorPast, anchorPast')
  BY DEF MineBlock, AnchoringIInv, AnchorTypes, Grows
<1> QED
  BY <1>2, <1>5, <1>6, ChainStep DEF MineBlock

LEMMA ReorgOK ==
    ASSUME AnchoringIInv, NEW t \in Txs, Reorg(t)
    PROVE  AnchoringIInv'
<1> DEFINE before == chain.mined
           after == [chain.mined EXCEPT ![t] = 0]
<1>1. /\ chain.tip \in 1..MaxBlock /\ before \in Blocks
      /\ chain'.tip = chain.tip /\ chain'.mined = after
      /\ chain' \in [tip : {chain.tip}, mined : {after}]
  BY DEF AnchoringIInv, AnchorTypes, Reorg
<1>2. /\ after \in Blocks /\ after[t] = 0
      /\ \A u \in Txs : u # t => after[u] = before[u]
  BY <1>1, AnchoringAssumption DEF Blocks
<1>3. chain' \in [tip : 1..MaxBlock, mined : Blocks]
  BY <1>1, <1>2
<1>4. \A u \in Txs : chain'.mined[u] <= chain'.tip
  <2>1. \A u \in Txs : before[u] <= chain.tip
    BY DEF AnchoringIInv, EmitInv
  <2> HIDE DEF before, after
  <2> QED
    BY <1>1, <1>2, <2>1
<1>5. ASSUME NEW u \in Txs, NEW c \in Commitments, Emitter(u, c)'
      PROVE  <<u, c, chain'.mined[u]>> \in anchorPast'.proven
  <2>1. /\ u \notin RevertedTxs /\ after[u] # 0 /\ TxPublishes[u] = c
        /\ \A v \in Txs \ RevertedTxs :
              after[v] # 0 /\ TxPublishes[v] = c => after[u] <= after[v]
    BY <1>1, <1>5 DEF Emitter, Publishers
  <2>2. u # t /\ after[u] = before[u] /\ u \in Publishers(c)
    BY <1>2, <2>1 DEF Publishers
  <2>3. c # TxPublishes[t]
    BY <2>2 DEF Reorg
  <2>4. ASSUME NEW v \in Publishers(c) PROVE before[u] <= before[v]
    BY <1>2, <2>1, <2>2, <2>3 DEF Publishers
  <2>5. Emitter(u, c)
    BY <2>2, <2>4 DEF Emitter
  <2>6. <<u, c, before[u]>> \in anchorPast.proven
    BY <2>5 DEF AnchoringIInv, EmitInv
  <2> QED
    BY <1>1, <2>2, <2>6 DEF Reorg
<1>7. ASSUME NEW u \in Txs \ RevertedTxs, chain'.mined[u] # 0
      PROVE  <<u, chain'.mined[u]>> \in anchorPast'.landed
  BY <1>1, <1>2, <1>7 DEF AnchoringIInv, EmitInv, Reorg
<1>6. EmitInv'
  BY <1>4, <1>5, <1>7 DEF EmitInv
<1>8. anchorPast' \in History /\ Grows(anchorPast, anchorPast')
  BY DEF Reorg, AnchoringIInv, AnchorTypes, Grows
<1> QED
  BY <1>3, <1>6, <1>8, ChainStep DEF Reorg

\* Steps of the anchor commands and of the relay.
LEMMA AnchorStep ==
    ASSUME AnchoringIInv, UNCHANGED <<chain, feed, cache, refreshes>>,
           anchorPast' \in History, Grows(anchorPast, anchorPast'),
           evidence' \in [Commitments -> EvidenceRow],
           anchoring' \in [AnchorCommands -> AnchorRun],
           relayed' \in [Commitments -> RelayRow],
           RelayBacked(relayed', anchorPast'), EvidenceBacked(evidence', anchorPast')
    PROVE  AnchoringIInv'
<1>1. AnchorTypes'
  BY DEF AnchoringIInv, AnchorTypes
<1>2. EmitInv'
  BY DEF AnchoringIInv, EmitInv, Emitter, Publishers, Grows
<1>3. RelayBacked(relayed, anchorPast)' /\ EvidenceBacked(evidence, anchorPast)'
  OBVIOUS
<1>4. /\ (feed \subseteq Once(anchorPast))'
      /\ (\A r \in Refreshers : RefreshOK(refreshes[r], anchorPast))'
      /\ ReportOK(cache.reported, anchorPast)'
  BY BackingGrows DEF AnchoringIInv
<1>5. MemoryInv' /\ AlarmSticky'
  BY DEF AnchoringIInv, MemoryInv, AlarmSticky
<1> QED
  BY <1>1, <1>2, <1>3, <1>4, <1>5 DEF AnchoringIInv

\* What a commitment's relay is set to is as it was, queued, or proven.
LEMMA RelayedOK ==
    ASSUME AnchoringIInv, NEW c \in Commitments, NEW x \in RelayRow,
           \/ x = Queued \/ x = relayed[c]
           \/ /\ x.block \in 1..MaxBlock
              /\ <<x.tx, c, x.block>> \in anchorPast.proven /\ <<x.tx, x.block>> \in anchorPast.landed,
           NEW next, next = [relayed EXCEPT ![c] = x]
    PROVE  /\ next \in [Commitments -> RelayRow]
           /\ RelayBacked(next, anchorPast)
<1>1. relayed \in [Commitments -> RelayRow]
  BY DEF AnchoringIInv, AnchorTypes
<1>2. next \in [Commitments -> RelayRow]
  BY <1>1
<1>3. next[c] = x /\ \A d \in Commitments : d # c => next[d] = relayed[d]
  BY <1>1
<1>4. RelayBacked(relayed, anchorPast)
  BY DEF AnchoringIInv
<1>5. x.tx # NoTx =>
        /\ x.block \in 1..MaxBlock
        /\ <<x.tx, c, x.block>> \in anchorPast.proven /\ <<x.tx, x.block>> \in anchorPast.landed
  BY <1>4 DEF RelayBacked, Queued
<1>6. RelayBacked(next, anchorPast)
  BY <1>3, <1>4, <1>5 DEF RelayBacked
<1> QED
  BY <1>2, <1>6

\* A running command, by its stage.
LEMMA AnchorStage ==
    ASSUME AnchoringIInv, NEW a \in AnchorCommands, anchoring[a].stage \in {"begun", "waiting"}
    PROVE  /\ anchoring[a] # NoAnchor /\ anchoring[a].of \in Commitments
           /\ anchoring[a].registry \in BOOLEAN
           /\ anchoring[a].stage = "waiting" => anchoring[a].tx \in Txs
<1>1. anchoring[a] \in AnchorRun
  BY DEF AnchoringIInv, AnchorTypes
<1> QED
  BY <1>1 DEF AnchorRun, NoAnchor

\* save_checkpoint_evidence keeps the evidence backed when what it saves is.
LEMMA SavedOK ==
    ASSUME AnchoringIInv, NEW a \in AnchorCommands, anchoring[a].stage \in {"begun", "waiting"},
           NEW t \in Txs \cup {NoTx}, NEW b \in 0..MaxBlock, SaveEvidence(a, t, b),
           NEW past, Grows(anchorPast, past),
           RowBacked(Evidence(t, b, anchoring[a].registry), anchoring[a].of, past),
           t # NoTx => t \in Once(past)
    PROVE  /\ evidence' \in [Commitments -> EvidenceRow]
           /\ anchoring' \in [AnchorCommands -> AnchorRun]
           /\ EvidenceBacked(evidence', past)
<1> DEFINE c == anchoring[a].of
           saved == Evidence(t, b, anchoring[a].registry)
<1>1. /\ evidence \in [Commitments -> EvidenceRow] /\ anchoring \in [AnchorCommands -> AnchorRun]
      /\ EvidenceBacked(evidence, past)
  BY BackingGrows DEF AnchoringIInv, AnchorTypes
<1>2. c \in Commitments /\ anchoring[a].registry \in BOOLEAN
  BY AnchorStage
<1>3. saved \in EvidenceRow /\ saved.tx = t
  BY <1>2 DEF Evidence, EvidenceRow
<1>4. evidence' = [evidence EXCEPT ![c] = saved] /\ RowBacked(saved, c, past)
  BY DEF SaveEvidence
<1>5. anchoring' \in [AnchorCommands -> AnchorRun]
  BY <1>1 DEF SaveEvidence, AnchorRun
<1> HIDE DEF c, saved
<1>6. /\ evidence' \in [Commitments -> EvidenceRow] /\ evidence'[c] = saved
      /\ \A d \in Commitments : d # c => evidence'[d] = evidence[d]
  BY <1>1, <1>2, <1>3, <1>4
<1>8. EvidenceBacked(evidence', past)
  BY <1>1, <1>2, <1>3, <1>4, <1>6 DEF EvidenceBacked
<1> QED
  BY <1>5, <1>6, <1>8

\* A confirmed transaction succeeded; with a registry it is bound as well.
LEMMA ConfirmedIs ==
    ASSUME AnchoringIInv, NEW t \in Txs \cup {NoTx}, NEW c \in Commitments,
           NEW registry \in BOOLEAN, Confirmed(t, c, registry)
    PROVE  /\ t \in Txs /\ chain.mined[t] \in 1..MaxBlock
           /\ <<t, chain.mined[t]>> \in anchorPast.landed
           /\ registry => <<t, c, chain.mined[t]>> \in anchorPast.proven
<1>1. t \in Txs \ RevertedTxs /\ chain.mined[t] # 0
  BY DEF Confirmed, ReceiptOk
<1>2. chain.mined[t] \in 0..MaxBlock
  BY <1>1 DEF AnchoringIInv, AnchorTypes, Blocks
<1>3. chain.mined[t] \in 1..MaxBlock
  BY <1>1, <1>2, AnchoringAssumption
<1>4. <<t, chain.mined[t]>> \in anchorPast.landed
  BY <1>1 DEF AnchoringIInv, EmitInv
<1>5. registry => ReceiptVerified(t, c)
  BY DEF Confirmed, ReceiptVerified
<1> QED
  BY <1>1, <1>3, <1>4, <1>5, VerifiedIsProven

\* Recording a transaction as unchecked.
LEMMA LooselyIs ==
    ASSUME AnchoringIInv, NEW t \in Txs, Loosely(t)
    PROVE  anchorPast' \in History /\ Grows(anchorPast, anchorPast') /\ t \in Once(anchorPast')
<1>1. anchorPast \in History
  BY DEF AnchoringIInv, AnchorTypes
<1> QED
  BY <1>1 DEF Loosely, History, Grows, Once

LEMMA SaveConfirmedOK ==
    ASSUME AnchoringIInv, NEW a \in AnchorCommands, anchoring[a].stage \in {"begun", "waiting"},
           NEW t \in Txs, SaveConfirmed(a, t)
    PROVE  AnchoringIInv'
<1> DEFINE c == anchoring[a].of
           g == anchoring[a].registry
           b == chain.mined[t]
<1>1. c \in Commitments /\ g \in BOOLEAN
  BY AnchorStage
<1>2. /\ b \in 1..MaxBlock /\ b \in 0..MaxBlock /\ <<t, b>> \in anchorPast.landed
      /\ g => <<t, c, b>> \in anchorPast.proven
  BY <1>1, ConfirmedIs, AnchoringAssumption DEF SaveConfirmed
<1>3. anchorPast' \in History /\ Grows(anchorPast, anchorPast') /\ t \in Once(anchorPast')
  <2>1. CASE g
    <3>1. anchorPast' = anchorPast
      BY <2>1 DEF SaveConfirmed
    <3> QED
      BY <1>1, <1>2, <2>1, <3>1 DEF AnchoringIInv, AnchorTypes, Grows, Once
  <2>2. CASE ~g
    BY <2>2, LooselyIs DEF SaveConfirmed
  <2> QED
    BY <2>1, <2>2
<1>4. RowBacked(Evidence(t, b, g), c, anchorPast')
  <2> HIDE DEF b, c, g
  <2> QED
    BY <1>2, <1>3 DEF RowBacked, Evidence, Grows
<1>5. /\ evidence' \in [Commitments -> EvidenceRow]
      /\ anchoring' \in [AnchorCommands -> AnchorRun]
      /\ EvidenceBacked(evidence', anchorPast')
  BY <1>2, <1>3, <1>4, SavedOK DEF SaveConfirmed
<1>6. relayed' \in [Commitments -> RelayRow] /\ RelayBacked(relayed', anchorPast')
  BY <1>3, BackingGrows DEF SaveConfirmed, AnchoringIInv, AnchorTypes
<1> QED
  BY <1>3, <1>5, <1>6, AnchorStep DEF SaveConfirmed

\* A step that leaves the history alone.
LEMMA SameHistory ==
    ASSUME AnchoringIInv, anchorPast' = anchorPast
    PROVE  anchorPast' \in History /\ Grows(anchorPast, anchorPast')
BY DEF AnchoringIInv, AnchorTypes, Grows

LEMMA AnchorRelayOK ==
    ASSUME AnchoringIInv, NEW a \in AnchorCommands, AnchorRelay(a)
    PROVE  AnchoringIInv'
<1> DEFINE c == anchoring[a].of
           g == anchoring[a].registry
           x == IF relayed[c].queued THEN relayed[c] ELSE Queued
           t == relayed[c].tx
           b == IF Confirmed(t, c, g) THEN relayed[c].block ELSE 0
<1>1. c \in Commitments /\ g \in BOOLEAN /\ anchoring[a].stage \in {"begun", "waiting"}
  BY AnchorStage DEF AnchorRelay
<1>2. relayed[c] \in RelayRow /\ Queued \in RelayRow
  BY <1>1, AnchoringAssumption DEF AnchoringIInv, AnchorTypes, RelayRow, Queued
<1>3. relayed' = [relayed EXCEPT ![c] = x] /\ SaveEvidence(a, t, b)
  BY DEF AnchorRelay, SaveAnswer
<1>4. /\ relayed' \in [Commitments -> RelayRow] /\ RelayBacked(relayed', anchorPast)
  <2>1. x \in RelayRow /\ (x = Queued \/ x = relayed[c])
    BY <1>2
  <2> HIDE DEF x, c
  <2> QED
    BY <1>1, <1>3, <2>1, RelayedOK
<1>5. t \in Txs \cup {NoTx} /\ relayed[c].block \in 0..MaxBlock /\ b \in 0..MaxBlock
  BY <1>2, AnchoringAssumption DEF RelayRow
<1>6. t # NoTx =>
        /\ relayed[c].block \in 1..MaxBlock
        /\ <<t, c, relayed[c].block>> \in anchorPast.proven
        /\ <<t, relayed[c].block>> \in anchorPast.landed
  BY <1>1 DEF AnchoringIInv, RelayBacked
<1>7. b \in {0, relayed[c].block}
  OBVIOUS
<1>8. t # NoTx => t \in Once(anchorPast)
  BY <1>1, <1>5, <1>6 DEF Once
<1>9. RowBacked(Evidence(t, b, g), c, anchorPast)
  <2> HIDE DEF t, b, c, g
  <2> QED
    BY <1>6, <1>7 DEF RowBacked, Evidence
<1>10. anchorPast' = anchorPast
  BY DEF AnchorRelay
<1>11. Grows(anchorPast, anchorPast)
  BY DEF Grows
<1>12. /\ evidence' \in [Commitments -> EvidenceRow]
       /\ anchoring' \in [AnchorCommands -> AnchorRun]
       /\ EvidenceBacked(evidence', anchorPast)
  <2> HIDE DEF t, b
  <2> QED
    BY <1>1, <1>3, <1>5, <1>8, <1>9, <1>11, SavedOK
<1> QED
  BY <1>4, <1>10, <1>12, SameHistory, AnchorStep DEF AnchorRelay

LEMMA AnchorRelayClaimOK ==
    ASSUME AnchoringIInv, NEW a \in AnchorCommands, NEW t \in Txs, NEW b \in 1..MaxBlock,
           AnchorRelayClaim(a, t, b)
    PROVE  AnchoringIInv'
<1> DEFINE c == anchoring[a].of
           g == anchoring[a].registry
           n == IF Confirmed(t, c, g) THEN b ELSE 0
<1>1. /\ c \in Commitments /\ g \in BOOLEAN /\ anchoring[a].stage \in {"begun", "waiting"}
      /\ <<t, b>> \in RelayClaims /\ SaveEvidence(a, t, n)
  BY AnchorStage DEF AnchorRelayClaim, SaveAnswer
<1>2. Confirmed(t, c, g) =>
        \E m \in 1..MaxBlock : /\ <<t, m>> \in anchorPast.landed
                               /\ g => <<t, c, m>> \in anchorPast.proven
  BY <1>1, ConfirmedIs
<1>3. anchorPast' \in History /\ Grows(anchorPast, anchorPast') /\ t \in Once(anchorPast')
  <2>1. CASE g /\ Confirmed(t, c, TRUE)
    <3>1. anchorPast' = anchorPast
      BY <2>1 DEF AnchorRelayClaim
    <3>2. g = TRUE
      BY <1>1, <2>1
    <3>3. \E m \in 1..MaxBlock : <<t, c, m>> \in anchorPast.proven
      BY <1>1, <2>1, ConfirmedIs
    <3> QED
      BY <1>1, <3>1, <3>3, SameHistory DEF Once
  <2>2. CASE ~(g /\ Confirmed(t, c, TRUE))
    BY <2>2, LooselyIs DEF AnchorRelayClaim
  <2> QED
    BY <2>1, <2>2
<1>4. n \in 0..MaxBlock /\ (n # 0 => n = b /\ Confirmed(t, c, g))
  BY AnchoringAssumption
<1>5. RowBacked(Evidence(t, n, g), c, anchorPast')
  <2> HIDE DEF c, g, n
  <2> QED
    BY <1>1, <1>2, <1>3, <1>4 DEF RowBacked, Evidence, Grows
<1>6. /\ evidence' \in [Commitments -> EvidenceRow]
      /\ anchoring' \in [AnchorCommands -> AnchorRun]
      /\ EvidenceBacked(evidence', anchorPast')
  <2> HIDE DEF n
  <2> QED
    BY <1>1, <1>3, <1>4, <1>5, SavedOK
<1>7. relayed' \in [Commitments -> RelayRow] /\ RelayBacked(relayed', anchorPast')
  BY <1>3, BackingGrows DEF AnchorRelayClaim, AnchoringIInv, AnchorTypes
<1> QED
  BY <1>3, <1>6, <1>7, AnchorStep DEF AnchorRelayClaim

LEMMA AnchorCommandsOK ==
    ASSUME AnchoringIInv, NEW a \in AnchorCommands,
           \/ \E c \in Commitments, registry \in BOOLEAN : AnchorBegin(a, c, registry)
           \/ \E t \in Txs : AnchorTx(a, t) \/ Broadcast(a, t)
           \/ AnchorRawTx(a) \/ AnchorFails(a) \/ AnchorRelay(a) \/ AnchorPlain(a)
           \/ \E t \in Txs, b \in 1..MaxBlock : AnchorRelayClaim(a, t, b)
    PROVE  AnchoringIInv'
<1> DEFINE c == anchoring[a].of
<1>0. /\ evidence \in [Commitments -> EvidenceRow] /\ anchoring \in [AnchorCommands -> AnchorRun]
      /\ relayed \in [Commitments -> RelayRow]
      /\ RelayBacked(relayed, anchorPast) /\ EvidenceBacked(evidence, anchorPast)
  BY DEF AnchoringIInv, AnchorTypes
<1>1. CASE \E d \in Commitments, registry \in BOOLEAN : AnchorBegin(a, d, registry)
  <2>1. anchoring' \in [AnchorCommands -> AnchorRun]
    BY <1>0, <1>1 DEF AnchorBegin, AnchorRun
  <2> QED
    BY <1>0, <1>1, <2>1, SameHistory, AnchorStep DEF AnchorBegin
<1>2. CASE \E t \in Txs : AnchorTx(a, t)
  BY <1>2, SaveConfirmedOK DEF AnchorTx
<1>3. CASE \E t \in Txs : Broadcast(a, t)
  <2> PICK t \in Txs : Broadcast(a, t)
    BY <1>3
  <2>1. c \in Commitments /\ anchoring[a].registry \in BOOLEAN
    BY AnchorStage DEF Broadcast
  <2>2. anchoring' \in [AnchorCommands -> AnchorRun]
    BY <1>0, <2>1 DEF Broadcast, AnchorRun
  <2> QED
    BY <1>0, <2>2, SameHistory, AnchorStep DEF Broadcast
<1>4. CASE AnchorRawTx(a)
  <2>1. anchoring[a].tx \in Txs
    BY <1>4, AnchorStage DEF AnchorRawTx
  <2> QED
    BY <1>4, <2>1, SaveConfirmedOK DEF AnchorRawTx
<1>5. CASE AnchorFails(a)
  <2>1. anchoring' \in [AnchorCommands -> AnchorRun]
    BY <1>0, <1>5 DEF AnchorFails, AnchorRun
  <2> QED
    BY <1>0, <1>5, <2>1, SameHistory, AnchorStep DEF AnchorFails
<1>6. CASE AnchorRelay(a)
  BY <1>6, AnchorRelayOK
<1>7. CASE AnchorPlain(a)
  <2> DEFINE seen == IF anchoring[a].registry THEN FirstSeen(c) ELSE {}
             b == IF seen = {} THEN chain.tip ELSE CHOOSE d \in seen : TRUE
  <2>2. SaveEvidence(a, NoTx, b) /\ anchoring[a].stage \in {"begun", "waiting"}
    BY <1>7 DEF AnchorPlain
  <2>3. seen \subseteq 0..MaxBlock /\ chain.tip \in 0..MaxBlock
    BY AnchoringAssumption DEF FirstSeen, Publishers, AnchoringIInv, AnchorTypes, Blocks
  <2>4. b \in 0..MaxBlock
    <3> HIDE DEF seen
    <3> QED
      BY <2>3
  <2>5. RowBacked(Evidence(NoTx, b, anchoring[a].registry), c, anchorPast) /\ Grows(anchorPast, anchorPast)
    BY DEF RowBacked, Evidence, Grows
  <2>6. /\ evidence' \in [Commitments -> EvidenceRow]
        /\ anchoring' \in [AnchorCommands -> AnchorRun]
        /\ EvidenceBacked(evidence', anchorPast)
    <3> HIDE DEF b
    <3> QED
      BY <2>2, <2>4, <2>5, SavedOK
  <2> QED
    BY <1>0, <1>7, <2>6, SameHistory, AnchorStep DEF AnchorPlain
<1>8. CASE \E t \in Txs, b \in 1..MaxBlock : AnchorRelayClaim(a, t, b)
  BY <1>8, AnchorRelayClaimOK
<1> QED
  BY <1>1, <1>2, <1>3, <1>4, <1>5, <1>6, <1>7, <1>8

LEMMA RelayOK ==
    ASSUME AnchoringIInv, NEW c \in Commitments,
           RelayCheckpoint(c) \/ \E t \in Txs : ConfirmRelayed(c, t)
    PROVE  AnchoringIInv'
<1>1. /\ evidence \in [Commitments -> EvidenceRow]
      /\ anchoring \in [AnchorCommands -> AnchorRun]
      /\ EvidenceBacked(evidence, anchorPast)
  BY DEF AnchoringIInv, AnchorTypes
<1>2. CASE RelayCheckpoint(c)
  <2>1. Queued \in RelayRow
    BY AnchoringAssumption DEF Queued, RelayRow
  <2>2. relayed' \in [Commitments -> RelayRow] /\ RelayBacked(relayed', anchorPast)
    BY <1>2, <2>1, RelayedOK DEF RelayCheckpoint
  <2> QED
    BY <1>1, <1>2, <2>2, SameHistory, AnchorStep DEF RelayCheckpoint
<1>3. CASE \E t \in Txs : ConfirmRelayed(c, t)
  <2> PICK t \in Txs : ConfirmRelayed(c, t)
    BY <1>3
  <2> DEFINE x == [queued |-> TRUE, tx |-> t, block |-> chain.mined[t]]
  <2>1. /\ chain.mined[t] \in 1..MaxBlock /\ <<t, c, chain.mined[t]>> \in anchorPast.proven
        /\ <<t, chain.mined[t]>> \in anchorPast.landed
    BY VerifiedIsProven DEF ConfirmRelayed
  <2>2. x \in RelayRow /\ x.tx = t /\ x.block = chain.mined[t]
    BY <2>1, AnchoringAssumption DEF RelayRow
  <2>3. relayed' = [relayed EXCEPT ![c] = x]
    BY DEF ConfirmRelayed
  <2>4. relayed' \in [Commitments -> RelayRow] /\ RelayBacked(relayed', anchorPast)
    <3> HIDE DEF x
    <3> QED
      BY <2>1, <2>2, <2>3, RelayedOK
  <2> QED
    BY <1>1, <2>4, SameHistory, AnchorStep DEF ConfirmRelayed
<1> QED
  BY <1>2, <1>3

\* Steps of the feed and of the finality view.
LEMMA ViewStep ==
    ASSUME AnchoringIInv, UNCHANGED <<chain, evidence, anchoring, relayed, anchorPast>>,
           feed' \subseteq Once(anchorPast), cache' \in Cache,
           refreshes' \in [Refreshers -> {NoRefresh} \cup RefreshBegun \cup RefreshSeen],
           \A r \in Refreshers : RefreshOK(refreshes'[r], anchorPast),
           ReportOK(cache'.reported, anchorPast),
           MemoryInv', AlarmSticky'
    PROVE  AnchoringIInv'
<1>1. feed' \in SUBSET Txs
  BY DEF Once
<1>2. AnchorTypes'
  BY <1>1 DEF AnchoringIInv, AnchorTypes
<1>3. EmitInv'
  BY DEF AnchoringIInv, EmitInv, Emitter, Publishers
<1>4. RelayBacked(relayed, anchorPast)' /\ EvidenceBacked(evidence, anchorPast)'
  BY DEF AnchoringIInv
<1> QED
  BY <1>2, <1>3, <1>4 DEF AnchoringIInv

LEMMA PublishFeedOK ==
    ASSUME AnchoringIInv, PublishFeed
    PROVE  AnchoringIInv'
<1>1. feed' \subseteq Once(anchorPast)
  <2> SUFFICES ASSUME NEW t \in feed' PROVE t \in Once(anchorPast)
    OBVIOUS
  <2> PICK c \in Commitments : t = evidence[c].tx /\ t # NoTx
    BY DEF PublishFeed
  <2> QED
    BY DEF AnchoringIInv, EvidenceBacked
<1>2. MemoryInv' /\ AlarmSticky'
  BY DEF AnchoringIInv, MemoryInv, AlarmSticky, PublishFeed
<1> QED
  BY <1>1, <1>2, ViewStep DEF PublishFeed, AnchoringIInv, AnchorTypes

\* A refresh that begins or observes leaves the cache alone.
LEMMA RefreshKept ==
    ASSUME AnchoringIInv, UNCHANGED <<chain, evidence, anchoring, relayed, feed, cache, anchorPast>>,
           NEW r \in Refreshers, NEW f \in RefreshBegun \cup RefreshSeen,
           RefreshOK(f, anchorPast), refreshes' = [refreshes EXCEPT ![r] = f]
    PROVE  AnchoringIInv'
<1>1. refreshes \in [Refreshers -> {NoRefresh} \cup RefreshBegun \cup RefreshSeen]
  BY DEF AnchoringIInv, AnchorTypes
<1>2. refreshes' \in [Refreshers -> {NoRefresh} \cup RefreshBegun \cup RefreshSeen]
  BY <1>1
<1>3. \A q \in Refreshers : refreshes'[q] = IF q = r THEN f ELSE refreshes[q]
  BY <1>1
<1>4. \A q \in Refreshers : RefreshOK(refreshes'[q], anchorPast)
  BY <1>3 DEF AnchoringIInv
<1>5. MemoryInv' /\ AlarmSticky'
  BY DEF AnchoringIInv, MemoryInv, AlarmSticky
<1> QED
  BY <1>2, <1>4, <1>5, ViewStep DEF AnchoringIInv, AnchorTypes

LEMMA RefreshBeginOK ==
    ASSUME AnchoringIInv, NEW r \in Refreshers, NEW tip \in 0..MaxBlock, RefreshBegin(r, tip)
    PROVE  AnchoringIInv'
<1> DEFINE f == [stage |-> "begun", feed |-> feed, prev |-> cache.deep, tip |-> tip]
<1>1. f \in RefreshBegun /\ f.feed = feed /\ f.stage = "begun"
  BY DEF AnchoringIInv, AnchorTypes, RefreshBegun, Cache
<1>2. refreshes' = [refreshes EXCEPT ![r] = f]
  BY DEF RefreshBegin
<1> HIDE DEF f
<1>3. f \notin RefreshSeen
  BY <1>1 DEF RefreshSeen
<1>4. RefreshOK(f, anchorPast)
  BY <1>1, <1>3 DEF RefreshOK, AnchoringIInv
<1> QED
  BY <1>1, <1>2, <1>4, RefreshKept DEF RefreshBegin

LEMMA RefreshObserveOK ==
    ASSUME AnchoringIInv, NEW r \in Refreshers, NEW failed \in SUBSET Txs,
           RefreshObserve(r, failed)
    PROVE  AnchoringIInv'
<1> DEFINE g == refreshes[r]
           status == [t \in Txs |-> IF t \in g.feed
                        THEN CheckpointFinality(t, g.tip, t \in failed) ELSE "none"]
           block == [t \in Txs |-> IF t \in g.feed \ failed THEN chain.mined[t] ELSE 0]
           f == [stage |-> "observed", feed |-> g.feed, prev |-> g.prev,
                 status |-> status, block |-> block]
<1>1. g \in RefreshBegun
  <2>1. g \in {NoRefresh} \cup RefreshBegun \cup RefreshSeen /\ g.stage = "begun"
    BY DEF AnchoringIInv, AnchorTypes, RefreshObserve
  <2> HIDE DEF g
  <2> QED
    BY <2>1 DEF NoRefresh, RefreshSeen
<1>2. g.feed \subseteq Once(anchorPast) /\ g.feed \in SUBSET Txs /\ g.prev \in Blocks
  BY <1>1 DEF AnchoringIInv, RefreshOK, RefreshBegun
<1>3. refreshes' = [refreshes EXCEPT ![r] = f]
  BY DEF RefreshObserve
<1>4. status \in [Txs -> Statuses]
  BY DEF CheckpointFinality, Statuses
<1>5. block \in Blocks
  BY AnchoringAssumption DEF Blocks, AnchoringIInv, AnchorTypes
<1>6. \A t \in Txs : t \notin g.feed => status[t] = "none"
  OBVIOUS
<1>9. ASSUME NEW t \in Txs, status[t] = "deeply_confirmed"
      PROVE  <<t, block[t]>> \in anchorPast.landed
  <2>1. t \in g.feed /\ CheckpointFinality(t, g.tip, t \in failed) = "deeply_confirmed"
    BY <1>9
  <2>2. t \notin failed /\ chain.mined[t] # 0 /\ t \notin RevertedTxs
    BY <2>1 DEF CheckpointFinality
  <2>3. block[t] = chain.mined[t]
    BY <2>1, <2>2
  <2> QED
    BY <2>2, <2>3 DEF AnchoringIInv, EmitInv
<1> HIDE DEF g, status, block
<1>7. f \in RefreshSeen /\ f.feed = g.feed /\ f.status = status /\ f.block = block
  BY <1>2, <1>4, <1>5 DEF RefreshSeen
<1> HIDE DEF f
<1>8. RefreshOK(f, anchorPast)
  BY <1>2, <1>6, <1>7, <1>9 DEF RefreshOK
<1> QED
  BY <1>3, <1>7, <1>8, RefreshKept DEF RefreshObserve

LEMMA RefreshStoreOK ==
    ASSUME AnchoringIInv, NEW r \in Refreshers, RefreshStore(r)
    PROVE  AnchoringIInv'
<1> DEFINE f == refreshes[r]
           status == [t \in Txs |-> IF t \in ReorgSuspects(f) THEN "reorg_suspected"
                                    ELSE f.status[t]]
           reported == [t \in Txs |->
                          IF f.status[t] = "deeply_confirmed" THEN f.block[t]
                          ELSE IF t \in f.feed THEN cache.reported[t] ELSE 0]
<1>1. f \in RefreshSeen
  <2>1. f \in {NoRefresh} \cup RefreshBegun \cup RefreshSeen /\ f.stage = "observed"
    BY DEF AnchoringIInv, AnchorTypes, RefreshStore
  <2> HIDE DEF f
  <2> QED
    BY <2>1 DEF NoRefresh, RefreshBegun
<1>2. /\ f.feed \subseteq Once(anchorPast)
      /\ \A t \in Txs : t \notin f.feed => f.status[t] = "none"
      /\ \A t \in Txs : f.status[t] = "deeply_confirmed" => <<t, f.block[t]>> \in anchorPast.landed
  BY <1>1 DEF AnchoringIInv, RefreshOK
<1>3. /\ f.feed \in SUBSET Txs /\ f.prev \in Blocks
      /\ f.status \in [Txs -> Statuses] /\ f.block \in Blocks
  BY <1>1 DEF RefreshSeen
<1>4. /\ cache.reported \in Blocks /\ cache.raced \in BOOLEAN
      /\ ReportOK(cache.reported, anchorPast)
      /\ cache.raced \/ cache.deep = cache.reported
  BY DEF AnchoringIInv, AnchorTypes, Cache, MemoryInv
<1>5. cache' = [fresh |-> TRUE, status |-> status, deep |-> NextDeep(f),
                observed |-> f.block, reported |-> reported,
                raced |-> cache.raced \/ f.prev # cache.deep]
  BY DEF RefreshStore
<1>6. refreshes' = [refreshes EXCEPT ![r] = NoRefresh]
  BY DEF RefreshStore
<1>7. status \in [Txs -> Statuses]
  <2> HIDE DEF f
  <2> QED
    BY <1>3 DEF Statuses
<1>8. reported \in Blocks /\ NextDeep(f) \in Blocks
  <2> HIDE DEF f
  <2> QED
    BY <1>3, <1>4, AnchoringAssumption DEF Blocks, NextDeep
<1>9. ReportOK(reported, anchorPast)
  <2> SUFFICES ASSUME NEW t \in Txs, reported[t] # 0
               PROVE  t \in Once(anchorPast) /\ <<t, reported[t]>> \in anchorPast.landed
    BY DEF ReportOK
  <2> HIDE DEF f
  <2>1. CASE f.status[t] = "deeply_confirmed"
    BY <1>2, <2>1
  <2>2. CASE f.status[t] # "deeply_confirmed"
    BY <1>2, <1>4, <2>2 DEF ReportOK
  <2> QED
    BY <2>1, <2>2
\* A refresh that replaced the memory it had read keeps it equal to what is shown.
<1>10. cache'.raced \/ (f.prev = cache.deep /\ cache.deep = cache.reported)
  BY <1>4, <1>5
<1>11. cache'.raced \/ NextDeep(f) = reported
  <2> SUFFICES ASSUME f.prev = cache.reported PROVE NextDeep(f) = reported
    BY <1>10
  <2> HIDE DEF f
  <2> QED
    BY DEF NextDeep
<1>12. ASSUME f.prev = cache.reported, NEW t \in Txs,
              status[t] \notin {"none", "deeply_confirmed"},
              reported[t] # 0, f.block[t] # reported[t]
       PROVE  status[t] = "reorg_suspected"
  <2> HIDE DEF f
  <2>1. f.status[t] # "deeply_confirmed"
    BY <1>12 DEF ReorgSuspects
  <2>2. t \in f.feed /\ reported[t] = f.prev[t]
    BY <1>12, <2>1
  <2>3. t \in ReorgSuspects(f)
    BY <1>12, <2>1, <2>2 DEF ReorgSuspects
  <2> QED
    BY <2>3
<1> HIDE DEF f, status, reported
<1>13. /\ cache'.status = status /\ cache'.deep = NextDeep(f) /\ cache'.reported = reported
       /\ cache'.observed = f.block
       /\ cache' \in Cache
  BY <1>3, <1>4, <1>5, <1>7, <1>8 DEF Cache
<1>14. MemoryInv'
  BY <1>11, <1>13 DEF MemoryInv
<1>15. AlarmSticky'
  BY <1>10, <1>12, <1>13 DEF AlarmSticky
<1>16. refreshes \in [Refreshers -> {NoRefresh} \cup RefreshBegun \cup RefreshSeen]
  BY DEF AnchoringIInv, AnchorTypes
<1>17. refreshes' \in [Refreshers -> {NoRefresh} \cup RefreshBegun \cup RefreshSeen]
  BY <1>6, <1>16
<1>18. \A q \in Refreshers : RefreshOK(refreshes'[q], anchorPast)
  <2>1. \A q \in Refreshers : refreshes'[q] \in {refreshes[q], NoRefresh}
    BY <1>6, <1>16
  <2>2. RefreshOK(NoRefresh, anchorPast)
    BY DEF RefreshOK, NoRefresh, RefreshBegun, RefreshSeen
  <2> QED
    BY <2>1, <2>2 DEF AnchoringIInv
<1>19. UNCHANGED <<chain, evidence, anchoring, relayed, anchorPast, feed>>
  BY DEF RefreshStore
<1> QED
  BY <1>9, <1>13, <1>14, <1>15, <1>17, <1>18, <1>19, ViewStep DEF AnchoringIInv

LEMMA CacheExpiresOK ==
    ASSUME AnchoringIInv, CacheExpires
    PROVE  AnchoringIInv'
<1>1. cache \in Cache
  BY DEF AnchoringIInv, AnchorTypes
<1>2. /\ cache' \in Cache /\ cache'.status = cache.status /\ cache'.deep = cache.deep
      /\ cache'.reported = cache.reported /\ cache'.observed = cache.observed
      /\ cache'.raced = cache.raced
  BY <1>1 DEF CacheExpires, Cache
<1>3. MemoryInv' /\ AlarmSticky'
  BY <1>2 DEF AnchoringIInv, MemoryInv, AlarmSticky
<1> QED
  BY <1>2, <1>3, ViewStep DEF CacheExpires, AnchoringIInv, AnchorTypes

(***************************************************************************)
(* Whatever the chain drops and mines again, and however commands, relays  *)
(* and refreshes interleave: a relay the operator calls confirmed, and     *)
(* evidence recorded with a registry configured, once had the registry's   *)
(* event for that very commitment; without a contract (the zero address,   *)
(* the default) the evidence names a transaction that once succeeded and   *)
(* no more (anchor.rs, chain.rs, state.rs). What is shown as deeply        *)
(* confirmed succeeded in the block shown, and a deep receipt that goes    *)
(* away is shown as suspected until it is back (finality.rs), as long as   *)
(* refreshes do not overlap.                                               *)
(***************************************************************************)
THEOREM AnchorsStayBacked == AnchoringSpec => []AnchorsSound
<1>1. AnchoringInit => AnchoringIInv
  BY AnchoringInitOK
<1>2. AnchoringIInv /\ [AnchoringNext]_anchoringVars => AnchoringIInv'
  <2> SUFFICES ASSUME AnchoringIInv, [AnchoringNext]_anchoringVars PROVE AnchoringIInv'
    OBVIOUS
  <2>1. ASSUME NEW t \in Txs, MineTx(t) \/ Reorg(t) PROVE AnchoringIInv'
    BY <2>1, MineTxOK, ReorgOK
  <2>2. ASSUME MineBlock PROVE AnchoringIInv'
    BY <2>2, MineBlockOK
  <2>3. ASSUME NEW a \in AnchorCommands,
               \/ \E c \in Commitments, registry \in BOOLEAN : AnchorBegin(a, c, registry)
               \/ \E t \in Txs : AnchorTx(a, t) \/ Broadcast(a, t)
               \/ AnchorRawTx(a) \/ AnchorFails(a) \/ AnchorRelay(a) \/ AnchorPlain(a)
               \/ \E t \in Txs, b \in 1..MaxBlock : AnchorRelayClaim(a, t, b)
        PROVE  AnchoringIInv'
    BY <2>3, AnchorCommandsOK
  <2>4. ASSUME NEW c \in Commitments,
               RelayCheckpoint(c) \/ \E t \in Txs : ConfirmRelayed(c, t)
        PROVE  AnchoringIInv'
    BY <2>4, RelayOK
  <2>5. ASSUME PublishFeed PROVE AnchoringIInv'
    BY <2>5, PublishFeedOK
  <2>6. ASSUME NEW r \in Refreshers,
               \/ \E tip \in 0..MaxBlock : RefreshBegin(r, tip)
               \/ \E failed \in SUBSET Txs : RefreshObserve(r, failed)
               \/ RefreshStore(r)
        PROVE  AnchoringIInv'
    BY <2>6, RefreshBeginOK, RefreshObserveOK, RefreshStoreOK
  <2>7. ASSUME CacheExpires PROVE AnchoringIInv'
    BY <2>7, CacheExpiresOK
  <2>8. ASSUME UNCHANGED anchoringVars PROVE AnchoringIInv'
    <3>1. UNCHANGED <<chain, evidence, anchoring, relayed, feed, cache, refreshes, anchorPast>>
      BY <2>8 DEF anchoringVars
    <3>2. EmitInv'
      BY <3>1 DEF AnchoringIInv, EmitInv, Emitter, Publishers
    <3> QED
      BY <3>1, <3>2, SameHistory, ChainStep DEF AnchoringIInv, AnchorTypes
  <2> QED
    BY <2>1, <2>2, <2>3, <2>4, <2>5, <2>6, <2>7, <2>8 DEF AnchoringNext
<1>3. AnchoringIInv => AnchorsSound
  BY AnchoringIInvSound
<1> QED
  BY <1>1, <1>2, <1>3, PTL DEF AnchoringSpec

-----------------------------------------------------------------------------
(* Backup of the kit: the inductive invariant *)

\* Endpoints of ends whose operator holds envelope l whole.
HeldBy(ends, l, held) == \A e \in ends : held[BackupOperatorOf[e]][l] = "whole"

BackupRun ==
    [at : {"idle", "put", "get"}, locator : Nat, todo : SUBSET BackupEndpoints,
     on : BackupEndpoints \cup {"none"}, confirmed : SUBSET BackupEndpoints,
     intact : SUBSET BackupEndpoints]
RestoreRun == [at : {"idle", "prompt"}, locator : Nat]

\* A command at work has an envelope that was sealed.
CommandsInv ==
    /\ backup \in BackupRun /\ restoring \in RestoreRun
    /\ backup.locator <= Len(seals) /\ restoring.locator <= Len(seals)
    /\ backup.at # "idle" => backup.locator # 0
    /\ backup.at = "get" => backup.on # "none"
    /\ restoring.at # "idle" => restoring.locator # 0

\* What was confirmed and not lost since is held, and nothing is held unsealed.
HeldInv ==
    /\ \A l \in Seals : HeldBy(keyRecords[l].intact, l, keyObjects)
    /\ backup.locator \in Seals => HeldBy(backup.intact, backup.locator, keyObjects)
    /\ backup.locator \notin Seals => backup.intact = {}
    /\ \A o \in BackupOperators, l \in Seals : keyObjects[o][l] # "none" => l <= Len(seals)

RecordsInv ==
    \A l \in Seals : keyRecords[l] # NotRecorded =>
        l <= Len(seals) /\ Cardinality(keyRecords[l].confirmed) >= BackupReplicas

KeyBackupIInv == KeyBackupTypeOK /\ CommandsInv /\ HeldInv /\ RecordsInv

\* A canonical kit is valid and has no other endpoints than the ones parsing keeps.
LEMMA CanonicalKitsParse ==
    \A kit \in CanonicalKits : ParseKit(kit) = kit /\ kit # NoKit
<1> DEFINE Canon == [secret : {"R"}, sum : {"R"}, urls : SUBSET {"http"}]
<1>1. ASSUME NEW t \in KitTexts, ParseKit(t) # NoKit PROVE ParseKit(t) \in Canon
  BY <1>1 DEF ParseKit, ValidateAndExtractSecret, KitTexts
<1>2. ASSUME NEW s \in SheetSets, CombineSheets(s) # NoKit PROVE CombineSheets(s) \in Canon
  BY <1>2 DEF CombineSheets
<1>3. CanonicalKits \subseteq Canon
  BY <1>1, <1>2 DEF CanonicalKits
<1>4. ASSUME NEW kit \in Canon PROVE ParseKit(kit) = kit /\ kit # NoKit
  <2>1. kit.secret = "R" /\ kit.sum = "R" /\ kit.urls \cap {"http"} = kit.urls
    OBVIOUS
  <2> DEFINE same == [kit EXCEPT !.urls = kit.urls]
  <2>2. ParseKit(kit) = same
    BY <2>1 DEF ParseKit, ValidateAndExtractSecret
  <2>3. same = kit
    OBVIOUS
  <2>4. kit # NoKit
    BY <2>1 DEF NoKit
  <2> QED
    BY <2>2, <2>3, <2>4
<1> QED
  BY <1>3, <1>4

LEMMA SealedAt ==
    ASSUME KeyBackupIInv, NEW l \in 1..Len(seals)
    PROVE  seals[l] \in [kit : CanonicalKits, phrase : Phrases]
<1> DEFINE SealRecords == [kit : CanonicalKits, phrase : Phrases]
<1>1. seals \in Seq(SealRecords)
  BY DEF KeyBackupIInv, KeyBackupTypeOK
<1> HIDE DEF SealRecords
<1>2. seals[l] \in SealRecords
  BY <1>1
<1> QED
  BY <1>2 DEF SealRecords

LEMMA KeyBackupIInvSound == KeyBackupIInv => KeyBackupTypeOK /\ RecordedRestores
<1> SUFFICES ASSUME KeyBackupIInv, NEW l \in Seals, keyRecords[l] # NotRecorded
             PROVE  /\ Cardinality(keyRecords[l].confirmed) >= BackupReplicas
                    /\ \A e \in keyRecords[l].intact : FetchObjectFromAny(l, {e})
                    /\ ParseKit(OpenBackup(l, seals[l].phrase)) = seals[l].kit
  BY DEF KeyBackupIInv, RecordedRestores
<1>1. l <= Len(seals) /\ Cardinality(keyRecords[l].confirmed) >= BackupReplicas
  BY DEF KeyBackupIInv, RecordsInv
<1>2. \A e \in keyRecords[l].intact : FetchObjectFromAny(l, {e})
  BY DEF KeyBackupIInv, HeldInv, HeldBy, FetchObjectFromAny
<1>3. l \in 1..Len(seals)
  BY <1>1, BackupAssumption DEF KeyBackupIInv, KeyBackupTypeOK, Seals
<1>4. seals[l] \in [kit : CanonicalKits, phrase : Phrases]
  BY <1>3, SealedAt
<1>5. OpenBackup(l, seals[l].phrase) = seals[l].kit /\ seals[l].kit \in CanonicalKits
  BY <1>4 DEF OpenBackup
<1> QED
  BY <1>1, <1>2, <1>5, CanonicalKitsParse

-----------------------------------------------------------------------------
(* Backup of the kit: the steps *)

LEMMA KeyBackupInitOK == KeyBackupInit => KeyBackupIInv
<1> SUFFICES ASSUME KeyBackupInit PROVE KeyBackupIInv
  OBVIOUS
<1> USE BackupAssumption
<1>1. KeyBackupTypeOK
  BY DEF KeyBackupInit, KeyBackupTypeOK, NoBackup, NoRestore, NotRecorded
<1>2. CommandsInv
  BY DEF KeyBackupInit, CommandsInv, BackupRun, RestoreRun, NoBackup, NoRestore
<1>3. HeldInv
  BY DEF KeyBackupInit, HeldInv, HeldBy, NotRecorded, NoBackup, Seals
<1>4. RecordsInv
  BY DEF KeyBackupInit, RecordsInv
<1> QED
  BY <1>1, <1>2, <1>3, <1>4 DEF KeyBackupIInv

\* What the steps below need of the types.
LEMMA BackupTypes ==
    ASSUME KeyBackupIInv
    PROVE  /\ seals \in Seq([kit : CanonicalKits, phrase : Phrases]) /\ Len(seals) \in 0..MaxSeals
           /\ keyObjects \in [BackupOperators -> [Seals -> {"none", "whole", "damaged"}]]
           /\ keyRecords \in [Seals -> [confirmed : SUBSET BackupEndpoints,
                                        intact : SUBSET BackupEndpoints]]
           /\ kitOutput \in CanonicalKits \cup {NoKit, Foreign}
           /\ backupFaults \in 0..MaxBackupFaults
           /\ backup \in BackupRun /\ restoring \in RestoreRun
           /\ backup.locator \in 0..Len(seals) /\ restoring.locator \in 0..Len(seals)
           /\ MaxSeals \in Nat /\ MaxBackupFaults \in Nat
BY BackupAssumption DEF KeyBackupIInv, KeyBackupTypeOK, CommandsInv, BackupRun, RestoreRun

\* The types and the commands follow from these.
LEMMA CommandsStep ==
    ASSUME KeyBackupIInv,
           seals' \in Seq([kit : CanonicalKits, phrase : Phrases]), Len(seals') \in 0..MaxSeals,
           keyObjects' \in [BackupOperators -> [Seals -> {"none", "whole", "damaged"}]],
           keyRecords' \in [Seals -> [confirmed : SUBSET BackupEndpoints,
                                      intact : SUBSET BackupEndpoints]],
           kitOutput' \in CanonicalKits \cup {NoKit, Foreign},
           backupFaults' \in 0..MaxBackupFaults,
           backup' \in BackupRun, restoring' \in RestoreRun,
           backup'.locator <= Len(seals'), restoring'.locator <= Len(seals'),
           backup'.at # "idle" => backup'.locator # 0,
           backup'.at = "get" => backup'.on # "none",
           restoring'.at # "idle" => restoring'.locator # 0
    PROVE  KeyBackupTypeOK' /\ CommandsInv'
<1>1. CommandsInv'
  BY DEF CommandsInv
<1>2. /\ backup'.at \in {"idle", "put", "get"} /\ backup'.locator \in Nat
      /\ backup'.confirmed \cup backup'.todo \cup backup'.intact \subseteq BackupEndpoints
  BY DEF BackupRun
<1>3. restoring'.at \in {"idle", "prompt"} /\ restoring'.locator \in Nat
  BY DEF RestoreRun
<1>4. backup'.locator \in 0..Len(seals') /\ restoring'.locator \in 0..Len(seals')
  BY <1>2, <1>3
<1>5. KeyBackupTypeOK'
  BY <1>2, <1>3, <1>4 DEF KeyBackupTypeOK
<1> QED
  BY <1>1, <1>5

LEMMA FaultBound ==
    ASSUME KeyBackupIInv, BackupFault \/ UNCHANGED backupFaults
    PROVE  backupFaults' \in 0..MaxBackupFaults
BY BackupTypes DEF BackupFault

LEMMA BeginBackupOK ==
    ASSUME KeyBackupIInv, NEW kit \in CanonicalKits, NEW p \in Phrases, NEW q \in Phrases,
           NEW authed \in SUBSET BackupEndpoints, BeginBackup(kit, p, q, authed)
    PROVE  KeyBackupIInv'
<1> DEFINE n == Len(seals)
           seal == SealBackup(kit, p)
<1>1. seal \in [kit : CanonicalKits, phrase : Phrases]
  BY DEF SealBackup
<1>2. /\ seals \in Seq([kit : CanonicalKits, phrase : Phrases]) /\ n \in Nat /\ MaxSeals \in Nat
      /\ seals' = Append(seals, seal) /\ n < MaxSeals
  BY BackupTypes DEF BeginBackup
<1> HIDE DEF seal
<1>3. /\ seals' \in Seq([kit : CanonicalKits, phrase : Phrases]) /\ Len(seals') = n + 1
  BY <1>1, <1>2
<1>b. backup' = [NoBackup EXCEPT !.at = "put", !.locator = n + 1, !.todo = authed]
  BY DEF BeginBackup
<1> HIDE DEF n
<1>4. /\ backup' \in BackupRun /\ backup'.locator = n + 1 /\ backup'.at = "put"
      /\ backup'.intact = {}
  <2>1. n + 1 \in Nat
    BY <1>2
  <2>2. NoBackup \in BackupRun /\ NoBackup.intact = {}
    BY DEF NoBackup, BackupRun
  <2> QED
    BY ONLY <1>b, <2>1, <2>2, authed \in SUBSET BackupEndpoints DEF BackupRun
<1>5. Len(seals') \in 0..MaxSeals /\ n + 1 # 0 /\ \A k \in Nat : k <= n => k <= n + 1
  BY <1>2, <1>3 DEF n
<1>6. UNCHANGED <<keyObjects, keyRecords, restoring, kitOutput, backupFaults>>
  BY DEF BeginBackup
<1>7. restoring'.locator <= Len(seals') /\ (restoring'.at # "idle" => restoring'.locator # 0)
  BY <1>3, <1>5, <1>6, BackupTypes DEF KeyBackupIInv, CommandsInv, RestoreRun, n
<1>8. KeyBackupTypeOK' /\ CommandsInv'
  BY <1>2, <1>3, <1>4, <1>5, <1>6, <1>7, BackupTypes, CommandsStep
<1>9. \A l \in Seals : l <= n => l <= n + 1
  BY <1>5 DEF Seals
<1>10. HeldInv'
  BY <1>3, <1>4, <1>6, <1>9 DEF KeyBackupIInv, HeldInv, HeldBy, n
<1>11. RecordsInv'
  BY <1>3, <1>6, <1>9 DEF KeyBackupIInv, RecordsInv, n
<1> QED
  BY <1>8, <1>10, <1>11 DEF KeyBackupIInv

\* An upload stores the envelope whole, or not at all.
LEMMA StoredOK ==
    ASSUME KeyBackupIInv, NEW e \in BackupEndpoints, backup.locator \in Seals,
           Holds(BackupOperatorOf[e], "whole") \/ UNCHANGED keyObjects,
           UNCHANGED <<seals, keyRecords, restoring, kitOutput>>,
           backupFaults' \in 0..MaxBackupFaults,
           backup' \in BackupRun, backup'.locator = backup.locator,
           backup'.intact = backup.intact, backup'.at = "get" => backup'.on # "none"
    PROVE  KeyBackupIInv'
<1> DEFINE o == BackupOperatorOf[e]
           l == backup.locator
           row == [keyObjects[o] EXCEPT ![l] = "whole"]
<1>1. /\ keyObjects \in [BackupOperators -> [Seals -> {"none", "whole", "damaged"}]]
      /\ o \in BackupOperators /\ l \in Seals
  BY BackupTypes DEF BackupOperators
<1>2. keyObjects' = [keyObjects EXCEPT ![o] = row] \/ keyObjects' = keyObjects
  BY DEF Holds
<1> HIDE DEF o, l
<1>3. /\ keyObjects' \in [BackupOperators -> [Seals -> {"none", "whole", "damaged"}]]
      /\ \A b \in BackupOperators, k \in Seals :
            \/ keyObjects'[b][k] = keyObjects[b][k]
            \/ k = l /\ keyObjects'[b][k] = "whole"
  BY <1>1, <1>2
<1>4. l # 0 /\ l <= Len(seals)
  BY <1>1, BackupTypes DEF l, Seals
<1>5. KeyBackupTypeOK' /\ CommandsInv'
  BY <1>3, <1>4, BackupTypes, CommandsStep DEF KeyBackupIInv, CommandsInv, l
<1>6. \A ends \in SUBSET BackupEndpoints, k \in Seals :
          HeldBy(ends, k, keyObjects) => HeldBy(ends, k, keyObjects')
  BY <1>3 DEF HeldBy, BackupOperators
<1>7. HeldInv'
  <2>1. \A k \in Seals : HeldBy(keyRecords'[k].intact, k, keyObjects')
    BY <1>6, BackupTypes DEF KeyBackupIInv, HeldInv
  <2>2. HeldBy(backup'.intact, backup'.locator, keyObjects')
    BY <1>6, BackupTypes DEF KeyBackupIInv, HeldInv, BackupRun
  <2>3. \A b \in BackupOperators, k \in Seals : keyObjects'[b][k] # "none" => k <= Len(seals')
    BY <1>3, <1>4 DEF KeyBackupIInv, HeldInv
  <2> QED
    BY <2>1, <2>2, <2>3 DEF HeldInv
<1>8. RecordsInv'
  BY DEF KeyBackupIInv, RecordsInv
<1> QED
  BY <1>5, <1>7, <1>8 DEF KeyBackupIInv

LEMMA AtWork ==
    ASSUME KeyBackupIInv, backup.at # "idle"
    PROVE  backup.locator \in Seals
BY BackupTypes DEF KeyBackupIInv, CommandsInv, Seals

LEMMA PutEnvelopeOK ==
    ASSUME KeyBackupIInv, NEW e \in BackupEndpoints, PutEnvelope(e) \/ PutEnvelopeFails(e)
    PROVE  KeyBackupIInv'
<1>1. backup.locator \in Seals
  BY AtWork DEF PutEnvelope, PutEnvelopeFails
<1>2. backup \in BackupRun /\ e # "none"
  BY BackupTypes, BackupAssumption
<1>3. CASE PutEnvelope(e)
  <2>1. /\ backup' \in BackupRun /\ backup'.locator = backup.locator
        /\ backup'.intact = backup.intact /\ backup'.on # "none"
    BY <1>2, <1>3 DEF PutEnvelope, BackupRun
  <2>2. backupFaults' \in 0..MaxBackupFaults
    BY <1>3, FaultBound DEF PutEnvelope
  <2> QED
    BY <1>1, <1>3, <2>1, <2>2, StoredOK DEF PutEnvelope
<1>4. CASE PutEnvelopeFails(e)
  <2>1. /\ backup' \in BackupRun /\ backup'.locator = backup.locator
        /\ backup'.intact = backup.intact /\ backup'.at = "put"
    BY <1>2, <1>4 DEF PutEnvelopeFails, BackupRun
  <2>2. backupFaults' \in 0..MaxBackupFaults
    BY <1>4, FaultBound DEF PutEnvelopeFails
  <2> QED
    BY <1>1, <1>4, <2>1, <2>2, StoredOK DEF PutEnvelopeFails
<1> QED
  BY <1>3, <1>4

\* Steps that change no object and count only what was read back.
LEMMA CountedOK ==
    ASSUME KeyBackupIInv, UNCHANGED <<seals, keyObjects, keyRecords>>,
           kitOutput' \in CanonicalKits \cup {NoKit, Foreign},
           backupFaults' \in 0..MaxBackupFaults,
           backup' \in BackupRun, restoring' \in RestoreRun,
           backup'.locator <= Len(seals), restoring'.locator <= Len(seals),
           backup'.at # "idle" => backup'.locator # 0,
           backup'.at = "get" => backup'.on # "none",
           restoring'.at # "idle" => restoring'.locator # 0,
           backup'.locator \in Seals => HeldBy(backup'.intact, backup'.locator, keyObjects),
           backup'.locator \notin Seals => backup'.intact = {}
    PROVE  KeyBackupIInv'
<1>1. KeyBackupTypeOK' /\ CommandsInv'
  BY BackupTypes, CommandsStep
<1>2. HeldInv'
  BY DEF KeyBackupIInv, HeldInv
<1>3. RecordsInv'
  BY DEF KeyBackupIInv, RecordsInv
<1> QED
  BY <1>1, <1>2, <1>3 DEF KeyBackupIInv

LEMMA ConfirmOK ==
    ASSUME KeyBackupIInv, ConfirmReplica \/ ReadBackFails
    PROVE  KeyBackupIInv'
<1> DEFINE got == IF ConfirmReplica /\ ReadBack(backup.on) THEN {backup.on} ELSE {}
<1>1. backup \in BackupRun /\ backup.at = "get" /\ backup.locator \in Seals
  BY BackupTypes, AtWork DEF ConfirmReplica, ReadBackFails
<1>2. backup.on \in BackupEndpoints
  BY <1>1 DEF KeyBackupIInv, CommandsInv, BackupRun
<1>3. /\ backup' \in BackupRun /\ backup'.locator = backup.locator /\ backup'.at = "put"
      /\ \A e \in backup'.intact : e \in backup.intact
                                   \/ (e = backup.on /\ ReadBack(backup.on))
  <2>1. CASE ConfirmReplica /\ ReadBack(backup.on)
    BY <1>1, <1>2, <2>1 DEF ConfirmReplica, BackupRun
  <2>2. CASE ConfirmReplica /\ ~ReadBack(backup.on)
    BY <1>1, <1>2, <2>2 DEF ConfirmReplica, BackupRun
  <2>3. CASE ReadBackFails
    BY <1>1, <1>2, <2>3 DEF ReadBackFails, BackupRun
  <2> QED
    BY <2>1, <2>2, <2>3
<1>4. HeldBy(backup'.intact, backup'.locator, keyObjects)
  BY <1>1, <1>3 DEF KeyBackupIInv, HeldInv, HeldBy, ReadBack
<1>5. backupFaults' \in 0..MaxBackupFaults
  BY FaultBound DEF ConfirmReplica, ReadBackFails
<1>6. UNCHANGED <<seals, keyObjects, keyRecords, restoring, kitOutput>>
  BY DEF ConfirmReplica, ReadBackFails
<1>7. backup.locator # 0
  BY <1>1 DEF KeyBackupIInv, CommandsInv
<1> QED
  BY <1>1, <1>3, <1>4, <1>5, <1>6, <1>7, CountedOK, BackupTypes DEF KeyBackupIInv, CommandsInv

LEMMA IdleRuns ==
    /\ NoBackup \in BackupRun /\ NoBackup.locator = 0 /\ NoBackup.at = "idle"
    /\ NoBackup.intact = {} /\ 0 \notin Seals
    /\ NoRestore \in RestoreRun /\ NoRestore.locator = 0 /\ NoRestore.at = "idle"
BY BackupAssumption DEF NoBackup, BackupRun, NoRestore, RestoreRun, Seals

LEMMA RecordBackupOK ==
    ASSUME KeyBackupIInv, RecordBackup
    PROVE  KeyBackupIInv'
<1> DEFINE l == backup.locator
           record == [confirmed |-> backup.confirmed, intact |-> backup.intact]
           Record == [confirmed : SUBSET BackupEndpoints, intact : SUBSET BackupEndpoints]
           enough == ~(Cardinality(backup.confirmed) < BackupReplicas)
<1>1. /\ l \in Seals /\ l <= Len(seals) /\ Len(seals) \in Nat
      /\ keyRecords \in [Seals -> Record] /\ record \in Record
      /\ backup.confirmed \in SUBSET BackupEndpoints
  BY BackupTypes, AtWork DEF RecordBackup, KeyBackupIInv, CommandsInv, BackupRun
<1>2. Cardinality(backup.confirmed) \in Nat
  BY <1>1, BackupAssumption, FS_Subset, FS_CardinalityType
<1>3. enough => Cardinality(backup.confirmed) >= BackupReplicas
  BY <1>2, BackupAssumption
<1>4. keyRecords' = IF enough THEN [keyRecords EXCEPT ![l] = record] ELSE keyRecords
  BY DEF RecordBackup
<1>5. record.confirmed = backup.confirmed /\ record.intact = backup.intact
  OBVIOUS
<1> HIDE DEF l, record, enough, Record
<1>6. /\ keyRecords' \in [Seals -> Record]
      /\ \A k \in Seals : \/ keyRecords'[k] = keyRecords[k]
                          \/ k = l /\ keyRecords'[k] = record /\ enough
  BY <1>1, <1>4
<1>7. /\ UNCHANGED <<seals, keyObjects, restoring, kitOutput, backupFaults>>
      /\ backup' = NoBackup
  BY DEF RecordBackup
<1>8. KeyBackupTypeOK' /\ CommandsInv'
  <2>1. keyRecords' \in [Seals -> [confirmed : SUBSET BackupEndpoints,
                                   intact : SUBSET BackupEndpoints]]
    BY <1>6 DEF Record
  <2>2. 0 <= Len(seals)
    BY <1>1
  <2> QED
    BY <1>7, <2>1, <2>2, IdleRuns, BackupTypes, CommandsStep DEF KeyBackupIInv, CommandsInv
<1>9. HeldInv'
  <2>1. HeldBy(record.intact, l, keyObjects)
    BY <1>1, <1>5 DEF KeyBackupIInv, HeldInv, l
  <2>2. \A k \in Seals : HeldBy(keyRecords'[k].intact, k, keyObjects')
    BY <1>6, <1>7, <2>1 DEF KeyBackupIInv, HeldInv
  <2> QED
    BY <1>7, <2>2, IdleRuns DEF KeyBackupIInv, HeldInv
<1>10. RecordsInv'
  BY <1>1, <1>3, <1>5, <1>6, <1>7 DEF KeyBackupIInv, RecordsInv
<1> QED
  BY <1>8, <1>9, <1>10 DEF KeyBackupIInv

LEMMA RestoreOK ==
    ASSUME KeyBackupIInv,
           \/ \E l \in Seals, ends \in SUBSET BackupEndpoints : FetchBackup(l, ends)
           \/ \E p \in Phrases : WriteKit(p)
           \/ OutputChanges \/ BackupDies
    PROVE  KeyBackupIInv'
<1>0. /\ UNCHANGED <<seals, keyObjects, keyRecords>> /\ backupFaults' \in 0..MaxBackupFaults
  BY FaultBound DEF FetchBackup, WriteKit, OutputChanges, BackupDies
<1>1. /\ restoring' \in RestoreRun /\ restoring'.locator <= Len(seals)
      /\ restoring'.at # "idle" => restoring'.locator # 0
  <2>1. CASE \E l \in Seals, ends \in SUBSET BackupEndpoints : FetchBackup(l, ends)
    <3> PICK l \in Seals, ends \in SUBSET BackupEndpoints : FetchBackup(l, ends)
      BY <2>1
    <3>1. PICK e \in ends : keyObjects[BackupOperatorOf[e]][l] = "whole"
      BY DEF FetchBackup, FetchObjectFromAny
    <3>2. l <= Len(seals) /\ l \in Nat /\ l # 0
      BY <3>1 DEF KeyBackupIInv, HeldInv, BackupOperators, Seals
    <3> QED
      BY <3>2 DEF FetchBackup, RestoreRun
  <2>2. CASE (\E p \in Phrases : WriteKit(p)) \/ BackupDies
    <3>1. restoring' = NoRestore
      BY <2>2 DEF WriteKit, BackupDies
    <3> QED
      BY <3>1, IdleRuns, BackupTypes
  <2>3. CASE OutputChanges
    BY <2>3 DEF OutputChanges, KeyBackupIInv, CommandsInv
  <2> QED
    BY <2>1, <2>2, <2>3
<1>2. kitOutput' \in CanonicalKits \cup {NoKit, Foreign}
  <2>1. CASE \E p \in Phrases : WriteKit(p)
    <3> PICK p \in Phrases : WriteKit(p)
      BY <2>1
    <3> DEFINE l == restoring.locator
    <3>1. l \in 1..Len(seals)
      BY BackupTypes DEF WriteKit, KeyBackupIInv, CommandsInv
    <3>2. seals[l] \in [kit : CanonicalKits, phrase : Phrases]
      BY <3>1, SealedAt
    <3>3. OpenBackup(l, p) \in CanonicalKits \cup {NoKit}
      BY <3>2 DEF OpenBackup
    <3>4. OpenBackup(l, p) # NoKit => ParseKit(OpenBackup(l, p)) \in CanonicalKits
      BY <3>3, CanonicalKitsParse
    <3> HIDE DEF l
    <3>5. kitOutput' = IF OpenBackup(l, p) = NoKit THEN kitOutput
                       ELSE ParseKit(OpenBackup(l, p))
      BY DEF WriteKit, l
    <3> QED
      BY <3>4, <3>5, BackupTypes
  <2>2. CASE ~\E p \in Phrases : WriteKit(p)
    BY <2>2, BackupTypes DEF FetchBackup, OutputChanges, BackupDies
  <2> QED
    BY <2>1, <2>2
<1>3. CASE BackupDies
  <2>1. backup' = NoBackup /\ 0 <= Len(seals)
    BY <1>3, BackupTypes DEF BackupDies
  <2> QED
    BY <1>0, <1>1, <1>2, <2>1, IdleRuns, CountedOK
<1>4. CASE ~BackupDies
  <2>1. backup' = backup
    BY <1>4 DEF FetchBackup, WriteKit, OutputChanges
  <2> QED
    BY <1>0, <1>1, <1>2, <2>1, CountedOK DEF KeyBackupIInv, CommandsInv, HeldInv
<1> QED
  BY <1>3, <1>4

LEMMA OperatorHarmsOK ==
    ASSUME KeyBackupIInv, NEW o \in BackupOperators, NEW l \in Seals,
           NEW what \in {"none", "damaged"}, OperatorHarms(o, l, what)
    PROVE  KeyBackupIInv'
<1> DEFINE spared(ends) == {e \in ends : BackupOperatorOf[e] # o}
           row == [keyObjects[o] EXCEPT ![l] = what]
           record == [keyRecords[l] EXCEPT !.intact = spared(@)]
           Record == [confirmed : SUBSET BackupEndpoints, intact : SUBSET BackupEndpoints]
<1>1. /\ keyObjects \in [BackupOperators -> [Seals -> {"none", "whole", "damaged"}]]
      /\ keyRecords \in [Seals -> Record]
  BY BackupTypes
<1>2. /\ keyObjects' = [keyObjects EXCEPT ![o] = row]
      /\ keyRecords' = [keyRecords EXCEPT ![l] = record]
      /\ UNCHANGED <<seals, restoring, kitOutput>>
  BY DEF OperatorHarms
<1>3. /\ keyObjects' \in [BackupOperators -> [Seals -> {"none", "whole", "damaged"}]]
      /\ \A b \in BackupOperators, k \in Seals :
            keyObjects'[b][k] = IF b = o /\ k = l THEN what ELSE keyObjects[b][k]
  BY <1>1, <1>2
<1>4. keyRecords[l] \in Record
  BY <1>1
<1>5. record \in Record /\ record.confirmed = keyRecords[l].confirmed
      /\ record.intact = spared(keyRecords[l].intact)
  BY <1>4
<1>6. keyRecords[l] = NotRecorded => record = NotRecorded
  BY <1>4, <1>5 DEF NotRecorded
<1> HIDE DEF record, Record
<1>7. /\ keyRecords' \in [Seals -> Record]
      /\ keyRecords'[l] = record /\ \A k \in Seals : k # l => keyRecords'[k] = keyRecords[k]
  BY <1>1, <1>2, <1>5
<1>8. /\ backup' \in BackupRun /\ backup'.locator = backup.locator /\ backup'.at = backup.at
      /\ backup'.on = backup.on
      /\ backup'.intact = IF backup.locator = l THEN spared(backup.intact) ELSE backup.intact
  BY BackupTypes DEF OperatorHarms, BackupRun
<1>9. backupFaults' \in 0..MaxBackupFaults
  BY FaultBound DEF OperatorHarms
<1>10. KeyBackupTypeOK' /\ CommandsInv'
  BY <1>2, <1>3, <1>7, <1>8, <1>9, BackupTypes, CommandsStep
     DEF KeyBackupIInv, CommandsInv, Record
<1>11. ASSUME NEW ends \in SUBSET BackupEndpoints, NEW k \in Seals, HeldBy(ends, k, keyObjects)
       PROVE  IF k = l THEN HeldBy(spared(ends), k, keyObjects')
              ELSE HeldBy(ends, k, keyObjects')
  BY <1>3, <1>11 DEF HeldBy, BackupOperators
<1>12. HeldInv'
  <2>1. ASSUME NEW k \in Seals PROVE HeldBy(keyRecords'[k].intact, k, keyObjects')
    <3>1. keyRecords[k].intact \in SUBSET BackupEndpoints
      BY BackupTypes
    <3>2. HeldBy(keyRecords[k].intact, k, keyObjects)
      BY DEF KeyBackupIInv, HeldInv
    <3> QED
      BY <1>5, <1>7, <1>11, <3>1, <3>2
  <2>2. ASSUME backup.locator \in Seals
        PROVE  HeldBy(backup'.intact, backup'.locator, keyObjects')
    <3>1. backup.intact \in SUBSET BackupEndpoints
      BY BackupTypes DEF BackupRun
    <3>2. HeldBy(backup.intact, backup.locator, keyObjects)
      BY <2>2 DEF KeyBackupIInv, HeldInv
    <3> QED
      BY <1>8, <1>11, <2>2, <3>1, <3>2
  <2>3. backup'.locator \notin Seals => backup'.intact = {}
    BY <1>8 DEF KeyBackupIInv, HeldInv
  <2>4. \A b \in BackupOperators, k \in Seals : keyObjects'[b][k] # "none" => k <= Len(seals')
    BY <1>2, <1>3 DEF KeyBackupIInv, HeldInv, OperatorHarms
  <2> QED
    BY <1>8, <2>1, <2>2, <2>3, <2>4 DEF HeldInv
<1>13. RecordsInv'
  BY <1>2, <1>5, <1>6, <1>7 DEF KeyBackupIInv, RecordsInv
<1> QED
  BY <1>10, <1>12, <1>13 DEF KeyBackupIInv

LEMMA KeyBackupInvariant == KeyBackupSpec => []KeyBackupIInv
<1>1. KeyBackupInit => KeyBackupIInv
  BY KeyBackupInitOK
<1>2. KeyBackupIInv /\ [KeyBackupNext]_keyBackupVars => KeyBackupIInv'
  <2> SUFFICES ASSUME KeyBackupIInv, [KeyBackupNext]_keyBackupVars PROVE KeyBackupIInv'
    OBVIOUS
  <2>1. ASSUME NEW kit \in CanonicalKits, NEW p \in Phrases, NEW q \in Phrases,
               NEW authed \in SUBSET BackupEndpoints, BeginBackup(kit, p, q, authed)
        PROVE  KeyBackupIInv'
    BY <2>1, BeginBackupOK
  <2>2. ASSUME NEW e \in BackupEndpoints, PutEnvelope(e) \/ PutEnvelopeFails(e)
        PROVE  KeyBackupIInv'
    BY <2>2, PutEnvelopeOK
  <2>3. ASSUME ConfirmReplica \/ ReadBackFails PROVE KeyBackupIInv'
    BY <2>3, ConfirmOK
  <2>4. ASSUME RecordBackup PROVE KeyBackupIInv'
    BY <2>4, RecordBackupOK
  <2>5. ASSUME \/ \E l \in Seals, ends \in SUBSET BackupEndpoints : FetchBackup(l, ends)
               \/ \E p \in Phrases : WriteKit(p)
               \/ OutputChanges \/ BackupDies
        PROVE  KeyBackupIInv'
    BY <2>5, RestoreOK
  <2>6. ASSUME NEW o \in BackupOperators, NEW l \in Seals, NEW what \in {"none", "damaged"},
               OperatorHarms(o, l, what)
        PROVE  KeyBackupIInv'
    BY <2>6, OperatorHarmsOK
  <2>7. ASSUME UNCHANGED keyBackupVars PROVE KeyBackupIInv'
    BY <2>7, CountedOK, BackupTypes DEF keyBackupVars, KeyBackupIInv, CommandsInv, HeldInv
  <2> QED
    BY <2>1, <2>2, <2>3, <2>4, <2>5, <2>6, <2>7 DEF KeyBackupNext
<1> QED
  BY <1>1, <1>2, PTL DEF KeyBackupSpec

-----------------------------------------------------------------------------
(* Induction over the naturals, by the least counterexample *)

LEMMA LeastNatural ==
    ASSUME NEW S \in SUBSET Nat, S # {}
    PROVE  \E n \in S : \A m \in S : n <= m
<1> DEFINE R == OpToRel(<, Nat)
<1>1. IsWellFoundedOn(R, Nat)
  BY NatLessThanWellFounded
<1>2. \A m, n \in Nat : m < n => <<m, n>> \in R
  BY Zenon DEF OpToRel
<1> HIDE DEF R
<1>3. PICK n \in S : \A m \in S : ~(<<m, n>> \in R)
  BY <1>1, WFMin
<1>4. ASSUME NEW m \in S PROVE n <= m
  <2>1. m \in Nat /\ n \in Nat /\ ~(<<m, n>> \in R)
    BY <1>3
  <2>2. ~(m < n)
    BY <1>2, <2>1
  <2> QED
    BY <2>1, <2>2
<1> QED
  BY <1>3, <1>4

LEMMA GreatestNatural ==
    ASSUME NEW N \in Nat, NEW S \in SUBSET (0..N), S # {}
    PROVE  \E n \in S : \A m \in S : m <= n
<1> DEFINE T == {N - n : n \in S}
<1>1. T \in SUBSET Nat /\ T # {}
  <2>1. \A n \in S : n \in 0..N
    OBVIOUS
  <2>2. \A n \in 0..N : N - n \in Nat
    OBVIOUS
  <2> QED
    BY <2>1, <2>2
<1> HIDE DEF T
<1>2. PICK k \in T : \A m \in T : k <= m
  BY <1>1, LeastNatural
<1>3. PICK n \in S : k = N - n
  BY <1>2 DEF T
<1>4. \A m \in S : N - m \in T
  BY DEF T
<1>5. ASSUME NEW m \in S PROVE m <= n
  <2>1. N - n <= N - m
    BY <1>2, <1>3, <1>4
  <2>2. m \in 0..N /\ n \in 0..N
    OBVIOUS
  <2> QED
    BY <2>1, <2>2
<1> QED
  BY <1>5

-----------------------------------------------------------------------------
(* Recovery: the inductive invariant *)

EpochKeys == Nat \X Nat
VaultStore == [alive : {TRUE}, epoch : 1..MaxEpoch, key : EpochKeys, counter : Nat,
               head : Nat, upload : Nat]
SnapshotRow == [device : VaultDevices, counter : Nat, parent : Nat, epoch : 1..MaxEpoch,
                key : EpochKeys]
CertRecord == [kind : {"cert"}, device : VaultDevices]
EnvelopeRecord ==
    [kind : {"envelope"}, device : VaultDevices, epoch : 1..MaxEpoch, key : EpochKeys]
HeadRecord == [kind : {"head"}, snapshot : Nat]
LogRecord == {Genesis} \cup CertRecord \cup EnvelopeRecord \cup HeadRecord
Sayings == {"nothing", "no head", "fork", "no envelope", "recovered", "not rebuilt"}
RecoveryRun ==
    [stage : {"idle", "read", "selected", "restored"}, said : Sayings, read : SUBSET LogRecord,
     partial : BOOLEAN, head : Nat, key : EpochKeys]

\* An epoch does not fall behind a snapshot's, and one epoch has one key.
Follows(epoch, key, row) == row.epoch <= epoch /\ (row.epoch = epoch => key = row.key)

\* Snapshots follow their parents; a device counts its own and has one key an epoch.
HistoryOK(snaps) ==
    /\ snaps \in Seq(SnapshotRow)
    /\ \A n \in 1..Len(snaps) :
          /\ snaps[n].parent < n
          /\ snaps[n].parent # 0 =>
                Follows(snaps[n].epoch, snaps[n].key, snaps[snaps[n].parent])
    /\ \A m, n \in 1..Len(snaps) : snaps[m].device = snaps[n].device =>
          /\ m # n => snaps[m].counter # snaps[n].counter
          /\ snaps[m].epoch = snaps[n].epoch => snaps[m].key = snaps[n].key

\* A store is at least where its head and its device's snapshots are.
StoreOK(s, d, snaps) ==
    \/ s = NoStore
    \/ /\ s \in VaultStore
       /\ s.head <= Len(snaps) /\ s.upload \in {0, s.head}
       /\ s.head # 0 => Follows(s.epoch, s.key, snaps[s.head])
       /\ \A n \in 1..Len(snaps) : snaps[n].device = d =>
             snaps[n].counter <= s.counter /\ Follows(s.epoch, s.key, snaps[n])

HeadsIn(log) == {r.snapshot : r \in {x \in log : x.kind = "head"}}
Certified(log, snaps) == \A n \in HeadsIn(log) : Cert(snaps[n].device) \in log

\* Every head but the newest is another head's parent.
Chained(log, snaps) ==
    \A m \in HeadsIn(log) :
        \/ \A k \in HeadsIn(log) : k <= m
        \/ \E n \in HeadsIn(log) : snaps[n].parent = m

LogOK(log, snaps, fork) ==
    /\ log \subseteq LogRecord
    /\ HeadsIn(log) \subseteq 1..Len(snaps) /\ Certified(log, snaps)
    /\ \A r \in log : r.kind = "envelope" =>
          \E n \in 1..Len(snaps) : /\ snaps[n].device = r.device /\ snaps[n].epoch = r.epoch
                                   /\ snaps[n].key = r.key
    /\ fork \/ Chained(log, snaps)

\* TrustedHeads and Maximal, of any history.
Trusted(read, snaps) == {n \in HeadsIn(read) : Cert(snaps[n].device) \in read}
Tops(read, snaps) ==
    Trusted(read, snaps) \ {snaps[n].parent : n \in Trusted(read, snaps)}

RunOK(run, log, snaps, fork) ==
    /\ run \in RecoveryRun /\ run.read \subseteq log /\ run.head <= Len(snaps)
    /\ run.stage = "read" /\ ~run.partial /\ ~fork =>
          Chained(run.read, snaps) /\ Certified(run.read, snaps)
    /\ run.stage \in {"selected", "restored"} => Tops(run.read, snaps) = {run.head}
    /\ run.stage = "restored" => run.key = snaps[run.head].key
    /\ run.said = "fork" => fork \/ run.partial

VaultIInv ==
    /\ HistoryOK(snapshots)
    /\ stores \in [VaultDevices -> {NoStore} \cup VaultStore]
    /\ \A d \in VaultDevices : StoreOK(stores[d], d, snapshots)
    /\ branched \in BOOLEAN /\ LogOK(recordLog, snapshots, branched)
    /\ RunOK(recovery, recordLog, snapshots, branched)

-----------------------------------------------------------------------------
(* Recovery: what the invariant says of the selection *)

LEMMA RowTypes ==
    ASSUME NEW snaps, HistoryOK(snaps), NEW n \in 1..Len(snaps)
    PROVE  /\ snaps[n] \in SnapshotRow /\ Len(snaps) \in Nat
           /\ snaps[n].device \in VaultDevices /\ snaps[n].counter \in Nat
           /\ snaps[n].parent \in Nat /\ snaps[n].epoch \in 1..MaxEpoch
           /\ snaps[n].epoch \in Nat /\ snaps[n].key \in EpochKeys
<1>1. snaps \in Seq(SnapshotRow)
  BY DEF HistoryOK
<1>2. snaps[n] \in SnapshotRow /\ Len(snaps) \in Nat
  BY <1>1
<1> QED
  BY <1>2, RecoveryAssumption DEF SnapshotRow

LEMMA StoreTypes ==
    ASSUME NEW s \in VaultStore
    PROVE  /\ s # NoStore /\ s.alive /\ s.epoch \in 1..MaxEpoch /\ s.epoch \in Nat
           /\ s.key \in EpochKeys /\ s.counter \in Nat /\ s.head \in Nat /\ s.upload \in Nat
<1>1. /\ s.alive = TRUE /\ s.epoch \in 1..MaxEpoch /\ s.key \in EpochKeys
      /\ s.counter \in Nat /\ s.head \in Nat /\ s.upload \in Nat
  BY DEF VaultStore
<1>2. s # NoStore
  BY <1>1 DEF NoStore
<1>3. \A e \in 1..MaxEpoch : e \in Nat
  BY RecoveryAssumption
<1> QED
  BY ONLY <1>1, <1>2, <1>3

LEMMA SelectionNames ==
    \A read : TrustedHeads(read) = Trusted(read, snapshots)
              /\ Maximal(read) = Tops(read, snapshots)
BY DEF TrustedHeads, Trusted, Maximal, Tops, HeadsIn

\* The heads that were shown lead to the only one that is no parent.
LEMMA TopsAncestor ==
    ASSUME HistoryOK(snapshots), NEW read, HeadsIn(read) \subseteq 1..Len(snapshots),
           NEW h, Tops(read, snapshots) = {h}
    PROVE  Trusted(read, snapshots) \subseteq Ancestry(h)
<1> DEFINE N == Len(snapshots)
           heads == Trusted(read, snapshots)
<1>1. /\ snapshots \in Seq(SnapshotRow) /\ DOMAIN snapshots = 1..N /\ N \in Nat
      /\ heads \subseteq 1..N
  BY DEF HistoryOK, Trusted
<1>2. SUFFICES ASSUME NEW line \in SUBSET (1..N), h \in line,
                      \A m \in line : snapshots[m].parent \in line \cup {0}
               PROVE  heads \subseteq line
  BY <1>1 DEF Ancestry
<1>3. SUFFICES ASSUME heads \ line # {} PROVE FALSE
  OBVIOUS
<1> HIDE DEF N, heads
<1>4. heads \ line \in SUBSET (0..N)
  BY <1>1
<1>5. PICK n \in heads \ line : \A m \in heads \ line : m <= n
  BY <1>1, <1>3, <1>4, GreatestNatural
<1>6. n \notin Tops(read, snapshots)
  BY <1>2
<1>7. PICK m \in heads : snapshots[m].parent = n
  BY <1>6 DEF Tops, heads
<1>8. n < m /\ n \in 1..N /\ m \in 1..N
  BY <1>1, <1>7 DEF HistoryOK, N
<1>9. m \in line
  BY <1>1, <1>5, <1>8
<1>10. n \in line \cup {0}
  BY <1>2, <1>7, <1>9
<1> QED
  BY <1>1, <1>8, <1>10

\* A chain of certified heads has one that is no parent: the newest.
LEMMA ChainTops ==
    ASSUME NEW snaps, HistoryOK(snaps), NEW read, HeadsIn(read) \subseteq 1..Len(snaps),
           Chained(read, snaps), Certified(read, snaps), HeadsIn(read) # {}
    PROVE  \E h : Tops(read, snaps) = {h}
<1> DEFINE N == Len(snaps)
           heads == HeadsIn(read)
<1>1. N \in Nat /\ heads \in SUBSET (0..N) /\ heads # {} /\ heads \subseteq 1..N
  BY DEF HistoryOK
<1>2. Trusted(read, snaps) = heads
  BY DEF Trusted, Certified
<1> HIDE DEF heads, N
<1>3. PICK h \in heads : \A m \in heads : m <= h
  BY <1>1, GreatestNatural
<1>4. h \in Tops(read, snaps)
  <2> SUFFICES ASSUME NEW n \in heads, snaps[n].parent = h PROVE FALSE
    BY <1>2 DEF Tops
  <2>1. h < n /\ n <= h
    BY <1>1, <1>3 DEF HistoryOK, N
  <2> QED
    BY <1>1, <2>1
<1>5. ASSUME NEW m \in Tops(read, snaps) PROVE m = h
  <2>1. m \in heads /\ ~\E n \in heads : snaps[n].parent = m
    BY <1>2 DEF Tops
  <2>2. \A k \in heads : k <= m
    BY <2>1 DEF Chained, heads
  <2>3. h <= m /\ m <= h /\ m \in Nat /\ h \in Nat
    BY <1>1, <1>3, <2>1, <2>2
  <2> QED
    BY <2>3
<1> QED
  BY <1>4, <1>5

LEMMA VaultIInvSound ==
    VaultIInv => RecoveryTypeOK /\ RecoveryFaithful /\ HistoryContinues
<1> SUFFICES ASSUME VaultIInv PROVE RecoveryTypeOK /\ RecoveryFaithful /\ HistoryContinues
  OBVIOUS
<1>1. /\ snapshots \in Seq(SnapshotRow) /\ DOMAIN snapshots = 1..Len(snapshots)
      /\ Len(snapshots) \in Nat
  BY DEF VaultIInv, HistoryOK
<1>2. recovery \in RecoveryRun /\ recovery.head \in Nat /\ recovery.head <= Len(snapshots)
      /\ recovery.stage \in {"idle", "read", "selected", "restored"}
  BY DEF VaultIInv, RunOK, RecoveryRun
<1>3. PublishedHeads \subseteq DOMAIN snapshots
  BY <1>1 DEF VaultIInv, LogOK, HeadsIn, PublishedHeads
<1>4. ASSUME NEW d \in VaultDevices, stores[d] # NoStore
      PROVE  /\ stores[d].epoch \in 1..MaxEpoch /\ stores[d].head \in 0..Len(snapshots)
             /\ stores[d].upload \in {0, stores[d].head}
  <2>1. StoreOK(stores[d], d, snapshots)
    BY DEF VaultIInv
  <2>2. /\ stores[d] \in VaultStore /\ stores[d].head <= Len(snapshots)
        /\ stores[d].upload \in {0, stores[d].head}
    BY <1>4, <2>1 DEF StoreOK
  <2> QED
    BY <1>1, <2>2, StoreTypes
<1>5. RecoveryTypeOK
  <2>1. \A n \in DOMAIN snapshots : snapshots[n].parent < n
    BY <1>1 DEF VaultIInv, HistoryOK
  <2>2. recovery.head \in 0..Len(snapshots)
    BY <1>1, <1>2
  <2> QED
    BY <1>2, <1>3, <1>4, <2>1, <2>2 DEF RecoveryTypeOK
<1>6. RecoveryFaithful
  <2>1. HeadsIn(recovery.read) \subseteq 1..Len(snapshots)
    BY DEF VaultIInv, LogOK, RunOK, HeadsIn
  <2>2. recovery.stage \in {"selected", "restored"} =>
          TrustedHeads(recovery.read) \subseteq Ancestry(recovery.head)
    BY <2>1, TopsAncestor, SelectionNames DEF VaultIInv, RunOK
  <2>3. recovery.stage = "restored" => recovery.key = snapshots[recovery.head].key
    BY DEF VaultIInv, RunOK
  <2> QED
    BY <2>2, <2>3 DEF RecoveryFaithful
<1>7. HistoryContinues
  <2>1. ASSUME NEW n \in 1..Len(snapshots), snapshots[n].parent # 0
        PROVE  LET p == snapshots[snapshots[n].parent] IN
               /\ snapshots[n].epoch >= p.epoch
               /\ snapshots[n].epoch = p.epoch => snapshots[n].key = p.key
    <3>1. Follows(snapshots[n].epoch, snapshots[n].key, snapshots[snapshots[n].parent])
      BY <2>1 DEF VaultIInv, HistoryOK
    <3> QED
      BY <3>1 DEF Follows
  <2>2. recovery.said = "fork" => branched \/ recovery.partial
    BY DEF VaultIInv, RunOK
  <2> QED
    BY <1>1, <2>1, <2>2 DEF HistoryContinues
<1> QED
  BY <1>5, <1>6, <1>7

-----------------------------------------------------------------------------
(* Recovery: the steps *)

LEMMA VaultInitOK == RecoveryInit => VaultIInv
<1> SUFFICES ASSUME RecoveryInit PROVE VaultIInv
  OBVIOUS
<1> USE RecoveryAssumption
<1> DEFINE first == InitVaultAtEpoch(1, 1, <<1, 1>>, 0)
<1>1. snapshots = <<>> /\ snapshots \in Seq(SnapshotRow) /\ Len(snapshots) = 0
      /\ 1..Len(snapshots) = {}
  BY DEF RecoveryInit
<1>2. HistoryOK(snapshots)
  BY <1>1 DEF HistoryOK
<1>3. /\ first \in VaultStore /\ first.head = 0 /\ first.upload = 0
  BY DEF InitVaultAtEpoch, VaultStore, EpochKeys
<1>4. \A d \in VaultDevices : stores[d] \in {NoStore, first}
  BY DEF RecoveryInit
<1> HIDE DEF first
<1>5. stores \in [VaultDevices -> {NoStore} \cup VaultStore]
  <2>1. stores = [d \in VaultDevices |-> IF d = 1 THEN first ELSE NoStore]
    BY DEF RecoveryInit, first
  <2> QED
    BY <1>3, <2>1
<1>6. \A d \in VaultDevices : StoreOK(stores[d], d, snapshots)
  BY <1>1, <1>3, <1>4 DEF StoreOK
<1>7. recordLog = {} /\ HeadsIn(recordLog) = {} /\ branched = FALSE
  BY DEF RecoveryInit, HeadsIn
<1>8. LogOK(recordLog, snapshots, branched)
  BY <1>7 DEF LogOK, Certified, Chained
<1>9. RunOK(recovery, recordLog, snapshots, branched)
  BY <1>1, <1>7 DEF RecoveryInit, NoRecovery, RunOK, RecoveryRun, EpochKeys, Sayings
<1> QED
  BY <1>2, <1>5, <1>6, <1>7, <1>8, <1>9 DEF VaultIInv

\* Snapshots are added behind those the records are about.
LEMMA HistoryGrows ==
    ASSUME NEW snaps, NEW more, Len(snaps) \in Nat, Len(more) = Len(snaps) + 1,
           \A n \in 1..Len(snaps) : more[n] = snaps[n],
           NEW log, NEW fork, LogOK(log, snaps, fork), NEW run, RunOK(run, log, snaps, fork)
    PROVE  LogOK(log, more, fork) /\ RunOK(run, log, more, fork)
<1>1. /\ HeadsIn(log) \subseteq 1..Len(snaps) /\ HeadsIn(run.read) \subseteq 1..Len(snaps)
  BY DEF LogOK, RunOK, HeadsIn
<1>2. 1..Len(snaps) \subseteq 1..Len(more)
  OBVIOUS
<1>3. LogOK(log, more, fork)
  <2>1. HeadsIn(log) \subseteq 1..Len(more)
    BY <1>1, <1>2
  <2>2. Certified(log, more)
    BY <1>1 DEF LogOK, Certified
  <2>3. \A r \in log : r.kind = "envelope" =>
          \E n \in 1..Len(more) : /\ more[n].device = r.device /\ more[n].epoch = r.epoch
                                  /\ more[n].key = r.key
    BY <1>2 DEF LogOK
  <2>4. fork \/ Chained(log, more)
    BY <1>1 DEF LogOK, Chained
  <2> QED
    BY <2>1, <2>2, <2>3, <2>4 DEF LogOK
<1>4. Trusted(run.read, more) = Trusted(run.read, snaps)
  BY <1>1 DEF Trusted
<1>5. Trusted(run.read, snaps) \subseteq 1..Len(snaps)
  BY <1>1 DEF Trusted
<1>6. Tops(run.read, more) = Tops(run.read, snaps)
  BY <1>4, <1>5 DEF Tops
<1>7. run.stage = "restored" => run.head \in 1..Len(snaps)
  BY <1>5 DEF RunOK, Tops
<1>8. run.head <= Len(more)
  BY DEF RunOK, RecoveryRun
<1>9. RunOK(run, log, more, fork)
  <2>1. Chained(run.read, snaps) => Chained(run.read, more)
    BY <1>1 DEF Chained
  <2>2. Certified(run.read, snaps) => Certified(run.read, more)
    BY <1>1 DEF Certified
  <2> QED
    BY <1>6, <1>7, <1>8, <2>1, <2>2 DEF RunOK
<1> QED
  BY <1>3, <1>9

LEMMA AliveStore ==
    ASSUME VaultIInv, NEW d \in VaultDevices, stores[d].alive
    PROVE  stores[d] \in VaultStore /\ StoreOK(stores[d], d, snapshots)
BY DEF VaultIInv, NoStore

LEMMA CaptureSnapshotOK ==
    ASSUME VaultIInv, NEW d \in VaultDevices, CaptureSnapshot(d)
    PROVE  VaultIInv'
<1> DEFINE N == Len(snapshots)
           s == stores[d]
           row == [device |-> d, counter |-> s.counter + 1, parent |-> s.head,
                   epoch |-> s.epoch, key |-> s.key]
           next == [s EXCEPT !.counter = @ + 1, !.head = N + 1, !.upload = N + 1]
<1>1. s \in VaultStore /\ StoreOK(s, d, snapshots) /\ s # NoStore
  BY AliveStore, StoreTypes DEF CaptureSnapshot
<1>2. /\ s.counter \in Nat /\ s.epoch \in 1..MaxEpoch /\ s.head \in Nat /\ s.key \in EpochKeys
      /\ s.epoch \in Nat
  BY <1>1, StoreTypes
<1>3. /\ snapshots \in Seq(SnapshotRow) /\ N \in Nat
      /\ snapshots' = Append(snapshots, row)
      /\ stores' = [stores EXCEPT ![d] = next]
      /\ UNCHANGED <<recordLog, recovery, branched>>
  <2>1. snapshots \in Seq(SnapshotRow)
    BY DEF VaultIInv, HistoryOK
  <2>2. N \in Nat
    BY <2>1
  <2>3. snapshots' = Append(snapshots, row)
    BY ONLY CaptureSnapshot(d) DEF CaptureSnapshot, row, s
  <2>5. stores' = [stores EXCEPT ![d] = next]
    BY ONLY CaptureSnapshot(d) DEF CaptureSnapshot, next, s, N
  <2>6. UNCHANGED <<recordLog, recovery, branched>>
    BY ONLY CaptureSnapshot(d) DEF CaptureSnapshot
  <2> QED
    BY ONLY <2>1, <2>2, <2>3, <2>5, <2>6
<1>4. row \in SnapshotRow /\ row.device = d /\ row.counter = s.counter + 1
      /\ row.parent = s.head /\ row.epoch = s.epoch /\ row.key = s.key
  BY <1>2 DEF SnapshotRow
<1> HIDE DEF row
<1>5. /\ snapshots' \in Seq(SnapshotRow) /\ Len(snapshots') = N + 1
      /\ snapshots'[N + 1] = row /\ \A n \in 1..N : snapshots'[n] = snapshots[n]
  BY <1>3, <1>4
<1> HIDE DEF N, s
<1>6. /\ next \in VaultStore /\ next.head = N + 1 /\ next.upload = N + 1
      /\ next.counter = s.counter + 1 /\ next.epoch = s.epoch /\ next.key = s.key
  <2>1. N + 1 \in Nat /\ s.counter + 1 \in Nat
    BY <1>2, <1>3
  <2> QED
    BY ONLY <1>1, <2>1 DEF VaultStore, next
<1> HIDE DEF next
<1>7. /\ s.head <= N
      /\ s.head # 0 => Follows(s.epoch, s.key, snapshots[s.head])
      /\ \A n \in 1..N : snapshots[n].device = d =>
            snapshots[n].counter <= s.counter /\ Follows(s.epoch, s.key, snapshots[n])
  BY <1>1 DEF StoreOK, N
<1>8. \A n \in 1..(N + 1) : n \in 1..N \/ n = N + 1
  BY <1>3
<1>9. HistoryOK(snapshots')
  <2>1. ASSUME NEW n \in 1..(N + 1)
        PROVE  /\ snapshots'[n].parent < n
               /\ snapshots'[n].parent # 0 =>
                     Follows(snapshots'[n].epoch, snapshots'[n].key,
                             snapshots'[snapshots'[n].parent])
    <3>1. CASE n \in 1..N
      <4>1. snapshots'[n] = snapshots[n] /\ snapshots[n].parent < n
            /\ snapshots[n].parent \in Nat /\ n <= N /\ n \in Nat
        BY <1>3, <1>5, <3>1, RowTypes DEF VaultIInv, HistoryOK, N
      <4>2. snapshots[n].parent # 0 => snapshots[n].parent \in 1..N
        BY <1>3, <4>1
      <4>3. snapshots[n].parent # 0 =>
              Follows(snapshots[n].epoch, snapshots[n].key, snapshots[snapshots[n].parent])
        BY <3>1 DEF VaultIInv, HistoryOK, N
      <4> QED
        BY <1>5, <4>1, <4>2, <4>3
    <3>2. CASE n = N + 1
      <4>1. s.head < N + 1 /\ (s.head # 0 => s.head \in 1..N)
        BY <1>2, <1>3, <1>7
      <4>2. s.head # 0 => Follows(row.epoch, row.key, snapshots'[s.head])
        BY <1>4, <1>5, <1>7, <4>1
      <4> QED
        BY <1>4, <1>5, <3>2, <4>1, <4>2
    <3> QED
      BY <1>8, <3>1, <3>2
  <2>2. ASSUME NEW n \in 1..N, snapshots[n].device = d
        PROVE  /\ snapshots[n].counter # row.counter
               /\ snapshots[n].epoch = row.epoch => snapshots[n].key = row.key
    <3>1. snapshots[n].counter <= s.counter /\ snapshots[n].counter \in Nat
      BY <1>7, <2>2, RowTypes DEF VaultIInv, N
    <3>2. snapshots[n].counter # row.counter
      BY <1>2, <1>4, <3>1
    <3> QED
      BY <1>4, <1>7, <2>2, <3>2 DEF Follows
  <2>3. ASSUME NEW m \in 1..(N + 1), NEW n \in 1..(N + 1),
               snapshots'[m].device = snapshots'[n].device
        PROVE  /\ m # n => snapshots'[m].counter # snapshots'[n].counter
               /\ snapshots'[m].epoch = snapshots'[n].epoch =>
                     snapshots'[m].key = snapshots'[n].key
    <3>1. CASE m \in 1..N /\ n \in 1..N
      <4>1. snapshots'[m] = snapshots[m] /\ snapshots'[n] = snapshots[n]
        BY <1>5, <3>1
      <4> QED
        BY <2>3, <3>1, <4>1 DEF VaultIInv, HistoryOK, N
    <3>2. CASE m \in 1..N /\ n = N + 1
      BY <1>4, <1>5, <2>2, <2>3, <3>2
    <3>3. CASE n \in 1..N /\ m = N + 1
      BY <1>4, <1>5, <2>2, <2>3, <3>3
    <3>4. CASE m = N + 1 /\ n = N + 1
      BY <3>4
    <3> QED
      BY <1>8, <3>1, <3>2, <3>3, <3>4
  <2> QED
    BY <1>5, <2>1, <2>3 DEF HistoryOK
<1>10. /\ stores' \in [VaultDevices -> {NoStore} \cup VaultStore]
       /\ stores'[d] = next /\ \A e \in VaultDevices : e # d => stores'[e] = stores[e]
  BY <1>3, <1>6 DEF VaultIInv
<1>11. ASSUME NEW e \in VaultDevices PROVE StoreOK(stores'[e], e, snapshots')
  <2>1. CASE e = d
    <3>1. Follows(next.epoch, next.key, row)
      BY <1>2, <1>4, <1>6 DEF Follows
    <3>2. ASSUME NEW n \in 1..(N + 1), snapshots'[n].device = d
          PROVE  /\ snapshots'[n].counter <= next.counter
                 /\ Follows(next.epoch, next.key, snapshots'[n])
      <4>1. CASE n = N + 1
        BY <1>2, <1>4, <1>5, <1>6, <3>1, <4>1
      <4>2. CASE n \in 1..N
        <5>1. snapshots'[n] = snapshots[n] /\ snapshots[n].counter \in Nat
          BY <1>5, <4>2, RowTypes DEF VaultIInv, N
        <5>2. snapshots[n].counter <= s.counter /\ Follows(s.epoch, s.key, snapshots[n])
          BY <1>7, <3>2, <4>2, <5>1
        <5>3. snapshots[n].counter <= s.counter + 1
          BY <1>2, <5>1, <5>2
        <5> QED
          BY <1>6, <5>1, <5>2, <5>3
      <4> QED
        BY <1>8, <4>1, <4>2
    <3>3. next.head <= Len(snapshots') /\ next.upload \in {0, next.head}
      BY <1>3, <1>5, <1>6
    <3>4. Follows(next.epoch, next.key, snapshots'[next.head])
      BY <1>5, <1>6, <3>1
    <3> QED
      BY <1>5, <1>6, <1>10, <2>1, <3>2, <3>3, <3>4 DEF StoreOK
  <2>2. CASE e # d
    <3>1. StoreOK(stores[e], e, snapshots) /\ stores'[e] = stores[e]
      BY <1>10, <2>2 DEF VaultIInv
    <3>2. CASE stores[e] = NoStore
      BY <3>1, <3>2 DEF StoreOK
    <3>3. CASE stores[e] # NoStore
      <4>1. /\ stores[e] \in VaultStore /\ stores[e].head <= N /\ stores[e].head \in Nat
            /\ stores[e].upload \in {0, stores[e].head}
            /\ stores[e].head # 0 => Follows(stores[e].epoch, stores[e].key,
                                             snapshots[stores[e].head])
            /\ \A n \in 1..N : snapshots[n].device = e =>
                  /\ snapshots[n].counter <= stores[e].counter
                  /\ Follows(stores[e].epoch, stores[e].key, snapshots[n])
        BY <3>1, <3>3 DEF StoreOK, N, VaultStore
      <4>2. stores[e].head <= N + 1 /\ (stores[e].head # 0 => stores[e].head \in 1..N)
        BY <1>3, <4>1
      <4>3. \A n \in 1..(N + 1) : snapshots'[n].device = e => n \in 1..N
        BY <1>4, <1>5, <1>8, <2>2
      <4> QED
        BY <1>5, <3>1, <4>1, <4>2, <4>3 DEF StoreOK
    <3> QED
      BY <3>2, <3>3
  <2> QED
    BY <2>1, <2>2
<1>12. /\ LogOK(recordLog, snapshots', branched)
       /\ RunOK(recovery, recordLog, snapshots', branched)
  <2>1. LogOK(recordLog, snapshots, branched) /\ RunOK(recovery, recordLog, snapshots, branched)
    BY DEF VaultIInv
  <2> QED
    BY <1>3, <1>5, <2>1, HistoryGrows DEF N
<1> QED
  BY <1>3, <1>9, <1>10, <1>11, <1>12 DEF VaultIInv

\* Steps that change a store only, or put one in place of another.
LEMMA StoresStep ==
    ASSUME VaultIInv, UNCHANGED <<snapshots, recordLog, branched>>,
           stores' \in [VaultDevices -> {NoStore} \cup VaultStore],
           \A d \in VaultDevices : StoreOK(stores'[d], d, snapshots),
           RunOK(recovery', recordLog, snapshots, branched)
    PROVE  VaultIInv'
BY DEF VaultIInv

LEMMA OneStore ==
    ASSUME VaultIInv, UNCHANGED <<snapshots, recordLog, branched, recovery>>,
           NEW d \in VaultDevices, NEW s \in {NoStore} \cup VaultStore,
           StoreOK(s, d, snapshots), stores' = [stores EXCEPT ![d] = s]
    PROVE  VaultIInv'
<1>1. stores \in [VaultDevices -> {NoStore} \cup VaultStore]
  BY DEF VaultIInv
<1>2. stores' \in [VaultDevices -> {NoStore} \cup VaultStore]
  BY <1>1
<1>3. \A e \in VaultDevices : StoreOK(stores'[e], e, snapshots)
  BY <1>1 DEF VaultIInv
<1> QED
  BY <1>2, <1>3, StoresStep DEF VaultIInv

\* The upload is over, published or not.
LEMMA Uploaded ==
    ASSUME NEW s \in VaultStore, NEW d, NEW snaps, StoreOK(s, d, snaps),
           NEW next, next = [s EXCEPT !.upload = 0]
    PROVE  next \in VaultStore /\ StoreOK(next, d, snaps)
<1>1. s # NoStore
  BY DEF VaultStore, NoStore
<1>2. /\ next \in VaultStore /\ next.upload = 0 /\ next.head = s.head /\ next.epoch = s.epoch
      /\ next.key = s.key /\ next.counter = s.counter
  BY DEF VaultStore
<1> QED
  BY <1>1, <1>2 DEF StoreOK

LEMMA StoresOK ==
    ASSUME VaultIInv, NEW d \in VaultDevices,
           PublishInterrupted(d) \/ RotateEpochKey(d) \/ LoseDevice(d)
    PROVE  VaultIInv'
<1>1. CASE PublishInterrupted(d)
  <2> DEFINE next == [stores[d] EXCEPT !.upload = 0]
  <2>1. next \in VaultStore /\ StoreOK(next, d, snapshots)
    BY <1>1, AliveStore, Uploaded DEF PublishInterrupted
  <2>2. stores' = [stores EXCEPT ![d] = next]
    BY <1>1 DEF PublishInterrupted
  <2> HIDE DEF next
  <2> QED
    BY <1>1, <2>1, <2>2, OneStore DEF PublishInterrupted
<1>2. CASE RotateEpochKey(d)
  <2> DEFINE s == stores[d]
             next == [s EXCEPT !.epoch = @ + 1, !.key = <<d, s.epoch + 1>>]
  <2>1. /\ s \in VaultStore /\ StoreOK(s, d, snapshots) /\ s.epoch < MaxEpoch
        /\ stores' = [stores EXCEPT ![d] = next]
    BY <1>2, AliveStore DEF RotateEpochKey
  <2>2. s.epoch \in 1..MaxEpoch /\ s.epoch \in Nat /\ s # NoStore /\ s.head \in Nat
    BY <2>1, StoreTypes
  <2>3. s.epoch + 1 \in 1..MaxEpoch /\ <<d, s.epoch + 1>> \in EpochKeys
    BY <2>1, <2>2, RecoveryAssumption DEF EpochKeys, VaultDevices
  <2> HIDE DEF s
  <2>4. /\ next \in VaultStore /\ next.head = s.head /\ next.upload = s.upload
        /\ next.counter = s.counter /\ next.epoch = s.epoch + 1
    BY <2>1, <2>3 DEF VaultStore
  <2> HIDE DEF next
  <2>5. ASSUME NEW n \in 1..Len(snapshots), Follows(s.epoch, s.key, snapshots[n])
        PROVE  Follows(next.epoch, next.key, snapshots[n])
    <3>1. snapshots[n].epoch \in Nat /\ snapshots[n].epoch <= s.epoch
      BY <2>5, RowTypes DEF VaultIInv, Follows
    <3>2. snapshots[n].epoch <= s.epoch + 1 /\ snapshots[n].epoch # s.epoch + 1
      BY <2>2, <3>1
    <3> QED
      BY <2>4, <3>2 DEF Follows
  <2>6. /\ s.head <= Len(snapshots) /\ s.upload \in {0, s.head}
        /\ s.head # 0 => Follows(s.epoch, s.key, snapshots[s.head])
        /\ \A n \in 1..Len(snapshots) : snapshots[n].device = d =>
              snapshots[n].counter <= s.counter /\ Follows(s.epoch, s.key, snapshots[n])
    BY <2>1, <2>2 DEF StoreOK
  <2>7. s.head # 0 => s.head \in 1..Len(snapshots)
    BY <2>2, <2>6 DEF VaultIInv, HistoryOK
  <2>8. StoreOK(next, d, snapshots)
    BY <2>4, <2>5, <2>6, <2>7 DEF StoreOK
  <2> QED
    BY <1>2, <2>1, <2>4, <2>8, OneStore DEF RotateEpochKey
<1>3. CASE LoseDevice(d)
  <2>1. StoreOK(NoStore, d, snapshots)
    BY DEF StoreOK
  <2> QED
    BY <1>3, <2>1, OneStore DEF LoseDevice
<1> QED
  BY <1>1, <1>2, <1>3

\* The log grows; a running recovery has read its own copy.
LEMMA RunKept ==
    ASSUME NEW run, NEW log, NEW more, NEW snaps, NEW fork, NEW later,
           RunOK(run, log, snaps, fork), log \subseteq more, fork => later
    PROVE  RunOK(run, more, snaps, later)
BY DEF RunOK

LEMMA UploadRecords ==
    ASSUME VaultIInv, NEW d \in VaultDevices, stores[d].alive, stores[d].upload # 0
    PROVE  LET n == stores[d].upload IN
           /\ n \in 1..Len(snapshots) /\ n \in Nat
           /\ RecoverySet(n) \subseteq LogRecord
           /\ \A r \in RecoverySet(n) : r.kind # "head"
           /\ \A r \in RecoverySet(n) : r.kind = "envelope" =>
                 snapshots[n].device = r.device /\ snapshots[n].epoch = r.epoch
                 /\ snapshots[n].key = r.key
<1> DEFINE n == stores[d].upload
           row == snapshots[n]
<1>1. stores[d] \in VaultStore /\ n \in Nat /\ n = stores[d].head /\ n <= Len(snapshots)
  <2>1. /\ stores[d] \in VaultStore /\ StoreOK(stores[d], d, snapshots)
        /\ stores[d] # NoStore /\ n \in Nat
    BY AliveStore, StoreTypes
  <2> QED
    BY <2>1 DEF StoreOK
<1>2. n \in 1..Len(snapshots)
  BY <1>1 DEF VaultIInv, HistoryOK
<1>3. row.device \in VaultDevices /\ row.epoch \in 1..MaxEpoch /\ row.key \in EpochKeys
  BY <1>2, RowTypes DEF VaultIInv
<1>4. RecoverySet(n) = {Genesis, Cert(row.device), Envelope(row.device, row.epoch, row.key)}
  BY DEF RecoverySet
<1> HIDE DEF row
<1>5. /\ Cert(row.device) \in CertRecord /\ Cert(row.device).kind = "cert"
      /\ Envelope(row.device, row.epoch, row.key) \in EnvelopeRecord
      /\ Envelope(row.device, row.epoch, row.key).device = row.device
      /\ Envelope(row.device, row.epoch, row.key).epoch = row.epoch
      /\ Envelope(row.device, row.epoch, row.key).key = row.key
      /\ Envelope(row.device, row.epoch, row.key).kind = "envelope"
      /\ Genesis.kind = "genesis"
  BY <1>3 DEF Cert, Envelope, Genesis, CertRecord, EnvelopeRecord
<1> QED
  BY <1>1, <1>2, <1>4, <1>5 DEF LogRecord, row

LEMMA PublishRecordsOK ==
    ASSUME VaultIInv, NEW d \in VaultDevices, PublishRecords(d)
    PROVE  VaultIInv'
<1> DEFINE n == stores[d].upload
           new == RecoverySet(n)
<1>1. /\ n \in 1..Len(snapshots) /\ new \subseteq LogRecord
      /\ \A r \in new : r.kind # "head"
      /\ \A r \in new : r.kind = "envelope" =>
            snapshots[n].device = r.device /\ snapshots[n].epoch = r.epoch
            /\ snapshots[n].key = r.key
  BY UploadRecords DEF PublishRecords
<1>2. recordLog' = recordLog \cup new
      /\ UNCHANGED <<stores, snapshots, recovery, branched>>
  BY DEF PublishRecords
<1> HIDE DEF n, new
<1>3. HeadsIn(recordLog') = HeadsIn(recordLog)
  <2>1. ASSUME NEW x \in recordLog', x.kind = "head"
        PROVE  x \in recordLog
    <3>1. x \in recordLog \/ x \in new
      BY <1>2
    <3>2. x \in new => x.kind # "head"
      BY <1>1, Zenon
    <3> QED
      BY <2>1, <3>1, <3>2
  <2>2. recordLog \subseteq recordLog'
    BY ONLY <1>2
  <2>3. {x \in recordLog' : x.kind = "head"} = {x \in recordLog : x.kind = "head"}
    BY ONLY <2>1, <2>2
  <2> QED
    BY ONLY <2>3 DEF HeadsIn
<1>4. LogOK(recordLog', snapshots, branched)
  <2>1. LogOK(recordLog, snapshots, branched)
    BY DEF VaultIInv
  <2>2. recordLog' \subseteq LogRecord
    BY <1>1, <1>2, <2>1 DEF LogOK
  <2>3. Certified(recordLog', snapshots)
    BY <1>2, <1>3, <2>1 DEF LogOK, Certified
  <2>4. \A r \in recordLog' : r.kind = "envelope" =>
          \E k \in 1..Len(snapshots) :
             /\ snapshots[k].device = r.device /\ snapshots[k].epoch = r.epoch
             /\ snapshots[k].key = r.key
    BY <1>1, <1>2, <2>1 DEF LogOK
  <2>5. branched \/ Chained(recordLog', snapshots)
    BY <1>3, <2>1 DEF LogOK, Chained
  <2> QED
    BY <1>3, <2>1, <2>2, <2>3, <2>4, <2>5 DEF LogOK
<1>5. RunOK(recovery, recordLog', snapshots, branched)
  BY <1>2, RunKept DEF VaultIInv
<1> QED
  BY <1>2, <1>4, <1>5 DEF VaultIInv

LEMMA PublishHeadOK ==
    ASSUME VaultIInv, NEW d \in VaultDevices, PublishHead(d)
    PROVE  VaultIInv'
<1> DEFINE n == stores[d].upload
           old == HeadsIn(recordLog)
           next == [stores[d] EXCEPT !.upload = 0]
<1>1. n \in 1..Len(snapshots) /\ n \in Nat
  BY UploadRecords DEF PublishHead
<1>2. /\ recordLog' = recordLog \cup {HeadOf(n)} /\ stores' = [stores EXCEPT ![d] = next]
      /\ UNCHANGED <<snapshots, recovery>>
      /\ RecoverySet(n) \subseteq recordLog
  BY DEF PublishHead
<1>3. branched' = (branched \/ \E m \in old : \A k \in old :
                                 k <= m /\ m # snapshots[n].parent)
  BY DEF PublishHead, PublishedHeads, HeadsIn
<1>4. next \in VaultStore /\ StoreOK(next, d, snapshots)
  BY AliveStore, Uploaded DEF PublishHead
<1> HIDE DEF next
<1>5. /\ stores' \in [VaultDevices -> {NoStore} \cup VaultStore]
      /\ \A e \in VaultDevices : StoreOK(stores'[e], e, snapshots)
  BY <1>2, <1>4 DEF VaultIInv
<1>6. Cert(snapshots[n].device) \in recordLog
  BY <1>2 DEF RecoverySet
<1> HIDE DEF n
<1>7. HeadOf(n) \in HeadRecord /\ HeadOf(n).kind = "head" /\ HeadOf(n).snapshot = n
  BY <1>1 DEF HeadOf, HeadRecord
<1>8. HeadsIn(recordLog') = old \cup {n}
  BY <1>2, <1>7 DEF HeadsIn
<1>9. LogOK(recordLog, snapshots, branched) /\ branched \in BOOLEAN /\ branched' \in BOOLEAN
  BY <1>3 DEF VaultIInv
<1>10. old \subseteq 1..Len(snapshots) /\ Len(snapshots) \in Nat
  BY <1>9 DEF LogOK, VaultIInv, HistoryOK
<1> HIDE DEF old
<1>11. ASSUME ~branched' PROVE Chained(recordLog', snapshots)
  <2>1. ~branched /\ \A m \in old : (\A k \in old : k <= m) => m = snapshots[n].parent
    <3>1. ~branched
      BY <1>3, <1>11
    <3>2. ASSUME NEW m \in old, \A k \in old : k <= m PROVE m = snapshots[n].parent
      BY <1>3, <1>11, <3>2
    <3> QED
      BY <3>1, <3>2
  <2>2. \A m \in old : (\A k \in old : k <= m) \/ (\E k \in old : snapshots[k].parent = m)
    BY <1>9, <2>1 DEF LogOK, Chained, old
  <2>3. ASSUME NEW m \in old PROVE \E k \in old \cup {n} : snapshots[k].parent = m
    BY <2>1, <2>2
  <2>4. snapshots[n].parent < n /\ snapshots[n].parent \in Nat
    BY <1>1, RowTypes DEF VaultIInv, HistoryOK
  <2>5. \A k \in old \cup {n} : k <= n
    <3>1. CASE old = {}
      BY <1>1, <3>1
    <3>2. CASE old # {}
      <4>1. old \in SUBSET (0..Len(snapshots))
        BY <1>10
      <4>2. PICK m \in old : \A k \in old : k <= m
        BY <1>10, <3>2, <4>1, GreatestNatural
      <4>3. m = snapshots[n].parent
        BY <2>1, <4>2
      <4> QED
        BY <1>1, <1>10, <2>4, <4>2, <4>3
    <3> QED
      BY <3>1, <3>2
  <2> QED
    BY <1>8, <2>3, <2>5 DEF Chained
<1>12. LogOK(recordLog', snapshots, branched')
  <2>1. recordLog' \subseteq LogRecord
    BY <1>2, <1>7, <1>9 DEF LogOK, LogRecord
  <2>2. HeadsIn(recordLog') \subseteq 1..Len(snapshots)
    BY <1>1, <1>8, <1>10
  <2>3. Certified(recordLog', snapshots)
    BY <1>2, <1>6, <1>8, <1>9 DEF LogOK, Certified, old
  <2>4. \A r \in recordLog' : r.kind = "envelope" => r \in recordLog
    BY <1>2, <1>7
  <2> QED
    BY <1>9, <1>11, <2>1, <2>2, <2>3, <2>4 DEF LogOK
<1>13. RunOK(recovery, recordLog', snapshots, branched')
  BY <1>2, <1>3, RunKept DEF VaultIInv
<1> QED
  BY <1>2, <1>5, <1>9, <1>12, <1>13 DEF VaultIInv

\* Steps of the recovery command alone.
LEMMA RecoveryStep ==
    ASSUME VaultIInv, UNCHANGED <<stores, snapshots, recordLog, branched>>,
           RunOK(recovery', recordLog, snapshots, branched)
    PROVE  VaultIInv'
BY DEF VaultIInv

LEMMA IdleRecovery ==
    ASSUME VaultIInv, NEW said \in Sayings \ {"fork"},
           NEW run, run = [NoRecovery EXCEPT !.said = said]
    PROVE  RunOK(run, recordLog, snapshots, branched)
<1>1. /\ run \in RecoveryRun /\ run.stage = "idle" /\ run.said = said /\ run.read = {}
      /\ run.head = 0
  BY DEF NoRecovery, RecoveryRun, EpochKeys, Sayings
<1>2. 0 <= Len(snapshots)
  BY DEF VaultIInv, HistoryOK
<1> QED
  BY <1>1, <1>2 DEF RunOK

LEMMA ReadRecordsOK ==
    ASSUME VaultIInv, NEW missing, ReadRecords(missing)
    PROVE  VaultIInv'
<1> DEFINE read == recordLog \ missing
<1>1. LogOK(recordLog, snapshots, branched) /\ 0 <= Len(snapshots)
  BY DEF VaultIInv, HistoryOK
<1>2. recovery' = [NoRecovery EXCEPT !.stage = "read", !.read = read,
                                     !.partial = missing # {}]
  BY DEF ReadRecords
<1>3. read \in SUBSET LogRecord /\ read \subseteq recordLog
  BY <1>1 DEF LogOK
<1>4. missing = {} => read = recordLog
  OBVIOUS
<1> HIDE DEF read
<1>5. /\ recovery' \in RecoveryRun /\ recovery'.read = read /\ recovery'.stage = "read"
      /\ recovery'.partial = (missing # {}) /\ recovery'.head = 0
      /\ recovery'.said = "nothing"
  BY <1>2, <1>3 DEF NoRecovery, RecoveryRun, EpochKeys, Sayings
<1>6. RunOK(recovery', recordLog, snapshots, branched)
  BY <1>1, <1>3, <1>4, <1>5 DEF RunOK, LogOK
<1> QED
  BY <1>6, RecoveryStep DEF ReadRecords

LEMMA SelectHeadOK ==
    ASSUME VaultIInv, SelectHead
    PROVE  VaultIInv'
<1> DEFINE read == recovery.read
           tops == Tops(read, snapshots)
           trusted == Trusted(read, snapshots)
           fine == ~CountersConflict(read) /\ Cardinality(tops) = 1
<1>1. /\ RunOK(recovery, recordLog, snapshots, branched) /\ recovery \in RecoveryRun
      /\ recovery.stage = "read" /\ HistoryOK(snapshots) /\ Len(snapshots) \in Nat
  BY DEF VaultIInv, SelectHead, RunOK, HistoryOK
<1>2. HeadsIn(read) \subseteq 1..Len(snapshots)
  BY DEF VaultIInv, LogOK, RunOK, HeadsIn
<1>3. tops \subseteq 1..Len(snapshots) /\ trusted \subseteq HeadsIn(read)
  BY <1>2 DEF Tops, Trusted
<1>4. IsFiniteSet(tops)
  <2>1. IsFiniteSet(1..Len(snapshots))
    BY <1>1, FS_Interval
  <2> QED
    BY <1>3, <2>1, FS_Subset
<1>5. recovery' = IF fine THEN [recovery EXCEPT !.stage = "selected",
                                                !.head = CHOOSE h \in tops : TRUE]
                  ELSE [recovery EXCEPT !.stage = "idle", !.read = {},
                          !.said = IF trusted = {} THEN "no head" ELSE "fork"]
  <2>1. Maximal(recovery.read) = tops /\ TrustedHeads(recovery.read) = trusted
    BY SelectionNames
  <2> HIDE DEF tops, trusted
  <2> QED
    BY <2>1 DEF SelectHead
<1>6. UNCHANGED <<stores, snapshots, recordLog, branched>>
  BY DEF SelectHead
<1>7. CASE fine
  <2>1. PICK h : tops = {h}
    BY <1>4, <1>7, FS_Singleton
  <2>2. h \in 1..Len(snapshots) /\ h \in Nat /\ h <= Len(snapshots)
    BY <1>1, <1>3, <2>1
  <2>3. (CHOOSE k \in tops : TRUE) = h
    BY <2>1
  <2>4. recovery' = [recovery EXCEPT !.stage = "selected", !.head = h]
    BY <1>5, <1>7, <2>3
  <2>5. /\ recovery' \in RecoveryRun /\ recovery'.stage = "selected" /\ recovery'.head = h
        /\ recovery'.read = read /\ recovery'.said = recovery.said
        /\ recovery'.partial = recovery.partial
    BY <1>1, <2>2, <2>4 DEF RecoveryRun
  <2>6. RunOK(recovery', recordLog, snapshots, branched)
    BY <1>1, <2>1, <2>2, <2>5 DEF RunOK
  <2> QED
    BY <1>6, <2>6, RecoveryStep
<1>8. CASE ~fine
  <2> DEFINE said == IF trusted = {} THEN "no head" ELSE "fork"
  <2>1. recovery' = [recovery EXCEPT !.stage = "idle", !.read = {}, !.said = said]
    BY <1>5, <1>8
  <2>2. said \in Sayings
    BY DEF Sayings
  <2>3. ASSUME said = "fork", ~branched, ~recovery.partial PROVE FALSE
    <3>1. Chained(read, snapshots) /\ Certified(read, snapshots)
      BY <1>1, <2>3 DEF RunOK
    <3>2. HeadsIn(read) # {}
      BY <1>3, <2>3
    <3>3. \E h : tops = {h}
      BY <1>1, <1>2, <3>1, <3>2, ChainTops
    <3>4. Cardinality(tops) = 1
      BY <3>3, FS_Singleton
    <3>5. ~CountersConflict(read)
      <4> SUFFICES ASSUME NEW m \in trusted, NEW n \in trusted, m # n,
                          snapshots[m].device = snapshots[n].device,
                          snapshots[m].counter = snapshots[n].counter
                   PROVE  FALSE
        BY SelectionNames DEF CountersConflict
      <4>1. m \in 1..Len(snapshots) /\ n \in 1..Len(snapshots)
        BY <1>2, <1>3
      <4> QED
        BY <1>1, <4>1 DEF HistoryOK
    <3> QED
      BY <1>8, <3>4, <3>5
  <2> HIDE DEF said
  <2>4. /\ recovery' \in RecoveryRun /\ recovery'.stage = "idle" /\ recovery'.read = {}
        /\ recovery'.said = said /\ recovery'.partial = recovery.partial
        /\ recovery'.head = recovery.head
    BY <1>1, <2>1, <2>2 DEF RecoveryRun
  <2>5. RunOK(recovery', recordLog, snapshots, branched)
    BY <1>1, <2>3, <2>4 DEF RunOK
  <2> QED
    BY <1>6, <2>5, RecoveryStep
<1> QED
  BY <1>7, <1>8

LEMMA RestoreFilesOK ==
    ASSUME VaultIInv, RestoreFiles
    PROVE  VaultIInv'
<1> DEFINE h == recovery.head
<1>1. /\ RunOK(recovery, recordLog, snapshots, branched) /\ recovery \in RecoveryRun
      /\ recovery.stage = "selected" /\ HistoryOK(snapshots)
      /\ LogOK(recordLog, snapshots, branched) /\ recovery.read \subseteq recordLog
  BY DEF VaultIInv, RestoreFiles, RunOK
<1>2. h \in 1..Len(snapshots)
  BY <1>1 DEF RunOK, Tops, Trusted, LogOK, HeadsIn
<1>3. CASE \E e \in Envelopes(recovery.read, h) :
             recovery' = [recovery EXCEPT !.stage = "restored", !.key = e.key]
  <2> PICK e \in Envelopes(recovery.read, h) :
             recovery' = [recovery EXCEPT !.stage = "restored", !.key = e.key]
    BY <1>3
  <2>1. /\ e \in recordLog /\ e.kind = "envelope" /\ e.epoch = snapshots[h].epoch
        /\ e.device = snapshots[h].device
    BY <1>1 DEF Envelopes
  <2>2. PICK n \in 1..Len(snapshots) :
            /\ snapshots[n].device = e.device /\ snapshots[n].epoch = e.epoch
            /\ snapshots[n].key = e.key
    BY <1>1, <2>1 DEF LogOK
  <2>3. e.key = snapshots[h].key /\ e.key \in EpochKeys
    BY <1>1, <1>2, <2>1, <2>2, RowTypes DEF HistoryOK
  <2>4. /\ recovery' \in RecoveryRun /\ recovery'.stage = "restored"
        /\ recovery'.key = e.key /\ recovery'.read = recovery.read /\ recovery'.head = h
        /\ recovery'.said = recovery.said /\ recovery'.partial = recovery.partial
    BY <1>1, <2>3 DEF RecoveryRun
  <2>5. RunOK(recovery', recordLog, snapshots, branched)
    BY <1>1, <2>3, <2>4 DEF RunOK
  <2> QED
    BY <2>5, RecoveryStep DEF RestoreFiles
<1>4. CASE recovery' = [NoRecovery EXCEPT !.said = "no envelope"]
  BY <1>4, IdleRecovery, RecoveryStep DEF RestoreFiles, Sayings
<1> QED
  BY <1>3, <1>4 DEF RestoreFiles

LEMMA RebuildOK ==
    ASSUME VaultIInv, RebuildRefused \/ \E d \in VaultDevices, over \in 0..NumDevices : RebuildStore(d, over)
    PROVE  VaultIInv'
<1>1. CASE RebuildRefused
  BY <1>1, IdleRecovery, RecoveryStep DEF RebuildRefused, Sayings
<1>2. CASE \E d \in VaultDevices, over \in 0..NumDevices : RebuildStore(d, over)
  <2> PICK d \in VaultDevices, over \in 0..NumDevices : RebuildStore(d, over)
    BY <1>2
  <2> DEFINE h == recovery.head
             new == InitVaultAtEpoch(d, snapshots[h].epoch, recovery.key, h)
  <2>1. /\ RunOK(recovery, recordLog, snapshots, branched) /\ recovery \in RecoveryRun
        /\ recovery.stage = "restored" /\ HistoryOK(snapshots)
        /\ LogOK(recordLog, snapshots, branched)
    BY DEF VaultIInv, RebuildStore, RunOK
  <2>2. h \in 1..Len(snapshots) /\ h \in Nat /\ h <= Len(snapshots)
        /\ recovery.key = snapshots[h].key
    BY <2>1 DEF RunOK, Tops, Trusted, LogOK, HeadsIn, RecoveryRun
  <2>3. /\ snapshots[h].epoch \in 1..MaxEpoch /\ snapshots[h].epoch \in Nat
        /\ snapshots[h].key \in EpochKeys
    BY <2>1, <2>2, RowTypes
  <2>4. /\ new \in VaultStore /\ new.head = h /\ new.upload = 0
        /\ new.epoch = snapshots[h].epoch /\ new.key = snapshots[h].key
    BY <2>2, <2>3 DEF InitVaultAtEpoch, VaultStore
  <2>5. stores' = [e \in VaultDevices |-> IF e = d THEN new
                                          ELSE IF e = over THEN NoStore ELSE stores[e]]
    BY DEF RebuildStore
  <2> HIDE DEF new, h
  <2>6. StoreOK(new, d, snapshots)
    <3>1. Follows(new.epoch, new.key, snapshots[new.head])
      BY <2>3, <2>4 DEF Follows
    <3>2. DOMAIN snapshots = 1..Len(snapshots)
      BY <2>1 DEF HistoryOK
    <3>3. \A n \in 1..Len(snapshots) : snapshots[n].device # d
      BY <3>2 DEF RebuildStore
    <3> QED
      BY <2>2, <2>4, <3>1, <3>3 DEF StoreOK
  <2>7. StoreOK(NoStore, d, snapshots) /\ \A e : StoreOK(NoStore, e, snapshots)
    BY DEF StoreOK
  <2>8. stores' \in [VaultDevices -> {NoStore} \cup VaultStore]
    BY <2>4, <2>5 DEF VaultIInv
  <2>9. \A e \in VaultDevices : StoreOK(stores'[e], e, snapshots)
    BY <2>5, <2>6, <2>7 DEF VaultIInv
  <2>10. RunOK(recovery', recordLog, snapshots, branched)
    BY IdleRecovery DEF RebuildStore, Sayings
  <2> QED
    BY <2>8, <2>9, <2>10, StoresStep DEF RebuildStore
<1> QED
  BY <1>1, <1>2

LEMMA VaultInvariant == RecoverySpec => []VaultIInv
<1>1. RecoveryInit => VaultIInv
  BY VaultInitOK
<1>2. VaultIInv /\ [RecoveryNext]_recoveryVars => VaultIInv'
  <2> SUFFICES ASSUME VaultIInv, [RecoveryNext]_recoveryVars PROVE VaultIInv'
    OBVIOUS
  <2>1. ASSUME NEW d \in VaultDevices, CaptureSnapshot(d) PROVE VaultIInv'
    BY <2>1, CaptureSnapshotOK
  <2>2. ASSUME NEW d \in VaultDevices, PublishRecords(d) PROVE VaultIInv'
    BY <2>2, PublishRecordsOK
  <2>3. ASSUME NEW d \in VaultDevices, PublishHead(d) PROVE VaultIInv'
    BY <2>3, PublishHeadOK
  <2>4. ASSUME NEW d \in VaultDevices,
               PublishInterrupted(d) \/ RotateEpochKey(d) \/ LoseDevice(d)
        PROVE  VaultIInv'
    BY <2>4, StoresOK
  <2>5. ASSUME \/ RebuildRefused
               \/ \E d \in VaultDevices, over \in 0..NumDevices : RebuildStore(d, over)
        PROVE  VaultIInv'
    BY <2>5, RebuildOK
  <2>6. ASSUME \/ \E r \in recordLog : ReadRecords({r})
               \/ ReadRecords({})
               \/ \E some \in SUBSET sheets : RecoverWithShares(some)
        PROVE  VaultIInv'
    BY <2>6, ReadRecordsOK DEF RecoverWithShares
  <2>7. ASSUME SelectHead PROVE VaultIInv'
    BY <2>7, SelectHeadOK
  <2>8. ASSUME RestoreFiles PROVE VaultIInv'
    BY <2>8, RestoreFilesOK
  <2>9. ASSUME UNCHANGED recoveryVars \/ \E s \in Splits : SplitKit(s) PROVE VaultIInv'
    BY <2>9 DEF recoveryVars, SplitKit, VaultIInv
  <2> QED
    BY <2>1, <2>2, <2>3, <2>4, <2>5, <2>6, <2>7, <2>8, <2>9 DEF RecoveryNext
<1> QED
  BY <1>1, <1>2, PTL DEF RecoverySpec

\* Losing the machine does not lose the vault (recover.rs, trust.rs, kit.rs,
\* recovery_key.rs), for any devices, snapshots, epochs, endpoints and faults: a
\* recovery selects a head that descends from every certified head it was shown and
\* opens the key that snapshot was sealed with; an unbranched history is never
\* refused as forked by a recovery that saw all of it; and a recorded backup of the
\* kit was confirmed by as many endpoints as required and restores the kit through
\* each of them whose operator has not lost it since.
THEOREM RecoveryIsFaithful == RecoverySpec /\ KeyBackupSpec => []RecoverySound
<1>1. VaultIInv /\ KeyBackupIInv => RecoverySound
  BY VaultIInvSound, KeyBackupIInvSound DEF RecoverySound
<1> QED
  BY <1>1, VaultInvariant, KeyBackupInvariant, PTL

-----------------------------------------------------------------------------
(* Runs: the inductive invariant *)

RunCommand ==
    [op : {"none", "list", "materialize", "update", "delete", "rotate", "chunks", "fetch"},
     env : RunEnvs \cup {NoneRun}, pin : {NoneRun} \cup (RunEnvs \X SUBSET
        (RunIds \X RunNames \X Nat \X Statuses3)), name : Nat, id : RunIds \cup {NoneRun},
     set : SUBSET RunNames, rows : SUBSET RunNames, seen : SUBSET (RunNames \X (RunIds \X Nat)),
     head : VaultHeads \cup {NoneRun}, chunks : SUBSET Files]
VaultHere == [head : VaultHeads, here : SUBSET Files, there : SUBSET Files]

\* The values a revision stands for: the digest covers all that tells them apart.
ContentsAt(revision) == {<<r[2], <<r[1], r[3]>>>> : r \in revision[2]}

\* A command goes on with the values of its pin, a row that is there, a known head.
RunCommandOK(asked, ids) ==
    /\ asked \in RunCommand
    /\ asked.op = "list" /\ asked.pin # NoneRun => asked.seen = ContentsAt(asked.pin)
    /\ asked.op = "materialize" => asked.seen = ContentsAt(asked.pin)
    /\ asked.op \in {"update", "delete", "rotate"} => asked.id \in RunIds /\ ids[asked.id] \in ScopeRow
    /\ asked.op \in {"list", "materialize"} => asked.env \in RunEnvs
    /\ asked.op \in {"chunks", "fetch"} => asked.head \in VaultHeads

NotSet(values, set) == {v \in values : v[1] \notin set}

ChildOK(k) ==
    /\ k.kind \in {"scoped", "snapshot"}
    /\ k.kind = "scoped" =>
          /\ k.asOf = ContentsAt(k.revision) /\ NotSet(k.got, k.set) = NotSet(k.asOf, k.set)
          /\ k.revision \in RunEnvs \X SUBSET (RunIds \X RunNames \X Nat \X Statuses3)
          /\ k.asOf \in SUBSET (RunNames \X (RunIds \X Nat))
    /\ k.kind = "snapshot" => NotSet(k.got, k.set) = NotSet(Layered(k.revision), k.set)
    /\ \A v \in k.got : v[1] \notin Reserved

RunIInv ==
    /\ scope \in [RunIds -> {NoneRun} \cup ScopeRow]
    /\ vault \in VaultHere
    /\ context \in RunEnvs \cup {NoneRun}
    /\ remotes \in [RunProjects -> {"none", "pending", "suspended", "revoked"}]
    /\ shell \in [RunShells -> RunCommand]
    /\ \A c \in RunShells : RunCommandOK(shell[c], scope)
    /\ \A k \in children : ChildOK(k)

-----------------------------------------------------------------------------
(* Runs: the list, its revision and the child *)

LEMMA RowShape ==
    ASSUME NEW row \in ScopeRow
    PROVE  /\ row.env \in RunEnvs /\ row.name \in RunNames /\ row.name \in Nat
           /\ row.version \in Nat /\ row.status \in Statuses3
BY RunAssumption DEF ScopeRow, RunNames

LEMMA RowsAreRows ==
    ASSUME RunIInv, NEW e
    PROVE  RowsOf(e) \subseteq RunIds /\ \A s \in RowsOf(e) : scope[s] \in ScopeRow
BY DEF RunIInv, RowsOf

\* The revision of a request tells what it materializes.
LEMMA RevisionTells ==
    ASSUME RunIInv, NEW e, NEW ids \in SUBSET RunIds
    PROVE  ContentsAt(Revision(e, ids)) = Contents(ids)
<1> DEFINE D == {<<s, scope[s].name, scope[s].version, scope[s].status>> : s \in ids}
<1>1. Revision(e, ids)[2] = D
  BY DEF Revision
<1>2. ASSUME NEW v \in {<<r[2], <<r[1], r[3]>>>> : r \in D}
      PROVE  v \in {<<scope[s].name, <<s, scope[s].version>>>> : s \in ids}
  <2>1. PICK r \in D : v = <<r[2], <<r[1], r[3]>>>>
    OBVIOUS
  <2>2. PICK s \in ids : r = <<s, scope[s].name, scope[s].version, scope[s].status>>
    OBVIOUS
  <2>3. v = <<scope[s].name, <<s, scope[s].version>>>>
    BY <2>1, <2>2
  <2> QED
    BY <2>3
<1>3. ASSUME NEW s \in ids
      PROVE  <<scope[s].name, <<s, scope[s].version>>>> \in {<<r[2], <<r[1], r[3]>>>> : r \in D}
  <2> DEFINE r == <<s, scope[s].name, scope[s].version, scope[s].status>>
  <2>1. r \in D /\ r[1] = s /\ r[2] = scope[s].name /\ r[3] = scope[s].version
    OBVIOUS
  <2> HIDE DEF r, D
  <2> QED
    BY <2>1
<1> QED
  BY <1>1, <1>2, <1>3 DEF ContentsAt, Contents

LEMMA ContentsShape ==
    ASSUME RunIInv, NEW e \in RunEnvs, NEW ids \in SUBSET RunIds,
           \A s \in ids : scope[s] \in ScopeRow
    PROVE  /\ Contents(ids) \in SUBSET (RunNames \X (RunIds \X Nat))
           /\ Revision(e, ids) \in RunEnvs \X SUBSET (RunIds \X RunNames \X Nat \X Statuses3)
<1>1. \A s \in ids : scope[s].name \in RunNames /\ scope[s].version \in Nat
                      /\ scope[s].status \in Statuses3 /\ s \in RunIds
  BY RowShape
<1>2. Contents(ids) \in SUBSET (RunNames \X (RunIds \X Nat))
  BY <1>1 DEF Contents
<1>3. {<<s, scope[s].name, scope[s].version, scope[s].status>> : s \in ids}
        \in SUBSET (RunIds \X RunNames \X Nat \X Statuses3)
  BY <1>1
<1> QED
  BY <1>2, <1>3 DEF Revision

\* A page that is not full has left nothing out: otherwise the first name it left
\* out has a pageful of names before it, all of which are on the page.
LEMMA PageIsWhole ==
    ASSUME RunIInv, NEW e, ~PageFull(Cardinality(Listed(e)))
    PROVE  Listed(e) = RowsOf(e)
<1> DEFINE ids == RowsOf(e)
           left == ids \ Listed(e)
           names == {scope[s].name : s \in left}
<1>1. Listed(e) \subseteq ids /\ ids \subseteq RunIds /\ IsFiniteSet(RunIds)
  BY RowsAreRows, RunAssumption DEF Listed
<1>2. IsFiniteSet(Listed(e)) /\ Cardinality(Listed(e)) \in Nat
  <2>1. IsFiniteSet(Listed(e))
    BY <1>1, FS_Subset
  <2> QED
    BY <2>1, FS_CardinalityType
<1>3. Cardinality(Listed(e)) < RunPage
  BY <1>2, RunAssumption DEF PageFull
<1>4. \A s \in ids : scope[s].name \in Nat
  BY RowsAreRows, RowShape
<1> SUFFICES ASSUME left # {} PROVE FALSE
  BY <1>1
<1>5. names \in SUBSET Nat /\ names # {}
  BY <1>4
<1>6. PICK n \in names : \A m \in names : n <= m
  <2> HIDE DEF names
  <2> QED
    BY <1>5, LeastNatural
<1>7. PICK s \in left : n = scope[s].name
  BY <1>6
<1> DEFINE before == {t \in ids : scope[t].name < scope[s].name}
<1>8. before \subseteq Listed(e)
  <2> SUFFICES ASSUME NEW t \in before PROVE t \in Listed(e)
    OBVIOUS
  <2>1. t \in ids /\ scope[t].name < scope[s].name
    OBVIOUS
  <2>2. CASE t \in left
    <3>1. scope[s].name <= scope[t].name
      BY <1>6, <1>7, <2>2
    <3>2. scope[s].name \in Nat /\ scope[t].name \in Nat
      BY <1>4, <1>7, <2>1
    <3> QED
      BY <2>1, <3>1, <3>2
  <2> QED
    BY <2>1, <2>2
<1>9. Cardinality(before) <= Cardinality(Listed(e)) /\ Cardinality(before) \in Nat
  <2> HIDE DEF before
  <2>1. IsFiniteSet(before)
    BY <1>2, <1>8, FS_Subset
  <2>2. Cardinality(before) <= Cardinality(Listed(e))
    BY <1>2, <1>8, FS_Subset
  <2> QED
    BY <2>1, <2>2, FS_CardinalityType
<1>10. Cardinality(before) < RunPage
  <2> HIDE DEF before
  <2> QED
    BY <1>2, <1>3, <1>9, RunAssumption
<1>11. s \in Listed(e)
  BY <1>7, <1>10 DEF Listed
<1> QED
  BY <1>7, <1>11

LEMMA OverridesKeep ==
    ASSUME NEW values, NEW set
    PROVE  NotSet(Overridden(values, set), set) = NotSet(values, set)
<1>1. \A n \in set : <<n, <<NoneRun, 0>>>>[1] = n
  OBVIOUS
<1> QED
  BY <1>1 DEF NotSet, Overridden

\* What spawn_with_env starts.
LEMMA SpawnedOK ==
    ASSUME NEW kind \in {"scoped", "snapshot"}, NEW values, NEW asked, NEW revision, NEW asOf,
           Spawned(kind, values, asked, revision, asOf),
           kind = "scoped" =>
              /\ values = asOf /\ asOf = ContentsAt(revision)
              /\ revision \in RunEnvs \X SUBSET (RunIds \X RunNames \X Nat \X Statuses3)
              /\ asOf \in SUBSET (RunNames \X (RunIds \X Nat)),
           kind = "snapshot" => values = Layered(revision)
    PROVE  \A k \in children' : k \in children \/ ChildOK(k)
<1> DEFINE got == Overridden(values, asked.set)
           child == [kind |-> kind, got |-> got, set |-> asked.set, revision |-> revision,
                     asOf |-> asOf]
<1>1. \/ children' = children
      \/ children' = children \cup {child} /\ \A v \in got : v[1] \notin Reserved
  BY DEF Spawned
<1>2. NotSet(got, asked.set) = NotSet(values, asked.set)
  BY OverridesKeep
<1> HIDE DEF got
<1>3. child.kind = kind /\ child.got = got /\ child.set = asked.set /\ child.revision = revision
      /\ child.asOf = asOf
  OBVIOUS
<1> HIDE DEF child
<1>4. (\A v \in got : v[1] \notin Reserved) => ChildOK(child)
  BY <1>2, <1>3 DEF ChildOK
<1> QED
  BY <1>1, <1>4

-----------------------------------------------------------------------------
(* Runs: the steps *)

LEMMA RestingOK == \A ids : RunCommandOK(Resting, ids)
BY DEF RunCommandOK, Resting, RunCommand

LEMMA RunStep ==
    ASSUME RunIInv,
           scope' \in [RunIds -> {NoneRun} \cup ScopeRow],
           \A s \in RunIds : scope[s] \in ScopeRow => scope'[s] \in ScopeRow,
           vault' \in VaultHere,
           context' \in RunEnvs \cup {NoneRun},
           remotes' \in [RunProjects -> {"none", "pending", "suspended", "revoked"}],
           \/ shell' = shell
           \/ \E c \in RunShells : \E asked \in RunCommand :
                 RunCommandOK(asked, scope') /\ shell' = [shell EXCEPT ![c] = asked],
           \A k \in children' : k \in children \/ ChildOK(k)
    PROVE  RunIInv'
<1>1. \A c \in RunShells : shell[c] \in RunCommand /\ RunCommandOK(shell[c], scope')
  BY DEF RunIInv, RunCommandOK
<1>2. shell' \in [RunShells -> RunCommand] /\ \A c \in RunShells : RunCommandOK(shell'[c], scope')
  <2>1. CASE shell' = shell
    BY <1>1, <2>1 DEF RunIInv
  <2>2. ASSUME NEW c \in RunShells, NEW asked \in RunCommand, RunCommandOK(asked, scope'),
               shell' = [shell EXCEPT ![c] = asked]
        PROVE  shell' \in [RunShells -> RunCommand]
               /\ \A d \in RunShells : RunCommandOK(shell'[d], scope')
    BY <1>1, <2>2 DEF RunIInv
  <2> QED
    BY <2>1, <2>2
<1>3. \A k \in children' : ChildOK(k)
  BY DEF RunIInv
<1>4. (\A k \in children : ChildOK(k))' <=> \A k \in children' : ChildOK(k)
  BY DEF ChildOK, NotSet, ContentsAt, Layered
<1>5. (\A c \in RunShells : RunCommandOK(shell[c], scope))'
        <=> \A c \in RunShells : RunCommandOK(shell'[c], scope')
  BY DEF RunCommandOK, RunCommand, ContentsAt, ScopeRow, Files
<1> QED
  BY <1>2, <1>3, <1>4, <1>5 DEF RunIInv

LEMMA GoesOK ==
    ASSUME RunIInv, NEW c \in RunShells, NEW asked, Goes(c, asked), RunCommandOK(asked, scope'),
           scope' \in [RunIds -> {NoneRun} \cup ScopeRow],
           \A s \in RunIds : scope[s] \in ScopeRow => scope'[s] \in ScopeRow,
           UNCHANGED <<vault, context, remotes>>,
           \A k \in children' : k \in children \/ ChildOK(k)
    PROVE  RunIInv'
<1>1. asked \in RunCommand
  BY DEF RunCommandOK
<1> QED
  BY <1>1, RunStep DEF RunIInv, Goes

\* A command that ends, or goes on, with the scope as it is.
LEMMA QuietOK ==
    ASSUME RunIInv, NEW c \in RunShells, NEW asked, Goes(c, asked), RunCommandOK(asked, scope),
           UNCHANGED <<scope, vault, context, remotes>>,
           \A k \in children' : k \in children \/ ChildOK(k)
    PROVE  RunIInv'
<1>1. RunCommandOK(asked, scope')
  BY DEF RunCommandOK
<1> QED
  BY <1>1, GoesOK DEF RunIInv

LEMMA StartScopedOK ==
    ASSUME RunIInv, NEW c \in RunShells, StartScoped(c)
    PROVE  RunIInv'
<1>1. PICK flag \in RunEnvs \cup {NoneRun}, var \in RunEnvs \cup {NoneRun},
           project \in BOOLEAN, set \in {{}, {1}},
           printed \in {NoneRun} \cup {k \in children : k.kind = "scoped"} :
        /\ shell[c] = Resting /\ runPast.runs < MaxRuns
        /\ Signal(flag, var, project) /\ Resolved(flag, var) # NoneRun
        /\ ProjectFor(project) = {RunProject}
        /\ Goes(c, [Resting EXCEPT !.op = "list", !.env = Resolved(flag, var), !.set = set,
                      !.pin = IF printed = NoneRun THEN NoneRun ELSE printed.revision,
                      !.seen = IF printed = NoneRun THEN {} ELSE printed.asOf])
        /\ runPast' = [runPast EXCEPT !.runs = @ + 1]
        /\ UNCHANGED <<scope, vault, context, remotes, children>>
  BY ONLY StartScoped(c), Zenon DEF StartScoped
<1> DEFINE e == Resolved(flag, var)
           pin == IF printed = NoneRun THEN NoneRun ELSE printed.revision
           seen == IF printed = NoneRun THEN {} ELSE printed.asOf
           asked == [Resting EXCEPT !.op = "list", !.env = e, !.set = set, !.pin = pin, !.seen = seen]
<1>2. e \in RunEnvs
  BY <1>1 DEF Resolved, RunIInv
<1>3. /\ pin \in {NoneRun} \cup (RunEnvs \X SUBSET (RunIds \X RunNames \X Nat \X Statuses3))
      /\ seen \in SUBSET (RunNames \X (RunIds \X Nat))
      /\ pin # NoneRun => seen = ContentsAt(pin)
  <2>1. CASE printed = NoneRun
    BY <2>1
  <2>2. CASE printed # NoneRun
    <3>1. ChildOK(printed) /\ printed.kind = "scoped"
      BY <2>2 DEF RunIInv
    <3> QED
      BY <2>2, <3>1 DEF ChildOK
  <2> QED
    BY <2>1, <2>2
<1>4. set \in SUBSET RunNames
  BY RunAssumption DEF RunNames
<1> HIDE DEF e, pin, seen
<1>5. /\ asked \in RunCommand /\ asked.op = "list" /\ asked.env = e /\ asked.pin = pin /\ asked.seen = seen
  BY <1>2, <1>3, <1>4 DEF RunCommand, Resting
<1>6. Goes(c, asked)
  BY <1>1 DEF e, pin, seen
<1> HIDE DEF asked
<1>7. RunCommandOK(asked, scope)
  BY <1>2, <1>3, <1>5 DEF RunCommandOK
<1> QED
  BY <1>1, <1>6, <1>7, QuietOK

LEMMA ListNamesOK ==
    ASSUME RunIInv, NEW c \in RunShells, ListNames(c)
    PROVE  RunIInv'
<1> DEFINE asked == shell[c]
           e == asked.env
           listed == Listed(e)
           names == {scope[s].name : s \in listed}
           seen == IF asked.pin = NoneRun THEN Contents(RowsOf(e)) ELSE asked.seen
           pin == IF asked.pin = NoneRun THEN Revision(e, listed) ELSE asked.pin
           next == [asked EXCEPT !.op = "materialize", !.rows = names, !.seen = seen, !.pin = pin]
<1>1. asked.op = "list" /\ RunCommandOK(asked, scope) /\ asked \in RunCommand
  BY DEF ListNames, RunIInv
<1>2. UNCHANGED <<scope, vault, context, remotes, children>>
  BY DEF ListNames
<1>3. \/ Goes(c, Resting)
      \/ ~PageFull(Cardinality(listed)) /\ Goes(c, next)
  BY DEF ListNames, GetSecrets, Ends
<1>4. CASE Goes(c, Resting)
  BY <1>2, <1>4, RestingOK, QuietOK
<1>5. CASE ~PageFull(Cardinality(listed)) /\ Goes(c, next)
  <2>1. listed = RowsOf(e) /\ listed \subseteq RunIds /\ \A s \in listed : scope[s] \in ScopeRow
    BY <1>5, PageIsWhole, RowsAreRows
  <2>2. e \in RunEnvs
    BY <1>1 DEF RunCommandOK
  <2>3. names \in SUBSET RunNames
    BY <2>1, RowShape
  <2>4. /\ seen \in SUBSET (RunNames \X (RunIds \X Nat)) /\ seen = ContentsAt(pin)
        /\ pin \in {NoneRun} \cup (RunEnvs \X SUBSET (RunIds \X RunNames \X Nat \X Statuses3))
    <3>1. CASE asked.pin = NoneRun
      BY <2>1, <2>2, <3>1, RevisionTells, ContentsShape
    <3>2. CASE asked.pin # NoneRun
      BY <1>1, <3>2 DEF RunCommandOK, RunCommand
    <3> QED
      BY <3>1, <3>2
  <2> HIDE DEF names, seen, pin
  <2>5. next \in RunCommand /\ next.op = "materialize" /\ next.seen = seen /\ next.pin = pin
        /\ next.env = e
    BY <1>1, <2>3, <2>4 DEF RunCommand
  <2> HIDE DEF next
  <2>6. RunCommandOK(next, scope)
    BY <2>2, <2>4, <2>5 DEF RunCommandOK
  <2> QED
    BY <1>2, <1>5, <2>6, QuietOK
<1> QED
  BY <1>3, <1>4, <1>5

LEMMA MaterializeOK ==
    ASSUME RunIInv, NEW c \in RunShells, Materialize(c)
    PROVE  RunIInv'
<1> DEFINE asked == shell[c]
           ids == {s \in RowsOf(asked.env) : scope[s].name \in asked.rows}
<1>1. asked.op = "materialize" /\ RunCommandOK(asked, scope) /\ asked.env \in RunEnvs
  BY DEF Materialize, RunIInv, RunCommandOK
<1>2. Goes(c, Resting) /\ UNCHANGED <<scope, vault, context, remotes>>
  BY DEF Materialize, Ends
<1>3. ids \subseteq RunIds /\ \A s \in ids : scope[s] \in ScopeRow
  BY RowsAreRows
<1>4. \/ children' = children
      \/ /\ Revision(asked.env, ids) = asked.pin
         /\ Spawned("scoped", Contents(ids), asked, asked.pin, asked.seen)
  BY DEF Materialize
<1>5. \A k \in children' : k \in children \/ ChildOK(k)
  <2> SUFFICES ASSUME Revision(asked.env, ids) = asked.pin,
                      Spawned("scoped", Contents(ids), asked, asked.pin, asked.seen)
               PROVE  \A k \in children' : k \in children \/ ChildOK(k)
    BY <1>4
  <2>1. Contents(ids) = asked.seen /\ asked.seen = ContentsAt(asked.pin)
    BY <1>1, <1>3, RevisionTells DEF RunCommandOK
  <2>2. /\ asked.pin \in RunEnvs \X SUBSET (RunIds \X RunNames \X Nat \X Statuses3)
        /\ asked.seen \in SUBSET (RunNames \X (RunIds \X Nat))
    BY <1>1, <1>3, <2>1, ContentsShape
  <2> HIDE DEF ids, asked
  <2>3. "scoped" # "snapshot"
    OBVIOUS
  <2> QED
    BY <2>1, <2>2, <2>3, SpawnedOK
<1> QED
  BY <1>2, <1>5, RestingOK, QuietOK

\* A command that ends as it writes a row.
LEMMA RowWritten ==
    ASSUME RunIInv, NEW s \in RunIds, NEW row \in ScopeRow, Changed(s, row),
           UNCHANGED <<vault, context, remotes, children>>,
           shell' = shell \/ \E c \in RunShells : Goes(c, Resting)
    PROVE  RunIInv'
<1>1. /\ scope' \in [RunIds -> {NoneRun} \cup ScopeRow]
      /\ \A t \in RunIds : scope[t] \in ScopeRow => scope'[t] \in ScopeRow
  BY DEF RunIInv, Changed
<1>2. Resting \in RunCommand /\ RunCommandOK(Resting, scope')
  BY RestingOK DEF RunCommandOK
<1> QED
  BY <1>1, <1>2, RunStep DEF RunIInv, Goes

LEMMA SecretSetOK ==
    ASSUME RunIInv, NEW c \in RunShells, SecretSet(c)
    PROVE  RunIInv'
<1>1. PICK s \in RunIds, e \in RunEnvs, n \in RunNames :
        /\ Changed(s, [env |-> e, name |-> n, version |-> 1, status |-> "active", live |-> TRUE])
        /\ UNCHANGED <<vault, context, remotes, shell, children>>
  BY DEF SecretSet
<1>2. [env |-> e, name |-> n, version |-> 1, status |-> "active", live |-> TRUE] \in ScopeRow
  BY DEF ScopeRow, Statuses3
<1> QED
  BY <1>1, <1>2, RowWritten

LEMMA MoveRowOK == ASSUME RunIInv, MoveRow PROVE RunIInv'
<1>1. PICK s \in RunIds, e \in RunEnvs, n \in RunNames :
        /\ scope[s] # NoneRun
        /\ Changed(s, [scope[s] EXCEPT !.env = e, !.name = n,
                          !.version = IF e = scope[s].env THEN @ ELSE @ + 1])
        /\ UNCHANGED <<vault, context, remotes, shell, children>>
  BY DEF MoveRow
<1> DEFINE old == scope[s]
           v == IF e = old.env THEN old.version ELSE old.version + 1
           row == [old EXCEPT !.env = e, !.name = n, !.version = v]
<1>2. old \in ScopeRow
  BY <1>1 DEF RunIInv
<1>3. v \in Nat
  BY <1>2, RowShape
<1>4. Changed(s, row)
  BY <1>1
<1> HIDE DEF old, v
<1>5. row \in ScopeRow
  BY <1>2, <1>3 DEF ScopeRow
<1> QED
  BY <1>1, <1>4, <1>5, RowWritten

LEMMA ResolveSecretIdOK ==
    ASSUME RunIInv, NEW c \in RunShells, ResolveSecretId(c)
    PROVE  RunIInv'
<1>1. PICK e \in RunEnvs, s \in RunIds, op \in {"update", "delete", "rotate"} :
        /\ s \in Listed(e)
        /\ Goes(c, [Resting EXCEPT !.op = op, !.env = e, !.id = s, !.name = scope[s].name])
        /\ UNCHANGED <<scope, vault, context, remotes, children>>
  BY DEF ResolveSecretId
<1> DEFINE asked == [Resting EXCEPT !.op = op, !.env = e, !.id = s, !.name = scope[s].name]
<1>2. scope[s] \in ScopeRow /\ scope[s].name \in Nat
  BY <1>1, RowsAreRows, RowShape DEF Listed
<1>3. asked \in RunCommand /\ asked.op = op /\ asked.id = s
  BY <1>2 DEF RunCommand, Resting
<1> HIDE DEF asked
<1>4. RunCommandOK(asked, scope)
  BY <1>2, <1>3 DEF RunCommandOK
<1> QED
  BY <1>1, <1>4, QuietOK DEF asked

LEMMA SentOK ==
    ASSUME RunIInv, NEW c \in RunShells,
           SecretUpdate(c) \/ SecretDelete(c) \/ SecretRotate(c)
    PROVE  RunIInv'
<1> DEFINE s == shell[c].id
           old == scope[s]
<1>1. s \in RunIds /\ old \in ScopeRow
  BY DEF SecretUpdate, SecretDelete, SecretRotate, Sent, RunIInv, RunCommandOK
<1>2. Goes(c, Resting) /\ UNCHANGED <<vault, context, remotes, children>>
  BY DEF SecretUpdate, SecretDelete, SecretRotate, Sent, Ends
<1>3. \/ UNCHANGED scope
      \/ \E st \in Statuses3 : Changed(s, [old EXCEPT !.status = st])
      \/ Changed(s, [old EXCEPT !.live = FALSE])
      \/ Changed(s, [old EXCEPT !.version = old.version + 1])
  BY DEF SecretUpdate, SecretDelete, SecretRotate, OnLive
<1>4. old.version + 1 \in Nat
  BY <1>1, RowShape
<1> HIDE DEF s, old
<1>5. /\ \A st \in Statuses3 : [old EXCEPT !.status = st] \in ScopeRow
      /\ [old EXCEPT !.live = FALSE] \in ScopeRow
      /\ [old EXCEPT !.version = old.version + 1] \in ScopeRow
  BY <1>1, <1>4 DEF ScopeRow
<1>6. CASE UNCHANGED scope
  BY <1>2, <1>6, RestingOK, QuietOK
<1>7. ASSUME NEW row \in ScopeRow, Changed(s, row) PROVE RunIInv'
  BY <1>1, <1>2, <1>7, RowWritten
<1> QED
  BY <1>3, <1>5, <1>6, <1>7

LEMMA SnapshotStepsOK ==
    ASSUME RunIInv, NEW c \in RunShells,
           StartSnapshot(c) \/ LocalChunks(c) \/ FetchMissing(c)
    PROVE  RunIInv'
<1> DEFINE asked == shell[c]
<1>1. UNCHANGED <<scope, vault, context, remotes, children>>
  BY DEF StartSnapshot, LocalChunks, FetchMissing
<1>2. asked \in RunCommand /\ RunCommandOK(asked, scope) /\ vault.head \in VaultHeads
  BY DEF RunIInv, VaultHere
<1>3. \A h \in VaultHeads : ChunksOf(h) \subseteq Files
  BY DEF ChunksOf, Files
<1>4. CASE StartSnapshot(c)
  <2>1. PICK h \in VaultHeads, set \in {{}, {1}} :
          Goes(c, [Resting EXCEPT !.op = "chunks", !.set = set, !.head = h])
    BY <1>2, <1>4 DEF StartSnapshot
  <2> DEFINE next == [Resting EXCEPT !.op = "chunks", !.set = set, !.head = h]
  <2>2. set \in SUBSET RunNames
    BY RunAssumption DEF RunNames
  <2>3. next \in RunCommand /\ next.op = "chunks" /\ next.head = h
    BY <2>2 DEF RunCommand, Resting
  <2> HIDE DEF next
  <2>4. RunCommandOK(next, scope)
    BY <2>3 DEF RunCommandOK
  <2> QED
    BY <1>1, <2>1, <2>4, QuietOK DEF next
<1>5. ASSUME NEW more \in SUBSET Files, asked.op \in {"chunks", "fetch"},
             Goes(c, [asked EXCEPT !.op = "fetch", !.chunks = more])
      PROVE  RunIInv'
  <2> DEFINE next == [asked EXCEPT !.op = "fetch", !.chunks = more]
  <2>1. next \in RunCommand /\ next.op = "fetch" /\ next.head = asked.head
    BY <1>2 DEF RunCommand
  <2>2. asked.head \in VaultHeads
    BY <1>2, <1>5 DEF RunCommandOK
  <2> HIDE DEF next
  <2>3. RunCommandOK(next, scope)
    BY <2>1, <2>2 DEF RunCommandOK
  <2> QED
    BY <1>1, <1>5, <2>3, QuietOK DEF next
<1>6. asked.op \in {"chunks", "fetch"} => ChunksOf(asked.head) \subseteq Files
  BY <1>2, <1>3 DEF RunCommandOK
<1>7. CASE LocalChunks(c)
  <2>1. ChunksOf(asked.head) \cap vault.here \in SUBSET Files /\ asked.op = "chunks"
    BY <1>6, <1>7 DEF LocalChunks
  <2> QED
    BY <1>5, <1>7, <2>1 DEF LocalChunks
<1>8. CASE FetchMissing(c)
  <2>1. PICK answered \in SUBSET ((ChunksOf(asked.head) \ asked.chunks) \cap vault.there) :
          Goes(c, [asked EXCEPT !.chunks = asked.chunks \cup answered]) \/ Goes(c, Resting)
    BY <1>8 DEF FetchMissing, Ends
  <2>2. asked.op = "fetch"
    BY <1>8 DEF FetchMissing
  <2>3. asked.chunks \cup answered \in SUBSET Files
    BY <1>2, <1>6, <2>2 DEF RunCommand
  <2>4. [asked EXCEPT !.chunks = asked.chunks \cup answered] =
           [asked EXCEPT !.op = "fetch", !.chunks = asked.chunks \cup answered]
    BY <1>2, <2>2 DEF RunCommand
  <2>5. CASE Goes(c, Resting)
    BY <1>1, <2>5, RestingOK, QuietOK
  <2> HIDE DEF asked
  <2> QED
    BY <1>5, <2>1, <2>2, <2>3, <2>4, <2>5
<1> QED
  BY <1>4, <1>7, <1>8

LEMMA RunSnapshotOK ==
    ASSUME RunIInv, NEW c \in RunShells, RunSnapshot(c),
           \A h \in VaultHeads : Merged(h) = Layered(h)
    PROVE  RunIInv'
<1> DEFINE asked == shell[c]
<1>1. Goes(c, Resting) /\ UNCHANGED <<scope, vault, context, remotes>>
      /\ Spawned("snapshot", Merged(asked.head), asked, asked.head, {})
  BY DEF RunSnapshot, Ends
<1>2. asked.head \in VaultHeads
  BY DEF RunSnapshot, RunIInv, RunCommandOK
<1>3. Merged(asked.head) = Layered(asked.head)
  BY <1>2
<1>4. \A k \in children' : k \in children \/ ChildOK(k)
  <2> HIDE DEF asked
  <2> QED
    BY <1>1, <1>3, SpawnedOK
<1> QED
  BY <1>1, <1>4, RestingOK, QuietOK

LEMMA SurroundingsOK ==
    ASSUME RunIInv, WriteContext \/ RepoBind \/ RepoUnbind \/ MoveVault
    PROVE  RunIInv'
<1>1. UNCHANGED <<scope, shell, children>>
  BY DEF WriteContext, RepoBind, RepoUnbind, MoveVault
<1>2. context' \in RunEnvs \cup {NoneRun}
  BY DEF WriteContext, RepoBind, RepoUnbind, MoveVault, RunIInv
<1>3. remotes' \in [RunProjects -> {"none", "pending", "suspended", "revoked"}]
  BY DEF WriteContext, RepoBind, RepoUnbind, MoveVault, RunIInv
<1>4. vault' \in VaultHere
  <2>1. vault \in VaultHere
    BY DEF RunIInv
  <2>2. \A h \in VaultHeads : ChunksOf(h) \subseteq Files
    BY DEF ChunksOf, Files
  <2>3. CASE UNCHANGED vault
    BY <2>1, <2>3
  <2>4. CASE MoveVault
    <3> HIDE DEF Files
    <3> QED
      BY <2>1, <2>2, <2>4 DEF MoveVault, VaultHere
  <2> QED
    BY <2>3, <2>4 DEF WriteContext, RepoBind, RepoUnbind
<1> QED
  BY <1>1, <1>2, <1>3, <1>4, RunStep DEF RunIInv

LEMMA RunInitIInv == RunInit => RunIInv
<1> SUFFICES ASSUME RunInit PROVE RunIInv
  OBVIOUS
<1>1. Resting \in RunCommand /\ RunCommandOK(Resting, scope)
  BY RestingOK DEF RunCommandOK
<1>2. vault \in VaultHere
  BY DEF RunInit, VaultHere
<1> QED
  BY <1>1, <1>2 DEF RunInit, RunIInv

LEMMA RunIInvSound == RunIInv => RunsSound
<1> SUFFICES ASSUME RunIInv PROVE RunsSound
  OBVIOUS
<1>1. RunTypeOK
  <2>1. \A c \in RunShells : DOMAIN shell[c] = DOMAIN Resting
    BY DEF RunIInv, RunCommand, Resting
  <2>2. \A k \in children : k.kind \in {"scoped", "snapshot"}
    BY DEF RunIInv, ChildOK
  <2> QED
    BY <2>1, <2>2 DEF RunIInv, RunTypeOK, VaultHere
<1>2. RunsOneSource
  BY DEF RunIInv, ChildOK, NotSet, RunsOneSource
<1> QED
  BY <1>1, <1>2 DEF RunsSound

\* A child of `ciphervault run` has one source of variables (run.rs, scoped_enhancements.rs):
\* however secrets are set, rotated, deleted, renamed and moved between the requests
\* of a scoped run, and whatever page limit cuts the list, it is the whole scope as it
\* stood at one instant; a snapshot run has all files of one snapshot although heads
\* move and chunks are lost; and no control credential is injected. For any secrets,
\* environments, terminals and snapshots whose files layer as merged.
THEOREM RunsHaveOneSource ==
    ASSUME \A h \in VaultHeads : Merged(h) = Layered(h)
    PROVE  RunSpec => []RunsSound
<1>1. RunInit => RunIInv
  BY RunInitIInv
<1>2. RunIInv /\ [RunNext]_runVars => RunIInv'
  <2> SUFFICES ASSUME RunIInv, [RunNext]_runVars PROVE RunIInv'
    OBVIOUS
  <2>1. ASSUME NEW c \in RunShells, StartScoped(c) PROVE RunIInv'
    BY <2>1, StartScopedOK
  <2>2. ASSUME NEW c \in RunShells, ListNames(c) PROVE RunIInv'
    BY <2>2, ListNamesOK
  <2>3. ASSUME NEW c \in RunShells, Materialize(c) PROVE RunIInv'
    BY <2>3, MaterializeOK
  <2>4. ASSUME NEW c \in RunShells, SecretSet(c) PROVE RunIInv'
    BY <2>4, SecretSetOK
  <2>5. ASSUME NEW c \in RunShells, ResolveSecretId(c) PROVE RunIInv'
    BY <2>5, ResolveSecretIdOK
  <2>6. ASSUME NEW c \in RunShells, SecretUpdate(c) \/ SecretDelete(c) \/ SecretRotate(c)
        PROVE  RunIInv'
    BY <2>6, SentOK
  <2>7. ASSUME NEW c \in RunShells, RunFails(c) PROVE RunIInv'
    BY <2>7, RestingOK, QuietOK DEF RunFails, Ends
  <2>8. ASSUME NEW c \in RunShells, StartSnapshot(c) \/ LocalChunks(c) \/ FetchMissing(c)
        PROVE  RunIInv'
    BY <2>8, SnapshotStepsOK
  <2>9. ASSUME NEW c \in RunShells, RunSnapshot(c) PROVE RunIInv'
    BY <2>9, RunSnapshotOK
  <2>10. CASE MoveRow
    BY <2>10, MoveRowOK
  <2>11. CASE WriteContext \/ RepoBind \/ RepoUnbind \/ MoveVault
    BY <2>11, SurroundingsOK
  <2>12. CASE UNCHANGED runVars
    BY <2>12, RunStep DEF runVars, RunIInv
  <2> QED
    BY <2>1, <2>2, <2>3, <2>4, <2>5, <2>6, <2>7, <2>8, <2>9, <2>10, <2>11, <2>12
       DEF RunNext, ScopedNext, SnapshotNext
<1> QED
  BY <1>1, <1>2, RunIInvSound, PTL DEF RunSpec

-----------------------------------------------------------------------------
(* Updates and the managed node: the inductive invariant *)

BinaryNames == {"cli", "operator", "agent", "maintenance"}
UpdateRecord ==
    [stage : {"idle", "apply", "install"}, base : Versions, tag : Versions,
     got : Seq(Versions \cup {0}), done : 0..4,
     said : {"nothing", "latest", "failed", "installed"}]
NodeCommand ==
    [stage : {"idle", "token", "config", "identity", "spawned", "waiting", "stopping"},
     pid : Pids \cup {0}, sure : BOOLEAN,
     said : {"nothing", "set up", "other node", "running", "timed out", "still responding", "stopped"}]
ProcessStates == {"none", "booting", "serving", "dying", "foreign", "other"}

NodeTypes ==
    /\ bin \in [BinaryNames -> Versions]
    /\ up \in UpdateRecord
    /\ files \in [present : SUBSET {"token", "config", "key"},
                  backup : SUBSET {"token", "config", "key"}, pid : Pids \cup {0}]
    /\ files.backup \subseteq files.present
    /\ procs \in [Pids -> ProcessStates]
    /\ port \in Pids \cup {0}
    /\ cmd \in NodeCommand

\* What is downloaded is for a release that is not older than the CLI the command
\* started from, and what is installed is that release whole.
UpdateInv ==
    /\ \A b \in BinaryNames : bin[b] <= bin["cli"]
    /\ up.stage = "apply" => bin["cli"] = up.base /\ up.done = 0 /\ (up.got # <<>> => up.base <= up.tag)
    /\ up.stage = "install" =>
          /\ up.base <= up.tag /\ Len(up.got) = 3 /\ up.got[1] = up.tag
          /\ bin["cli"] = IF up.done = 0 THEN up.base ELSE up.tag

\* A folder gets its token before its configuration.
FolderInv ==
    /\ "config" \in files.present => "token" \in files.present
    /\ cmd.stage \in {"config", "identity"} => "token" \in files.present

\* A daemon serves on the port. While every start was answered by its own daemon,
\* there is no daemon but the recorded one, or the one just spawned, and none at
\* all once the recorded one was told to go.
DaemonInv ==
    /\ port # 0 => procs[port] \notin {"none", "foreign", "booting"}
    /\ \A p \in Pids : procs[p] = "serving" => port = p
    /\ cmd.sure => \A p \in Pids : Own(p) =>
          /\ cmd.stage # "stopping"
          /\ cmd.stage \in {"spawned", "waiting"} => p = cmd.pid
          /\ cmd.stage # "spawned" => files.pid = p
          /\ cmd.stage \notin {"spawned", "waiting"} => procs[p] = "serving" /\ cmd.said # "stopped"
    /\ cmd.stage = "waiting" => files.pid = cmd.pid
    /\ cmd.stage \in {"spawned", "waiting"} => cmd.pid # 0

InstallIInv == NodeTypes /\ UpdateInv /\ FolderInv /\ DaemonInv

InstallSpec == InstallInit /\ [][InstallNext]_nodeVars
-----------------------------------------------------------------------------
(* Updates and the managed node: the steps *)

LEMMA BinaryOrder ==
    /\ Len(Binaries) = 4 /\ Len(Companions) = 3
    /\ Binaries[1] = "cli" /\ Binaries[2] = "operator" /\ Binaries[3] = "agent"
    /\ Binaries[4] = "maintenance"
BY DEF Binaries, Companions

LEMMA EndedShape ==
    ASSUME NEW said \in {"nothing", "latest", "failed", "installed"}
    PROVE  Ended(said) \in UpdateRecord /\ Ended(said).stage = "idle"
<1>1. <<>> \in Seq(Versions \cup {0}) /\ 0 \in 0..4 OBVIOUS
<1>. QED BY <1>1, InstallAssumption DEF Ended, UpdateRecord

LEMMA InstallInitOK == InstallInit => InstallIInv
<1>. SUFFICES ASSUME InstallInit PROVE InstallIInv OBVIOUS
<1>1. NodeTypes
  <2>1. up \in UpdateRecord BY EndedShape DEF InstallInit
  <2>2. cmd \in NodeCommand BY DEF InstallInit, NodeCommand
  <2>3. bin \in [BinaryNames -> Versions] BY InstallAssumption DEF InstallInit, BinaryNames
  <2>. QED BY <2>1, <2>2, <2>3 DEF InstallInit, NodeTypes, ProcessStates
<1>2. UpdateInv
  <2>1. FirstVersion <= FirstVersion BY InstallAssumption
  <2>2. up.stage = "idle" BY EndedShape DEF InstallInit
  <2>. QED BY <2>1, <2>2 DEF InstallInit, UpdateInv, BinaryNames
<1>3. FolderInv BY DEF InstallInit, FolderInv
<1>4. DaemonInv BY DEF InstallInit, DaemonInv, Own
<1>. QED BY <1>1, <1>2, <1>3, <1>4 DEF InstallIInv

\* Steps of the update command leave the node alone.
LEMMA UpdateKeepsNode ==
    ASSUME InstallIInv, UNCHANGED daemonVars PROVE FolderInv' /\ DaemonInv'
BY DEF InstallIInv, daemonVars, FolderInv, DaemonInv, Own

\* Steps of the node leave the update command alone.
LEMMA NodeKeepsUpdate == ASSUME InstallIInv, UNCHANGED updateVars PROVE UpdateInv'
BY DEF InstallIInv, updateVars, UpdateInv

LEMMA UpdateStepsOK ==
    ASSUME InstallIInv,
           \/ \E v \in Versions, r \in BOOLEAN : CheckForUpdates(v, r)
           \/ \E a \in Versions \cup {0} : Download(a)
           \/ VerifyRelease \/ UpdateFails \/ UpdateInstalled \/ UpdateInterrupted
    PROVE  InstallIInv' /\ bin' = bin
<1>1. bin' = bin /\ UNCHANGED daemonVars
  BY DEF CheckForUpdates, Download, VerifyRelease, UpdateFails, UpdateInstalled, UpdateInterrupted
<1>2. FolderInv' /\ DaemonInv' BY <1>1, UpdateKeepsNode
<1>. SUFFICES NodeTypes' /\ UpdateInv' BY <1>1, <1>2 DEF InstallIInv
<1>3. SUFFICES up' \in UpdateRecord /\ UpdateInv'
  BY <1>1 DEF InstallIInv, NodeTypes, daemonVars
<1>4. CASE \E v \in Versions, r \in BOOLEAN : CheckForUpdates(v, r)
  <2>1. PICK v \in Versions, r \in BOOLEAN : CheckForUpdates(v, r) BY <1>4
  <2>2. CASE up' = Ended("latest")
    BY <1>1, <2>2, EndedShape DEF InstallIInv, UpdateInv
  <2>3. CASE up' = [Ended("nothing") EXCEPT !.stage = "apply", !.base = bin["cli"], !.tag = v]
    <3>1. bin["cli"] \in Versions BY DEF InstallIInv, NodeTypes, BinaryNames
    <3>2. up' = [stage |-> "apply", base |-> bin["cli"], tag |-> v, got |-> <<>>, done |-> 0,
                 said |-> "nothing"] BY <2>3 DEF Ended
    <3>0. <<>> \in Seq(Versions \cup {0}) /\ 0 \in 0..4 OBVIOUS
    <3>3. up' \in UpdateRecord BY <3>0, <3>1, <3>2 DEF UpdateRecord
    <3>4. UpdateInv' BY <1>1, <3>2 DEF InstallIInv, UpdateInv
    <3>. QED BY <3>3, <3>4
  <2>. QED BY <2>1, <2>2, <2>3 DEF CheckForUpdates
<1>5. CASE \E a \in Versions \cup {0} : Download(a)
  <2>1. PICK a \in Versions \cup {0} : Download(a) BY <1>5
  <2>2. up \in UpdateRecord /\ bin["cli"] = up.base /\ up.stage = "apply"
    BY <2>1 DEF Download, InstallIInv, NodeTypes, UpdateInv
  <2>3. up' = [up EXCEPT !.got = Append(@, a)] /\ ~(up.base > up.tag)
    BY <2>1 DEF Download, MayApply, IsNewerThan
  <2>4. up.got \in Seq(Versions \cup {0}) /\ up.base \in Nat /\ up.tag \in Nat
    BY <2>2, InstallAssumption DEF UpdateRecord
  <2>5. Append(up.got, a) \in Seq(Versions \cup {0}) BY <2>4
  <2>6. up' \in UpdateRecord BY <2>2, <2>3, <2>5 DEF UpdateRecord
  <2>7. up'.stage = "apply" /\ up'.base = up.base /\ up'.tag = up.tag
    BY <2>2, <2>3 DEF UpdateRecord
  <2>8. UpdateInv' BY <1>1, <2>2, <2>3, <2>4, <2>7 DEF InstallIInv, UpdateInv
  <2>. QED BY <2>6, <2>8
<1>6. CASE VerifyRelease
  <2>1. up \in UpdateRecord /\ up.stage = "apply" /\ bin["cli"] = up.base /\ Len(up.got) = 3
    BY <1>6 DEF VerifyRelease, InstallIInv, NodeTypes, UpdateInv
  <2>2. up.got # <<>> /\ up.got[1] = up.tag /\ up.base <= up.tag
    BY <1>6, <2>1 DEF VerifyRelease, SignatureHolds, ChecksumHolds, InstallIInv, UpdateInv
  <2>3. up' = [up EXCEPT !.stage = "install"] BY <1>6 DEF VerifyRelease
  <2>4. PICK d \in 0..4 : up.done = d BY <2>1 DEF UpdateRecord
  <2>5. up' \in UpdateRecord /\ up'.stage = "install" /\ up'.base = up.base /\ up'.tag = up.tag
        /\ up'.got = up.got /\ up'.done = up.done
    BY <2>1, <2>3 DEF UpdateRecord
  <2>. QED BY <1>1, <2>1, <2>2, <2>5 DEF InstallIInv, UpdateInv
<1>7. CASE UpdateFails \/ UpdateInstalled \/ UpdateInterrupted
  <2>1. up' = Ended("failed") \/ up' = Ended("installed")
    BY <1>7 DEF UpdateFails, UpdateInstalled, UpdateInterrupted
  <2>. QED BY <1>1, <2>1, EndedShape DEF InstallIInv, UpdateInv
<1>. QED BY <1>4, <1>5, <1>6, <1>7

\* Each binary in turn becomes the verified release, the CLI first.
LEMMA InstallOneOK ==
    ASSUME InstallIInv, InstallOne
    PROVE  InstallIInv' /\ \A b \in BinaryNames : bin'[b] >= bin[b] /\ bin'[b] <= bin'["cli"]
<1>. DEFINE name == Binaries[up.done + 1]
<1>1. FolderInv' /\ DaemonInv' BY UpdateKeepsNode DEF InstallOne
<1>2. /\ up \in UpdateRecord /\ bin \in [BinaryNames -> Versions] /\ up.stage = "install"
      /\ up.base <= up.tag /\ Len(up.got) = 3 /\ up.got[1] = up.tag
      /\ bin["cli"] = IF up.done = 0 THEN up.base ELSE up.tag
      /\ up.done \in 0..3
  BY BinaryOrder DEF InstallIInv, NodeTypes, UpdateInv, InstallOne, UpdateRecord
<1>3. /\ bin' = [bin EXCEPT ![name] = up.tag]
      /\ up' = [up EXCEPT !.done = up.done + 1]
  BY <1>2 DEF InstallOne
<1>4. name \in BinaryNames /\ (name = "cli" <=> up.done = 0)
  BY <1>2, BinaryOrder DEF BinaryNames
<1>5. \A b \in BinaryNames : bin[b] \in Nat /\ bin[b] <= bin["cli"]
  BY <1>2, InstallAssumption DEF InstallIInv, UpdateInv
<1>6. up.tag \in Versions /\ up.tag \in Nat /\ up.base \in Nat BY <1>2, InstallAssumption DEF UpdateRecord
<1>. HIDE DEF name
<1>7. bin' \in [BinaryNames -> Versions] BY <1>2, <1>3, <1>4, <1>6
<1>8. \A b \in BinaryNames : bin'[b] = IF b = name THEN up.tag ELSE bin[b] BY <1>2, <1>3, <1>4
<1>9. bin["cli"] <= up.tag /\ "cli" \in BinaryNames BY <1>2, <1>6 DEF BinaryNames
<1>10. bin'["cli"] = up.tag BY <1>2, <1>4, <1>8, <1>9
<1>11. \A b \in BinaryNames : bin'[b] >= bin[b] /\ bin'[b] <= bin'["cli"]
  BY <1>5, <1>6, <1>8, <1>9, <1>10
<1>12. up' \in UpdateRecord /\ up'.stage = "install" /\ up'.base = up.base /\ up'.tag = up.tag
       /\ up'.got = up.got /\ up'.done = up.done + 1
  <2>1. up.done + 1 \in 0..4 BY <1>2
  <2>. QED BY <1>2, <1>3, <2>1 DEF UpdateRecord
<1>13. UpdateInv' BY <1>2, <1>10, <1>11, <1>12 DEF UpdateInv
<1>14. NodeTypes' BY <1>7, <1>12 DEF InstallIInv, NodeTypes, InstallOne, daemonVars
<1>. QED BY <1>1, <1>11, <1>13, <1>14 DEF InstallIInv

\* The files and the command after a step of the node: types.
LEMMA NodeShape ==
    ASSUME InstallIInv
    PROVE  /\ cmd \in NodeCommand /\ port \in Pids \cup {0} /\ 0 \notin Pids
           /\ procs \in [Pids -> ProcessStates] /\ files.pid \in Pids \cup {0}
           /\ files.present \subseteq {"token", "config", "key"} /\ files.backup \subseteq files.present
           /\ files = [present |-> files.present, backup |-> files.backup, pid |-> files.pid]
           /\ cmd = [stage |-> cmd.stage, pid |-> cmd.pid, said |-> cmd.said, sure |-> cmd.sure]
           /\ cmd.pid \in Pids \cup {0} /\ cmd.sure \in BOOLEAN
BY InstallAssumption DEF InstallIInv, NodeTypes, NodeCommand

LEMMA NodeStep ==
    ASSUME InstallIInv, UNCHANGED updateVars, cmd' \in NodeCommand,
           procs' \in [Pids -> ProcessStates], port' \in Pids \cup {0},
           files' \in [present : SUBSET {"token", "config", "key"},
                       backup : SUBSET {"token", "config", "key"}, pid : Pids \cup {0}],
           files'.backup \subseteq files'.present, FolderInv', DaemonInv'
    PROVE  InstallIInv' /\ bin' = bin
BY NodeKeepsUpdate DEF InstallIInv, NodeTypes, updateVars

\* One file after another; no daemon and no pid file changes.
LEMMA NodeSetupOK == ASSUME InstallIInv, NodeSetup PROVE InstallIInv' /\ bin' = bin
<1>. USE NodeShape
<1>1. files' \in [present : SUBSET {"token", "config", "key"},
                  backup : SUBSET {"token", "config", "key"}, pid : Pids \cup {0}]
      /\ files'.backup \subseteq files'.present /\ files'.pid = files.pid
  BY DEF NodeSetup
<1>2. cmd' \in NodeCommand /\ cmd'.sure = cmd.sure /\ cmd'.pid = cmd.pid
      /\ cmd.stage \notin {"spawned", "waiting", "stopping"}
      /\ cmd'.stage \notin {"spawned", "waiting", "stopping"}
      /\ (cmd'.said = cmd.said \/ cmd'.said = "nothing" \/ cmd'.said = "set up")
  BY DEF NodeSetup, NodeCommand, Idle
<1>3. FolderInv'
  <2>1. CASE cmd'.stage = "token" /\ files' = files BY <2>1 DEF InstallIInv, FolderInv
  <2>2. CASE cmd'.stage = "config" /\ files'.present = files.present \cup {"token"}
    BY <2>2 DEF InstallIInv, FolderInv
  <2>3. CASE cmd.stage = "config" /\ files'.present = files.present \cup {"config"}
    BY <2>3 DEF InstallIInv, FolderInv
  <2>4. CASE cmd'.stage = "idle" /\ files'.present = files.present \cup {"key"}
    BY <2>4 DEF InstallIInv, FolderInv
  <2>. QED BY <2>1, <2>2, <2>3, <2>4 DEF NodeSetup
<1>4. DaemonInv' BY <1>1, <1>2 DEF NodeSetup, InstallIInv, DaemonInv, Own
<1>. QED BY <1>1, <1>2, <1>3, <1>4, NodeStep DEF NodeSetup

LEMMA NodeBackupOK == ASSUME InstallIInv, NodeBackup PROVE InstallIInv' /\ bin' = bin
<1>. USE NodeShape
<1>1. files' \in [present : SUBSET {"token", "config", "key"},
                  backup : SUBSET {"token", "config", "key"}, pid : Pids \cup {0}]
      /\ files'.backup \subseteq files'.present /\ files'.pid = files.pid /\ files'.present = files.present
  BY DEF NodeBackup
<1>2. FolderInv' /\ DaemonInv' BY <1>1 DEF NodeBackup, InstallIInv, FolderInv, DaemonInv, Own
<1>. QED BY <1>1, <1>2, NodeStep DEF NodeBackup, InstallIInv, NodeTypes

\* A start that spawns finds the port silent, so no daemon is left when every start so
\* far was answered by its own.
LEMMA NodeStartOK == ASSUME InstallIInv, NodeStart PROVE InstallIInv' /\ bin' = bin
<1>. USE NodeShape
<1>1. FolderInv' /\ cmd.stage = "idle"
  BY DEF NodeStart, Idle, InstallIInv, FolderInv, NodeCommand
<1>2. CASE Ready
  <2>1. cmd' \in NodeCommand /\ cmd'.sure = cmd.sure /\ cmd'.pid = cmd.pid /\ cmd'.stage = "idle"
        /\ cmd'.said # "stopped" /\ procs' = procs
    BY <1>1, <1>2 DEF NodeStart, NodeCommand
  <2>2. DaemonInv' BY <1>1, <2>1 DEF NodeStart, InstallIInv, DaemonInv, Own
  <2>. QED BY <1>1, <2>1, <2>2, NodeStep DEF NodeStart, InstallIInv, NodeTypes
<1>3. CASE ~Ready
  <2>1. PICK p \in Pids : /\ procs[p] = "none" /\ procs' = [procs EXCEPT ![p] = "booting"]
                          /\ cmd' = [cmd EXCEPT !.stage = "spawned", !.pid = p, !.said = "nothing"]
    BY <1>3 DEF NodeStart
  <2>2. cmd' \in NodeCommand /\ cmd'.sure = cmd.sure /\ cmd'.pid = p /\ cmd'.stage = "spawned"
    BY <1>1, <2>1 DEF NodeCommand
  <2>3. procs' \in [Pids -> ProcessStates] /\ \A q \in Pids : procs'[q] = IF q = p THEN "booting" ELSE procs[q]
    BY <2>1 DEF ProcessStates
  <2>4. port = 0 /\ p # 0 /\ port' = port BY <1>3 DEF Ready, NodeStart
  <2>5. cmd.sure => \A q \in Pids : ~Own(q)
    BY <1>1, <2>4 DEF InstallIInv, DaemonInv
  <2>6. \A q \in Pids : procs'[q] # "serving"
    BY <2>3, <2>4 DEF InstallIInv, DaemonInv
  <2>7. cmd'.sure => \A q \in Pids : procs'[q] \in {"booting", "serving"} => q = p
    BY <2>2, <2>3, <2>5 DEF Own
  <2>8. DaemonInv'
    BY <2>2, <2>4, <2>6, <2>7 DEF DaemonInv, Own
  <2>. QED BY <1>1, <2>2, <2>3, <2>4, <2>8, NodeStep DEF NodeStart, InstallIInv, NodeTypes
<1>. QED BY <1>2, <1>3

LEMMA RecordPidOK == ASSUME InstallIInv, RecordPid PROVE InstallIInv' /\ bin' = bin
<1>. USE NodeShape
<1>1. cmd' \in NodeCommand /\ cmd'.sure = cmd.sure /\ cmd'.pid = cmd.pid /\ cmd'.stage = "waiting"
      /\ cmd.stage = "spawned"
  BY DEF RecordPid, NodeCommand
<1>2. files' \in [present : SUBSET {"token", "config", "key"},
                  backup : SUBSET {"token", "config", "key"}, pid : Pids \cup {0}]
      /\ files'.backup \subseteq files'.present /\ files'.pid = cmd.pid /\ files'.present = files.present
  BY DEF RecordPid
<1>3. FolderInv' /\ DaemonInv' BY <1>1, <1>2 DEF RecordPid, InstallIInv, FolderInv, DaemonInv, Own
<1>. QED BY <1>1, <1>2, <1>3, NodeStep DEF RecordPid, InstallIInv, NodeTypes

LEMMA WaitForReadyOK == ASSUME InstallIInv, WaitForReady PROVE InstallIInv' /\ bin' = bin
<1>. USE NodeShape
<1>1. cmd' \in NodeCommand /\ cmd'.pid = cmd.pid /\ cmd'.stage = "idle" /\ cmd'.said # "stopped"
      /\ cmd.stage = "waiting" /\ (cmd'.sure => cmd.sure /\ port = cmd.pid /\ port # 0)
  BY DEF WaitForReady, NodeCommand, Ready
<1>2. FolderInv' BY <1>1 DEF WaitForReady, InstallIInv, FolderInv
<1>3. DaemonInv' BY <1>1 DEF WaitForReady, InstallIInv, DaemonInv, Own
<1>. QED BY <1>1, <1>2, <1>3, NodeStep DEF WaitForReady, InstallIInv, NodeTypes

LEMMA NodeStopOK == ASSUME InstallIInv, NodeStop PROVE InstallIInv' /\ bin' = bin
<1>. USE NodeShape
<1>1. CASE cmd.stage = "idle" /\ cmd' = [cmd EXCEPT !.stage = "stopping", !.said = "nothing"] /\ files' = files
           /\ procs' = IF PidIsOurOperator(files.pid) THEN [procs EXCEPT ![files.pid] = "dying"] ELSE procs
  <2>1. cmd' \in NodeCommand /\ cmd'.sure = cmd.sure /\ cmd'.pid = cmd.pid /\ cmd'.stage = "stopping"
    BY <1>1 DEF NodeCommand
  <2>2. procs' \in [Pids -> ProcessStates]
        /\ \A q \in Pids : procs'[q] = IF q = files.pid /\ PidIsOurOperator(q) THEN "dying" ELSE procs[q]
    BY <1>1 DEF ProcessStates, PidIsOurOperator
  <2>3. \A q \in Pids : procs'[q] \in {"none", "foreign", "booting"} => procs[q] = procs'[q]
    BY <2>2
  <2>4. cmd.sure => \A q \in Pids : procs'[q] \notin {"booting", "serving"}
    BY <1>1, <2>2 DEF InstallIInv, DaemonInv, Own, PidIsOurOperator
  <2>5. FolderInv' BY <1>1, <2>1 DEF InstallIInv, FolderInv
  <2>6. DaemonInv' BY <1>1, <2>1, <2>2, <2>3, <2>4 DEF NodeStop, InstallIInv, DaemonInv, Own
  <2>. QED BY <1>1, <2>1, <2>2, <2>5, <2>6, NodeStep DEF NodeStop, InstallIInv, NodeTypes
<1>2. CASE cmd.stage = "stopping" /\ files' = [files EXCEPT !.pid = 0] /\ procs' = procs
           /\ cmd' = [cmd EXCEPT !.stage = "idle", !.said = IF Ready THEN "still responding" ELSE "stopped"]
  <2>1. cmd' \in NodeCommand /\ cmd'.sure = cmd.sure /\ cmd'.pid = cmd.pid /\ cmd'.stage = "idle"
    BY <1>2 DEF NodeCommand
  <2>2. files' \in [present : SUBSET {"token", "config", "key"},
                    backup : SUBSET {"token", "config", "key"}, pid : Pids \cup {0}]
        /\ files'.backup \subseteq files'.present /\ files'.present = files.present
    BY <1>2
  <2>3. FolderInv' /\ DaemonInv' BY <1>2, <2>1, <2>2 DEF NodeStop, InstallIInv, FolderInv, DaemonInv, Own
  <2>. QED BY <1>2, <2>1, <2>2, <2>3, NodeStep DEF NodeStop, InstallIInv, NodeTypes
<1>. QED BY <1>1, <1>2 DEF NodeStop, Idle

LEMMA NodeInterruptedOK == ASSUME InstallIInv, NodeInterrupted PROVE InstallIInv' /\ bin' = bin
<1>. USE NodeShape
<1>1. cmd' \in NodeCommand /\ cmd'.pid = cmd.pid /\ cmd'.stage = "idle" /\ cmd'.said = "nothing"
      /\ (cmd'.sure => cmd.sure /\ cmd.stage \notin {"spawned", "waiting"})
  BY DEF NodeInterrupted, NodeCommand
<1>2. FolderInv' BY <1>1 DEF NodeInterrupted, InstallIInv, FolderInv
<1>3. DaemonInv' BY <1>1 DEF NodeInterrupted, InstallIInv, DaemonInv, Own
<1>. QED BY <1>1, <1>2, <1>3, NodeStep DEF NodeInterrupted, InstallIInv, NodeTypes

\* A process boots, ends, or its number goes to another program.
LEMMA ProcessesOK ==
    ASSUME InstallIInv, NEW p \in Pids,
           \/ DaemonBoots(p) \/ ProcessExits(p)
           \/ \E what \in {"foreign", "other"}, binds \in BOOLEAN : NumberReused(p, what, binds)
    PROVE  InstallIInv' /\ bin' = bin
<1>. USE NodeShape
<1>1. UNCHANGED <<files, cmd>> /\ UNCHANGED updateVars
  BY DEF DaemonBoots, ProcessExits, NumberReused
<1>2. procs' \in [Pids -> ProcessStates] /\ port' \in Pids \cup {0}
      /\ \A q \in Pids \ {p} : procs'[q] = procs[q]
  BY DEF DaemonBoots, ProcessExits, NumberReused, ProcessStates
<1>3. FolderInv' BY <1>1 DEF InstallIInv, FolderInv
<1>4. DaemonInv'
  <2>1. procs'[p] \in {"booting", "serving"} => procs[p] = "booting" /\ procs'[p] = "serving" /\ port' = p
    BY <1>2 DEF DaemonBoots, ProcessExits, NumberReused
  <2>2. port' # 0 => procs'[port'] \notin {"none", "foreign", "booting"}
    BY <1>2 DEF DaemonBoots, ProcessExits, NumberReused, InstallIInv, DaemonInv
  <2>3. \A q \in Pids : procs'[q] = "serving" => port' = q
    BY <1>2, <2>1 DEF DaemonBoots, ProcessExits, NumberReused, InstallIInv, DaemonInv
  <2>. QED BY <1>1, <1>2, <2>1, <2>2, <2>3 DEF InstallIInv, DaemonInv, Own
<1>. QED BY <1>1, <1>2, <1>3, <1>4, NodeStep DEF InstallIInv, NodeTypes

LEMMA InstallStepOK ==
    ASSUME InstallIInv, [InstallNext]_nodeVars
    PROVE  InstallIInv' /\ (bin' # bin => \A b \in BinaryNames : bin'[b] >= bin[b] /\ bin'[b] <= bin'["cli"])
<1>1. CASE UNCHANGED nodeVars
  BY <1>1 DEF nodeVars, InstallIInv, NodeTypes, UpdateInv, FolderInv, DaemonInv, Own
<1>2. CASE InstallNext
  BY <1>2, UpdateStepsOK, InstallOneOK, NodeSetupOK, NodeBackupOK, NodeStartOK, RecordPidOK,
     WaitForReadyOK, NodeStopOK, NodeInterruptedOK, ProcessesOK DEF InstallNext
<1>. QED BY <1>1, <1>2

LEMMA InstallIInvSound == InstallIInv => NodeSound
<1>. SUFFICES ASSUME InstallIInv PROVE InstallTypeOK /\ NodeManageable BY DEF NodeSound
<1>1. InstallTypeOK
  BY NodeShape, BinaryOrder DEF InstallIInv, NodeTypes, DaemonInv, InstallTypeOK, UpdateRecord, ProcessStates
<1>2. NodeManageable BY DEF InstallIInv, FolderInv, DaemonInv, NodeManageable, Idle
<1>. QED BY <1>1, <1>2

\* However updates and node commands are interrupted, whatever the feed serves and
\* whoever takes process numbers and the port (update.rs, node.rs): a folder that
\* counts as set up can be started, and as long as every start was answered by its
\* own daemon, a running daemon is the recorded one and a node reported as
\* stopped is stopped.
THEOREM NodeStaysManageable == InstallSpec => []NodeSound
<1>1. InstallIInv /\ [InstallNext]_nodeVars => InstallIInv' BY InstallStepOK
<1>. QED BY <1>1, InstallInitOK, InstallIInvSound, PTL DEF InstallSpec

\* However an update is interrupted and whatever the feed serves (apply_update,
\* install_binaries): no binary goes back to an older release, and no companion
\* gets ahead of the CLI.
THEOREM UpdatesAdvance == InstallSpec => InstallAdvances
<1>1. InstallIInv /\ [InstallNext]_nodeVars => InstallIInv' BY InstallStepOK
<1>2. InstallIInv /\ [InstallNext]_nodeVars =>
        [\A b \in DOMAIN bin : bin'[b] >= bin[b] /\ bin'[b] <= bin'["cli"]]_bin
  BY InstallStepOK DEF InstallIInv, NodeTypes
<1>. QED BY <1>1, <1>2, InstallInitOK, PTL DEF InstallSpec, InstallAdvances

-----------------------------------------------------------------------------
(* The local account and the dashboard: the inductive invariant *)

AccountRecord ==
    [key : Nat \ {0}, devices : [Workspaces -> {"new", "active", "revoked"}],
     vaults : SUBSET Workspaces, hosted : BOOLEAN]
SignIn == [key : Nat \ {0}, device : Workspaces \cup {AnyDevice}, until : Nat]
AccountFiles ==
    [record : AccountRecord \cup {NoRecord}, key : Nat, session : SignIn \cup {NoSignIn}]
AccountHistory ==
    [commands : Nat, crashes : Nat, revoked : SUBSET Workspaces, overlapped : BOOLEAN, keys : Nat]

\* What a command in progress knows: the key it has made or the record it read. One
\* account exists at most, whose key is made before any record names it.
CommandOK(c, key) ==
    \/ c = NoCommand
    \/ c = [op |-> "init", at |-> "started"]
    \/ key # 0 /\ c = [op |-> "init", at |-> "key", own |-> key]
    \/ /\ c \in [op : AccountOps \ {"init"}, ws : Workspaces, seen : AccountRecord,
                 at : {"opened", "registered", "linked", "unlinked", "revoked", "hosted", "enrolled", "dead"}]
       /\ c.seen.key = key

AccountIInv ==
    /\ account \in AccountFiles /\ acctPast \in AccountHistory /\ acctClock \in Nat
    /\ account.key <= acctPast.keys
    /\ HasAccount => account.record.key = account.key
    /\ DOMAIN acctCmd = AccountProcs /\ \A p \in AccountProcs : CommandOK(acctCmd[p], account.key)
    /\ ~acctPast.overlapped /\ HasAccount =>
          \A w \in acctPast.revoked : ~DeviceActive(account.record, w)

UiRequest ==
    {NoUiReq}
    \cup [at : {"sent", "run"}, op : UiOps, ws : Workspaces, to : Workspaces, cookie : Nat]
    \cup [at : {"waiting"}, op : {"stream"}, ws : Workspaces, to : Workspaces, cookie : Nat]
UiHistory == {"requests", "tokens", "ended", "passed", "acted", "late"}

\* An ended token is older than the current one, and a request about to act was
\* admitted as it stands.
UiInv ==
    /\ ui \in [token : Nat, issued : Nat]
    /\ tabs \in [Tabs -> [cookie : Nat, ws : Workspaces]]
    /\ uiReq \in [Tabs -> UiRequest]
    /\ DOMAIN uiPast = UiHistory /\ uiPast.tokens \in Nat
    /\ ui.token = uiPast.tokens /\ \A t \in Tabs : tabs[t].cookie <= uiPast.tokens
    /\ \A c \in uiPast.ended : c \in Nat /\ c < ui.token
    /\ \A t \in Tabs : RunsUi(t, "act") => Admitted(t) \in uiPast.passed
    /\ PrivateServed

DashboardIInv == AccountIInv /\ UiInv

DashboardSpec == DashboardInit /\ [][DashboardNext]_dashboardVars

-----------------------------------------------------------------------------
(* The local account and the dashboard: the steps *)

LEMMA RecordDiffers == NoRecord \notin AccountRecord /\ NoSignIn \notin SignIn
<1>1. \A r \in AccountRecord : r.key # 0 BY DEF AccountRecord
<1>2. \A r \in SignIn : DOMAIN r = {"key", "device", "until"} BY DEF SignIn
<1>3. DOMAIN NoSignIn = {"until"} BY DEF NoSignIn
<1>. QED BY <1>1, <1>2, <1>3 DEF NoRecord

\* A record that is written back: the one read, with a change to its devices, its
\* vaults or its endpoint.
LEMMA RecordFields ==
    ASSUME NEW r \in AccountRecord
    PROVE  /\ r.key \in Nat \ {0} /\ r.devices \in [Workspaces -> {"new", "active", "revoked"}]
           /\ r.vaults \in SUBSET Workspaces /\ r.hosted \in BOOLEAN
           /\ r = [key |-> r.key, devices |-> r.devices, vaults |-> r.vaults, hosted |-> r.hosted]
BY DEF AccountRecord

LEMMA DeviceWritten ==
    ASSUME NEW r \in AccountRecord, NEW w \in Workspaces, NEW state \in {"active", "revoked"},
           NEW c, c = [r EXCEPT !.devices[w] = state]
    PROVE  /\ c \in AccountRecord /\ c.key = r.key
           /\ \A v \in Workspaces : c.devices[v] = IF v = w THEN state ELSE r.devices[v]
<1>1. c = [key |-> r.key, devices |-> [r.devices EXCEPT ![w] = state], vaults |-> r.vaults,
           hosted |-> r.hosted] BY RecordFields
<1>2. [r.devices EXCEPT ![w] = state] \in [Workspaces -> {"new", "active", "revoked"}] BY RecordFields
<1>3. c.devices = [r.devices EXCEPT ![w] = state] BY <1>1
<1>4. \A v \in Workspaces : c.devices[v] = IF v = w THEN state ELSE r.devices[v] BY <1>3, RecordFields
<1>. QED BY <1>1, <1>2, <1>4, RecordFields DEF AccountRecord

LEMMA RecordEdited ==
    ASSUME NEW r \in AccountRecord, NEW w \in Workspaces, NEW c,
           \/ c = [r EXCEPT !.vaults = @ \cup {w}] \/ c = [r EXCEPT !.vaults = @ \ {w}]
           \/ c = [r EXCEPT !.hosted = TRUE]
    PROVE  c \in AccountRecord /\ c.key = r.key /\ c.devices = r.devices
<1>1. r.vaults \cup {w} \in SUBSET Workspaces /\ r.vaults \ {w} \in SUBSET Workspaces BY RecordFields
<1>2. CASE c = [r EXCEPT !.vaults = @ \cup {w}] BY <1>1, <1>2, RecordFields DEF AccountRecord
<1>3. CASE c = [r EXCEPT !.vaults = @ \ {w}] BY <1>1, <1>3, RecordFields DEF AccountRecord
<1>4. CASE c = [r EXCEPT !.hosted = TRUE] BY <1>4, RecordFields DEF AccountRecord
<1>. QED BY <1>2, <1>3, <1>4

LEMMA AccountShape ==
    ASSUME account \in AccountFiles
    PROVE  /\ account = [record |-> account.record, key |-> account.key, session |-> account.session]
           /\ account.record \in AccountRecord \cup {NoRecord} /\ account.key \in Nat
           /\ account.session \in SignIn \cup {NoSignIn}
           /\ HasAccount <=> account.record \in AccountRecord
BY RecordDiffers DEF AccountFiles, HasAccount

\* A step that writes no record.
LEMMA RecordKept ==
    ASSUME AccountIInv, account' \in AccountFiles, account'.record = account.record,
           account'.key = account.key, acctPast' \in AccountHistory, acctClock' \in Nat,
           acctPast'.keys = acctPast.keys, acctPast'.revoked = acctPast.revoked,
           acctPast'.overlapped = acctPast.overlapped,
           DOMAIN acctCmd' = AccountProcs,
           \A p \in AccountProcs : acctCmd'[p] = acctCmd[p] \/ CommandOK(acctCmd'[p], account.key)
    PROVE  AccountIInv'
BY DEF AccountIInv, HasAccount, DeviceActive

\* Only the session file, or nothing of the account, changes.
LEMMA SessionStep ==
    ASSUME AccountIInv, NEW s \in SignIn \cup {NoSignIn}, account' = [account EXCEPT !.session = s],
           acctPast' \in AccountHistory, acctClock' \in Nat,
           acctPast'.keys = acctPast.keys, acctPast'.revoked = acctPast.revoked,
           acctPast'.overlapped = acctPast.overlapped,
           DOMAIN acctCmd' = AccountProcs,
           \A p \in AccountProcs : acctCmd'[p] = acctCmd[p] \/ CommandOK(acctCmd'[p], account.key)
    PROVE  AccountIInv'
<1>1. account' \in AccountFiles /\ account'.record = account.record /\ account'.key = account.key
  BY AccountShape DEF AccountIInv, AccountFiles
<1>. QED BY <1>1, RecordKept

LEMMA AccountInitOK == LocalAccountInit => AccountIInv
<1>. SUFFICES ASSUME LocalAccountInit PROVE AccountIInv OBVIOUS
<1>1. account \in AccountFiles BY DEF LocalAccountInit, AccountFiles
<1>2. acctPast \in AccountHistory BY DEF LocalAccountInit, AccountHistory
<1>. QED BY <1>1, <1>2 DEF LocalAccountInit, AccountIInv, CommandOK, HasAccount

\* A command that reads a record.
LEMMA ReadCommand ==
    ASSUME AccountIInv, NEW p \in AccountProcs, acctCmd[p].op \notin {"none", "init"}
    PROVE  /\ acctCmd[p] \in [op : AccountOps \ {"init"}, ws : Workspaces, seen : AccountRecord,
                 at : {"opened", "registered", "linked", "unlinked", "revoked", "hosted", "enrolled", "dead"}]
           /\ acctCmd[p].seen \in AccountRecord /\ acctCmd[p].seen.key = account.key
           /\ acctCmd[p].ws \in Workspaces /\ account.key \in Nat \ {0}
<1>1. CommandOK(acctCmd[p], account.key) BY DEF AccountIInv
<1>2. acctCmd[p] # NoCommand BY DEF NoCommand
<1>3. acctCmd[p].seen \in AccountRecord /\ acctCmd[p].seen.key = account.key
  BY <1>1, <1>2 DEF CommandOK
<1>4. account.key # 0 BY <1>3 DEF AccountRecord
<1>. QED BY <1>1, <1>2, <1>3, <1>4, AccountShape DEF CommandOK, AccountIInv

\* How a command goes on: to its end, or to another point.
LEMMA CommandGoes ==
    ASSUME AccountIInv, NEW p \in AccountProcs
    PROVE  /\ Done(p) => DOMAIN acctCmd' = AccountProcs
                 /\ \A q \in AccountProcs : acctCmd'[q] = acctCmd[q] \/ CommandOK(acctCmd'[q], account.key)
           /\ \A at \in {"opened", "registered", "linked", "unlinked", "revoked", "hosted", "enrolled", "dead"} :
                 Goto(p, at) /\ acctCmd[p].op \notin {"none", "init"} =>
                 DOMAIN acctCmd' = AccountProcs
                 /\ \A q \in AccountProcs : acctCmd'[q] = acctCmd[q] \/ CommandOK(acctCmd'[q], account.key)
<1>1. DOMAIN acctCmd = AccountProcs /\ \A c : c = NoCommand => CommandOK(c, account.key)
  BY DEF AccountIInv, CommandOK
<1>2. ASSUME NEW at \in {"opened", "registered", "linked", "unlinked", "revoked", "hosted", "enrolled", "dead"},
             Goto(p, at), acctCmd[p].op \notin {"none", "init"}
      PROVE  CommandOK([acctCmd[p] EXCEPT !.at = at], account.key)
  BY <1>2, ReadCommand DEF CommandOK
<1>. QED BY <1>1, <1>2 DEF Done, Goto

\* A command writes back the record it read, with the account's key: revocations are
\* lost only when the record changed since.
LEMMA RecordWritten ==
    ASSUME AccountIInv, NEW p \in AccountProcs, acctCmd[p].op \notin {"none", "init"},
           NEW r \in AccountRecord, r.key = account.key,
           account' = [account EXCEPT !.record = r], acctClock' = acctClock,
           acctPast' \in AccountHistory, acctPast'.keys = acctPast.keys,
           acctPast'.overlapped = (acctPast.overlapped \/ acctCmd[p].seen # account.record),
           \A w \in acctPast'.revoked :
              r.devices[w] # "active" \/ (w \in acctPast.revoked /\ r.devices[w] = acctCmd[p].seen.devices[w]),
           DOMAIN acctCmd' = AccountProcs,
           \A q \in AccountProcs : acctCmd'[q] = acctCmd[q] \/ CommandOK(acctCmd'[q], account.key)
    PROVE  AccountIInv'
<1>1. account' \in AccountFiles /\ account'.record = r /\ account'.key = account.key
  BY AccountShape DEF AccountIInv, AccountFiles
<1>2. ~acctPast'.overlapped => \A w \in acctPast'.revoked : ~DeviceActive(r, w)
  <2>. SUFFICES ASSUME ~acctPast'.overlapped, NEW w \in acctPast'.revoked PROVE r.devices[w] # "active"
    BY DEF DeviceActive
  <2>1. acctCmd[p].seen = account.record /\ ~acctPast.overlapped OBVIOUS
  <2>2. HasAccount BY <2>1, ReadCommand, AccountShape DEF AccountIInv
  <2>3. w \in acctPast.revoked => account.record.devices[w] # "active"
    BY <2>1, <2>2 DEF AccountIInv, DeviceActive
  <2>. QED BY <2>1, <2>3
<1>. QED BY <1>1, <1>2 DEF AccountIInv, HasAccount, DeviceActive

LEMMA HistoryShape ==
    ASSUME AccountIInv
    PROVE  /\ acctPast.commands \in Nat /\ acctPast.crashes \in Nat /\ acctPast.revoked \subseteq Workspaces
           /\ acctPast.overlapped \in BOOLEAN /\ acctPast.keys \in Nat
           /\ \A h \in {[acctPast EXCEPT !.commands = @ + 1], [acctPast EXCEPT !.crashes = @ + 1]} :
                 h \in AccountHistory /\ h.keys = acctPast.keys /\ h.revoked = acctPast.revoked
                 /\ h.overlapped = acctPast.overlapped
           /\ acctPast \in AccountHistory
<1>1. acctPast \in AccountHistory BY DEF AccountIInv
<1>. QED BY <1>1 DEF AccountHistory

LEMMA RevocationShape ==
    ASSUME AccountIInv, NEW o \in BOOLEAN, NEW R \in SUBSET Workspaces,
           acctPast' = [acctPast EXCEPT !.overlapped = o, !.revoked = R]
    PROVE  /\ acctPast' \in AccountHistory /\ acctPast'.keys = acctPast.keys /\ acctPast'.revoked = R
           /\ acctPast'.overlapped = o
<1>1. acctPast \in AccountHistory BY DEF AccountIInv
<1>. QED BY <1>1 DEF AccountHistory

\* persist_record by the command of a process.
LEMMA PersistShape ==
    ASSUME AccountIInv, NEW p \in AccountProcs, acctCmd[p].op \notin {"none", "init"},
           acctCmd[p].seen \in AccountRecord, NEW r, Persist(p, r)
    PROVE  /\ acctPast' \in AccountHistory /\ acctPast'.keys = acctPast.keys
           /\ acctPast'.overlapped = (acctPast.overlapped \/ acctCmd[p].seen # account.record)
           /\ acctPast'.revoked = acctPast.revoked
<1>1. acctPast' = [acctPast EXCEPT !.overlapped = acctPast.overlapped \/ acctCmd[p].seen # account.record]
  BY DEF Persist
<1>. QED BY <1>1, HistoryShape DEF AccountIInv, AccountHistory

LEMMA OpenAccountOK ==
    ASSUME AccountIInv, NEW p \in AccountProcs, NEW op \in AccountOps, NEW w \in Workspaces, OpenAccount(p, op, w)
    PROVE  AccountIInv'
<1>. DEFINE c == [op |-> op, ws |-> w, at |-> "opened", seen |-> account.record]
<1>1. account.record \in AccountRecord /\ account.record.key = account.key
  BY AccountShape DEF AccountIInv, OpenAccount
<1>2. CommandOK(c, account.key) BY <1>1 DEF CommandOK, OpenAccount
<1>3. acctCmd' = [acctCmd EXCEPT ![p] = c] BY DEF OpenAccount
<1>. HIDE DEF c
<1>4. DOMAIN acctCmd' = AccountProcs /\ \A q \in AccountProcs : acctCmd'[q] = acctCmd[q] \/ CommandOK(acctCmd'[q], account.key)
  BY <1>2, <1>3 DEF AccountIInv
<1>. QED BY <1>4, RecordKept, HistoryShape DEF OpenAccount, AccountIInv

\* A key is made only where there is none, hence no record, and no command that has
\* read one.
LEMMA CreateOK ==
    ASSUME AccountIInv, NEW p \in AccountProcs, CreateStart(p) \/ CreateKey(p) \/ CreateRecord(p)
    PROVE  AccountIInv'
<1>1. CASE CreateStart(p)
  <2>1. CommandOK([op |-> "init", at |-> "started"], account.key) BY DEF CommandOK
  <2>2. DOMAIN acctCmd' = AccountProcs /\ \A q \in AccountProcs : acctCmd'[q] = acctCmd[q] \/ CommandOK(acctCmd'[q], account.key)
    BY <1>1, <2>1 DEF AccountIInv, CreateStart
  <2>. QED BY <1>1, <2>2, RecordKept, HistoryShape DEF CreateStart, AccountIInv
<1>2. CASE CreateKey(p)
  <2>1. CASE ~MayCreate
    BY <1>2, <2>1, CommandGoes, RecordKept, HistoryShape DEF CreateKey, AccountIInv
  <2>2. CASE MayCreate
    <3>. DEFINE k == acctPast.keys + 1
    <3>1. k \in Nat \ {0} BY HistoryShape
    <3>2. /\ acctPast' = [acctPast EXCEPT !.keys = k]
          /\ account' = [account EXCEPT !.key = acctPast'.keys]
          /\ acctCmd' = [acctCmd EXCEPT ![p] = [op |-> "init", at |-> "key", own |-> acctPast'.keys]]
          /\ acctClock' = acctClock
      BY <1>2, <2>2 DEF CreateKey
    <3>. HIDE DEF k
    <3>3. acctPast' \in AccountHistory /\ acctPast'.keys = k
      BY <3>1, <3>2 DEF AccountIInv, AccountHistory
    <3>4. account' \in AccountFiles /\ account'.record = account.record /\ account'.key = k
      BY <3>1, <3>2, <3>3 DEF AccountIInv, AccountFiles
    <3>5. ~HasAccount /\ account.key = 0 /\ ~HasAccount' BY <2>2, <3>4 DEF MayCreate, HasAccount
    <3>6. \A q \in AccountProcs : acctCmd[q] = NoCommand \/ acctCmd[q] = [op |-> "init", at |-> "started"]
      <4>. SUFFICES ASSUME NEW q \in AccountProcs, acctCmd[q] \in
               [op : AccountOps \ {"init"}, ws : Workspaces, seen : AccountRecord,
                at : {"opened", "registered", "linked", "unlinked", "revoked", "hosted", "enrolled", "dead"}],
               acctCmd[q].seen.key = account.key PROVE FALSE
        BY <3>5 DEF AccountIInv, CommandOK
      <4>1. acctCmd[q].seen \in AccountRecord OBVIOUS
      <4>. QED BY <3>5, <4>1 DEF AccountRecord
    <3>7. DOMAIN acctCmd' = AccountProcs /\ \A q \in AccountProcs : CommandOK(acctCmd'[q], k)
      BY <3>1, <3>2, <3>3, <3>6 DEF CommandOK, AccountIInv
    <3>. QED BY <3>1, <3>2, <3>3, <3>4, <3>5, <3>7 DEF AccountIInv
  <2>. QED BY <2>1, <2>2
<1>3. CASE CreateRecord(p)
  <2>. DEFINE r == [key |-> acctCmd[p].own, devices |-> [w \in Workspaces |-> "new"], vaults |-> {},
                    hosted |-> FALSE]
  <2>1. acctCmd[p].own = account.key /\ account.key # 0
    <3>1. CommandOK(acctCmd[p], account.key) /\ acctCmd[p].op = "init" /\ acctCmd[p].at = "key"
      BY <1>3 DEF AccountIInv, CreateRecord, Running
    <3>. QED BY <3>1 DEF CommandOK, NoCommand
  <2>2. r \in AccountRecord /\ r.key = account.key /\ \A w \in Workspaces : ~DeviceActive(r, w)
    BY <2>1, AccountShape DEF AccountIInv, AccountRecord, DeviceActive
  <2>3. account' = [account EXCEPT !.record = r] /\ acctPast' = acctPast /\ acctClock' = acctClock
    BY <1>3 DEF CreateRecord
  <2>. HIDE DEF r
  <2>4. account' \in AccountFiles /\ account'.record = r /\ account'.key = account.key
    BY <2>2, <2>3 DEF AccountIInv, AccountFiles
  <2>5. DOMAIN acctCmd' = AccountProcs /\ \A q \in AccountProcs : CommandOK(acctCmd'[q], account.key)
    BY <1>3, CommandGoes DEF AccountIInv, CreateRecord
  <2>6. \A w \in acctPast'.revoked : ~DeviceActive(r, w) BY <2>2, <2>3, HistoryShape
  <2>. QED BY <2>2, <2>3, <2>4, <2>5, <2>6 DEF AccountIInv, HasAccount, DeviceActive
<1>. QED BY <1>1, <1>2, <1>3

\* The command goes on with a record it wrote itself.
LEMMA CommandKeeps ==
    ASSUME AccountIInv, NEW p \in AccountProcs, acctCmd[p].op \notin {"none", "init"},
           NEW at \in {"registered", "linked"}, NEW r \in AccountRecord, r.key = account.key,
           acctCmd' = [acctCmd EXCEPT ![p].at = at, ![p].seen = r]
    PROVE  DOMAIN acctCmd' = AccountProcs
           /\ \A q \in AccountProcs : acctCmd'[q] = acctCmd[q] \/ CommandOK(acctCmd'[q], account.key)
<1>1. acctCmd' = [acctCmd EXCEPT ![p] = [acctCmd[p] EXCEPT !.at = at, !.seen = r]]
  BY DEF AccountIInv
<1>2. CommandOK([acctCmd[p] EXCEPT !.at = at, !.seen = r], account.key)
  BY ReadCommand DEF CommandOK
<1>. QED BY <1>1, <1>2 DEF AccountIInv

LEMMA LinkOK ==
    ASSUME AccountIInv, NEW p \in AccountProcs, LinkDevice(p) \/ LinkVault(p)
    PROVE  AccountIInv'
<1>1. acctCmd[p].op = "link" /\ acctClock' = acctClock BY DEF LinkDevice, LinkVault, Running
<1>2. acctCmd[p].seen \in AccountRecord /\ acctCmd[p].seen.key = account.key /\ acctCmd[p].ws \in Workspaces
  BY <1>1, ReadCommand
<1>3. CASE LinkDevice(p)
  <2>. DEFINE r == Enrolled(acctCmd[p].seen, acctCmd[p].ws)
  <2>1. /\ account' = [account EXCEPT !.record = r]
        /\ acctPast' = [acctPast EXCEPT !.overlapped = acctPast.overlapped \/ acctCmd[p].seen # account.record,
                                        !.revoked = acctPast.revoked \ {acctCmd[p].ws}]
        /\ acctCmd' = [acctCmd EXCEPT ![p].at = "registered", ![p].seen = r]
    BY <1>3 DEF LinkDevice
  <2>2. r \in AccountRecord /\ r.key = account.key
        /\ \A w \in Workspaces \ {acctCmd[p].ws} : r.devices[w] = acctCmd[p].seen.devices[w]
    <3>1. r = [acctCmd[p].seen EXCEPT !.devices[acctCmd[p].ws] = "active"] BY DEF Enrolled
    <3>. HIDE DEF r
    <3>. QED BY <1>2, <3>1, DeviceWritten
  <2>. HIDE DEF r
  <2>3. acctPast' \in AccountHistory /\ acctPast'.keys = acctPast.keys
        /\ acctPast'.overlapped = (acctPast.overlapped \/ acctCmd[p].seen # account.record)
        /\ acctPast'.revoked = acctPast.revoked \ {acctCmd[p].ws}
    <3>. DEFINE o == acctPast.overlapped \/ acctCmd[p].seen # account.record
    <3>0. o \in BOOLEAN /\ acctPast' = [acctPast EXCEPT !.overlapped = o, !.revoked = acctPast.revoked \ {acctCmd[p].ws}]
      BY <2>1
    <3>. HIDE DEF o
    <3>1. acctPast.revoked \ {acctCmd[p].ws} \in SUBSET Workspaces BY HistoryShape
    <3>2. acctPast' \in AccountHistory /\ acctPast'.keys = acctPast.keys
          /\ acctPast'.overlapped = o /\ acctPast'.revoked = acctPast.revoked \ {acctCmd[p].ws}
      BY <3>0, <3>1, RevocationShape
    <3>. QED BY <3>2 DEF o
  <2>4. \A w \in acctPast'.revoked : w \in acctPast.revoked /\ r.devices[w] = acctCmd[p].seen.devices[w]
    BY <2>2, <2>3, HistoryShape
  <2>5. DOMAIN acctCmd' = AccountProcs
        /\ \A q \in AccountProcs : acctCmd'[q] = acctCmd[q] \/ CommandOK(acctCmd'[q], account.key)
    BY <1>1, <2>1, <2>2, CommandKeeps
  <2>6. account' = [account EXCEPT !.record = r] BY <2>1
  <2>. QED BY <1>1, <2>2, <2>3, <2>4, <2>5, <2>6, RecordWritten
<1>4. CASE LinkVault(p)
  <2>. DEFINE r == [acctCmd[p].seen EXCEPT !.vaults = @ \cup {acctCmd[p].ws}]
  <2>1. Persist(p, r) /\ acctCmd' = [acctCmd EXCEPT ![p].at = "linked", ![p].seen = r]
    BY <1>4 DEF LinkVault
  <2>2. r \in AccountRecord /\ r.key = account.key /\ r.devices = acctCmd[p].seen.devices
    BY <1>2, RecordEdited
  <2>. HIDE DEF r
  <2>3. account' = [account EXCEPT !.record = r] BY <2>1 DEF Persist
  <2>. QED BY <1>1, <1>2, <2>1, <2>2, <2>3, PersistShape, CommandKeeps, RecordWritten
<1>. QED BY <1>3, <1>4

LEMMA SignsInOK ==
    ASSUME AccountIInv, NEW p \in AccountProcs, acctCmd[p].op \notin {"none", "init"},
           NEW d \in Workspaces \cup {AnyDevice}, SignsIn(p, d)
    PROVE  AccountIInv'
<1>1. Session(acctCmd[p].seen, d) \in SignIn
  <2>1. acctCmd[p].seen.key \in Nat \ {0} BY ReadCommand
  <2>2. acctClock + AccountTtl \in Nat BY LocalAccountAssumption DEF AccountIInv
  <2>. QED BY <2>1, <2>2 DEF Session, SignIn
<1>. QED BY <1>1, CommandGoes, SessionStep, HistoryShape DEF SignsIn, AccountIInv

LEMMA SessionCommandsOK ==
    ASSUME AccountIInv, NEW p \in AccountProcs,
           \/ LinkSignsIn(p) \/ Login(p) \/ Logout(p) \/ LogoutForDevice(p) \/ SyncHosted(p)
           \/ \E ok \in BOOLEAN : ConnectAnswered(p, ok)
           \/ StatusRead(p) \/ StatusRemoves(p)
    PROVE  AccountIInv'
<1>1. CASE LinkSignsIn(p) \/ Login(p)
  <2>1. acctCmd[p].op \notin {"none", "init"} BY <1>1 DEF LinkSignsIn, Login, Running
  <2>2. acctCmd[p].ws \in Workspaces BY <2>1, ReadCommand
  <2>3. \E d \in Workspaces \cup {AnyDevice} : SignsIn(p, d) BY <1>1, <2>2 DEF LinkSignsIn, Login
  <2>. QED BY <2>1, <2>3, SignsInOK
<1>2. CASE Logout(p) \/ StatusRemoves(p)
  BY <1>2, CommandGoes, SessionStep, HistoryShape DEF Logout, StatusRemoves, AccountIInv
<1>3. CASE LogoutForDevice(p)
  <2>1. acctCmd[p].op \notin {"none", "init"} BY <1>3 DEF LogoutForDevice, Running
  <2>2. PICK s \in SignIn \cup {NoSignIn} : account' = [account EXCEPT !.session = s]
    BY <1>3, AccountShape DEF LogoutForDevice, AccountIInv
  <2>. QED BY <1>3, <2>1, <2>2, CommandGoes, SessionStep, HistoryShape DEF LogoutForDevice, AccountIInv
<1>4. CASE SyncHosted(p)
  BY <1>4, CommandGoes, RecordKept, HistoryShape DEF SyncHosted, AccountIInv
<1>5. CASE \E ok \in BOOLEAN : ConnectAnswered(p, ok)
  <2>1. acctCmd[p].op \notin {"none", "init"} BY <1>5 DEF ConnectAnswered, Running
  <2>. QED BY <1>5, <2>1, CommandGoes, RecordKept, HistoryShape DEF ConnectAnswered, AccountIInv
<1>6. CASE StatusRead(p)
  <2>1. acctCmd[p].op \notin {"none", "init"} BY <1>6 DEF StatusRead, Running
  <2>. QED BY <1>6, <2>1, CommandGoes, RecordKept, HistoryShape DEF StatusRead, AccountIInv
<1>. QED BY <1>1, <1>2, <1>3, <1>4, <1>5, <1>6

LEMMA RecordCommandsOK ==
    ASSUME AccountIInv, NEW p \in AccountProcs, Unlink(p) \/ RevokeDevice(p) \/ SaveEndpoint(p)
    PROVE  AccountIInv'
<1>1. acctCmd[p].op \notin {"none", "init"} /\ acctClock' = acctClock
  BY DEF Unlink, RevokeDevice, SaveEndpoint, Running
<1>2. acctCmd[p].seen \in AccountRecord /\ acctCmd[p].seen.key = account.key /\ acctCmd[p].ws \in Workspaces
  BY <1>1, ReadCommand
<1>3. CASE Done(p) /\ UNCHANGED <<account, acctPast>>
  BY <1>1, <1>3, CommandGoes, RecordKept, HistoryShape DEF AccountIInv
<1>4. ASSUME NEW r \in {[acctCmd[p].seen EXCEPT !.vaults = @ \ {acctCmd[p].ws}],
                         [acctCmd[p].seen EXCEPT !.hosted = TRUE]},
             Persist(p, r), Done(p) \/ Goto(p, "unlinked")
      PROVE  AccountIInv'
  <2>1. r \in AccountRecord /\ r.key = account.key /\ r.devices = acctCmd[p].seen.devices
    BY <1>2, <1>4, RecordEdited
  <2>2. account' = [account EXCEPT !.record = r] BY <1>4 DEF Persist
  <2>. QED BY <1>1, <1>2, <1>4, <2>1, <2>2, PersistShape, CommandGoes, RecordWritten
<1>5. CASE RevokeDevice(p) /\ DeviceActive(acctCmd[p].seen, acctCmd[p].ws)
  <2>. DEFINE r == Revoked(acctCmd[p].seen, acctCmd[p].ws)
  <2>0. Goto(p, "revoked") BY <1>5 DEF RevokeDevice
  <2>1. /\ account' = [account EXCEPT !.record = r]
        /\ acctPast' = [acctPast EXCEPT !.overlapped = acctPast.overlapped \/ acctCmd[p].seen # account.record,
                                        !.revoked = acctPast.revoked \cup {acctCmd[p].ws}]
    BY <1>5 DEF RevokeDevice
  <2>2. r \in AccountRecord /\ r.key = account.key /\ r.devices[acctCmd[p].ws] = "revoked"
        /\ \A w \in Workspaces \ {acctCmd[p].ws} : r.devices[w] = acctCmd[p].seen.devices[w]
    <3>1. r = [acctCmd[p].seen EXCEPT !.devices[acctCmd[p].ws] = "revoked"] BY DEF Revoked
    <3>. HIDE DEF r
    <3>. QED BY <1>2, <3>1, DeviceWritten
  <2>. HIDE DEF r
  <2>3. acctPast' \in AccountHistory /\ acctPast'.keys = acctPast.keys
        /\ acctPast'.overlapped = (acctPast.overlapped \/ acctCmd[p].seen # account.record)
        /\ acctPast'.revoked = acctPast.revoked \cup {acctCmd[p].ws}
    <3>. DEFINE o == acctPast.overlapped \/ acctCmd[p].seen # account.record
    <3>0. o \in BOOLEAN /\ acctPast' = [acctPast EXCEPT !.overlapped = o, !.revoked = acctPast.revoked \cup {acctCmd[p].ws}]
      BY <2>1
    <3>. HIDE DEF o
    <3>1. acctPast.revoked \cup {acctCmd[p].ws} \in SUBSET Workspaces BY <1>2, HistoryShape
    <3>2. acctPast' \in AccountHistory /\ acctPast'.keys = acctPast.keys
          /\ acctPast'.overlapped = o /\ acctPast'.revoked = acctPast.revoked \cup {acctCmd[p].ws}
      BY <3>0, <3>1, RevocationShape
    <3>. QED BY <3>2 DEF o
  <2>4. \A w \in acctPast'.revoked : r.devices[w] # "active"
            \/ (w \in acctPast.revoked /\ r.devices[w] = acctCmd[p].seen.devices[w])
    BY <2>2, <2>3, HistoryShape
  <2>. QED BY <1>1, <2>0, <2>1, <2>2, <2>3, <2>4, CommandGoes, RecordWritten
<1>. QED BY <1>3, <1>4, <1>5 DEF Unlink, RevokeDevice, SaveEndpoint

LEMMA LocalAccountOK == ASSUME AccountIInv, LocalAccountNext PROVE AccountIInv'
<1>1. CASE AccountTick
  BY <1>1, RecordKept, HistoryShape DEF AccountTick, AccountIInv
<1>2. ASSUME NEW p \in AccountProcs, AccountCrash(p) PROVE AccountIInv'
  BY <1>2, CommandGoes, RecordKept, HistoryShape DEF AccountCrash, AccountIInv
<1>. QED BY <1>1, <1>2, OpenAccountOK, CreateOK, LinkOK, SessionCommandsOK, RecordCommandsOK DEF LocalAccountNext

\* The browser's session after a request: the one there is, or a fresh one.
LEMMA UiSession ==
    ASSUME AccountIInv, UiInv
    PROVE  /\ Fresh \in [token : Nat, issued : Nat] /\ Fresh.token = uiPast.tokens + 1
           /\ Snapshot \in {ui, Fresh} /\ ui \in [token : Nat, issued : Nat]
BY DEF UiInv, AccountIInv, Fresh, Snapshot

\* What a step leaves of the browser's session: n, the last token issued, is current,
\* no ended token is, and what was admitted stays admitted.
UiLeft(n) ==
    /\ n \in Nat /\ uiPast.tokens <= n
    /\ ui' \in [token : Nat, issued : Nat] /\ ui'.token = n
    /\ DOMAIN uiPast' = UiHistory /\ uiPast'.tokens = n
    /\ \A c \in uiPast'.ended : c \in Nat /\ c < n
    /\ uiPast.passed \subseteq uiPast'.passed
    /\ PrivateServed'

\* No request starts to act except by Guard.
NoneStarts == \A t \in Tabs : uiReq'[t].at = "run" /\ uiReq'[t].op = "act" => uiReq'[t] = uiReq[t]

LEMMA UiStep ==
    ASSUME UiInv, NEW n, UiLeft(n),
           tabs' \in [Tabs -> [cookie : Nat, ws : Workspaces]],
           \A t \in Tabs : tabs'[t].cookie = tabs[t].cookie \/ tabs'[t].cookie <= n,
           uiReq' \in [Tabs -> UiRequest],
           \A t \in Tabs : RunsUi(t, "act")' => Admitted(t)' \in uiPast'.passed
    PROVE  UiInv'
<1>1. \A t \in Tabs : tabs'[t].cookie <= n
  <2>. SUFFICES ASSUME NEW t \in Tabs, tabs'[t].cookie = tabs[t].cookie PROVE tabs'[t].cookie <= n OBVIOUS
  <2>1. tabs[t].cookie <= uiPast.tokens /\ uiPast.tokens \in Nat /\ tabs[t].cookie \in Nat BY DEF UiInv
  <2>. QED BY <2>1 DEF UiLeft
<1>. QED BY <1>1 DEF UiInv, UiLeft

LEMMA KeptAdmitted ==
    ASSUME UiInv, NEW n, UiLeft(n), NoneStarts
    PROVE  \A t \in Tabs : RunsUi(t, "act")' => Admitted(t)' \in uiPast'.passed
<1>. SUFFICES ASSUME NEW t \in Tabs, RunsUi(t, "act")' PROVE Admitted(t)' \in uiPast'.passed OBVIOUS
<1>1. uiReq'[t] = uiReq[t] BY DEF NoneStarts, RunsUi
<1>2. Admitted(t) \in uiPast.passed BY <1>1 DEF UiInv, RunsUi
<1>. QED BY <1>1, <1>2 DEF UiLeft, Admitted

LEMMA EndsStarts ==
    ASSUME UiInv, NEW t \in Tabs
    PROVE  /\ EndUi(t) => NoneStarts
           /\ uiReq' = uiReq => NoneStarts
           /\ \A at \in {"run", "waiting"} :
                 uiReq[t].op # "act" /\ uiReq[t] # NoUiReq /\ uiReq' = [uiReq EXCEPT ![t].at = at] => NoneStarts
<1>1. uiReq \in [Tabs -> UiRequest] BY DEF UiInv
<1>2. ASSUME NEW at \in {"run", "waiting"}, uiReq[t].op # "act", uiReq[t] # NoUiReq,
             uiReq' = [uiReq EXCEPT ![t].at = at]
      PROVE  NoneStarts
  <2>1. [uiReq[t] EXCEPT !.at = at].op = uiReq[t].op BY <1>1, <1>2 DEF UiRequest
  <2>2. uiReq'[t] = [uiReq[t] EXCEPT !.at = at] /\ \A u \in Tabs \ {t} : uiReq'[u] = uiReq[u]
    BY <1>1, <1>2
  <2>. QED BY <1>2, <2>1, <2>2 DEF NoneStarts
<1>3. EndUi(t) => NoneStarts BY <1>1 DEF EndUi, NoneStarts, NoUiReq
<1>. QED BY <1>2, <1>3 DEF NoneStarts

\* A session file that session_status removed, or a login that replaced it.
LEMMA AccountAtRequest ==
    ASSUME AccountIInv, UNCHANGED <<acctCmd, acctClock, acctPast>>,
           \/ account' = account
           \/ \E w \in Workspaces : account' = Swept(w)
           \/ account' = [account EXCEPT !.session = NoSignIn]
           \/ \E w \in Workspaces : HasAccount /\ account' = [account EXCEPT !.session = Session(account.record, w)]
    PROVE  AccountIInv'
<1>0. account \in AccountFiles BY DEF AccountIInv
<1>1. \E s \in SignIn \cup {NoSignIn} : account' = [account EXCEPT !.session = s]
  <2>1. account = [account EXCEPT !.session = account.session] /\ account.session \in SignIn \cup {NoSignIn}
    BY <1>0, AccountShape DEF AccountFiles
  <2>2. ASSUME NEW w \in Workspaces, HasAccount PROVE Session(account.record, w) \in SignIn
    <3>1. account.record \in AccountRecord BY <1>0, <2>2, AccountShape
    <3>2. account.record.key \in Nat \ {0} BY <3>1, RecordFields
    <3>3. acctClock + AccountTtl \in Nat BY LocalAccountAssumption DEF AccountIInv
    <3>. QED BY <3>2, <3>3 DEF Session, SignIn
  <2>. QED BY <2>1, <2>2 DEF Swept
<1>. QED BY <1>1, SessionStep, HistoryShape DEF AccountIInv

LEMMA UiRequestOK ==
    ASSUME UiInv, NEW t \in Tabs
    PROVE  /\ EndUi(t) => uiReq' \in [Tabs -> UiRequest]
           /\ \A at \in {"run", "waiting"} :
                 /\ uiReq[t] # NoUiReq /\ uiReq' = [uiReq EXCEPT ![t].at = at]
                 /\ at = "run" \/ uiReq[t].op = "stream"
                 => uiReq' \in [Tabs -> UiRequest]
           /\ uiReq[t].at # "idle" => uiReq[t] # NoUiReq /\ uiReq[t].ws \in Workspaces /\ uiReq[t].to \in Workspaces
           /\ tabs[t] = [cookie |-> tabs[t].cookie, ws |-> tabs[t].ws]
           /\ tabs[t].cookie \in Nat /\ tabs[t].ws \in Workspaces
<1>1. uiReq \in [Tabs -> UiRequest] /\ tabs \in [Tabs -> [cookie : Nat, ws : Workspaces]] BY DEF UiInv
<1>2. uiReq[t].at # "idle" => uiReq[t] # NoUiReq BY DEF NoUiReq
<1>3. NoUiReq \in UiRequest BY DEF UiRequest
<1>4. ASSUME NEW at \in {"run", "waiting"}, uiReq[t] # NoUiReq, at = "run" \/ uiReq[t].op = "stream"
      PROVE  [uiReq[t] EXCEPT !.at = at] \in UiRequest
  <2>. DEFINE r == uiReq[t]
  <2>1. r \in UiRequest /\ r # NoUiReq BY <1>1, <1>4
  <2>. HIDE DEF r
  <2>2. r = [at |-> r.at, op |-> r.op, ws |-> r.ws, to |-> r.to, cookie |-> r.cookie]
        /\ r.op \in UiOps /\ r.ws \in Workspaces /\ r.to \in Workspaces /\ r.cookie \in Nat
    BY <2>1 DEF UiRequest, UiOps
  <2>3. [r EXCEPT !.at = at] = [at |-> at, op |-> r.op, ws |-> r.ws, to |-> r.to, cookie |-> r.cookie]
    BY <2>2
  <2>4. at = "run" \/ (at = "waiting" /\ r.op = "stream") BY <1>4 DEF r
  <2>5. [r EXCEPT !.at = at] \in UiRequest BY <2>2, <2>3, <2>4 DEF UiRequest
  <2>. QED BY <2>5 DEF r
<1>5. ASSUME NEW at \in {"run", "waiting"}, uiReq[t] # NoUiReq, uiReq' = [uiReq EXCEPT ![t].at = at],
             at = "run" \/ uiReq[t].op = "stream"
      PROVE  uiReq' \in [Tabs -> UiRequest]
  <2>1. uiReq' = [uiReq EXCEPT ![t] = [uiReq[t] EXCEPT !.at = at]] BY <1>1, <1>5
  <2>. QED BY <1>1, <1>4, <1>5, <2>1
<1>6. uiReq[t] # NoUiReq => uiReq[t].ws \in Workspaces /\ uiReq[t].to \in Workspaces
  BY <1>1 DEF UiRequest
<1>7. EndUi(t) => uiReq' \in [Tabs -> UiRequest] BY <1>1, <1>3 DEF EndUi
<1>. QED BY <1>1, <1>2, <1>5, <1>6, <1>7

\* The history of a kept or a fresh session: the one that goes is ended.
LEMMA NotedOK ==
    ASSUME AccountIInv, UiInv, NEW s \in {ui, Fresh}
    PROVE  /\ DOMAIN Noted(s) = UiHistory /\ Noted(s).tokens = s.token /\ s.token \in Nat
           /\ uiPast.tokens <= s.token /\ s \in [token : Nat, issued : Nat]
           /\ \A c \in Noted(s).ended : c \in Nat /\ c < s.token
           /\ Noted(s).passed = uiPast.passed /\ Noted(s).acted = uiPast.acted
           /\ Noted(s).late = uiPast.late
<1>1. DOMAIN uiPast = UiHistory /\ uiPast.tokens \in Nat /\ ui.token = uiPast.tokens
      /\ \A c \in uiPast.ended : c \in Nat /\ c < ui.token
  BY DEF UiInv
<1>2. CASE s = ui BY <1>1, <1>2, UiSession DEF Noted
<1>3. CASE s # ui
  <2>1. s = Fresh /\ s.token = ui.token + 1 BY <1>1, <1>3, UiSession
  <2>2. Noted(s) = [uiPast EXCEPT !.tokens = s.token, !.ended = uiPast.ended \cup {ui.token}]
    BY <1>3 DEF Noted
  <2>3. DOMAIN Noted(s) = UiHistory /\ Noted(s).tokens = s.token
        /\ Noted(s).ended = uiPast.ended \cup {ui.token}
        /\ Noted(s).passed = uiPast.passed /\ Noted(s).acted = uiPast.acted /\ Noted(s).late = uiPast.late
    BY <1>1, <2>2 DEF UiHistory
  <2>4. \A c \in Noted(s).ended : c \in Nat /\ c < s.token BY <1>1, <2>1, <2>3
  <2>. QED BY <1>1, <2>1, <2>3, <2>4, UiSession
<1>. QED BY <1>2, <1>3

LEMMA KeepsOK ==
    ASSUME AccountIInv, UiInv, NEW s \in {ui, Fresh}, Keeps(s)
    PROVE  UiLeft(s.token)
BY NotedOK DEF Keeps, UiLeft, UiInv, PrivateServed

LEMMA SameUi ==
    ASSUME UiInv, UNCHANGED <<ui, uiPast>>
    PROVE  UiLeft(ui.token) /\ ui.token \in Nat
BY DEF UiInv, PrivateServed, UiLeft

\* Nothing valid is late: a token that is current has not been ended, and a revoked
\* device of a linked workspace is not authenticated.
LEMMA ValidInTime ==
    ASSUME DashboardIInv, NEW t \in Tabs, uiReq[t].at # "idle", StreamValid(t)
    PROVE  ~Late(t, Noted(Snapshot))
<1>. USE DEF DashboardIInv
<1>1. uiReq[t].cookie = Snapshot.token /\ AccountValid(uiReq[t].ws) BY DEF StreamValid
<1>2. uiReq[t].cookie \notin Noted(Snapshot).ended
  <2>1. \A c \in Noted(Snapshot).ended : c \in Nat /\ c < Snapshot.token BY UiSession, NotedOK
  <2>2. Snapshot.token \in Nat BY UiSession, NotedOK
  <2>. QED BY <1>1, <2>1, <2>2
<1>3. ~Barred(uiReq[t].ws)
  <2>. SUFFICES ASSUME Barred(uiReq[t].ws) PROVE FALSE OBVIOUS
  <2>1. /\ ~acctPast.overlapped /\ uiReq[t].ws \in acctPast.revoked
        /\ HasAccount /\ Linked(account.record, uiReq[t].ws)
    BY DEF Barred
  <2>2. AuthenticatedFor(uiReq[t].ws) BY <1>1, <2>1 DEF AccountValid
  <2>. QED BY <2>1, <2>2 DEF AuthenticatedFor, AccountIInv
<1>. QED BY <1>2, <1>3 DEF Late

\* An admission adds to what was admitted, in time.
LEMMA AdmissionLeaves ==
    ASSUME DashboardIInv, NEW t \in Tabs, NEW more, uiReq[t].at # "idle", StreamValid(t), ui' = Snapshot,
           uiPast' = [Noted(Snapshot) EXCEPT !.passed = @ \cup more, !.late = @ \/ Late(t, Noted(Snapshot))]
    PROVE  UiLeft(Snapshot.token) /\ uiPast'.passed = uiPast.passed \cup more
<1>. USE DEF DashboardIInv
<1>. DEFINE past == Noted(Snapshot)
<1>1. DOMAIN past = UiHistory /\ past.tokens = Snapshot.token /\ Snapshot.token \in Nat
      /\ uiPast.tokens <= Snapshot.token /\ Snapshot \in [token : Nat, issued : Nat]
      /\ (\A c \in past.ended : c \in Nat /\ c < Snapshot.token)
      /\ past.passed = uiPast.passed /\ past.acted = uiPast.acted /\ past.late = uiPast.late
  BY UiSession, NotedOK
<1>2. ~Late(t, past) BY ValidInTime
<1>. DEFINE late == past.late \/ Late(t, past)
<1>3. uiPast' = [past EXCEPT !.passed = past.passed \cup more, !.late = late] OBVIOUS
<1>4. ~late BY <1>1, <1>2 DEF UiInv, PrivateServed
<1>. HIDE DEF late, past
<1>5. DOMAIN uiPast' = UiHistory /\ uiPast'.tokens = past.tokens /\ uiPast'.ended = past.ended
      /\ uiPast'.passed = past.passed \cup more /\ uiPast'.acted = past.acted /\ uiPast'.late = late
  BY <1>1, <1>3 DEF UiHistory
<1>6. uiPast.acted \subseteq uiPast.passed BY DEF UiInv, PrivateServed
<1>7. PrivateServed' BY <1>1, <1>4, <1>5, <1>6 DEF PrivateServed
<1>. QED BY <1>1, <1>5, <1>7 DEF UiLeft

\* Requests that leave the tabs alone.
LEMMA GuardOK ==
    ASSUME DashboardIInv, NEW t \in Tabs, Guard(t) PROVE DashboardIInv'
<1>. USE DEF DashboardIInv
<1>1. uiReq[t].at = "sent" /\ tabs' = tabs /\ UNCHANGED <<acctCmd, acctClock, acctPast>>
  BY DEF Guard
<1>2. AccountIInv'
  <2>1. account' = account \/ account' = Swept(uiReq[t].ws) BY DEF Guard
  <2>. QED BY <1>1, <2>1, UiRequestOK, AccountAtRequest
<1>3. uiReq' \in [Tabs -> UiRequest] BY <1>1, UiRequestOK DEF Guard
<1>. DEFINE admitted == \A u \in Tabs : RunsUi(u, "act")' => Admitted(u)' \in uiPast'.passed
<1>4. CASE uiReq[t].op \in Bootstrap
  <2>1. uiReq' = [uiReq EXCEPT ![t].at = "run"] /\ UNCHANGED <<ui, uiPast>> BY <1>4 DEF Guard
  <2>2. NoneStarts BY <1>1, <1>4, <2>1, EndsStarts, UiRequestOK DEF Bootstrap
  <2>3. UiLeft(ui.token) BY <2>1, SameUi
  <2>4. admitted BY <2>2, <2>3, KeptAdmitted
  <2>. QED BY <1>1, <1>2, <1>3, <2>3, <2>4, UiStep DEF UiInv
<1>5. CASE uiReq[t].op \notin Bootstrap /\ StreamValid(t)
  <2>1. /\ uiReq' = [uiReq EXCEPT ![t].at = "run"] /\ ui' = Snapshot
        /\ uiPast' = [Noted(Snapshot) EXCEPT !.passed = @ \cup {Admitted(t)}, !.late = @ \/ Late(t, Noted(Snapshot))]
    BY <1>5 DEF Guard, StreamValid
  <2>2. UiLeft(Snapshot.token) /\ uiPast'.passed = uiPast.passed \cup {Admitted(t)}
    <3>. HIDE DEF DashboardIInv
    <3>1. uiReq[t].at # "idle" /\ StreamValid(t) BY <1>1, <1>5
    <3>. QED BY <2>1, <3>1, AdmissionLeaves, Zenon
  <2>3. ASSUME NEW u \in Tabs, RunsUi(u, "act")' PROVE Admitted(u)' \in uiPast'.passed
    <3>1. CASE u = t
      <4>1. uiReq'[t] = [uiReq[t] EXCEPT !.at = "run"] BY <2>1 DEF UiInv
      <4>2. uiReq'[t].cookie = uiReq[t].cookie /\ uiReq'[t].ws = uiReq[t].ws
        BY <1>1, <4>1, UiRequestOK DEF UiInv, UiRequest
      <4>3. Admitted(t)' = Admitted(t) BY <4>2 DEF Admitted
      <4>. QED BY <2>2, <3>1, <4>3
    <3>2. CASE u # t
      <4>1. uiReq'[u] = uiReq[u] BY <2>1, <3>2 DEF UiInv
      <4>2. Admitted(u)' = Admitted(u) BY <4>1 DEF Admitted
      <4>3. RunsUi(u, "act") BY <2>3, <4>1 DEF RunsUi
      <4>. QED BY <2>2, <4>2, <4>3 DEF UiInv
    <3>. QED BY <3>1, <3>2
  <2>4. admitted BY <2>3
  <2>. QED BY <1>1, <1>2, <1>3, <2>2, <2>4, UiStep DEF UiInv
<1>6. CASE uiReq[t].op \notin Bootstrap /\ ~StreamValid(t)
  <2>1. EndUi(t) /\ Keeps(Snapshot) BY <1>6 DEF Guard, StreamValid, Keeps
  <2>2. UiLeft(Snapshot.token) BY <2>1, UiSession, KeepsOK
  <2>3. admitted BY <2>1, <2>2, EndsStarts, KeptAdmitted
  <2>. QED BY <1>1, <1>2, <1>3, <2>2, <2>3, UiStep DEF UiInv
<1>. QED BY <1>4, <1>5, <1>6

LEMMA StreamWaitOK ==
    ASSUME DashboardIInv, NEW t \in Tabs, StreamWait(t) PROVE DashboardIInv'
<1>. USE DEF DashboardIInv
<1>1. uiReq[t].at # "idle" /\ uiReq[t].op = "stream" /\ tabs' = tabs /\ UNCHANGED <<acctCmd, acctClock, acctPast>>
  BY DEF StreamWait, RunsUi
<1>2. AccountIInv' BY <1>1, UiRequestOK, AccountAtRequest DEF StreamWait
<1>3. uiReq' \in [Tabs -> UiRequest] BY <1>1, UiRequestOK DEF StreamWait
<1>4. UiLeft(Snapshot.token) BY UiSession, KeepsOK DEF StreamWait
<1>5. NoneStarts BY <1>1, EndsStarts, UiRequestOK DEF StreamWait
<1>6. \A u \in Tabs : RunsUi(u, "act")' => Admitted(u)' \in uiPast'.passed BY <1>4, <1>5, KeptAdmitted
<1>. QED BY <1>1, <1>2, <1>3, <1>4, <1>6, UiStep DEF UiInv

\* A sample is released only while both sessions are valid.
LEMMA StreamSampleOK ==
    ASSUME DashboardIInv, NEW t \in Tabs, StreamSample(t) PROVE DashboardIInv'
<1>. USE DEF DashboardIInv
<1>1. uiReq[t].at = "waiting" /\ tabs' = tabs /\ UNCHANGED <<acctCmd, acctClock, acctPast>>
  BY DEF StreamSample
<1>0. uiReq[t].op = "stream" BY <1>1 DEF UiInv, UiRequest, NoUiReq
<1>2. AccountIInv' BY <1>1, UiRequestOK, AccountAtRequest DEF StreamSample
<1>3. uiReq' \in [Tabs -> UiRequest] BY <1>1, UiRequestOK DEF StreamSample
<1>4. UiLeft(Snapshot.token)
  <2>. DEFINE past == Noted(Snapshot)
  <2>. DEFINE late == past.late \/ (StreamRecheck(t) /\ Late(t, past))
  <2>1. uiPast' = [past EXCEPT !.late = late] /\ ui' = Snapshot BY DEF StreamSample
  <2>2. DOMAIN past = UiHistory /\ past.tokens = Snapshot.token /\ Snapshot.token \in Nat
        /\ uiPast.tokens <= Snapshot.token /\ Snapshot \in [token : Nat, issued : Nat]
        /\ (\A c \in past.ended : c \in Nat /\ c < Snapshot.token)
        /\ past.passed = uiPast.passed /\ past.acted = uiPast.acted /\ past.late = uiPast.late
    BY UiSession, NotedOK
  <2>3. ~late BY <1>1, <2>2, ValidInTime DEF StreamRecheck, UiInv, PrivateServed
  <2>. HIDE DEF late, past
  <2>4. DOMAIN uiPast' = UiHistory /\ uiPast'.tokens = past.tokens /\ uiPast'.ended = past.ended
        /\ uiPast'.passed = past.passed /\ uiPast'.acted = past.acted /\ uiPast'.late = late
    BY <2>1, <2>2 DEF UiHistory
  <2>5. uiPast.acted \subseteq uiPast.passed BY DEF UiInv, PrivateServed
  <2>6. PrivateServed' BY <2>2, <2>3, <2>4, <2>5 DEF PrivateServed
  <2>. QED BY <2>1, <2>2, <2>4, <2>6 DEF UiLeft
<1>5. NoneStarts BY <1>0, <1>1, EndsStarts, UiRequestOK DEF StreamSample
<1>6. \A u \in Tabs : RunsUi(u, "act")' => Admitted(u)' \in uiPast'.passed BY <1>4, <1>5, KeptAdmitted
<1>. QED BY <1>1, <1>2, <1>3, <1>4, <1>6, UiStep DEF UiInv

LEMMA SendUiOK ==
    ASSUME DashboardIInv, NEW t \in Tabs, NEW op \in UiOps, NEW w \in Workspaces, SendUi(t, op, w)
    PROVE  DashboardIInv'
<1>. USE DEF DashboardIInv
<1>1. AccountIInv' BY AccountAtRequest DEF SendUi
<1>. DEFINE req == [at |-> "sent", op |-> op, ws |-> tabs[t].ws, to |-> w, cookie |-> tabs[t].cookie]
<1>2. req \in UiRequest BY UiRequestOK DEF UiRequest
<1>3. uiReq' = [uiReq EXCEPT ![t] = req] BY DEF SendUi
<1>4. uiReq' \in [Tabs -> UiRequest] BY <1>2, <1>3 DEF UiInv
<1>5. NoneStarts BY <1>3 DEF NoneStarts, UiInv
<1>6. uiPast' = [uiPast EXCEPT !.requests = @ + 1] /\ ui' = ui /\ tabs' = tabs BY DEF SendUi
<1>7. UiLeft(ui.token) BY <1>6 DEF PrivateServed, UiInv, UiLeft, UiHistory
<1>8. \A u \in Tabs : RunsUi(u, "act")' => Admitted(u)' \in uiPast'.passed BY <1>5, <1>7, KeptAdmitted
<1>. QED BY <1>1, <1>4, <1>6, <1>7, <1>8, UiStep DEF UiInv

\* Handlers that give a tab a cookie or a workspace.
LEMMA TabStep ==
    ASSUME UiInv, NEW t \in Tabs, NEW c \in Nat, NEW w \in Workspaces,
           \/ tabs' = [tabs EXCEPT ![t].cookie = c] \/ tabs' = [tabs EXCEPT ![t].ws = w] \/ tabs' = tabs
    PROVE  /\ tabs' \in [Tabs -> [cookie : Nat, ws : Workspaces]]
           /\ \A u \in Tabs : tabs'[u].cookie = tabs[u].cookie \/ tabs'[u].cookie = c
<1>1. tabs \in [Tabs -> [cookie : Nat, ws : Workspaces]] BY DEF UiInv
<1>2. CASE tabs' = [tabs EXCEPT ![t].cookie = c] BY <1>1, <1>2
<1>3. CASE tabs' = [tabs EXCEPT ![t].ws = w] BY <1>1, <1>3
<1>. QED BY <1>1, <1>2, <1>3

LEMMA ContextOK ==
    ASSUME DashboardIInv, NEW t \in Tabs, Context(t) \/ RevokeUi(t) PROVE DashboardIInv'
<1>. USE DEF DashboardIInv
<1>1. AccountIInv' BY AccountAtRequest DEF Context, RevokeUi, accountVars
<1>2. uiReq' \in [Tabs -> UiRequest] /\ NoneStarts BY UiRequestOK, EndsStarts DEF Context, RevokeUi
<1>3. PICK s \in {ui, Fresh}, c \in Nat : Keeps(s) /\ tabs' = [tabs EXCEPT ![t].cookie = c] /\ (c = s.token \/ c = 0)
  <2>1. Snapshot.token \in Nat /\ Fresh.token \in Nat BY UiSession
  <2>. QED BY <2>1, UiSession DEF Context, RevokeUi
<1>4. tabs' \in [Tabs -> [cookie : Nat, ws : Workspaces]]
      /\ \A u \in Tabs : tabs'[u].cookie = tabs[u].cookie \/ tabs'[u].cookie = c
  BY <1>3, TabStep, UiRequestOK
<1>5. UiLeft(s.token) BY <1>3, KeepsOK
<1>6. \A u \in Tabs : tabs'[u].cookie = tabs[u].cookie \/ tabs'[u].cookie <= s.token
  BY <1>3, <1>4, <1>5 DEF UiLeft
<1>7. \A u \in Tabs : RunsUi(u, "act")' => Admitted(u)' \in uiPast'.passed BY <1>2, <1>5, KeptAdmitted
<1>. QED BY <1>1, <1>2, <1>4, <1>5, <1>6, <1>7, UiStep

LEMMA MovesOK ==
    ASSUME DashboardIInv, NEW t \in Tabs, Switch(t) \/ \E w \in Workspaces : Navigate(t, w) PROVE DashboardIInv'
<1>. USE DEF DashboardIInv
<1>1. UNCHANGED <<ui, uiPast, acctCmd, acctClock, acctPast>> BY DEF Switch, Navigate
<1>2. AccountIInv'
  <2>1. CASE Switch(t) BY <1>1, <2>1, UiRequestOK, AccountAtRequest DEF Switch, RunsUi
  <2>2. CASE \E w \in Workspaces : Navigate(t, w) BY <1>1, <2>2, AccountAtRequest DEF Navigate
  <2>. QED BY <2>1, <2>2
<1>3. uiReq' \in [Tabs -> UiRequest] /\ NoneStarts BY UiRequestOK, EndsStarts DEF Switch, Navigate, UiInv
<1>4. \E w \in Workspaces : tabs' = [tabs EXCEPT ![t].ws = w] \/ tabs' = tabs
  BY UiRequestOK DEF Switch, Navigate, RunsUi
<1>5. tabs' \in [Tabs -> [cookie : Nat, ws : Workspaces]]
      /\ \A u \in Tabs : tabs'[u].cookie = tabs[u].cookie \/ tabs'[u].cookie = 0
  BY <1>4, TabStep
<1>6. UiLeft(ui.token) /\ ui.token \in Nat BY <1>1, SameUi
<1>7. \A u \in Tabs : tabs'[u].cookie = tabs[u].cookie \/ tabs'[u].cookie <= ui.token
  BY <1>5, <1>6
<1>8. \A u \in Tabs : RunsUi(u, "act")' => Admitted(u)' \in uiPast'.passed BY <1>3, <1>6, KeptAdmitted
<1>. QED BY <1>2, <1>3, <1>5, <1>6, <1>7, <1>8, UiStep

LEMMA AccountHandlersOK ==
    ASSUME DashboardIInv, NEW t \in Tabs, LoginUi(t) \/ LogoutUi(t) PROVE DashboardIInv'
<1>. USE DEF DashboardIInv
<1>1. UNCHANGED <<tabs, acctCmd, acctClock, acctPast>> /\ EndUi(t) BY DEF LoginUi, LogoutUi
<1>2. AccountIInv'
  <2>1. CASE LoginUi(t)
    <3>1. uiReq[t].ws \in Workspaces BY <2>1, UiRequestOK DEF LoginUi, RunsUi
    <3>. QED BY <1>1, <2>1, <3>1, AccountAtRequest DEF LoginUi
  <2>2. CASE LogoutUi(t) BY <1>1, <2>2, AccountAtRequest DEF LogoutUi
  <2>. QED BY <2>1, <2>2
<1>3. uiReq' \in [Tabs -> UiRequest] /\ NoneStarts BY <1>1, UiRequestOK, EndsStarts
<1>4. UNCHANGED <<ui, uiPast>> \/ Keeps(Fresh) BY DEF LoginUi, LogoutUi
<1>5. PICK n : UiLeft(n) BY <1>4, UiSession, KeepsOK, SameUi
<1>6. \A u \in Tabs : RunsUi(u, "act")' => Admitted(u)' \in uiPast'.passed BY <1>3, <1>5, KeptAdmitted
<1>. QED BY <1>1, <1>2, <1>3, <1>5, <1>6, UiStep DEF UiInv

\* A handler acts in the context its request was authorized in.
LEMMA ActOK == ASSUME DashboardIInv, NEW t \in Tabs, Act(t) PROVE DashboardIInv'
<1>. USE DEF DashboardIInv
<1>1. AccountIInv' BY AccountAtRequest DEF Act
<1>2. uiReq' \in [Tabs -> UiRequest] /\ NoneStarts BY UiRequestOK, EndsStarts DEF Act
<1>3. uiPast' = [uiPast EXCEPT !.acted = @ \cup {Admitted(t)}] /\ ui' = ui /\ tabs' = tabs
  BY DEF Act, ActiveVault, Admitted
<1>4. Admitted(t) \in uiPast.passed BY DEF Act, UiInv
<1>5. DOMAIN uiPast' = UiHistory /\ uiPast'.tokens = uiPast.tokens /\ uiPast'.ended = uiPast.ended
      /\ uiPast'.passed = uiPast.passed /\ uiPast'.acted = uiPast.acted \cup {Admitted(t)}
      /\ uiPast'.late = uiPast.late
  BY <1>3 DEF UiInv, UiHistory
<1>6. UiLeft(ui.token) BY <1>3, <1>4, <1>5 DEF PrivateServed, UiInv, UiLeft
<1>7. \A u \in Tabs : RunsUi(u, "act")' => Admitted(u)' \in uiPast'.passed BY <1>2, <1>6, KeptAdmitted
<1>. QED BY <1>1, <1>2, <1>3, <1>6, <1>7, UiStep DEF UiInv

LEMMA ServerRestartOK == ASSUME DashboardIInv, ServerRestart PROVE DashboardIInv'
<1>. USE DEF DashboardIInv
<1>1. AccountIInv'
  BY DashboardAssumption, AccountAtRequest DEF ServerRestart, Started
<1>2. uiReq' \in [Tabs -> UiRequest] /\ NoneStarts BY DEF ServerRestart, UiRequest, NoneStarts, NoUiReq
<1>3. /\ uiPast' = [uiPast EXCEPT !.tokens = @ + 1, !.ended = @ \cup {ui.token}, !.requests = @ + 1]
      /\ ui' = Fresh /\ tabs' = tabs
  BY DEF ServerRestart
<1>4. DOMAIN uiPast = UiHistory /\ uiPast.tokens \in Nat /\ ui.token = uiPast.tokens
      /\ \A c \in uiPast.ended : c \in Nat /\ c < ui.token
  BY DEF UiInv
<1>5. DOMAIN uiPast' = UiHistory /\ uiPast'.tokens = uiPast.tokens + 1
      /\ uiPast'.ended = uiPast.ended \cup {ui.token} /\ uiPast'.passed = uiPast.passed
      /\ uiPast'.acted = uiPast.acted /\ uiPast'.late = uiPast.late
  BY <1>3, <1>4 DEF UiHistory
<1>6. \A c \in uiPast'.ended : c \in Nat /\ c < uiPast.tokens + 1 BY <1>4, <1>5
<1>7. UiLeft(uiPast.tokens + 1) BY <1>3, <1>4, <1>5, <1>6, UiSession DEF PrivateServed, UiInv, UiLeft
<1>8. \A u \in Tabs : RunsUi(u, "act")' => Admitted(u)' \in uiPast'.passed BY <1>2, <1>7, KeptAdmitted
<1>. QED BY <1>1, <1>2, <1>3, <1>7, <1>8, UiStep DEF UiInv

LEMMA DashboardInitOK == DashboardInit => DashboardIInv
<1>. SUFFICES ASSUME DashboardInit PROVE AccountIInv /\ UiInv BY DEF DashboardIInv
<1>1. AccountIInv BY AccountInitOK DEF DashboardInit
<1>2. UiInv
  BY DashboardAssumption DEF DashboardInit, UiInv, UiRequest, PrivateServed, UiHistory, RunsUi, NoUiReq
<1>. QED BY <1>1, <1>2

LEMMA DashboardStepOK == DashboardIInv /\ [DashboardNext]_dashboardVars => DashboardIInv'
<1>. SUFFICES ASSUME DashboardIInv, [DashboardNext]_dashboardVars PROVE DashboardIInv' OBVIOUS
<1>0. ASSUME UNCHANGED uiVars PROVE UiInv'
  BY <1>0 DEF uiVars, DashboardIInv, UiInv, PrivateServed, RunsUi, Admitted
<1>1. CASE UNCHANGED dashboardVars
  <2>1. AccountIInv' BY <1>1, AccountAtRequest DEF dashboardVars, DashboardIInv
  <2>. QED BY <1>0, <1>1, <2>1 DEF DashboardIInv, dashboardVars, uiVars
<1>2. CASE LocalAccountNext /\ UNCHANGED uiVars
  <2>1. AccountIInv' BY <1>2, LocalAccountOK DEF DashboardIInv
  <2>. QED BY <1>0, <1>2, <2>1 DEF DashboardIInv
<1>. QED BY <1>1, <1>2, GuardOK, StreamWaitOK, StreamSampleOK, SendUiOK, ContextOK, MovesOK, AccountHandlersOK, ActOK,
            ServerRestartOK DEF DashboardNext

LEMMA DashboardIInvSound == DashboardIInv => DashboardSound
<1>. SUFFICES ASSUME DashboardIInv PROVE DashboardTypeOK /\ PrivateServed /\ AccountSound
  BY DEF DashboardSound
<1>1. account \in AccountFiles BY DEF DashboardIInv, AccountIInv
<1>2. LocalAccountTypeOK
  <2>1. HasAccount => account.record \in AccountRecord BY <1>1, AccountShape
  <2>2. account.session # NoSignIn => account.session.device \in Workspaces \cup {AnyDevice}
    BY <1>1, AccountShape DEF SignIn
  <2>3. account.key \in 0..acctPast.keys
    BY <1>1, AccountShape, HistoryShape DEF DashboardIInv, AccountIInv
  <2>. QED BY <2>1, <2>2, <2>3, RecordFields, HistoryShape DEF LocalAccountTypeOK, DashboardIInv
<1>3. DashboardTypeOK
  <2>1. ui.token = uiPast.tokens /\ \A t \in Tabs : tabs[t].cookie \in 0..uiPast.tokens
    BY DEF DashboardIInv, UiInv
  <2>2. \A t \in Tabs : uiReq[t].at \in {"idle", "sent", "run", "waiting"}
    BY DEF DashboardIInv, UiInv, UiRequest, NoUiReq
  <2>. QED BY <1>2, <2>1, <2>2 DEF DashboardTypeOK
<1>4. AccountSound
  BY DEF DashboardIInv, AccountIInv, AccountSound, AuthenticatedFor
<1>. QED BY <1>3, <1>4 DEF DashboardIInv, UiInv

\* Whatever commands of other processes overlap, wherever one dies, and whatever the
\* browser's tabs do meanwhile (account.rs, auth.rs, dashboard/server.rs): an
\* account's record names the key beside it, a revoked device is authenticated
\* again only after its vault was linked again unless two commands overlapped,
\* and the private server acts only where and while a request is authorized.
THEOREM DashboardIsPrivate == DashboardSpec => []DashboardSound
BY DashboardInitOK, DashboardStepOK, DashboardIInvSound, PTL DEF DashboardSpec

-----------------------------------------------------------------------------
(* Workbench: the inductive invariant *)

\* A task of a guarded kind runs once and under its guard; a check and an installation
\* of updates share one.
Guarded(tasks, guards) ==
    /\ \A k \in Simple : Task(k) \in DOMAIN tasks => k \in guards /\ tasks[Task(k)] = 1
    /\ \A k \in {"check", "apply"} : Task(k) \in DOMAIN tasks => "update" \in guards /\ tasks[Task(k)] = 1
    /\ ~(Task("check") \in DOMAIN tasks /\ Task("apply") \in DOMAIN tasks)

\* An open update dialog offers an update, or one is being installed.
Offered ==
    /\ "update" \in dialogs => update.pending \/ update.installing
    /\ update.installing => Task("apply") \in DOMAIN jobs

\* Every inspection is of the file in its row, and the row the inspector waits for is
\* being inspected.
Inspecting(tasks, list, insp) ==
    /\ \A job \in DOMAIN tasks : job.kind = "inspect" => job.row \in DOMAIN list /\ job.path = list[job.row]
    /\ insp.flight # 0 =>
          /\ insp.flight \in DOMAIN list /\ insp.key = list[insp.flight]
          /\ \E job \in DOMAIN tasks : job.kind = "inspect" /\ job.row = insp.flight
    /\ insp.flight = 0 => insp.shows = NoPath \/ insp.shows = insp.key

WorkbenchIInv ==
    /\ WorkbenchTypeOK
    /\ Len(rows.files) <= NumPaths
    /\ health.probed \subseteq {health.operators}
    /\ workbench.panics = 0 => Guarded(jobs, flags)
    /\ workbench.panics = 0 => Offered
    /\ workbench.panics = 0 /\ ~workbench.shifted => Inspecting(jobs, rows.files, inspect)

-----------------------------------------------------------------------------
(* Workbench: lists and bags *)

\* The tracked files can be listed in order: each has a rank of its own.
LEMMA ListShape ==
    ASSUME NEW S \in SUBSET Paths
    PROVE  ListTracked(S) \in Seq(Paths) /\ Len(ListTracked(S)) <= NumPaths
<1>. DEFINE Up(p) == {q \in S : q <= p}
            n == Cardinality(S)
            f == [p \in S |-> Cardinality(Up(p))]
<1>1. S \subseteq Nat /\ NumPaths \in Nat BY WorkbenchAssumption DEF Paths
<1>2. IsFiniteSet(S) /\ n \in Nat /\ n <= NumPaths
  <2>1. IsFiniteSet(1..NumPaths) /\ Cardinality(1..NumPaths) = NumPaths BY <1>1, FS_Interval
  <2>2. IsFiniteSet(S) /\ n <= NumPaths BY <2>1, FS_Subset DEF Paths
  <2>. QED BY <2>2, FS_CardinalityType
<1>3. \A p \in S : IsFiniteSet(Up(p)) /\ Cardinality(Up(p)) \in Nat /\ Cardinality(Up(p)) <= n
  <2>. TAKE p \in S
  <2>1. Up(p) \in SUBSET S OBVIOUS
  <2>. HIDE DEF Up
  <2>. QED BY <1>2, <2>1, FS_Subset, FS_CardinalityType
<1>4. \A p \in S : Cardinality(Up(p)) # 0
  <2>. TAKE p \in S
  <2>1. p \in Up(p) BY <1>1
  <2>. HIDE DEF Up
  <2>. QED BY <1>3, <2>1, FS_EmptySet
<1>5. \A p, r \in S : p < r => Cardinality(Up(p)) # Cardinality(Up(r))
  <2>. SUFFICES ASSUME NEW p \in S, NEW r \in S, p < r PROVE Cardinality(Up(p)) # Cardinality(Up(r))
    OBVIOUS
  <2>1. /\ \A q \in S : q <= p => q <= r
        /\ r <= r /\ ~(r <= p)
    BY <1>1
  <2>2. Up(p) \in SUBSET Up(r) /\ r \in Up(r) /\ r \notin Up(p) BY <2>1
  <2>. HIDE DEF Up
  <2>. QED BY <1>3, <2>2, FS_Subset
<1>6. f \in [S -> 1..n] BY <1>2, <1>3, <1>4
<1>7. \A p, r \in S : f[p] = f[r] => p = r BY <1>1, <1>5
<1>8. f \in Surjection(S, 1..n)
  <2>. HIDE DEF f, n, Up
  <2>1. f \in Injection(S, 1..n) BY <1>6, <1>7 DEF Injection, IsInjective
  <2>2. IsFiniteSet(1..n) /\ Cardinality(1..n) = n BY <1>2, FS_Interval
  <2>. QED BY <2>1, <2>2, FS_Injection DEF n
<1>9. \A i \in 1..n : \E p \in S : Cardinality({q \in S : q <= p}) = i BY <1>8 DEF Surjection
<1>10. ListTracked(S) = [i \in 1..n |-> CHOOSE p \in S : Cardinality({q \in S : q <= p}) = i]
  BY DEF ListTracked
<1>11. \A i \in 1..n : (CHOOSE p \in S : Cardinality({q \in S : q <= p}) = i) \in S BY <1>9
<1>. HIDE DEF n
<1>12. ListTracked(S) \in [1..n -> Paths] BY <1>10, <1>11
<1>13. ListTracked(S) \in Seq(Paths) /\ Len(ListTracked(S)) = n BY <1>2, <1>12
<1>. QED BY <1>2, <1>13

LEMMA StartShape ==
    ASSUME NEW tasks, NEW new, IsABag(tasks)
    PROVE  /\ IsABag(Start(tasks, new)) /\ DOMAIN Start(tasks, new) = DOMAIN tasks \cup new
           /\ \A job \in new : job \notin DOMAIN tasks => Start(tasks, new)[job] = 1
           /\ \A job \in DOMAIN tasks : job \notin new => Start(tasks, new)[job] = tasks[job]
<1>1. tasks \in [DOMAIN tasks -> {n \in Nat : n > 0}] BY DEF IsABag
<1>. DEFINE bag == [e \in DOMAIN tasks \cup new |->
                       (IF e \in DOMAIN tasks THEN tasks[e] ELSE 0) + (IF e \in new THEN 1 ELSE 0)]
<1>2. Start(tasks, new) = bag BY DEF Start, (+), SetToBag
<1>3. bag \in [DOMAIN tasks \cup new -> {n \in Nat : n > 0}] BY <1>1
<1>4. /\ \A job \in new : job \notin DOMAIN tasks => bag[job] = 1
      /\ \A job \in DOMAIN tasks : job \notin new => bag[job] = tasks[job]
  BY <1>1
<1>. HIDE DEF bag
<1>. QED BY <1>2, <1>3, <1>4 DEF IsABag

LEMMA RestShape ==
    ASSUME IsABag(jobs), NEW job \in DOMAIN jobs
    PROVE  /\ IsABag(Rest(job)) /\ DOMAIN Rest(job) \subseteq DOMAIN jobs
           /\ \A other \in DOMAIN jobs : other # job => other \in DOMAIN Rest(job)
           /\ \A other \in DOMAIN Rest(job) : other # job => Rest(job)[other] = jobs[other]
           /\ jobs[job] = 1 => job \notin DOMAIN Rest(job)
<1>1. jobs \in [DOMAIN jobs -> {n \in Nat : n > 0}] BY DEF IsABag
<1>. DEFINE less == [e \in DOMAIN jobs |-> IF e = job THEN jobs[e] - 1 ELSE jobs[e]]
            kept == {e \in DOMAIN jobs : less[e] > 0}
            bag == [e \in kept |-> less[e]]
<1>2. Rest(job) = bag BY DEF Rest, (-), SetToBag
<1>3. bag \in [kept -> {n \in Nat : n > 0}] BY <1>1
<1>4. /\ kept \subseteq DOMAIN jobs /\ DOMAIN bag = kept
      /\ \A other \in DOMAIN jobs : other # job => other \in kept /\ bag[other] = jobs[other]
      /\ jobs[job] = 1 => job \notin kept
  BY <1>1
<1>. HIDE DEF bag, kept
<1>. QED BY <1>2, <1>3, <1>4 DEF IsABag

LEMMA TaskKinds ==
    /\ \A k \in Simple \cup {"check", "apply"} : Task(k) \in Tasks /\ Task(k).kind = k
    /\ \A k, l \in Simple \cup {"check", "apply"} : Task(k) = Task(l) => k = l
    /\ \A job \in Tasks :
          /\ job.kind \in Simple \cup {"check", "apply"} => job = Task(job.kind)
          /\ job.kind = "poll" => job \in Polls
          /\ job.kind = "inspect" => job \in Inspections
          /\ job.kind \in Simple \cup {"check", "apply", "poll", "inspect"}
    /\ Polls \subseteq Tasks /\ Inspections \subseteq Tasks
    /\ \A job \in Polls : job.kind = "poll" /\ job.operators \in OperatorSets
    /\ \A job \in Inspections : job.kind = "inspect" /\ job.row \in Paths /\ job.path \in Paths
<1>1. \A k \in Simple \cup {"check", "apply"} : Task(k) \in Tasks /\ Task(k).kind = k BY DEF Task, Tasks
<1>2. \A k, l \in Simple \cup {"check", "apply"} : Task(k) = Task(l) => k = l BY <1>1
<1>3. \A job \in Polls : job.kind = "poll" /\ job.operators \in OperatorSets BY DEF Polls
<1>4. \A job \in Inspections : job.kind = "inspect" /\ job.row \in Paths /\ job.path \in Paths
  BY DEF Inspections
<1>5. "poll" \notin Simple \cup {"check", "apply"} /\ "inspect" \notin Simple \cup {"check", "apply"}
  BY DEF Simple
<1>6. ASSUME NEW job \in Tasks
      PROVE  /\ job.kind \in Simple \cup {"check", "apply"} => job = Task(job.kind)
             /\ job.kind = "poll" => job \in Polls
             /\ job.kind = "inspect" => job \in Inspections
             /\ job.kind \in Simple \cup {"check", "apply", "poll", "inspect"}
  <2>1. CASE job \in Polls BY <2>1, <1>3, <1>5
  <2>2. CASE job \in Inspections BY <2>2, <1>4, <1>5
  <2>3. CASE \E k \in Simple \cup {"check", "apply"} : job = Task(k) BY <2>3, <1>1, <1>5
  <2>. QED BY <2>1, <2>2, <2>3 DEF Tasks
<1>. QED BY <1>1, <1>2, <1>3, <1>4, <1>6 DEF Tasks

-----------------------------------------------------------------------------
(* Workbench: the guards and the inspector *)

\* A task starts under a guard that was free.
LEMMA StartGuarded ==
    ASSUME NEW tasks, NEW new, NEW before, NEW after,
           IsABag(tasks), Guarded(tasks, before), before \subseteq after,
           \A k \in Simple : Task(k) \in new => k \in after /\ k \notin before,
           \A k \in {"check", "apply"} : Task(k) \in new => "update" \in after /\ "update" \notin before,
           ~(Task("check") \in new /\ Task("apply") \in new)
    PROVE  Guarded(Start(tasks, new), after)
<1>. DEFINE bag == Start(tasks, new)
<1>1. /\ DOMAIN bag = DOMAIN tasks \cup new
      /\ \A job \in new : job \notin DOMAIN tasks => bag[job] = 1
      /\ \A job \in DOMAIN tasks : job \notin new => bag[job] = tasks[job]
  BY StartShape
<1>. HIDE DEF bag
<1>2. ASSUME NEW k \in Simple, Task(k) \in DOMAIN bag PROVE k \in after /\ bag[Task(k)] = 1
  <2>1. CASE Task(k) \in new
    <3>1. Task(k) \notin DOMAIN tasks BY <2>1 DEF Guarded
    <3>. QED BY <1>1, <2>1, <3>1
  <2>2. CASE Task(k) \notin new BY <1>1, <1>2, <2>2 DEF Guarded
  <2>. QED BY <2>1, <2>2
<1>3. ASSUME NEW k \in {"check", "apply"}, Task(k) \in DOMAIN bag
      PROVE  "update" \in after /\ bag[Task(k)] = 1
  <2>1. CASE Task(k) \in new
    <3>1. Task(k) \notin DOMAIN tasks BY <2>1 DEF Guarded
    <3>. QED BY <1>1, <2>1, <3>1
  <2>2. CASE Task(k) \notin new BY <1>1, <1>3, <2>2 DEF Guarded
  <2>. QED BY <2>1, <2>2
<1>4. ~(Task("check") \in DOMAIN bag /\ Task("apply") \in DOMAIN bag) BY <1>1 DEF Guarded
<1>. QED BY <1>2, <1>3, <1>4 DEF Guarded, bag

\* A task that ends gives back its own guard, or none.
LEMMA RestGuarded ==
    ASSUME IsABag(jobs), Guarded(jobs, flags), NEW job \in DOMAIN jobs, NEW free,
           \A k \in Simple : k \in free => job = Task(k),
           "update" \in free => job = Task("check") \/ job = Task("apply")
    PROVE  Guarded(Rest(job), flags \ free)
<1>. DEFINE bag == Rest(job)
<1>1. /\ DOMAIN bag \subseteq DOMAIN jobs
      /\ \A other \in DOMAIN bag : other # job => bag[other] = jobs[other]
      /\ jobs[job] = 1 => job \notin DOMAIN bag
  BY RestShape
<1>. HIDE DEF bag
<1>2. ASSUME NEW k \in Simple, Task(k) \in DOMAIN bag PROVE k \in flags \ free /\ bag[Task(k)] = 1
  <2>1. k \in flags /\ jobs[Task(k)] = 1 BY <1>1, <1>2 DEF Guarded
  <2>2. Task(k) # job BY <1>1, <1>2, <2>1
  <2>. QED BY <1>1, <1>2, <2>1, <2>2
<1>3. ASSUME NEW k \in {"check", "apply"}, Task(k) \in DOMAIN bag
      PROVE  "update" \in flags \ free /\ bag[Task(k)] = 1
  <2>1. "update" \in flags /\ jobs[Task(k)] = 1 BY <1>1, <1>3 DEF Guarded
  <2>2. Task(k) # job BY <1>1, <1>3, <2>1
  <2>3. "update" \notin free BY <1>1, <1>3, <2>2 DEF Guarded
  <2>. QED BY <1>1, <1>3, <2>1, <2>2, <2>3
<1>4. ~(Task("check") \in DOMAIN bag /\ Task("apply") \in DOMAIN bag) BY <1>1 DEF Guarded
<1>. QED BY <1>2, <1>3, <1>4 DEF Guarded, bag

\* Other tasks start and end beside the inspections.
LEMMA StartFollows ==
    ASSUME NEW tasks, NEW new, NEW list, NEW insp, IsABag(tasks), Inspecting(tasks, list, insp),
           \A job \in new : job.kind # "inspect"
    PROVE  Inspecting(Start(tasks, new), list, insp)
<1>1. DOMAIN Start(tasks, new) = DOMAIN tasks \cup new BY StartShape
<1>. QED BY <1>1 DEF Inspecting

LEMMA RestFollows ==
    ASSUME NEW job \in DOMAIN jobs, NEW list, NEW insp, IsABag(jobs), Inspecting(jobs, list, insp),
           insp.flight # 0 => ~(job.kind = "inspect" /\ job.row = insp.flight)
    PROVE  Inspecting(Rest(job), list, insp)
<1>1. /\ DOMAIN Rest(job) \subseteq DOMAIN jobs
      /\ \A other \in DOMAIN jobs : other # job => other \in DOMAIN Rest(job)
  BY RestShape
<1>. QED BY <1>1 DEF Inspecting

\* An inspection is asked for over the list it is about to run on.
LEMMA RequestShape ==
    ASSUME WorkbenchTypeOK, NEW list \in Seq(Paths), NEW i \in Nat, Len(list) <= NumPaths,
           list # <<>> => i < Len(list)
    PROVE  /\ RequestInspection(list, i) \in
                 [flight : 0..NumPaths, key : Paths \cup {NoPath}, shows : Paths \cup {NoPath}]
           /\ SpawnInspection(list, i) \subseteq Inspections
<1>1. NumPaths \in Nat /\ Len(list) \in Nat BY WorkbenchAssumption
<1>2. inspect \in [flight : 0..NumPaths, key : Paths \cup {NoPath}, shows : Paths \cup {NoPath}]
  BY DEF WorkbenchTypeOK
<1>3. CASE list = <<>> BY <1>2, <1>3 DEF RequestInspection, SpawnInspection, NeedsInspection
<1>4. CASE list # <<>>
  <2>1. i + 1 \in 1..Len(list) /\ i + 1 \in Paths /\ i + 1 \in 0..NumPaths BY <1>1, <1>4 DEF Paths
  <2>2. Shown(list, i) \in Paths BY <1>4, <2>1 DEF Shown
  <2>3. [inspect EXCEPT !.flight = i + 1, !.key = Shown(list, i)] \in
            [flight : 0..NumPaths, key : Paths \cup {NoPath}, shows : Paths \cup {NoPath}]
    BY <1>2, <2>1, <2>2
  <2>4. [kind |-> "inspect", row |-> i + 1, path |-> Shown(list, i)] \in Inspections
    BY <2>1, <2>2 DEF Inspections
  <2>. QED BY <1>2, <1>4, <2>3, <2>4 DEF RequestInspection, SpawnInspection
<1>. QED BY <1>3, <1>4

LEMMA RequestFollows ==
    ASSUME WorkbenchTypeOK, NEW tasks, NEW other, NEW list \in Seq(Paths), NEW i \in Nat,
           list # <<>> => i < Len(list),
           IsABag(tasks), Inspecting(tasks, rows.files, inspect),
           list # rows.files => \A job \in DOMAIN tasks : job.kind # "inspect",
           \A job \in other : job.kind # "inspect"
    PROVE  Inspecting(Start(tasks, other \cup SpawnInspection(list, i)), list, RequestInspection(list, i))
<1>. DEFINE new == other \cup SpawnInspection(list, i)
            insp == RequestInspection(list, i)
            mine == [kind |-> "inspect", row |-> i + 1, path |-> Shown(list, i)]
<1>1. DOMAIN Start(tasks, new) = DOMAIN tasks \cup new BY StartShape
<1>2. inspect \in [flight : 0..NumPaths, key : Paths \cup {NoPath}, shows : Paths \cup {NoPath}]
  BY DEF WorkbenchTypeOK
<1>3. list # <<>> => i + 1 \in DOMAIN list /\ Shown(list, i) = list[i + 1] BY DEF Shown
<1>4. mine.kind = "inspect" /\ mine.row = i + 1 /\ mine.path = Shown(list, i) OBVIOUS
<1>5. \A job \in DOMAIN tasks : job.kind = "inspect" => job.row \in DOMAIN list /\ job.path = list[job.row]
  BY DEF Inspecting
<1>6. inspect.flight # 0 => inspect.flight \in DOMAIN list /\ inspect.key = list[inspect.flight]
  BY DEF Inspecting
<1>7. CASE NeedsInspection(list, i)
  <2>1. list # <<>> /\ SpawnInspection(list, i) = {mine} BY <1>7 DEF NeedsInspection, SpawnInspection
  <2>2. insp.flight = i + 1 /\ insp.key = Shown(list, i) BY <1>2, <1>7, <2>1 DEF RequestInspection
  <2>3. insp.flight # 0 BY <2>2
  <2>. HIDE DEF mine, insp
  <2>4. \A job \in DOMAIN Start(tasks, new) :
            job.kind = "inspect" => job.row \in DOMAIN list /\ job.path = list[job.row]
    BY <1>1, <1>3, <1>4, <1>5, <2>1
  <2>5. mine \in DOMAIN Start(tasks, new) BY <1>1, <2>1
  <2>6. Inspecting(Start(tasks, new), list, insp) BY <1>3, <1>4, <2>1, <2>2, <2>3, <2>4, <2>5 DEF Inspecting
  <2>. QED BY <2>6 DEF insp
<1>8. CASE ~NeedsInspection(list, i)
  <2>1. SpawnInspection(list, i) = {} BY <1>8 DEF SpawnInspection
  <2>2. CASE list = <<>>
    <3>1. inspect.flight = 0 BY <1>6, <2>2
    <3>2. insp.flight = 0 /\ insp.shows = NoPath BY <1>2, <2>2, <3>1 DEF RequestInspection
    <3>. HIDE DEF insp
    <3>. QED BY <1>1, <1>5, <2>1, <3>2 DEF Inspecting, insp
  <2>3. CASE list # <<>>
    <3>1. insp = inspect BY <1>8, <2>3 DEF RequestInspection
    <3>. HIDE DEF insp
    <3>. QED BY <1>1, <1>5, <1>6, <2>1, <3>1 DEF Inspecting, insp
  <2>. QED BY <2>2, <2>3
<1>. QED BY <1>7, <1>8

-----------------------------------------------------------------------------
(* Workbench: the steps *)

Histories == [quit : BOOLEAN, keys : 0..MaxKeys, panics : 0..MaxPanics, shifted : BOOLEAN]

LEMMA CountedShape ==
    ASSUME WorkbenchTypeOK, workbench.keys < MaxKeys
    PROVE  /\ Counted \in Histories /\ Counted.panics = workbench.panics
           /\ Counted.shifted = workbench.shifted /\ Counted.quit = workbench.quit
<1>1. workbench \in Histories /\ MaxKeys \in Nat BY WorkbenchAssumption DEF WorkbenchTypeOK, Histories
<1>2. workbench.keys + 1 \in 0..MaxKeys BY <1>1 DEF Histories
<1>3. Counted = [workbench EXCEPT !.keys = workbench.keys + 1] BY DEF Counted
<1>. QED BY <1>1, <1>2, <1>3 DEF Histories

\* The local state is read again, by whoever asks for it.
LEMMA RefreshPreserves ==
    ASSUME WorkbenchIInv, NEW S \in SUBSET Paths, NEW tasks, NEW guards, NEW after,
           IsABag(tasks), DOMAIN tasks \subseteq DOMAIN jobs, guards \subseteq flags,
           workbench.panics = 0 => Guarded(tasks, guards),
           workbench.panics = 0 /\ ~workbench.shifted => Inspecting(tasks, rows.files, inspect),
           Task("apply") \in DOMAIN jobs => Task("apply") \in DOMAIN tasks,
           after \subseteq Polls \cup {Task("explorer")}, Task("explorer") \in after => "explorer" \notin flags,
           RefreshLocalState(ListTracked(S), tasks, guards, after),
           disk' \in [tracked : SUBSET Paths, operators : OperatorSets],
           dialogs' \subseteq dialogs, update' = update,
           workbench' \in Histories, workbench'.panics = workbench.panics,
           ~workbench'.shifted => ~workbench.shifted /\ ~Shifts(ListTracked(S))
    PROVE  WorkbenchIInv'
<1>. DEFINE list == ListTracked(S)
            i == Clamped(list, rows.sel)
            other == Spawn("token") \cup after
            new == other \cup SpawnInspection(list, i)
<1>1. WorkbenchTypeOK BY DEF WorkbenchIInv
<1>2. list \in Seq(Paths) /\ Len(list) <= NumPaths /\ Len(list) \in Nat /\ NumPaths \in Nat
  BY ListShape, WorkbenchAssumption
<1>3. i \in 0..NumPaths /\ i \in Nat /\ (list # <<>> => i < Len(list))
  <2>1. rows.sel \in Nat BY <1>1 DEF WorkbenchTypeOK
  <2>2. list # <<>> => 0 < Len(list) BY <1>2
  <2>. HIDE DEF list
  <2>. QED BY <1>2, <2>1, <2>2 DEF Clamped
<1>4. /\ rows' = [files |-> list, sel |-> i] /\ inspect' = RequestInspection(list, i)
      /\ jobs' = Start(tasks, new) /\ flags' = guards \cup {"token"} \cup {job.kind : job \in after}
      /\ health' = [operators |-> disk.operators,
                    probed |-> IF health.operators = disk.operators THEN health.probed ELSE {},
                    echo |-> health.echo \/ after # {}]
  <2>1. Spawn("token") \cup SpawnInspection(list, i) \cup after = new OBVIOUS
  <2>. HIDE DEF new
  <2>. QED BY <2>1 DEF RefreshLocalState
<1>. HIDE DEF list, i
<1>5. /\ inspect' \in [flight : 0..NumPaths, key : Paths \cup {NoPath}, shows : Paths \cup {NoPath}]
      /\ SpawnInspection(list, i) \subseteq Inspections
  BY <1>1, <1>2, <1>3, <1>4, RequestShape
<1>6. "token" \in Simple /\ "explorer" \in Simple BY DEF Simple
<1>7. Spawn("token") \subseteq {Task("token")} /\ (Spawn("token") # {} => "token" \notin flags)
  BY DEF Spawn, SimpleFree
<1>8. \A job \in other : job.kind # "inspect"
  BY <1>6, <1>7, TaskKinds DEF Simple
<1>9. /\ \A job \in after : job.kind \in {"poll", "explorer"}
      /\ other \subseteq Tasks
  BY <1>6, <1>7, TaskKinds
<1>10. DOMAIN jobs \subseteq Tasks BY <1>1 DEF WorkbenchTypeOK
<1>11. IsABag(jobs') /\ DOMAIN jobs' = DOMAIN tasks \cup new BY <1>4, StartShape
<1>12. new \subseteq Tasks BY <1>5, <1>9, TaskKinds
<1>13. /\ health' \in [operators : OperatorSets, probed : SUBSET OperatorSets, echo : BOOLEAN]
       /\ health'.probed \subseteq {health'.operators}
  <2>1. health.probed \subseteq OperatorSets /\ health.probed \subseteq {health.operators} /\ disk.operators \in OperatorSets
    BY <1>1 DEF WorkbenchTypeOK, WorkbenchIInv
  <2>. DEFINE p == IF health.operators = disk.operators THEN health.probed ELSE {}
              e == health.echo \/ after # {}
  <2>2. p \subseteq OperatorSets /\ p \subseteq {disk.operators} BY <2>1
  <2>3. e \in BOOLEAN OBVIOUS
  <2>4. health' = [operators |-> disk.operators, probed |-> p, echo |-> e] BY <1>4
  <2>. HIDE DEF p, e
  <2>. QED BY <2>1, <2>2, <2>3, <2>4
<1>14. WorkbenchTypeOK'
  <2>1. rows' \in [files : Seq(Paths), sel : 0..NumPaths] /\ (rows'.files # <<>> => rows'.sel < Len(rows'.files))
    BY <1>2, <1>3, <1>4
  <2>2. flags' \subseteq Simple \cup {"poll", "update"} /\ dialogs' \subseteq Dialogs
    BY <1>1, <1>4, <1>6, <1>9 DEF WorkbenchTypeOK
  <2>3. DOMAIN jobs' \subseteq Tasks BY <1>10, <1>11, <1>12
  <2>4. update' \in [pending : BOOLEAN, installing : BOOLEAN] BY <1>1 DEF WorkbenchTypeOK
  <2>. QED BY <1>5, <1>11, <1>13, <2>1, <2>2, <2>3, <2>4 DEF WorkbenchTypeOK, Histories
<1>15. Len(rows'.files) <= NumPaths BY <1>2, <1>4
<1>16. ASSUME workbench'.panics = 0 PROVE Guarded(jobs', flags')
  <2>1. workbench.panics = 0 /\ Guarded(tasks, guards) /\ Guarded(jobs, flags)
    BY <1>16 DEF WorkbenchIInv
  <2>2. Guarded(tasks, flags) BY <2>1 DEF Guarded
  <2>3. \A k \in Simple : Task(k) \in new => k \in {"token", "explorer"} /\ k \in flags' /\ k \notin flags
    <3>1. \A k \in Simple : Task(k) \notin Polls /\ Task(k) \notin Inspections
      BY TaskKinds DEF Simple
    <3>2. Task("explorer") \in after => "explorer" \in flags'
      BY <1>4, <1>6, TaskKinds
    <3>3. "token" \in flags' BY <1>4
    <3>. QED BY <1>5, <1>6, <1>7, <3>1, <3>2, <3>3, TaskKinds
  <2>4. Task("check") \notin new /\ Task("apply") \notin new
    BY <1>5, <1>6, <1>7, TaskKinds DEF Simple
  <2>5. guards \subseteq flags' /\ \A k \in Simple : Task(k) \in new => k \notin guards BY <1>4, <2>3
  <2>. HIDE DEF new
  <2>6. Guarded(Start(tasks, new), flags') BY <2>1, <2>3, <2>4, <2>5, StartGuarded
  <2>. QED BY <1>4, <2>6
<1>17. ASSUME workbench'.panics = 0 PROVE Offered'
  <2>1. Offered BY <1>17 DEF WorkbenchIInv
  <2>. QED BY <1>11, <2>1 DEF Offered
<1>18. ASSUME workbench'.panics = 0, ~workbench'.shifted PROVE Inspecting(jobs', rows'.files, inspect')
  <2>1. Inspecting(tasks, rows.files, inspect) /\ ~Shifts(list) BY <1>18 DEF list
  <2>2. list # rows.files => \A job \in DOMAIN tasks : job.kind # "inspect"
    BY <2>1 DEF Shifts, TaskRunning
  <2>. HIDE DEF other
  <2>3. Inspecting(Start(tasks, other \cup SpawnInspection(list, i)), list, RequestInspection(list, i))
    BY <1>1, <1>2, <1>3, <1>8, <2>1, <2>2, RequestFollows
  <2>. QED BY <1>4, <2>3
<1>. QED BY <1>13, <1>14, <1>15, <1>16, <1>17, <1>18 DEF WorkbenchIInv

\* Steps that move neither the rows nor the inspector.
LEMMA AsidePreserves ==
    ASSUME WorkbenchIInv, UNCHANGED <<rows, inspect>>,
           disk' \in [tracked : SUBSET Paths, operators : OperatorSets],
           health' \in [operators : OperatorSets, probed : SUBSET OperatorSets, echo : BOOLEAN],
           health'.probed \subseteq {health'.operators},
           flags' \subseteq Simple \cup {"poll", "update"}, dialogs' \subseteq Dialogs,
           IsABag(jobs'), DOMAIN jobs' \subseteq Tasks,
           update' \in [pending : BOOLEAN, installing : BOOLEAN],
           workbench' \in Histories, workbench'.panics = workbench.panics,
           ~workbench'.shifted => ~workbench.shifted,
           workbench.panics = 0 => Guarded(jobs', flags'), workbench.panics = 0 => Offered',
           Inspecting(jobs, rows.files, inspect) => Inspecting(jobs', rows.files, inspect)
    PROVE  WorkbenchIInv'
<1>1. WorkbenchTypeOK' BY DEF WorkbenchIInv, WorkbenchTypeOK, Histories
<1>2. Len(rows'.files) <= NumPaths BY DEF WorkbenchIInv
<1>3. workbench'.panics = 0 /\ ~workbench'.shifted => Inspecting(jobs', rows'.files, inspect')
  BY DEF WorkbenchIInv
<1>. QED BY <1>1, <1>2, <1>3 DEF WorkbenchIInv

\* A key starts a task, or finds one of its kind in flight.
LEMMA StartPreserves ==
    ASSUME WorkbenchIInv, NEW new, NEW g \in Simple \cup {"poll", "update"},
           new \subseteq Tasks, \A job \in new : job.kind # "inspect",
           \A k \in Simple : Task(k) \in new => k = g /\ g \notin flags,
           \A k \in {"check", "apply"} : Task(k) \in new => g = "update" /\ g \notin flags,
           ~(Task("check") \in new /\ Task("apply") \in new),
           jobs' = Start(jobs, new), flags' = flags \cup {g}, UNCHANGED <<disk, rows, inspect, health>>,
           dialogs' \subseteq Dialogs, update' \in [pending : BOOLEAN, installing : BOOLEAN],
           workbench.keys < MaxKeys, workbench' = Counted,
           workbench.panics = 0 => Offered'
    PROVE  WorkbenchIInv'
<1>1. WorkbenchTypeOK BY DEF WorkbenchIInv
<1>2. /\ workbench' \in Histories /\ workbench'.panics = workbench.panics
      /\ workbench'.shifted = workbench.shifted
  BY <1>1, CountedShape
<1>3. IsABag(jobs) /\ DOMAIN jobs \subseteq Tasks BY <1>1 DEF WorkbenchTypeOK
<1>4. IsABag(jobs') /\ DOMAIN jobs' \subseteq Tasks
  <2>1. IsABag(jobs') /\ DOMAIN jobs' = DOMAIN jobs \cup new BY <1>3, StartShape
  <2>. QED BY <1>3, <2>1
<1>5. ASSUME workbench.panics = 0 PROVE Guarded(jobs', flags')
  <2>1. Guarded(jobs, flags) BY <1>5 DEF WorkbenchIInv
  <2>2. \A k \in Simple : Task(k) \in new => k \in flags' /\ k \notin flags OBVIOUS
  <2>3. \A k \in {"check", "apply"} : Task(k) \in new => "update" \in flags' /\ "update" \notin flags
    OBVIOUS
  <2>. QED BY <1>3, <2>1, <2>2, <2>3, StartGuarded
<1>6. Inspecting(jobs, rows.files, inspect) => Inspecting(jobs', rows.files, inspect)
  BY <1>3, StartFollows
<1>7. /\ disk' \in [tracked : SUBSET Paths, operators : OperatorSets]
      /\ health' \in [operators : OperatorSets, probed : SUBSET OperatorSets, echo : BOOLEAN]
      /\ flags' \subseteq Simple \cup {"poll", "update"}
  BY <1>1 DEF WorkbenchTypeOK
<1>8. health'.probed \subseteq {health'.operators} BY DEF WorkbenchIInv
<1>. QED BY <1>2, <1>4, <1>5, <1>6, <1>7, <1>8, AsidePreserves

\* A task that is no inspection lands.
LEMMA LandPreserves ==
    ASSUME WorkbenchIInv, NEW job \in DOMAIN jobs, job.kind # "inspect", NEW free,
           \A k \in Simple : k \in free => job = Task(k),
           "update" \in free => job = Task("check") \/ job = Task("apply"),
           jobs' = Rest(job), flags' = flags \ free, UNCHANGED <<disk, rows, inspect>>,
           health' \in [operators : OperatorSets, probed : SUBSET OperatorSets, echo : BOOLEAN],
           health'.probed \subseteq {health'.operators},
           dialogs' \subseteq Dialogs, update' \in [pending : BOOLEAN, installing : BOOLEAN],
           workbench' \in Histories, workbench'.panics = workbench.panics,
           workbench'.shifted = workbench.shifted,
           workbench.panics = 0 => Offered'
    PROVE  WorkbenchIInv'
<1>1. WorkbenchTypeOK BY DEF WorkbenchIInv
<1>2. IsABag(jobs) /\ DOMAIN jobs \subseteq Tasks BY <1>1 DEF WorkbenchTypeOK
<1>3. IsABag(jobs') /\ DOMAIN jobs' \subseteq Tasks BY <1>2, RestShape
<1>4. workbench.panics = 0 => Guarded(jobs', flags')
  <2>1. workbench.panics = 0 => Guarded(jobs, flags) BY DEF WorkbenchIInv
  <2>. QED BY <1>2, <2>1, RestGuarded
<1>5. Inspecting(jobs, rows.files, inspect) => Inspecting(jobs', rows.files, inspect)
  BY <1>2, RestFollows
<1>6. /\ disk' \in [tracked : SUBSET Paths, operators : OperatorSets]
      /\ flags' \subseteq Simple \cup {"poll", "update"}
  BY <1>1 DEF WorkbenchTypeOK
<1>. QED BY <1>3, <1>4, <1>5, <1>6, AsidePreserves

\* An offer stands when neither the dialog is opened nor the installation ends.
LEMMA OfferStays ==
    ASSUME WorkbenchIInv, workbench.panics = 0, update' = update,
           "update" \in dialogs' => "update" \in dialogs,
           Task("apply") \in DOMAIN jobs => Task("apply") \in DOMAIN jobs'
    PROVE  Offered'
BY DEF WorkbenchIInv, Offered

LEMMA SelectPreserves == ASSUME WorkbenchIInv, NEW i \in 0..(NumPaths - 1), Select(i) PROVE WorkbenchIInv'
<1>. DEFINE list == rows.files
            new == SpawnInspection(list, i)
<1>1. WorkbenchTypeOK BY DEF WorkbenchIInv
<1>2. /\ workbench.keys < MaxKeys /\ i + 1 \in DOMAIN list /\ workbench' = Counted
      /\ rows' = [rows EXCEPT !.sel = i] /\ inspect' = RequestInspection(list, i)
      /\ jobs' = Start(jobs, new) /\ UNCHANGED <<disk, health, flags, dialogs, update>>
  BY DEF Select, Key, Pressed
<1>3. /\ workbench' \in Histories /\ workbench'.panics = workbench.panics
      /\ workbench'.shifted = workbench.shifted
  BY <1>1, <1>2, CountedShape
<1>4. /\ list \in Seq(Paths) /\ Len(list) <= NumPaths /\ i \in Nat /\ NumPaths \in Nat
      /\ rows \in [files : Seq(Paths), sel : 0..NumPaths]
  BY <1>1, WorkbenchAssumption DEF WorkbenchIInv, WorkbenchTypeOK
<1>5. i < Len(list) /\ i \in 0..NumPaths BY <1>2, <1>4
<1>6. rows' \in [files : Seq(Paths), sel : 0..NumPaths] /\ rows'.files = list /\ rows'.sel = i
  BY <1>2, <1>4, <1>5
<1>. HIDE DEF list
<1>7. /\ inspect' \in [flight : 0..NumPaths, key : Paths \cup {NoPath}, shows : Paths \cup {NoPath}]
      /\ new \subseteq Inspections
  BY <1>1, <1>2, <1>4, <1>5, RequestShape
<1>8. IsABag(jobs) /\ DOMAIN jobs \subseteq Tasks BY <1>1 DEF WorkbenchTypeOK
<1>9. IsABag(jobs') /\ DOMAIN jobs' = DOMAIN jobs \cup new BY <1>2, <1>8, StartShape
<1>10. DOMAIN jobs' \subseteq Tasks BY <1>7, <1>8, <1>9, TaskKinds
<1>11. WorkbenchTypeOK'
  BY <1>1, <1>2, <1>3, <1>5, <1>6, <1>7, <1>9, <1>10 DEF WorkbenchTypeOK, Histories
<1>12. ASSUME workbench.panics = 0 PROVE Guarded(jobs', flags')
  <2>1. \A k \in Simple \cup {"check", "apply"} : Task(k) \notin new
    BY <1>7, TaskKinds DEF Simple
  <2>2. Guarded(jobs, flags) BY <1>12 DEF WorkbenchIInv
  <2>. HIDE DEF new
  <2>3. Guarded(Start(jobs, new), flags) BY <1>8, <2>1, <2>2, StartGuarded
  <2>. QED BY <1>2, <2>3
<1>13. workbench.panics = 0 => Offered' BY <1>2, <1>9, OfferStays
<1>14. ASSUME workbench.panics = 0, ~workbench.shifted PROVE Inspecting(jobs', rows'.files, inspect')
  <2>1. Inspecting(jobs, rows.files, inspect) BY <1>14 DEF WorkbenchIInv
  <2>2. Inspecting(Start(jobs, {} \cup SpawnInspection(list, i)), list, RequestInspection(list, i))
    BY <1>1, <1>4, <1>5, <1>8, <2>1, RequestFollows DEF list
  <2>. QED BY <1>2, <1>6, <2>2
<1>. QED BY <1>2, <1>3, <1>4, <1>6, <1>11, <1>12, <1>13, <1>14 DEF WorkbenchIInv

LEMMA RefreshHistory ==
    ASSUME NEW w \in Histories, NEW list, w.panics = workbench.panics, w.shifted = workbench.shifted,
           workbench' = [w EXCEPT !.shifted = @ \/ Shifts(list)]
    PROVE  /\ workbench' \in Histories /\ workbench'.panics = workbench.panics
           /\ ~workbench'.shifted => ~workbench.shifted /\ ~Shifts(list)
<1>. DEFINE b == Shifts(list)
<1>1. b \in BOOLEAN BY DEF Shifts
<1>2. workbench' = [w EXCEPT !.shifted = @ \/ b] OBVIOUS
<1>. HIDE DEF b
<1>3. workbench' = [w EXCEPT !.shifted = (w.shifted \/ b)] BY <1>2
<1>. DEFINE c == w.shifted \/ b
<1>4. c \in BOOLEAN /\ (~c => ~w.shifted /\ ~b) OBVIOUS
<1>5. workbench' = [w EXCEPT !.shifted = c] BY <1>3
<1>. HIDE DEF c
<1>6. workbench' \in Histories /\ workbench'.panics = w.panics /\ workbench'.shifted = c
  BY <1>4, <1>5 DEF Histories
<1>. QED BY <1>4, <1>6 DEF b

\* The three keys that read the local state again, with the tasks as they are.
LEMMA KeyRefreshPreserves ==
    ASSUME WorkbenchIInv, NEW S \in SUBSET Paths, NEW after, workbench.keys < MaxKeys,
           after \subseteq Polls \cup {Task("explorer")}, Task("explorer") \in after => "explorer" \notin flags,
           RefreshLocalState(ListTracked(S), jobs, flags, after),
           disk' \in [tracked : SUBSET Paths, operators : OperatorSets],
           dialogs' \subseteq dialogs, update' = update,
           workbench' = [Counted EXCEPT !.shifted = @ \/ Shifts(ListTracked(S))]
    PROVE  WorkbenchIInv'
<1>1. WorkbenchTypeOK BY DEF WorkbenchIInv
<1>2. /\ workbench' \in Histories /\ workbench'.panics = workbench.panics
      /\ ~workbench'.shifted => ~workbench.shifted /\ ~Shifts(ListTracked(S))
  BY <1>1, CountedShape, RefreshHistory
<1>3. IsABag(jobs) BY <1>1 DEF WorkbenchTypeOK
<1>4. /\ workbench.panics = 0 => Guarded(jobs, flags)
      /\ workbench.panics = 0 /\ ~workbench.shifted => Inspecting(jobs, rows.files, inspect)
  BY DEF WorkbenchIInv
<1>. QED BY <1>2, <1>3, <1>4, RefreshPreserves

LEMMA TrackPreserves == ASSUME WorkbenchIInv, NEW p \in Paths, TrackFile(p) PROVE WorkbenchIInv'
<1>. DEFINE S == disk.tracked \cup {p}
<1>1. disk \in [tracked : SUBSET Paths, operators : OperatorSets] BY DEF WorkbenchIInv, WorkbenchTypeOK
<1>2. /\ workbench.keys < MaxKeys /\ disk' = [disk EXCEPT !.tracked = S]
      /\ RefreshLocalState(ListTracked(S), jobs, flags, {})
      /\ workbench' = [Counted EXCEPT !.shifted = @ \/ Shifts(ListTracked(S))]
      /\ dialogs' \subseteq dialogs /\ update' = update
  BY DEF TrackFile, Pressed
<1>3. S \in SUBSET Paths /\ disk' \in [tracked : SUBSET Paths, operators : OperatorSets] BY <1>1, <1>2
<1>. HIDE DEF S
<1>. QED BY <1>2, <1>3, KeyRefreshPreserves

LEMMA UntrackPreserves == ASSUME WorkbenchIInv, UntrackSelectedFile PROVE WorkbenchIInv'
<1>. DEFINE S == disk.tracked \ {Shown(rows.files, rows.sel)}
<1>1. disk \in [tracked : SUBSET Paths, operators : OperatorSets] BY DEF WorkbenchIInv, WorkbenchTypeOK
<1>2. /\ workbench.keys < MaxKeys /\ disk' = [disk EXCEPT !.tracked = S]
      /\ RefreshLocalState(ListTracked(S), jobs, flags, {})
      /\ workbench' = [Counted EXCEPT !.shifted = @ \/ Shifts(ListTracked(S))]
      /\ dialogs' \subseteq dialogs /\ update' = update
  BY DEF UntrackSelectedFile, Pressed
<1>3. S \in SUBSET Paths /\ disk' \in [tracked : SUBSET Paths, operators : OperatorSets] BY <1>1, <1>2
<1>. HIDE DEF S
<1>. QED BY <1>2, <1>3, KeyRefreshPreserves

LEMMA ForceRefreshPreserves == ASSUME WorkbenchIInv, ForceRefresh PROVE WorkbenchIInv'
<1>. DEFINE S == disk.tracked
            after == SpawnOperatorPoll(disk.operators) \cup Spawn("explorer")
<1>1. disk \in [tracked : SUBSET Paths, operators : OperatorSets] BY DEF WorkbenchIInv, WorkbenchTypeOK
<1>2. /\ workbench.keys < MaxKeys /\ disk' = disk
      /\ RefreshLocalState(ListTracked(S), jobs, flags, after)
      /\ workbench' = [Counted EXCEPT !.shifted = @ \/ Shifts(ListTracked(S))]
      /\ dialogs' \subseteq dialogs /\ update' = update
  BY DEF ForceRefresh, Pressed
<1>3. after \subseteq Polls \cup {Task("explorer")}
  BY <1>1 DEF SpawnOperatorPoll, Spawn, Polls
<1>4. Task("explorer") \in after => "explorer" \notin flags
  <2>1. Task("explorer") \notin SpawnOperatorPoll(disk.operators)
    BY TaskKinds DEF SpawnOperatorPoll, Simple
  <2>. QED BY <2>1 DEF Spawn, SimpleFree
<1>. HIDE DEF after
<1>. QED BY <1>1, <1>2, <1>3, <1>4, KeyRefreshPreserves

LEMMA OutsidePreserves ==
    ASSUME WorkbenchIInv, NEW S \in SUBSET Paths, NEW o \in OperatorSets, OutsideChange(S, o)
    PROVE  WorkbenchIInv'
<1>1. WorkbenchTypeOK BY DEF WorkbenchIInv
<1>2. /\ workbench.keys < MaxKeys /\ disk' = [tracked |-> S, operators |-> o] /\ workbench' = Counted
      /\ UNCHANGED <<rows, inspect, health, flags, jobs, dialogs, update>>
  BY DEF OutsideChange
<1>3. /\ workbench' \in Histories /\ workbench'.panics = workbench.panics
      /\ workbench'.shifted = workbench.shifted
  BY <1>1, <1>2, CountedShape
<1>4. WorkbenchTypeOK' BY <1>1, <1>2, <1>3 DEF WorkbenchTypeOK, Histories
<1>. QED BY <1>2, <1>3, <1>4 DEF WorkbenchIInv, Offered

\* The keys that start one task of a simple kind, and what they may do to dialogs.
LEMMA SpawnPreserves ==
    ASSUME WorkbenchIInv, NEW k \in Simple, workbench.keys < MaxKeys, workbench' = Counted,
           jobs' = Start(jobs, Spawn(k)), flags' = flags \cup {k}, UNCHANGED <<disk, rows, inspect, health, update>>,
           dialogs' \subseteq Dialogs, "update" \in dialogs' => "update" \in dialogs
    PROVE  WorkbenchIInv'
<1>1. WorkbenchTypeOK BY DEF WorkbenchIInv
<1>2. Spawn(k) \subseteq {Task(k)} /\ (Spawn(k) # {} => k \notin flags) BY DEF Spawn, SimpleFree
<1>3. k \notin {"check", "apply", "inspect"} BY DEF Simple
<1>4. Spawn(k) \subseteq Tasks /\ \A job \in Spawn(k) : job.kind # "inspect" BY <1>2, <1>3, TaskKinds
<1>5. \A l \in Simple : Task(l) \in Spawn(k) => l = k /\ k \notin flags BY <1>2, TaskKinds
<1>6. Task("check") \notin Spawn(k) /\ Task("apply") \notin Spawn(k) BY <1>2, <1>3, TaskKinds
<1>7. DOMAIN jobs' = DOMAIN jobs \cup Spawn(k)
  <2>1. IsABag(jobs) BY <1>1 DEF WorkbenchTypeOK
  <2>. QED BY <2>1, StartShape
<1>8. workbench.panics = 0 => Offered' BY <1>7, OfferStays
<1>9. update' \in [pending : BOOLEAN, installing : BOOLEAN] BY <1>1 DEF WorkbenchTypeOK
<1>. QED BY <1>4, <1>5, <1>6, <1>8, <1>9, StartPreserves

LEMMA SimpleKeysPreserve ==
    ASSUME WorkbenchIInv, (\E k \in Simple : PressTask(k)) \/ OpenSearch \/ Search
    PROVE  WorkbenchIInv'
<1>1. dialogs \subseteq Dialogs BY DEF WorkbenchIInv, WorkbenchTypeOK
<1>2. CASE \E k \in Simple : PressTask(k)
  <2>1. PICK k \in Simple : PressTask(k) BY <1>2
  <2>. QED BY <1>1, <2>1, SpawnPreserves DEF PressTask, Key, Pressed
<1>3. CASE OpenSearch
  <2>1. "explorer" \in Simple /\ {"search"} \subseteq Dialogs BY DEF Simple, Dialogs
  <2>. QED BY <1>3, <2>1, SpawnPreserves DEF OpenSearch, Key, Pressed
<1>4. CASE Search
  <2>1. "probe" \in Simple BY DEF Simple
  <2>. QED BY <1>1, <1>4, <2>1, SpawnPreserves DEF Search, Pressed
<1>. QED BY <1>2, <1>3, <1>4

LEMMA TimedPollPreserves == ASSUME WorkbenchIInv, TimedPoll PROVE WorkbenchIInv'
<1>. DEFINE new == SpawnOperatorPoll(health.operators)
<1>1. WorkbenchTypeOK BY DEF WorkbenchIInv
<1>2. /\ workbench.keys < MaxKeys /\ workbench' = Counted /\ jobs' = Start(jobs, new)
      /\ flags' = flags \cup {"poll"} /\ UNCHANGED <<disk, rows, inspect, health, dialogs, update>>
  BY DEF TimedPoll, Pressed
<1>3. new \subseteq Polls
  <2>1. health.operators \in OperatorSets BY <1>1 DEF WorkbenchTypeOK
  <2>. QED BY <2>1 DEF SpawnOperatorPoll, Polls
<1>. HIDE DEF new
<1>4. new \subseteq Tasks /\ \A job \in new : job.kind = "poll" BY <1>3, TaskKinds
<1>5. \A k \in Simple \cup {"check", "apply"} : Task(k) \notin new BY <1>4, TaskKinds DEF Simple
<1>6. DOMAIN jobs' = DOMAIN jobs \cup new
  <2>1. IsABag(jobs) BY <1>1 DEF WorkbenchTypeOK
  <2>. QED BY <1>2, <2>1, StartShape
<1>7. workbench.panics = 0 => Offered' BY <1>2, <1>6, OfferStays
<1>8. dialogs' \subseteq Dialogs /\ update' \in [pending : BOOLEAN, installing : BOOLEAN]
  BY <1>1, <1>2 DEF WorkbenchTypeOK
<1>. QED BY <1>2, <1>4, <1>5, <1>7, <1>8, StartPreserves

LEMMA UpdateKeysPreserve ==
    ASSUME WorkbenchIInv, SpawnUpdateCheck \/ SpawnUpdateApply PROVE WorkbenchIInv'
<1>1. WorkbenchTypeOK BY DEF WorkbenchIInv
<1>2. /\ Task("check") \in Tasks /\ Task("apply") \in Tasks /\ Task("check") # Task("apply")
      /\ Task("check").kind = "check" /\ Task("apply").kind = "apply"
      /\ \A k \in Simple : Task(k) # Task("check") /\ Task(k) # Task("apply")
  BY TaskKinds DEF Simple
<1>3. dialogs \subseteq Dialogs /\ update \in [pending : BOOLEAN, installing : BOOLEAN] /\ IsABag(jobs)
  BY <1>1 DEF WorkbenchTypeOK
<1>4. CASE SpawnUpdateCheck
  <2>. DEFINE new == {Task("check")}
  <2>1. /\ workbench.keys < MaxKeys /\ workbench' = Counted /\ jobs' = Start(jobs, new)
        /\ "update" \notin flags /\ flags' = flags \cup {"update"}
        /\ UNCHANGED <<disk, rows, inspect, health, dialogs, update>>
    BY <1>4 DEF SpawnUpdateCheck, Pressed
  <2>2. DOMAIN jobs' = DOMAIN jobs \cup new BY <1>3, <2>1, StartShape
  <2>3. workbench.panics = 0 => Offered' BY <2>1, <2>2, OfferStays
  <2>4. /\ new \subseteq Tasks /\ \A job \in new : job.kind # "inspect"
        /\ \A k \in Simple : Task(k) \in new => k = "update" /\ "update" \notin flags
        /\ Task("apply") \notin new
    BY <1>2
  <2>5. \A k \in {"check", "apply"} : Task(k) \in new => "update" = "update" /\ "update" \notin flags
    BY <2>1
  <2>. HIDE DEF new
  <2>. QED BY <1>3, <2>1, <2>3, <2>4, <2>5, StartPreserves
<1>5. CASE SpawnUpdateApply
  <2>. DEFINE new == {Task("apply")}
  <2>1. /\ workbench.keys < MaxKeys /\ workbench' = Counted /\ jobs' = Start(jobs, new)
        /\ "update" \notin flags /\ flags' = flags \cup {"update"}
        /\ update' = [pending |-> FALSE, installing |-> TRUE]
        /\ UNCHANGED <<disk, rows, inspect, health, dialogs>>
    BY <1>5 DEF SpawnUpdateApply, Pressed
  <2>2. DOMAIN jobs' = DOMAIN jobs \cup new BY <1>3, <2>1, StartShape
  <2>3. Offered' /\ update' \in [pending : BOOLEAN, installing : BOOLEAN] BY <2>1, <2>2 DEF Offered
  <2>4. /\ new \subseteq Tasks /\ \A job \in new : job.kind # "inspect"
        /\ \A k \in Simple : Task(k) \in new => k = "update" /\ "update" \notin flags
        /\ Task("check") \notin new
    BY <1>2
  <2>5. \A k \in {"check", "apply"} : Task(k) \in new => "update" = "update" /\ "update" \notin flags
    BY <2>1
  <2>. HIDE DEF new
  <2>. QED BY <1>3, <2>1, <2>3, <2>4, <2>5, StartPreserves
<1>. QED BY <1>4, <1>5

LEMMA DialogsPreserve ==
    ASSUME WorkbenchIInv, (\E d \in Dialogs : OpenDialog(d)) \/ CloseDialog \/ Quit
    PROVE  WorkbenchIInv'
<1>1. WorkbenchTypeOK BY DEF WorkbenchIInv
<1>2. UNCHANGED <<disk, rows, inspect, health, flags, jobs, update>>
  BY DEF OpenDialog, CloseDialog, Quit
<1>3. dialogs' \subseteq Dialogs /\ ("update" \in dialogs' => "update" \in dialogs)
  BY <1>1 DEF OpenDialog, CloseDialog, Quit, WorkbenchTypeOK, Dialogs
<1>4. /\ workbench' \in Histories /\ workbench'.panics = workbench.panics
      /\ workbench'.shifted = workbench.shifted
  <2>1. workbench \in Histories BY <1>1 DEF WorkbenchTypeOK, Histories
  <2>2. CASE \E d \in Dialogs : OpenDialog(d) BY <1>1, <2>2, CountedShape DEF OpenDialog, Key, Pressed
  <2>3. CASE CloseDialog BY <2>1, <2>3 DEF CloseDialog
  <2>4. CASE Quit
    <3>1. Counted \in Histories /\ Counted.panics = workbench.panics /\ Counted.shifted = workbench.shifted
      BY <1>1, <2>4, CountedShape DEF Quit, Pressed
    <3>2. workbench' = [Counted EXCEPT !.quit = TRUE] BY <2>4 DEF Quit
    <3>. QED BY <3>1, <3>2 DEF Histories
  <2>. QED BY <2>2, <2>3, <2>4
<1>5. WorkbenchTypeOK' BY <1>1, <1>2, <1>3, <1>4 DEF WorkbenchTypeOK, Histories
<1>6. workbench.panics = 0 => Offered' BY <1>2, <1>3, OfferStays
<1>. QED BY <1>2, <1>4, <1>5, <1>6 DEF WorkbenchIInv

LEMMA PolledPreserves ==
    ASSUME WorkbenchIInv, NEW job \in DOMAIN jobs, OperatorsPolled(job) PROVE WorkbenchIInv'
<1>1. WorkbenchTypeOK BY DEF WorkbenchIInv
<1>2. /\ job.kind = "poll" /\ flags' = flags \ {"poll"} /\ jobs' = Rest(job)
      /\ health' = IF job.operators = health.operators
                   THEN [health EXCEPT !.probed = {job.operators}, !.echo = FALSE] ELSE health
  BY DEF OperatorsPolled
<1>3. UNCHANGED <<disk, rows, inspect, dialogs, update, workbench>> BY DEF OperatorsPolled
<1>4. IsABag(jobs) /\ job \in Tasks BY <1>1 DEF WorkbenchTypeOK
<1>5. job.operators \in OperatorSets BY <1>2, <1>4, TaskKinds
<1>6. /\ health' \in [operators : OperatorSets, probed : SUBSET OperatorSets, echo : BOOLEAN]
      /\ health'.probed \subseteq {health'.operators}
  <2>1. /\ health \in [operators : OperatorSets, probed : SUBSET OperatorSets, echo : BOOLEAN]
        /\ health.probed \subseteq {health.operators}
    BY <1>1 DEF WorkbenchTypeOK, WorkbenchIInv
  <2>. QED BY <1>2, <1>5, <2>1
<1>7. Task("apply") # job BY <1>2, TaskKinds
<1>8. Task("apply") \in DOMAIN jobs => Task("apply") \in DOMAIN jobs' BY <1>2, <1>4, <1>7, RestShape
<1>9. workbench.panics = 0 => Offered' BY <1>3, <1>8, OfferStays
<1>10. \A k \in Simple : k \notin {"poll"} BY DEF Simple
<1>11. /\ dialogs' \subseteq Dialogs /\ update' \in [pending : BOOLEAN, installing : BOOLEAN]
       /\ workbench' \in Histories
  BY <1>1, <1>3 DEF WorkbenchTypeOK, Histories
<1>. QED BY <1>2, <1>3, <1>6, <1>9, <1>10, <1>11, LandPreserves

LEMMA SimplePreserves ==
    ASSUME WorkbenchIInv, NEW job \in DOMAIN jobs, SimpleFinished(job) PROVE WorkbenchIInv'
<1>1. WorkbenchTypeOK BY DEF WorkbenchIInv
<1>2. /\ job.kind \in Simple /\ flags' = flags \ {job.kind} /\ jobs' = Rest(job)
      /\ UNCHANGED <<disk, rows, inspect, health, dialogs, update, workbench>>
  BY DEF SimpleFinished
<1>3. IsABag(jobs) /\ job \in Tasks BY <1>1 DEF WorkbenchTypeOK
<1>4. job = Task(job.kind) /\ job.kind \notin {"inspect", "apply", "update"}
  BY <1>2, <1>3, TaskKinds DEF Simple
<1>5. Task("apply") # job BY <1>4, TaskKinds
<1>6. Task("apply") \in DOMAIN jobs => Task("apply") \in DOMAIN jobs' BY <1>2, <1>3, <1>5, RestShape
<1>7. workbench.panics = 0 => Offered' BY <1>2, <1>6, OfferStays
<1>8. /\ dialogs' \subseteq Dialogs /\ update' \in [pending : BOOLEAN, installing : BOOLEAN]
      /\ workbench' \in Histories
      /\ health' \in [operators : OperatorSets, probed : SUBSET OperatorSets, echo : BOOLEAN]
  BY <1>1, <1>2 DEF WorkbenchTypeOK, Histories
<1>9. health'.probed \subseteq {health'.operators} BY <1>2 DEF WorkbenchIInv
<1>10. \A k \in Simple : k \in {job.kind} => job = Task(k) BY <1>4
<1>. QED BY <1>2, <1>4, <1>7, <1>8, <1>9, <1>10, LandPreserves

LEMMA WorkPreserves ==
    ASSUME WorkbenchIInv, NEW job \in DOMAIN jobs, WorkFinished(job) PROVE WorkbenchIInv'
<1>. DEFINE S == disk.tracked
            free == {job.kind}
<1>1. WorkbenchTypeOK BY DEF WorkbenchIInv
<1>2. /\ job.kind \in {"push", "anchor"} /\ RefreshLocalState(ListTracked(S), Rest(job), flags \ free, {})
      /\ workbench' = [workbench EXCEPT !.shifted = @ \/ Shifts(ListTracked(S))]
      /\ UNCHANGED <<disk, dialogs, update>>
  BY DEF WorkFinished
<1>3. /\ IsABag(jobs) /\ job \in Tasks /\ S \in SUBSET Paths /\ workbench \in Histories
      /\ disk' \in [tracked : SUBSET Paths, operators : OperatorSets]
  BY <1>1, <1>2 DEF WorkbenchTypeOK, Histories
<1>4. job = Task(job.kind) /\ job.kind \notin {"inspect", "apply", "update"}
  BY <1>2, <1>3, TaskKinds DEF Simple
<1>5. Task("apply") # job BY <1>4, TaskKinds
<1>6. /\ IsABag(Rest(job)) /\ DOMAIN Rest(job) \subseteq DOMAIN jobs
      /\ Task("apply") \in DOMAIN jobs => Task("apply") \in DOMAIN Rest(job)
  BY <1>3, <1>5, RestShape
<1>7. /\ workbench' \in Histories /\ workbench'.panics = workbench.panics
      /\ ~workbench'.shifted => ~workbench.shifted /\ ~Shifts(ListTracked(S))
  BY <1>2, <1>3, RefreshHistory
<1>8. ASSUME workbench.panics = 0 PROVE Guarded(Rest(job), flags \ free)
  <2>1. Guarded(jobs, flags) BY <1>8 DEF WorkbenchIInv
  <2>2. (\A k \in Simple : k \in free => job = Task(k)) /\ "update" \notin free BY <1>4
  <2>. QED BY <1>3, <2>1, <2>2, RestGuarded
<1>9. ASSUME workbench.panics = 0, ~workbench.shifted PROVE Inspecting(Rest(job), rows.files, inspect)
  <2>1. Inspecting(jobs, rows.files, inspect) BY <1>9 DEF WorkbenchIInv
  <2>. QED BY <1>3, <1>4, <2>1, RestFollows
<1>. HIDE DEF S, free
<1>. QED BY <1>2, <1>3, <1>6, <1>7, <1>8, <1>9, RefreshPreserves

LEMMA CheckedPreserves ==
    ASSUME WorkbenchIInv, NEW job \in DOMAIN jobs, NEW found \in BOOLEAN, UpdateChecked(job, found)
    PROVE  WorkbenchIInv'
<1>1. WorkbenchTypeOK BY DEF WorkbenchIInv
<1>2. /\ job.kind = "check" /\ flags' = flags \ {"update"} /\ jobs' = Rest(job)
      /\ update' = [update EXCEPT !.pending = @ \/ found]
      /\ dialogs' = IF found THEN dialogs \cup {"update"} ELSE dialogs
  BY DEF UpdateChecked
<1>3. UNCHANGED <<disk, rows, inspect, health, workbench>> BY DEF UpdateChecked
<1>4. IsABag(jobs) /\ job \in Tasks /\ update \in [pending : BOOLEAN, installing : BOOLEAN]
  BY <1>1 DEF WorkbenchTypeOK
<1>5. job = Task("check") /\ Task("apply") # job BY <1>2, <1>4, TaskKinds
<1>6. Task("apply") \in DOMAIN jobs => Task("apply") \in DOMAIN jobs' BY <1>2, <1>4, <1>5, RestShape
<1>. DEFINE p == update.pending \/ found
<1>7. /\ p \in BOOLEAN /\ update' = [update EXCEPT !.pending = p]
      /\ (update.pending => p) /\ (found => p)
  BY <1>2
<1>. HIDE DEF p
<1>8. /\ update' \in [pending : BOOLEAN, installing : BOOLEAN] /\ update'.pending = p
      /\ update'.installing = update.installing
  BY <1>4, <1>7
<1>9. ASSUME workbench.panics = 0 PROVE Offered'
  <2>1. Offered BY <1>9 DEF WorkbenchIInv
  <2>2. "update" \in dialogs' => found \/ "update" \in dialogs BY <1>2
  <2>. QED BY <1>6, <1>7, <1>8, <2>1, <2>2 DEF Offered
<1>10. \A k \in Simple : k \notin {"update"} BY DEF Simple
<1>11. /\ dialogs' \subseteq Dialogs /\ workbench' \in Histories
       /\ health' \in [operators : OperatorSets, probed : SUBSET OperatorSets, echo : BOOLEAN]
  BY <1>1, <1>2, <1>3 DEF WorkbenchTypeOK, Histories, Dialogs
<1>12. health'.probed \subseteq {health'.operators} BY <1>3 DEF WorkbenchIInv
<1>. QED BY <1>2, <1>3, <1>5, <1>8, <1>9, <1>10, <1>11, <1>12, LandPreserves

LEMMA AppliedPreserves ==
    ASSUME WorkbenchIInv, NEW job \in DOMAIN jobs, NEW outcome \in {"installed", "restart", "failed"},
           UpdateApplied(job, outcome)
    PROVE  WorkbenchIInv'
<1>1. WorkbenchTypeOK BY DEF WorkbenchIInv
<1>2. /\ job.kind = "apply" /\ flags' = flags \ {"update"} /\ jobs' = Rest(job)
      /\ update' = IF outcome = "failed" THEN UpdateFailed ELSE [update EXCEPT !.installing = FALSE]
      /\ dialogs' = IF outcome = "failed" THEN dialogs ELSE dialogs \ {"update"}
      /\ workbench' = [workbench EXCEPT !.quit = @ \/ outcome = "restart"]
  BY DEF UpdateApplied
<1>3. UNCHANGED <<disk, rows, inspect, health>> BY DEF UpdateApplied
<1>4. IsABag(jobs) /\ job \in Tasks /\ update \in [pending : BOOLEAN, installing : BOOLEAN]
  BY <1>1 DEF WorkbenchTypeOK
<1>5. job = Task("apply") BY <1>2, <1>4, TaskKinds
<1>6. /\ update' \in [pending : BOOLEAN, installing : BOOLEAN] /\ update'.installing = FALSE
      /\ outcome = "failed" => update'.pending = TRUE
  BY <1>2, <1>4 DEF UpdateFailed
<1>7. Offered' BY <1>2, <1>6 DEF Offered
<1>8. /\ workbench' \in Histories /\ workbench'.panics = workbench.panics
      /\ workbench'.shifted = workbench.shifted
  <2>1. workbench \in Histories BY <1>1 DEF WorkbenchTypeOK, Histories
  <2>. DEFINE q == workbench.quit \/ outcome = "restart"
  <2>2. q \in BOOLEAN /\ workbench' = [workbench EXCEPT !.quit = q] BY <1>2
  <2>. HIDE DEF q
  <2>. QED BY <2>1, <2>2 DEF Histories
<1>9. \A k \in Simple : k \notin {"update"} BY DEF Simple
<1>10. /\ dialogs' \subseteq Dialogs
       /\ health' \in [operators : OperatorSets, probed : SUBSET OperatorSets, echo : BOOLEAN]
  BY <1>1, <1>2, <1>3 DEF WorkbenchTypeOK
<1>11. health'.probed \subseteq {health'.operators} BY <1>3 DEF WorkbenchIInv
<1>. QED BY <1>2, <1>3, <1>5, <1>6, <1>7, <1>8, <1>9, <1>10, <1>11, LandPreserves

LEMMA InspectedPreserves ==
    ASSUME WorkbenchIInv, NEW job \in DOMAIN jobs, NEW ok \in BOOLEAN, Inspected(job, ok)
    PROVE  WorkbenchIInv'
<1>1. WorkbenchTypeOK BY DEF WorkbenchIInv
<1>2. /\ job.kind = "inspect" /\ jobs' = Rest(job)
      /\ inspect' = IF ~InspectionWanted(job) THEN inspect
                    ELSE IF ok THEN [inspect EXCEPT !.flight = 0, !.shows = job.path]
                    ELSE [flight |-> 0, key |-> NoPath, shows |-> NoPath]
  BY DEF Inspected
<1>3. UNCHANGED <<disk, rows, health, flags, dialogs, update, workbench>> BY DEF Inspected
<1>4. /\ IsABag(jobs) /\ job \in Tasks /\ NumPaths \in Nat
      /\ inspect \in [flight : 0..NumPaths, key : Paths \cup {NoPath}, shows : Paths \cup {NoPath}]
  BY <1>1, WorkbenchAssumption DEF WorkbenchTypeOK
<1>5. job.row \in Paths /\ job.path \in Paths BY <1>2, <1>4, TaskKinds
<1>6. /\ IsABag(jobs') /\ DOMAIN jobs' \subseteq DOMAIN jobs
      /\ \A other \in DOMAIN jobs : other # job => other \in DOMAIN jobs'
  BY <1>2, <1>4, RestShape
<1>7. inspect' \in [flight : 0..NumPaths, key : Paths \cup {NoPath}, shows : Paths \cup {NoPath}]
  <2>. DEFINE Inspectors == [flight : 0..NumPaths, key : Paths \cup {NoPath}, shows : Paths \cup {NoPath}]
  <2>1. 0 \in 0..NumPaths BY <1>4
  <2>2. [inspect EXCEPT !.flight = 0, !.shows = job.path] \in Inspectors BY <1>4, <1>5, <2>1
  <2>3. [flight |-> 0, key |-> NoPath, shows |-> NoPath] \in Inspectors BY <2>1
  <2>. HIDE DEF Inspectors
  <2>4. inspect \in Inspectors BY <1>4 DEF Inspectors
  <2>5. inspect' \in Inspectors BY <1>2, <2>2, <2>3, <2>4
  <2>. QED BY <2>5 DEF Inspectors
<1>8. WorkbenchTypeOK'
  <2>1. DOMAIN jobs' \subseteq Tasks BY <1>1, <1>6 DEF WorkbenchTypeOK
  <2>. QED BY <1>1, <1>3, <1>6, <1>7, <2>1 DEF WorkbenchTypeOK
<1>9. Task("apply") # job BY <1>2, TaskKinds
<1>10. workbench.panics = 0 => Offered' BY <1>3, <1>6, <1>9, OfferStays
<1>11. ASSUME workbench.panics = 0 PROVE Guarded(jobs', flags')
  <2>1. Guarded(jobs, flags) BY <1>11 DEF WorkbenchIInv
  <2>2. Guarded(Rest(job), flags \ {}) BY <1>4, <2>1, RestGuarded
  <2>. QED BY <1>2, <1>3, <2>2
<1>12. ASSUME workbench.panics = 0, ~workbench.shifted PROVE Inspecting(jobs', rows.files, inspect')
  <2>1. Inspecting(jobs, rows.files, inspect) BY <1>12 DEF WorkbenchIInv
  <2>2. CASE ~InspectionWanted(job)
    <3>1. inspect' = inspect /\ inspect.flight # job.row BY <1>2, <2>2 DEF InspectionWanted
    <3>2. Inspecting(Rest(job), rows.files, inspect) BY <1>4, <2>1, <3>1, RestFollows
    <3>. QED BY <1>2, <3>1, <3>2
  <2>3. CASE InspectionWanted(job)
    <3>1. inspect.flight = job.row /\ inspect.flight # 0 BY <1>5, <2>3 DEF InspectionWanted, Paths
    <3>2. job.path = inspect.key BY <1>2, <2>1, <3>1 DEF Inspecting
    <3>3. inspect'.flight = 0 /\ (inspect'.shows = NoPath \/ inspect'.shows = inspect'.key)
      BY <1>2, <1>4, <2>3, <3>2
    <3>. QED BY <1>6, <2>1, <3>3 DEF Inspecting
  <2>. QED BY <2>2, <2>3
<1>. QED BY <1>3, <1>8, <1>10, <1>11, <1>12 DEF WorkbenchIInv

LEMMA PanicPreserves ==
    ASSUME WorkbenchIInv, NEW job \in DOMAIN jobs, TaskPanics(job) PROVE WorkbenchIInv'
<1>1. WorkbenchTypeOK BY DEF WorkbenchIInv
<1>2. /\ workbench.panics < MaxPanics /\ flags' = {} /\ inspect' = [inspect EXCEPT !.flight = 0]
      /\ update' = [update EXCEPT !.installing = FALSE] /\ jobs' = Rest(job)
      /\ workbench' = [workbench EXCEPT !.panics = workbench.panics + 1]
      /\ UNCHANGED <<disk, rows, health, dialogs>>
  BY DEF TaskPanics
<1>3. /\ IsABag(jobs) /\ DOMAIN jobs \subseteq Tasks /\ workbench \in Histories /\ NumPaths \in Nat /\ MaxPanics \in Nat
      /\ inspect \in [flight : 0..NumPaths, key : Paths \cup {NoPath}, shows : Paths \cup {NoPath}]
      /\ update \in [pending : BOOLEAN, installing : BOOLEAN]
  BY <1>1, WorkbenchAssumption DEF WorkbenchTypeOK, Histories
<1>4. IsABag(jobs') /\ DOMAIN jobs' \subseteq Tasks BY <1>2, <1>3, RestShape
<1>5. inspect' \in [flight : 0..NumPaths, key : Paths \cup {NoPath}, shows : Paths \cup {NoPath}]
  BY <1>2, <1>3
<1>6. update' \in [pending : BOOLEAN, installing : BOOLEAN] BY <1>2, <1>3
<1>7. workbench' \in Histories /\ workbench'.panics # 0
  <2>1. workbench.panics + 1 \in 0..MaxPanics /\ workbench.panics + 1 # 0 BY <1>2, <1>3 DEF Histories
  <2>. QED BY <1>2, <1>3, <2>1 DEF Histories
<1>8. WorkbenchTypeOK' BY <1>1, <1>2, <1>4, <1>5, <1>6, <1>7 DEF WorkbenchTypeOK, Histories
<1>. QED BY <1>2, <1>7, <1>8 DEF WorkbenchIInv

LEMMA WorkbenchInitOK == WorkbenchInit => WorkbenchIInv
<1>. SUFFICES ASSUME WorkbenchInit PROVE WorkbenchIInv OBVIOUS
<1>. DEFINE list == ListTracked(disk.tracked)
            first == IF list = <<>> THEN {} ELSE {[kind |-> "inspect", row |-> 1, path |-> list[1]]}
            poll == [kind |-> "poll", operators |-> disk.operators]
            new == {Task("token"), poll, Task("check")} \cup first
<1>1. /\ disk \in [tracked : {{}, Paths}, operators : {CHOOSE o \in OperatorSets : TRUE}]
      /\ rows = [files |-> list, sel |-> 0]
      /\ inspect = [flight |-> IF list = <<>> THEN 0 ELSE 1, key |-> Shown(list, 0), shows |-> NoPath]
      /\ health = [operators |-> disk.operators, probed |-> {}, echo |-> FALSE]
      /\ flags = {"poll", "token", "update"} /\ jobs = SetToBag(new) /\ dialogs = {}
      /\ update = [pending |-> FALSE, installing |-> FALSE]
      /\ workbench = [quit |-> FALSE, keys |-> 0, panics |-> 0, shifted |-> FALSE]
  BY DEF WorkbenchInit
<1>2. disk \in [tracked : SUBSET Paths, operators : OperatorSets] BY <1>1, WorkbenchAssumption
<1>3. list \in Seq(Paths) /\ Len(list) <= NumPaths /\ Len(list) \in Nat /\ NumPaths \in Nat
  BY <1>2, ListShape, WorkbenchAssumption
<1>. HIDE DEF list
<1>4. list # <<>> => /\ 1 \in DOMAIN list /\ 1 \in Paths /\ 0 < Len(list) /\ list[1] \in Paths
                     /\ Shown(list, 0) = list[1]
  BY <1>3 DEF Paths, Shown
<1>5. first \subseteq Inspections BY <1>4 DEF Inspections
<1>6. poll \in Polls BY <1>2 DEF Polls
<1>7. "token" \in Simple BY DEF Simple
<1>8. /\ jobs = [job \in new |-> 1] /\ IsABag(jobs) /\ DOMAIN jobs = new
  BY <1>1 DEF SetToBag, IsABag
<1>9. \A job \in first : job.kind = "inspect" /\ job.row = 1 /\ list # <<>> /\ job.path = list[1] OBVIOUS
<1>10. list # <<>> => \E job \in first : job.kind = "inspect" /\ job.row = 1 OBVIOUS
<1>. HIDE DEF first, poll
<1>11. new \subseteq Tasks BY <1>5, <1>6, <1>7, TaskKinds
<1>12. WorkbenchTypeOK
  <2>1. rows \in [files : Seq(Paths), sel : 0..NumPaths] /\ (rows.files # <<>> => rows.sel < Len(rows.files))
    BY <1>1, <1>3, <1>4
  <2>2. inspect \in [flight : 0..NumPaths, key : Paths \cup {NoPath}, shows : Paths \cup {NoPath}]
    BY <1>1, <1>3, <1>4 DEF Shown, Paths
  <2>3. workbench \in Histories BY <1>1, WorkbenchAssumption DEF Histories
  <2>4. health \in [operators : OperatorSets, probed : SUBSET OperatorSets, echo : BOOLEAN] BY <1>1, <1>2
  <2>5. flags \subseteq Simple \cup {"poll", "update"} /\ dialogs \subseteq Dialogs BY <1>1, <1>7
  <2>6. update \in [pending : BOOLEAN, installing : BOOLEAN] BY <1>1
  <2>. QED BY <1>2, <1>8, <1>11, <2>1, <2>2, <2>3, <2>4, <2>5, <2>6 DEF WorkbenchTypeOK, Histories
<1>13. Guarded(jobs, flags)
  <2>1. \A k \in Simple \cup {"check", "apply"} : Task(k) \in new => k \in {"token", "check"}
    BY <1>5, <1>6, <1>7, TaskKinds DEF Simple
  <2>2. "check" \notin Simple BY DEF Simple
  <2>. HIDE DEF new
  <2>. QED BY <1>1, <1>8, <2>1, <2>2 DEF Guarded
<1>14. Offered BY <1>1 DEF Offered
<1>15. Inspecting(jobs, rows.files, inspect)
  <2>1. Task("token").kind # "inspect" /\ Task("check").kind # "inspect" /\ poll.kind # "inspect"
    BY <1>6, <1>7, TaskKinds DEF Simple
  <2>2. \A job \in DOMAIN jobs : job.kind = "inspect" => job \in first BY <1>8, <2>1
  <2>3. rows.files = list /\ inspect.key = Shown(list, 0) /\ inspect.shows = NoPath
        /\ (list # <<>> => inspect.flight = 1) /\ (list = <<>> => inspect.flight = 0)
    BY <1>1
  <2>4. first \subseteq DOMAIN jobs BY <1>8
  <2>. QED BY <1>4, <1>9, <1>10, <2>2, <2>3, <2>4 DEF Inspecting
<1>. QED BY <1>1, <1>3, <1>12, <1>13, <1>14, <1>15 DEF WorkbenchIInv

LEMMA WorkbenchStepOK == WorkbenchIInv /\ [WorkbenchNext]_workbenchVars => WorkbenchIInv'
<1>. SUFFICES ASSUME WorkbenchIInv, [WorkbenchNext]_workbenchVars PROVE WorkbenchIInv' OBVIOUS
<1>1. CASE UNCHANGED workbenchVars
  BY <1>1 DEF workbenchVars, WorkbenchIInv, WorkbenchTypeOK, Offered
<1>2. ASSUME NEW i \in 0..(NumPaths - 1), Select(i) PROVE WorkbenchIInv' BY <1>2, SelectPreserves
<1>3. ASSUME NEW p \in Paths, TrackFile(p) PROVE WorkbenchIInv' BY <1>3, TrackPreserves
<1>4. CASE UntrackSelectedFile BY <1>4, UntrackPreserves
<1>5. ASSUME NEW p \in Paths, NEW o \in OperatorSets,
             OutsideChange(disk.tracked \ {p}, o) \/ OutsideChange(disk.tracked \cup {p}, o)
      PROVE  WorkbenchIInv'
  <2>1. disk.tracked \ {p} \in SUBSET Paths /\ disk.tracked \cup {p} \in SUBSET Paths
    BY DEF WorkbenchIInv, WorkbenchTypeOK
  <2>. QED BY <1>5, <2>1, OutsidePreserves
<1>6. CASE (\E k \in Simple : PressTask(k)) \/ OpenSearch \/ Search BY <1>6, SimpleKeysPreserve
<1>7. CASE ForceRefresh BY <1>7, ForceRefreshPreserves
<1>8. CASE TimedPoll BY <1>8, TimedPollPreserves
<1>9. CASE SpawnUpdateCheck \/ SpawnUpdateApply BY <1>9, UpdateKeysPreserve
<1>10. CASE (\E d \in Dialogs : OpenDialog(d)) \/ CloseDialog \/ Quit BY <1>10, DialogsPreserve
<1>11. ASSUME NEW job \in DOMAIN jobs, JobLands(job) PROVE WorkbenchIInv'
  BY <1>11, PolledPreserves, SimplePreserves, WorkPreserves, CheckedPreserves, AppliedPreserves,
     InspectedPreserves, PanicPreserves DEF JobLands
<1>. QED BY <1>1, <1>2, <1>3, <1>4, <1>5, <1>6, <1>7, <1>8, <1>9, <1>10, <1>11 DEF WorkbenchNext

LEMMA WorkbenchIInvSound == WorkbenchIInv => WorkbenchSound
<1>. SUFFICES ASSUME WorkbenchIInv PROVE WorkbenchTypeOK /\ GuardsHold /\ InspectorFollows
  BY DEF WorkbenchSound
<1>1. WorkbenchTypeOK /\ DOMAIN jobs \subseteq Tasks /\ workbench.panics \in Nat
  BY WorkbenchAssumption DEF WorkbenchIInv, WorkbenchTypeOK
<1>2. ASSUME workbench.panics = 0
      PROVE  /\ \A k \in Simple : Alone({k})
             /\ Alone({"check", "apply"})
             /\ "update" \in dialogs => update.pending \/ update.installing
             /\ update.installing => TaskRunning({"apply"}) # {}
  <2>1. Guarded(jobs, flags) /\ Offered BY <1>2 DEF WorkbenchIInv
  <2>2. \A k \in Simple : \A job \in TaskRunning({k}) : job = Task(k) /\ jobs[job] = 1
    BY <1>1, <2>1, TaskKinds DEF TaskRunning, Guarded
  <2>3. \A job \in TaskRunning({"check", "apply"}) :
           (job = Task("check") \/ job = Task("apply")) /\ jobs[job] = 1 /\ job \in DOMAIN jobs
    BY <1>1, <2>1, TaskKinds DEF TaskRunning, Guarded
  <2>4. \A k \in Simple : Alone({k}) BY <2>2 DEF Alone
  <2>5. Alone({"check", "apply"}) BY <2>1, <2>3 DEF Alone, Guarded
  <2>6. update.installing => TaskRunning({"apply"}) # {} BY <2>1, TaskKinds DEF Offered, TaskRunning
  <2>. QED BY <2>1, <2>4, <2>5, <2>6 DEF Offered
<1>3. GuardsHold BY <1>2 DEF GuardsHold, WorkbenchIInv
<1>4. InspectorFollows
  <2>1. CASE workbench.panics = 0 /\ ~workbench.shifted
    BY <2>1 DEF WorkbenchIInv, Inspecting, InspectorFollows
  <2>2. CASE workbench.panics # 0 BY <1>1, <2>2 DEF InspectorFollows
  <2>3. CASE workbench.shifted BY <2>3 DEF InspectorFollows
  <2>. QED BY <2>1, <2>2, <2>3
<1>. QED BY <1>1, <1>3, <1>4

\* Whatever keys are pressed, results land late and other processes change (tui/app.rs,
\* tui/events.rs): until a task panics, at most one push, one anchoring, one
\* check or installation runs, an open update dialog has an update behind it, and
\* an inspector at rest shows the file it was last asked for unless the list
\* changed under an inspection; operators are shown with their own health always.
THEOREM WorkbenchStaysTrue == WorkbenchSpec => []WorkbenchSound
BY WorkbenchInitOK, WorkbenchStepOK, WorkbenchIInvSound, PTL DEF WorkbenchSpec
=============================================================================
