------------------------------ MODULE Keystore ------------------------------
(***************************************************************************)
(* The portable keystore of crates/local-store/src/keyring.rs: the master  *)
(* key that seals every device identity and epoch key at rest.  The key    *)
(* comes from CIPHERVAULT_MASTER_KEY when it is set and otherwise from a   *)
(* key file, which the first process that seals something provisions: a    *)
(* temporary file is written and synced, linked exclusively to the key     *)
(* path, and the directory is synced.  Processes race, die between two     *)
(* steps, and the machine loses power; somebody truncates the key file.    *)
(***************************************************************************)
EXTENDS Naturals, FiniteSets

CONSTANTS
    KeyPaths,        \* where key files may be (CIPHERVAULT_KEYSTORE_PATH, HOME)
    KeyProcs,        \* the processes of this machine that seal secrets
    MaxFileKeys,     \* bound: random keys drawn
    MaxBlobs,        \* bound: secrets sealed
    MaxKeyFaults     \* bound: deaths, power losses, failed syncs and truncations

ASSUME KeystoreAssumption == {MaxFileKeys, MaxKeyFaults} \subseteq Nat

VARIABLES
    keyFiles,    \* path -> the key a reader finds, NoFileKey or Truncated
    keyDisk,     \* path -> the same, as a power loss would leave it
    keyEnv,      \* the environment a new process starts with
    sealers,     \* process -> its step, environment and the key it drew
    blobs,       \* the sealed secrets
    keysDrawn, keyFaults
keystoreVars ==
    <<keyFiles, keyDisk, keyEnv, sealers, blobs, keysDrawn, keyFaults>>

NoFileKey == <<"missing">>
Truncated == <<"truncated">>
Refused   == <<"refused">>
FileKey(n) == <<"file", n>>

(***************************************************************************)
(* CIPHERVAULT_MASTER_KEY unset, set to nothing, to 32 bytes of hex or to  *)
(* a passphrase; CIPHERVAULT_MASTER_KEY_SALT unset, right or malformed.    *)
(***************************************************************************)
KeyEnvs == [master : {"unset", "empty", "raw", "phrase"},
            salt : {"unset", "given", "bad"}, path : KeyPaths]

(***************************************************************************)
(* passphrase_salt: the given salt, or one derived from the path of the    *)
(* key file, whether or not there is such a file.                          *)
(***************************************************************************)
PassphraseSalt(env) ==
    CASE env.salt = "bad"   -> Refused
      [] env.salt = "given" -> <<"given">>
      [] env.salt = "unset" -> <<"of", env.path>>

(* read_key_file: a regular file of exactly 32 bytes, or an error. *)
ReadKeyFile(path) ==
    IF keyFiles[path] \in {NoFileKey, Truncated} THEN Refused ELSE keyFiles[path]

(* The first half of resolve_key: the key of the environment. *)
MasterKey(env) ==
    CASE env.master = "empty"  -> Refused
      [] env.master = "raw"    -> <<"raw">>
      [] env.master = "phrase" -> IF PassphraseSalt(env) = Refused THEN Refused
                                  ELSE <<"derived", PassphraseSalt(env)>>

(* resolve_key *)
ResolveKey(env) ==
    IF env.master # "unset" THEN MasterKey(env) ELSE ReadKeyFile(env.path)

(***************************************************************************)
(* protect_with_key seals under the v2 label; unprotect_with_key opens a   *)
(* blob without the v2 magic under the label of the first version.         *)
(***************************************************************************)
Sealed(key, env) ==
    [key |-> key, label |-> "v2", env |-> env,
     kept |-> env.master # "unset" \/ keyDisk[env.path] # NoFileKey]
UnprotectWithKey(key, blob) ==
    /\ key = blob.key
    /\ blob.label \in {"v2", "v1"}

(* unprotect *)
Unprotects(blob) ==
    /\ ResolveKey(blob.env) # Refused
    /\ UnprotectWithKey(ResolveKey(blob.env), blob)

-----------------------------------------------------------------------------
IdleSealer == [at |-> "idle", drawn |-> NoFileKey, env |-> CHOOSE e \in KeyEnvs : TRUE]

KeystoreInit ==
    /\ keyEnv \in {e \in KeyEnvs : e.master = "unset" /\ e.salt = "unset"}
    /\ keyFiles = [p \in KeyPaths |-> NoFileKey]
    /\ keyDisk = keyFiles
    /\ sealers = [p \in KeyProcs |-> IdleSealer]
    /\ blobs \in {{}, {[key |-> <<"raw">>, label |-> "v1", kept |-> TRUE,
                        env |-> [keyEnv EXCEPT !.master = "raw"]]}}
    /\ keysDrawn = 0
    /\ keyFaults = 0

(* The user changes the environment that later processes inherit. *)
SetKeyEnv ==
    /\ \E e \in KeyEnvs : keyEnv' = e
    /\ UNCHANGED <<keyFiles, keyDisk, sealers, blobs, keysDrawn, keyFaults>>

SealerAt(p, step) == sealers' = [sealers EXCEPT ![p].at = step]
EndSealer(p) == sealers' = [sealers EXCEPT ![p] = IdleSealer]

(***************************************************************************)
(* protect: with a master key in the environment the secret is sealed at   *)
(* once; otherwise provision_key_file runs, which first reads the file and *)
(* stops at one that is there but not a key.                               *)
(***************************************************************************)
ProvisionsAt(path) == keyFiles[path] = NoFileKey

Protect(p) ==
    /\ sealers[p].at = "idle"
    /\ Cardinality(blobs) < MaxBlobs
    /\ IF keyEnv.master # "unset"
       THEN /\ blobs' = IF MasterKey(keyEnv) = Refused THEN blobs
                        ELSE blobs \cup {Sealed(MasterKey(keyEnv), keyEnv)}
            /\ UNCHANGED <<sealers, keysDrawn>>
       ELSE IF ProvisionsAt(keyEnv.path)
       THEN /\ keysDrawn < MaxFileKeys
            /\ keysDrawn' = keysDrawn + 1
            /\ sealers' = [sealers EXCEPT ![p] =
                   [at |-> "write", drawn |-> FileKey(keysDrawn + 1), env |-> keyEnv]]
            /\ UNCHANGED blobs
       ELSE /\ sealers' = [sealers EXCEPT ![p] =
                   [at |-> "read", drawn |-> NoFileKey, env |-> keyEnv]]
            /\ UNCHANGED <<blobs, keysDrawn>>
    /\ UNCHANGED <<keyFiles, keyDisk, keyEnv, keyFaults>>

(* create_secret_file, the write and the sync of the temporary file, which  *)
(* nobody else opens; when one fails the file is removed and protect fails. *)
WriteTemporary(p) ==
    /\ sealers[p].at = "write"
    /\ \/ SealerAt(p, "link") /\ UNCHANGED keyFaults
       \/ keyFaults < MaxKeyFaults /\ keyFaults' = keyFaults + 1 /\ EndSealer(p)
    /\ UNCHANGED <<keyFiles, keyDisk, keyEnv, blobs, keysDrawn>>

(***************************************************************************)
(* The temporary file, complete and synced, is linked to the key path; the *)
(* link fails when the path exists, which is no error: the process then    *)
(* reads what the winner published.                                        *)
(***************************************************************************)
MayLinkAlways(path) == TRUE
MayLink(path) == keyFiles[path] = NoFileKey

LinkKey(p) ==
    LET path == sealers[p].env.path IN
    /\ sealers[p].at = "link"
    /\ IF MayLink(path)
       THEN /\ keyFiles' = [keyFiles EXCEPT ![path] = sealers[p].drawn]
            /\ SealerAt(p, "sync")
       ELSE /\ SealerAt(p, "read")
            /\ UNCHANGED keyFiles
    /\ UNCHANGED <<keyDisk, keyEnv, blobs, keysDrawn, keyFaults>>

(* sync_directory after the link. *)
SyncKeyDirectory(p) ==
    LET path == sealers[p].env.path IN
    /\ sealers[p].at = "sync"
    /\ keyDisk' = [keyDisk EXCEPT ![path] = keyFiles[path]]
    /\ SealerAt(p, "read")
    /\ UNCHANGED <<keyFiles, keyEnv, blobs, keysDrawn, keyFaults>>

(* The sync fails: the caller gets the error, and the link stays. *)
SyncKeyFails(p) ==
    /\ sealers[p].at = "sync"
    /\ keyFaults < MaxKeyFaults
    /\ keyFaults' = keyFaults + 1
    /\ EndSealer(p)
    /\ UNCHANGED <<keyFiles, keyDisk, keyEnv, blobs, keysDrawn>>

(* The key is read back from the path, never taken from memory. *)
SealingKeyDrawn(p) ==
    IF sealers[p].drawn # NoFileKey THEN sealers[p].drawn
    ELSE ReadKeyFile(sealers[p].env.path)
SealingKey(p) == ReadKeyFile(sealers[p].env.path)

SealWithFile(p) ==
    /\ sealers[p].at = "read"
    /\ blobs' = IF SealingKey(p) = Refused THEN blobs
                ELSE blobs \cup {Sealed(SealingKey(p), sealers[p].env)}
    /\ EndSealer(p)
    /\ UNCHANGED <<keyFiles, keyDisk, keyEnv, keysDrawn, keyFaults>>

-----------------------------------------------------------------------------
(* A process dies; its temporary file is never read again. *)
SealerDies(p) ==
    /\ sealers[p].at # "idle"
    /\ keyFaults < MaxKeyFaults
    /\ keyFaults' = keyFaults + 1
    /\ EndSealer(p)
    /\ UNCHANGED <<keyFiles, keyDisk, keyEnv, blobs, keysDrawn>>

(* Power is lost: a link that was not synced may be gone. *)
PowerLoss ==
    /\ keyFaults < MaxKeyFaults
    /\ keyFaults' = keyFaults + 1
    /\ keyFiles' \in {f \in [KeyPaths -> {keyFiles[p] : p \in KeyPaths}
                                         \cup {keyDisk[p] : p \in KeyPaths}] :
                         \A p \in KeyPaths : f[p] \in {keyFiles[p], keyDisk[p]}}
    /\ keyDisk' = keyFiles'
    /\ sealers' = [p \in KeyProcs |-> IdleSealer]
    /\ UNCHANGED <<keyEnv, blobs, keysDrawn>>

(* Somebody truncates a durable key file. *)
TruncateKey(path) ==
    /\ keyFaults < MaxKeyFaults
    /\ keyFiles[path] = keyDisk[path]
    /\ keyFiles[path] \notin {NoFileKey, Truncated}
    /\ keyFaults' = keyFaults + 1
    /\ keyFiles' = [keyFiles EXCEPT ![path] = Truncated]
    /\ UNCHANGED <<keyDisk, keyEnv, sealers, blobs, keysDrawn>>

KeystoreNext ==
    \/ SetKeyEnv
    \/ \E p \in KeyProcs : Protect(p)
    \/ \E p \in KeyProcs : WriteTemporary(p)
    \/ \E p \in KeyProcs : LinkKey(p)
    \/ \E p \in KeyProcs : SyncKeyDirectory(p)
    \/ \E p \in KeyProcs : SyncKeyFails(p)
    \/ \E p \in KeyProcs : SealWithFile(p)
    \/ \E p \in KeyProcs : SealerDies(p)
    \/ PowerLoss
    \/ \E path \in KeyPaths : TruncateKey(path)

KeystoreSpec == KeystoreInit /\ [][KeystoreNext]_keystoreVars

-----------------------------------------------------------------------------
FileKeys == {FileKey(n) : n \in 1 .. MaxFileKeys}

(* A process, and a sealed secret. *)
Sealer == [at : {"idle", "write", "link", "sync", "read"},
           drawn : FileKeys \cup {NoFileKey}, env : KeyEnvs]
MasterKeys == {<<"raw">>, <<"derived", <<"given">>>>}
              \cup {<<"derived", <<"of", path>>>> : path \in KeyPaths}
Blob == [key : FileKeys \cup MasterKeys, label : {"v1", "v2"}, env : KeyEnvs, kept : BOOLEAN]

(* The keystore's variables have these values. *)
KeystoreTypeOK ==
    /\ keyFiles \in [KeyPaths -> FileKeys \cup {NoFileKey, Truncated}]
    /\ keyDisk \in [KeyPaths -> FileKeys \cup {NoFileKey, Truncated}]
    /\ keyEnv \in KeyEnvs
    /\ sealers \in [KeyProcs -> Sealer]
    /\ blobs \subseteq Blob
    /\ keysDrawn \in 0 .. MaxFileKeys
    /\ keyFaults \in 0 .. MaxKeyFaults

(***************************************************************************)
(* A secret sealed once a key file was durable still opens in the          *)
(* environment it was sealed in, unless the key file has been truncated:   *)
(* whatever the other processes provision, and however they or the machine *)
(* die, no key is replaced (provision_key_file, keyring.rs:221).           *)
(***************************************************************************)
SealedStaysOpenable ==
    \A b \in blobs :
        b.kept => \/ Unprotects(b)
                  \/ b.env.master = "unset" /\ keyFiles[b.env.path] = Truncated
=============================================================================
