----------------------------- MODULE ScopedRun -----------------------------
(***************************************************************************)
(* `ciphervault run`: a child process is started with the secrets of one   *)
(* scope of the account service, or with the .env files of one snapshot    *)
(* (apps/cli commands run.rs, scope.rs, secret.rs; the service side is     *)
(* list_secrets, scope_revision and materialize).                          *)
(*                                                                         *)
(* A scoped run makes four requests: project, environment, list of names   *)
(* and materialize.  Other commands and the administrators change the      *)
(* scope between them.  A secret's value is told apart by <<id, version>>, *)
(* a revision (a digest) by what goes into it.                             *)
(***************************************************************************)
EXTENDS Naturals, FiniteSets, SequencesExt

CONSTANTS
    RunIds,        \* secret_id
    NumNames,      \* secret names, in their order
    RunEnvs,       \* environments of the project
    RunProjects,   \* projects the token's principal is a member of
    RunProject,    \* the one whose secrets the model has
    Reserved,      \* names is_control_credential matches
    RunPage,       \* SCOPED_RUN_PAGE_LIMIT
    RunShells,     \* terminals in which commands run
    VaultHeads,    \* snapshots of the local vault
    FilesOf,       \* snapshot -> its .env files in the manifest's order
    NoneRun,
    MaxScopeChanges, MaxRuns, MaxVaultChanges

RunNames == 1..NumNames

ASSUME RunAssumption ==
    /\ IsFiniteSet(RunIds) /\ NumNames \in Nat \ {0} /\ Reserved \subseteq RunNames
    /\ RunPage \in Nat \ {0}
    /\ \A h \in VaultHeads : \A i \in 1..Len(FilesOf[h]) :
          FilesOf[h][i].base \in BOOLEAN /\ FilesOf[h][i].defines \subseteq RunNames

VARIABLES
    scope,    \* secret_id -> its row
    vault,    \* the active head, and the chunks held here and by operators
    context,  \* .ciphervault/context.json: the environment it names
    remotes,  \* project -> the status of its binding of the git origin here
    shell,    \* terminal -> the command that runs in it
    children, \* the child processes started so far
    runPast   \* what the bounds count
runVars == <<scope, vault, context, remotes, shell, children, runPast>>

Statuses3 == {"active", "deprecated"}
ScopeRow == [env : RunEnvs, name : RunNames, version : Nat, status : Statuses3, live : BOOLEAN]
Files == UNION {{<<h, i>> : i \in 1..Len(FilesOf[h])} : h \in VaultHeads}

(* A command: what it was asked, where it stands, what it has learned.     *)
Resting == [op |-> "none", env |-> NoneRun, pin |-> NoneRun, name |-> 0, id |-> NoneRun,
            set |-> {}, rows |-> {}, seen |-> {}, head |-> NoneRun, chunks |-> {}]

RunInit ==
    /\ scope = [s \in RunIds |-> NoneRun]
    /\ \E h \in VaultHeads : vault = [head |-> h, here |-> Files, there |-> Files]
    /\ context \in RunEnvs \cup {NoneRun}
    /\ remotes = [p \in RunProjects |-> "none"]
    /\ shell = [c \in RunShells |-> Resting]
    /\ children = {}
    /\ runPast = [changes |-> 0, runs |-> 0, vault |-> 0]

-----------------------------------------------------------------------------
(* The rows of an environment, and the digest over the rows of a request:  *)
(* id, name, version and status (the binding and the service only narrow   *)
(* what a token may see).                                                  *)
RowsOf(e) == {s \in RunIds : scope[s] # NoneRun /\ scope[s].live /\ scope[s].env = e}
\* Mutant: the digest covers the names only.
RevisionOfNames(e, rows) == <<e, {scope[s].name : s \in rows}>>

Revision(e, rows) ==
    <<e, {<<s, scope[s].name, scope[s].version, scope[s].status>> : s \in rows}>>
(* What a process that had the whole environment at this instant would     *)
(* see: the reference that no code computes.                               *)
Contents(rows) == {<<scope[s].name, <<s, scope[s].version>>>> : s \in rows}

(* list_secrets: ORDER BY name LIMIT. *)
Listed(e) ==
    {s \in RowsOf(e) :
        Cardinality({t \in RowsOf(e) : scope[t].name < scope[s].name}) < RunPage}

(* get_secrets: the metadata and the revision of what is listed.           *)
GetSecrets(e) == [rows |-> Listed(e), revision |-> Revision(e, Listed(e))]

-----------------------------------------------------------------------------
(* Commands of one shell.                                                  *)
Goes(c, cmd) == shell' = [shell EXCEPT ![c] = cmd]
Ends(c) == Goes(c, Resting)
Changed(s, row) ==
    /\ scope' = [scope EXCEPT ![s] = row]
    /\ runPast' = [runPast EXCEPT !.changes = @ + 1]
MayChange == runPast.changes < MaxScopeChanges

(* resolve_scope: the flag, else CIPHERVAULT_ENV, else the context file.   *)
Resolved(flag, var) ==
    IF flag # NoneRun THEN flag ELSE IF var # NoneRun THEN var ELSE context
(* resolve_project: given, or found as the only project with a binding of  *)
(* the git origin, whatever the status of the binding (autodetect_project).*)
SameOrigin(p) == remotes[p] # "none"
Detected == {p \in RunProjects : SameOrigin(p)}
ProjectFor(given) == IF given THEN {RunProject} ELSE Detected
(* has_scope_signal: the context file alone never selects the scoped mode. *)
Signal(flag, var, project) == project \/ flag # NoneRun \/ var # NoneRun

(* cmd_run with scoped sources.  A pin (--revision) is one an earlier run  *)
(* has printed; a dry run stops after the list.                            *)
StartScoped(c) ==
    \E flag, var \in RunEnvs \cup {NoneRun}, project \in BOOLEAN, set \in {{}, {1}},
       printed \in {NoneRun} \cup {k \in children : k.kind = "scoped"} :
        /\ shell[c] = Resting /\ runPast.runs < MaxRuns
        /\ Signal(flag, var, project) /\ Resolved(flag, var) # NoneRun
        /\ ProjectFor(project) = {RunProject}
        /\ Goes(c, [Resting EXCEPT !.op = "list", !.env = Resolved(flag, var), !.set = set,
                       !.pin = IF printed = NoneRun THEN NoneRun ELSE printed.revision,
                       !.seen = IF printed = NoneRun THEN {} ELSE printed.asOf])
        /\ runPast' = [runPast EXCEPT !.runs = @ + 1]
        /\ UNCHANGED <<scope, vault, context, remotes, children>>

\* Mutant: only an overfull page is refused.
PageFullAbove(n) == n > RunPage

(* A full page may have left names out: the run refuses it. *)
PageFull(n) == n >= RunPage
ListNames(c) ==
    LET cmd == shell[c]
        answer == GetSecrets(cmd.env)
    IN
    /\ cmd.op = "list"
    /\ IF PageFull(Cardinality(answer.rows)) THEN Ends(c)
       ELSE Goes(c, [cmd EXCEPT !.op = "materialize", !.rows = {scope[s].name : s \in answer.rows},
                     !.seen = IF cmd.pin = NoneRun THEN Contents(RowsOf(cmd.env)) ELSE @,
                     !.pin = IF @ = NoneRun THEN answer.revision ELSE @])
    /\ UNCHANGED <<scope, vault, context, remotes, children, runPast>>

(* spawn_with_env: a control credential is never injected; --set wins.     *)
Overridden(values, set) ==
    {v \in values : v[1] \notin set} \cup {<<n, <<NoneRun, 0>>>> : n \in set}
Spawned(kind, values, cmd, revision, asOf) ==
    LET got == Overridden(values, cmd.set) IN
    children' = IF \E v \in got : v[1] \in Reserved THEN children
                ELSE children \cup {[kind |-> kind, got |-> got, set |-> cmd.set,
                                     revision |-> revision, asOf |-> asOf]}

(* materialize and the checks of its answer: every name that was listed,   *)
(* at the revision of the list or of --revision, in one transaction.  More *)
(* names than one request may carry end the run (RunFails).                *)
Materialize(c) ==
    LET cmd == shell[c]
        rows == {s \in RowsOf(cmd.env) : scope[s].name \in cmd.rows}
        whole == {scope[s].name : s \in rows} = cmd.rows
        granted == whole /\ Revision(cmd.env, rows) = cmd.pin
    IN
    /\ cmd.op = "materialize" /\ Ends(c)
    /\ IF granted THEN Spawned("scoped", Contents(rows), cmd, cmd.pin, cmd.seen)
       ELSE UNCHANGED children
    /\ UNCHANGED <<scope, vault, context, remotes, runPast>>

-----------------------------------------------------------------------------
(* `secret set`: one request.  A deleted row keeps its name taken.         *)
SecretSet(c) ==
    \E s \in RunIds, e \in RunEnvs, n \in RunNames :
        /\ shell[c] = Resting /\ MayChange /\ scope[s] = NoneRun
        /\ \A t \in RunIds : scope[t] # NoneRun => <<scope[t].env, scope[t].name>> # <<e, n>>
        /\ Changed(s, [env |-> e, name |-> n, version |-> 1, status |-> "active",
                       live |-> TRUE])
        /\ UNCHANGED <<vault, context, remotes, shell, children>>

(* update, delete and rotate look the name up first (resolve_secret_id),   *)
(* then send the id they found.                                            *)
ResolveSecretId(c) ==
    \E e \in RunEnvs, s \in RunIds, op \in {"update", "delete", "rotate"} :
        /\ shell[c] = Resting /\ MayChange /\ s \in Listed(e)
        /\ Goes(c, [Resting EXCEPT !.op = op, !.env = e, !.id = s, !.name = scope[s].name])
        /\ UNCHANGED <<scope, vault, context, remotes, children, runPast>>
Sent(c, op) ==
    /\ shell[c].op = op /\ Ends(c) /\ UNCHANGED <<vault, context, remotes, children>>
OnLive(c, row) ==
    IF scope[shell[c].id].live /\ MayChange THEN Changed(shell[c].id, row)
    ELSE UNCHANGED <<scope, runPast>>
SecretUpdate(c) ==
    /\ Sent(c, "update")
    /\ \E st \in Statuses3 : OnLive(c, [scope[shell[c].id] EXCEPT !.status = st])
SecretDelete(c) == Sent(c, "delete") /\ OnLive(c, [scope[shell[c].id] EXCEPT !.live = FALSE])
SecretRotate(c) == Sent(c, "rotate") /\ OnLive(c, [scope[shell[c].id] EXCEPT !.version = @ + 1])

(* move_secret, from the dashboard or another client: another name or, as  *)
(* a new version, another environment.                                     *)
MoveRow ==
    \E s \in RunIds, e \in RunEnvs, n \in RunNames :
        /\ MayChange /\ scope[s] # NoneRun /\ scope[s].live
        /\ \A t \in RunIds : scope[t] # NoneRun => <<scope[t].env, scope[t].name>> # <<e, n>>
        /\ Changed(s, [scope[s] EXCEPT !.env = e, !.name = n,
                          !.version = IF e = scope[s].env THEN @ ELSE @ + 1])
        /\ UNCHANGED <<vault, context, remotes, shell, children>>

(* `repo bind`, and `repo unbind` of the binding found by provider and id. *)
RepoBind ==
    \E p \in RunProjects :
        /\ runPast.vault < MaxVaultChanges /\ remotes[p] = "none"
        /\ remotes' = [remotes EXCEPT ![p] = "pending"]
        /\ runPast' = [runPast EXCEPT !.vault = @ + 1]
        /\ UNCHANGED <<scope, vault, context, shell, children>>
RepoUnbind ==
    \E p \in RunProjects, mode \in {"suspended", "revoked"} :
        /\ runPast.vault < MaxVaultChanges /\ remotes[p] \notin {"none", mode, "revoked"}
        /\ remotes' = [remotes EXCEPT ![p] = mode]
        /\ runPast' = [runPast EXCEPT !.vault = @ + 1]
        /\ UNCHANGED <<scope, vault, context, shell, children>>

(* `context set --env` and `context clear`.                                *)
WriteContext ==
    /\ runPast.vault < MaxVaultChanges
    /\ context' \in (RunEnvs \cup {NoneRun}) \ {context}
    /\ runPast' = [runPast EXCEPT !.vault = @ + 1]
    /\ UNCHANGED <<scope, vault, remotes, shell, children>>

-----------------------------------------------------------------------------
(* The snapshot mode.  load_snapshot_bundle reads the head (or takes the   *)
(* snapshot of --snapshot), then the chunks held here, then asks the       *)
(* operators for the missing ones.                                         *)
ChunksOf(h) == {<<h, i>> : i \in 1..Len(FilesOf[h])}
StartSnapshot(c) ==
    \E pinned \in VaultHeads \cup {NoneRun}, set \in {{}, {1}} :
        /\ shell[c] = Resting /\ runPast.runs < MaxRuns
        /\ Goes(c, [Resting EXCEPT !.op = "chunks", !.set = set,
                       !.head = IF pinned = NoneRun THEN vault.head ELSE pinned])
        /\ runPast' = [runPast EXCEPT !.runs = @ + 1]
        /\ UNCHANGED <<scope, vault, context, remotes, children>>
LocalChunks(c) ==
    /\ shell[c].op = "chunks"
    /\ Goes(c, [shell[c] EXCEPT !.op = "fetch", !.chunks = ChunksOf(shell[c].head) \cap vault.here])
    /\ UNCHANGED <<scope, vault, context, remotes, children, runPast>>
FetchMissing(c) ==
    LET missing == ChunksOf(shell[c].head) \ shell[c].chunks IN
    /\ shell[c].op = "fetch" /\ missing # {}
    /\ \E answered \in SUBSET (missing \cap vault.there) :
          IF answered = missing
          THEN Goes(c, [shell[c] EXCEPT !.chunks = @ \cup answered])
          ELSE Ends(c)
    /\ UNCHANGED <<scope, vault, context, remotes, children, runPast>>

\* Mutant: the files are taken in the manifest's order.
EnvFilesUnsorted(h) == FilesOf[h]

(* .env is the base, the others follow in the manifest's order (a run with *)
(* --env-file has one file and nothing to merge; it is not modelled).      *)
EnvFiles(h) ==
    SelectSeq(FilesOf[h], LAMBDA f : f.base) \o SelectSeq(FilesOf[h], LAMBDA f : ~f.base)
(* apply_overrides: the last definition of a name wins.                    *)
Merged(h) ==
    FoldLeft(LAMBDA vars, f : {v \in vars : v[1] \notin f.defines} \cup
                              {<<n, <<h, f.base>>>> : n \in f.defines},
             {}, EnvFiles(h))
RunSnapshot(c) ==
    LET cmd == shell[c] IN
    /\ cmd.op = "fetch" /\ cmd.chunks = ChunksOf(cmd.head) /\ Ends(c)
    /\ Spawned("snapshot", Merged(cmd.head), cmd, cmd.head, {})
    /\ UNCHANGED <<scope, vault, context, remotes, runPast>>

(* Meanwhile: a push moves the head, a prune drops chunks of other         *)
(* snapshots, an operator loses one.                                       *)
MoveVault ==
    /\ runPast.vault < MaxVaultChanges
    /\ \/ \E h \in VaultHeads \ {vault.head} :
             vault' = [vault EXCEPT !.head = h, !.here = @ \cup ChunksOf(h)]
       \/ \E k \in vault.here \ ChunksOf(vault.head) : vault' = [vault EXCEPT !.here = @ \ {k}]
       \/ \E k \in vault.there : vault' = [vault EXCEPT !.there = @ \ {k}]
    /\ runPast' = [runPast EXCEPT !.vault = @ + 1]
    /\ UNCHANGED <<scope, context, remotes, shell, children>>

(* A refused or lost answer, a failed lookup: the command ends.            *)
RunFails(c) ==
    shell[c] # Resting /\ Ends(c) /\ UNCHANGED <<scope, vault, context, remotes, children, runPast>>

ScopedNext ==
    \/ MoveRow \/ WriteContext \/ RepoBind \/ RepoUnbind
    \/ \E c \in RunShells :
          \/ StartScoped(c) \/ ListNames(c) \/ Materialize(c)
          \/ SecretSet(c) \/ ResolveSecretId(c)
          \/ SecretUpdate(c) \/ SecretDelete(c) \/ SecretRotate(c)
          \/ RunFails(c)
SnapshotNext ==
    \/ MoveVault
    \/ \E c \in RunShells :
          \/ StartSnapshot(c) \/ LocalChunks(c) \/ FetchMissing(c) \/ RunSnapshot(c)
RunNext == ScopedNext \/ SnapshotNext

RunSpec == RunInit /\ [][RunNext]_runVars

-----------------------------------------------------------------------------
RunTypeOK ==
    /\ \A s \in RunIds : scope[s] = NoneRun \/ scope[s] \in ScopeRow
    /\ vault.head \in VaultHeads /\ vault.here \subseteq Files /\ vault.there \subseteq Files
    /\ context \in RunEnvs \cup {NoneRun}
    /\ remotes \in [RunProjects -> {"none", "pending", "suspended", "revoked"}]
    /\ \A c \in RunShells : DOMAIN shell[c] = DOMAIN Resting
    /\ \A k \in children : k.kind \in {"scoped", "snapshot"}

(* The variables one .env set means: an overlay beats .env.                *)
Layered(h) ==
    LET defs(b) == UNION {FilesOf[h][i].defines : i \in {i \in 1..Len(FilesOf[h]) :
                                                            FilesOf[h][i].base = b}}
    IN {<<n, <<h, FALSE>>>> : n \in defs(FALSE)} \cup
       {<<n, <<h, TRUE>>>> : n \in defs(TRUE) \ defs(FALSE)}

(* A child is started with the whole scope as it stood at one instant (its *)
(* list or, with --revision, the list of the run that printed the          *)
(* revision), or with the layered files of one snapshot, apart from --set: *)
(* no rotation, deletion, rename or move between the requests, no full     *)
(* page and no lost chunk leaves it with a mix or a part (cmd_run_scoped,  *)
(* materialize, load_snapshot_bundle).                                     *)
RunsOneSource ==
    \A k \in children :
        LET kept == {v \in k.got : v[1] \notin k.set} IN
        /\ k.kind = "scoped" => kept = {v \in k.asOf : v[1] \notin k.set}
        /\ k.kind = "snapshot" => kept = {v \in Layered(k.revision) : v[1] \notin k.set}
        /\ \A v \in k.got : v[1] \notin Reserved
=============================================================================
