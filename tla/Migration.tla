------------------------------ MODULE Migration ------------------------------
(***************************************************************************)
(* The import of a local vault into scoped secrets: the account service's  *)
(* ledger (services/account migration_ledger, migration_routes) and the    *)
(* commands of `migrate` that drive it (apps/cli migrate), from plan to    *)
(* the destruction of the legacy vault.  Each request is one step of the   *)
(* ledger; the commands make several and act on what they read before.     *)
(* A value stands for its digest too; one target environment.              *)
(***************************************************************************)
EXTENDS Naturals, FiniteSets

CONSTANTS
    RunIds,
    NumLines,               \* the (path, line) winners of classify_files, in order
    SourceNames,            \* the name each line is classified under
    FreeNames,              \* names a person may resolve to
    Heads,                  \* vault snapshots
    Contents,               \* [Heads -> [Lines -> value]]
    FirstHead,
    ScopedIds,              \* identifiers for created secrets
    Operators,              \* people running a command
    PlanHalfSeen,           \* whether a plan may die, or others look, between its requests
    MaxMigrationSteps

ASSUME MigrationAssumption ==
    /\ {MaxMigrationSteps, NumLines} \subseteq Nat /\ PlanHalfSeen \in BOOLEAN
    /\ FirstHead \in Heads /\ DOMAIN Contents = Heads /\ DOMAIN SourceNames = 1..NumLines

VARIABLES
    runs, ledger, scoped,   \* the account database
    vault,                  \* [head, shredded]: the legacy vault
    commands,               \* each person's command in progress
    migrationSteps

migrationVars == <<runs, ledger, scoped, vault, commands, migrationSteps>>

Lines == 1..NumLines
NoRun == [state |-> "none"]
NoLine == [state |-> "none"]
Free == [live |-> FALSE, held |-> {}, name |-> "none"]
AtPrompt == [cmd |-> "none"]

EntryStates == {"VALIDATED", "QUARANTINED", "MIGRATED", "VERIFIED", "LEGACY_PATH_DISABLED"}
SourceValues == UNION {{Contents[h][l] : l \in Lines} : h \in Heads}

MigrationTypeOK ==
    /\ \A r \in RunIds : runs[r] = NoRun \/
           /\ runs[r].state \in {"planning", "applying", "verifying", "complete", "aborted"}
           /\ runs[r].from \in Heads
    /\ \A r \in RunIds, l \in Lines : ledger[r][l] = NoLine \/
           /\ ledger[r][l].state \in EntryStates
           /\ ledger[r][l].source \in SourceValues
           /\ ledger[r][l].secret \in ScopedIds \cup {"none"}
    /\ \A s \in ScopedIds : scoped[s].held \subseteq SourceValues
    /\ vault.head \in Heads /\ vault.shredded \in BOOLEAN
    /\ \A o \in Operators :
           commands[o].cmd \in {"none", "plan", "apply", "mark", "verify", "shred", "remove"}
    /\ migrationSteps \in 0..MaxMigrationSteps

MigrationInit ==
    /\ runs = [r \in RunIds |-> NoRun]
    /\ ledger = [r \in RunIds |-> [l \in Lines |-> NoLine]]
    /\ scoped = [s \in ScopedIds |-> Free]
    /\ vault = [head |-> FirstHead, shredded |-> FALSE]
    /\ commands = [o \in Operators |-> AtPrompt]
    /\ migrationSteps = 0

RunOpen(r) == runs[r].state \in {"planning", "applying", "verifying"}
Entries(r) == {l \in Lines : ledger[r][l] # NoLine}
In(r, states) == {l \in Lines : ledger[r][l].state \in states}
Claims == {"VALIDATED", "MIGRATED", "VERIFIED", "LEGACY_PATH_DISABLED"}
Taken(name) == \E s \in ScopedIds : scoped[s].live /\ scoped[s].name = name
(* UNIQUE (project_id, environment_id, name): deleted secrets keep theirs. *)
Occupied(name) == \E s \in ScopedIds : scoped[s] # Free /\ scoped[s].name = name

-----------------------------------------------------------------------------
(* The ledger. *)

(* start_run *)
StartRun(r, head) ==
    /\ runs[r] = NoRun
    /\ runs' = [runs EXCEPT ![r] = [state |-> "planning", from |-> head]]
    /\ UNCHANGED <<ledger, scoped>>

(* validate_mapped over the run's rows: first claim wins, a name in use in *)
(* the target scope is never overwritten.                                  *)
Validated(book, l, name) ==
    IF Taken(name) \/ \E k \in Lines \ {l} : book[k].state \in Claims /\ book[k].name = name
    THEN "QUARANTINED" ELSE "VALIDATED"
(* upsert_and_validate *)
Upserted(book, l, value) ==
    [book EXCEPT ![l] = [state |-> Validated(book, l, SourceNames[l]), name |-> SourceNames[l],
                         source |-> value, target |-> "none", secret |-> "none"]]
(* submit_entries: one transaction, in the order of path and line, the     *)
(* winner of a shared name being the first.                                *)
Submitted(r, values) ==
    LET upTo[n \in 0..NumLines] ==
            IF n = 0 THEN ledger[r] ELSE Upserted(upTo[n - 1], n, values[n])
    IN  upTo[NumLines]
SubmitEntries(r, values) ==
    /\ RunOpen(r)
    /\ ledger' = [ledger EXCEPT ![r] = Submitted(r, values)]
    /\ UNCHANGED <<runs, scoped>>

(* mark_migrated: refused unless the entry is VALIDATED and the secret is  *)
(* live in the scope; marking the same secret again changes nothing.       *)
Anchored(s) == scoped[s].live
MarkMigrated(r, l, s, value) ==
    IF ~RunOpen(r) \/ ledger[r][l].state # "VALIDATED" \/ ~Anchored(s)
    THEN UNCHANGED <<runs, ledger>>
    ELSE /\ ledger' = [ledger EXCEPT ![r][l] =
                [@ EXCEPT !.state = "MIGRATED", !.secret = s, !.target = value]]
         /\ runs' = [runs EXCEPT ![r].state = "applying"]

(* resolve_entry: renamed, validated again; the secret of an earlier       *)
(* attempt stays recorded and stays live.                                  *)
ResolveEntry(r, l, name) ==
    /\ RunOpen(r) /\ ledger[r][l].state = "QUARANTINED"
    /\ ledger' = [ledger EXCEPT ![r][l] =
            [@ EXCEPT !.name = name, !.state = Validated(ledger[r], l, name)]]
    /\ UNCHANGED <<runs, scoped>>

\* Mutant: entries in quarantine do not hold a run open.
CompleteWithQuarantine(r, book, state) ==
    IF \A l \in Lines : book[l].state \in {"none", "VERIFIED", "LEGACY_PATH_DISABLED", "QUARANTINED"}
    THEN "complete" ELSE state
(* maybe_complete *)
MaybeComplete(r, book, state) ==
    IF \A l \in Lines : book[l].state \in {"none", "VERIFIED", "LEGACY_PATH_DISABLED"}
    THEN "complete" ELSE state

(* The final gate for one MIGRATED entry.                                  *)
Judged(e) == [e EXCEPT !.state = IF e.target = e.source THEN "VERIFIED" ELSE "QUARANTINED"]
(* verify_run *)
VerifyRun(r) ==
    LET book == [l \in Lines |-> IF ledger[r][l].state = "MIGRATED"
                                 THEN Judged(ledger[r][l]) ELSE ledger[r][l]] IN
    /\ runs[r].state \in {"applying", "verifying"}
    /\ ledger' = [ledger EXCEPT ![r] = book]
    /\ runs' = [runs EXCEPT ![r].state = MaybeComplete(r, book, "verifying")]
    /\ UNCHANGED scoped

(* disable_legacy of every VERIFIED entry, one statement each: a failure   *)
(* leaves some of them done.                                               *)
DisableLegacy(r, done) ==
    LET book == [l \in Lines |-> IF l \in done
                                 THEN [ledger[r][l] EXCEPT !.state = "LEGACY_PATH_DISABLED"]
                                 ELSE ledger[r][l]] IN
    /\ ledger' = [ledger EXCEPT ![r] = book]
    /\ runs' = IF done = In(r, {"VERIFIED"})
               THEN [runs EXCEPT ![r].state = MaybeComplete(r, book, @)] ELSE runs
    /\ UNCHANGED scoped

(* abort_run: the secrets of MIGRATED and VERIFIED entries are deleted and *)
(* the entries fall back, one by one; the run is aborted at the end.       *)
AbortRun(r, done) ==
    LET doomed == In(r, {"MIGRATED", "VERIFIED"}) IN
    /\ RunOpen(r) /\ done \subseteq doomed
    /\ scoped' = [s \in ScopedIds |->
            IF \E l \in done : ledger[r][l].secret = s THEN [scoped[s] EXCEPT !.live = FALSE]
            ELSE scoped[s]]
    /\ ledger' = [ledger EXCEPT ![r] = [l \in Lines |->
            IF l \in done THEN [@[l] EXCEPT !.state = "VALIDATED", !.secret = "none",
                                            !.target = "none"] ELSE @[l]]]
    /\ runs' = IF done = doomed THEN [runs EXCEPT ![r].state = "aborted"] ELSE runs

-----------------------------------------------------------------------------
(* The commands.  A command may be interrupted between two requests.       *)

Becomes(o, c) == commands' = [commands EXCEPT ![o] = c]
At(o, cmd) == commands[o].cmd = cmd

CmdPlan(o, r) ==
    /\ At(o, "none") /\ ~vault.shredded /\ StartRun(r, vault.head)
    /\ Becomes(o, [cmd |-> "plan", run |-> r, values |-> Contents[vault.head]])
    /\ UNCHANGED vault
CmdPlanSubmits(o) ==
    /\ At(o, "plan") /\ SubmitEntries(commands[o].run, commands[o].values)
    /\ Becomes(o, AtPrompt) /\ UNCHANGED vault
Interrupted(o) ==
    /\ ~At(o, "none") /\ (At(o, "plan") => PlanHalfSeen \/ ~RunOpen(commands[o].run))
    /\ Becomes(o, AtPrompt) /\ UNCHANGED <<runs, ledger, scoped, vault>>

(* cmd_apply reads the run, then the vault as it is now.                   *)
CmdApply(o, r) ==
    /\ At(o, "none") /\ ~vault.shredded /\ RunOpen(r)
    /\ Becomes(o, [cmd |-> "apply", run |-> r, values |-> Contents[vault.head],
                   todo |-> {[line |-> l, name |-> ledger[r][l].name] : l \in In(r, {"VALIDATED"})}])
    /\ UNCHANGED <<runs, ledger, scoped, vault>>
(* The secret a refused create may be taken to have written: adopted_secret *)
Adoptable(s, name, value) ==
    scoped[s].live /\ scoped[s].name = name /\ value \in scoped[s].held
Marking(c, t, s) == [cmd |-> "mark", run |-> c.run, values |-> c.values, todo |-> c.todo,
                     secret |-> s, line |-> t.line]
CmdApplyCreates(o, t) ==
    LET value == commands[o].values[t.line] IN
    /\ At(o, "apply") /\ t \in commands[o].todo
    /\ IF Occupied(t.name)
       THEN UNCHANGED scoped /\
            (IF \E s \in ScopedIds : Adoptable(s, t.name, value)
             THEN \E s \in ScopedIds : Adoptable(s, t.name, value)
                    /\ Becomes(o, Marking(commands[o], t, s))
             ELSE Becomes(o, AtPrompt))
       ELSE \E s \in ScopedIds :
              /\ scoped[s] = Free
              /\ scoped' = [scoped EXCEPT ![s] =
                    [live |-> TRUE, held |-> {value}, name |-> t.name]]
              /\ Becomes(o, Marking(commands[o], t, s))
    /\ UNCHANGED <<runs, ledger, vault>>
CmdApplyMarks(o) ==
    LET c == commands[o] IN
    /\ At(o, "mark")
    /\ MarkMigrated(c.run, c.line, c.secret, c.values[c.line])
    /\ Becomes(o, [cmd |-> "apply", run |-> c.run, values |-> c.values,
                   todo |-> {t \in c.todo : t.line # c.line}])
    /\ UNCHANGED <<scoped, vault>>

(* cmd_verify reads every MIGRATED secret back and compares it with the    *)
(* ledger and with the vault, then asks for the ledger's verification.     *)
CmdVerify(o, r) ==
    /\ At(o, "none") /\ ~vault.shredded /\ runs[r].state \in {"applying", "verifying"}
    /\ \A l \in In(r, {"MIGRATED"}) :
          LET e == ledger[r][l] IN
          /\ scoped[e.secret].live /\ e.source \in scoped[e.secret].held
          /\ e.source = Contents[vault.head][l]
    /\ Becomes(o, [cmd |-> "verify", run |-> r])
    /\ UNCHANGED <<runs, ledger, scoped, vault>>
CmdVerifyPosts(o) ==
    /\ At(o, "verify") /\ VerifyRun(commands[o].run)
    /\ Becomes(o, AtPrompt) /\ UNCHANGED vault

CmdResolve(o, r, l, name) ==
    /\ At(o, "none") /\ ResolveEntry(r, l, name) /\ UNCHANGED <<vault, commands>>
PostMigrationAbort(o, r) ==
    /\ At(o, "none") /\ \E done \in SUBSET Lines : AbortRun(r, done)
    /\ UNCHANGED <<vault, commands>>

(* cmd_shred: the runs that are not aborted, each flipped and required to  *)
(* be wholly disabled, then the vault on disk required to be at the        *)
(* snapshot of one of them.                                                *)
LiveRuns == {r \in RunIds : runs[r] # NoRun /\ runs[r].state # "aborted"}
CmdShred(o) ==
    /\ At(o, "none") /\ ~vault.shredded /\ LiveRuns # {}
    /\ PlanHalfSeen \/ \A p \in Operators : ~At(p, "plan")
    /\ Becomes(o, [cmd |-> "shred", live |-> LiveRuns, seen |-> {}])
    /\ UNCHANGED <<runs, ledger, scoped, vault>>
AllDisabled(book) == \A l \in Lines : book[l].state \in {"none", "LEGACY_PATH_DISABLED"}
CmdShredFlips(o, r) ==
    /\ At(o, "shred") /\ r \in commands[o].live
    /\ IF runs[r].state \in {"verifying", "complete"}
       THEN \E done \in SUBSET In(r, {"VERIFIED"}) : DisableLegacy(r, done)
       ELSE UNCHANGED <<runs, ledger, scoped>>
    /\ Becomes(o, IF ~AllDisabled(ledger'[r]) THEN AtPrompt
                  ELSE [cmd |-> "shred", live |-> commands[o].live \ {r},
                        seen |-> commands[o].seen \cup {runs[r].from}])
    /\ UNCHANGED vault
\* Mutant: the vault's head is not compared with the migrated snapshots.
MayRemoveAnyHead(c) == c.live = {}
MayRemove(c) == c.live = {} /\ vault.head \in c.seen
CmdShredRemoves(o) ==
    /\ At(o, "shred") /\ MayRemove(commands[o])
    /\ vault' = [vault EXCEPT !.shredded = TRUE]
    /\ Becomes(o, AtPrompt)
    /\ UNCHANGED <<runs, ledger, scoped>>

(* The agent captures another snapshot of the legacy vault.                *)
VaultAdvances(h) ==
    /\ ~vault.shredded /\ h # vault.head /\ vault' = [vault EXCEPT !.head = h]
    /\ UNCHANGED <<runs, ledger, scoped, commands>>

MigrationStep ==
    \/ \E o \in Operators :
          \/ CmdPlanSubmits(o) \/ Interrupted(o) \/ CmdApplyMarks(o) \/ CmdVerifyPosts(o)
          \/ CmdShred(o) \/ CmdShredRemoves(o)
          \/ At(o, "apply") /\ \E t \in commands[o].todo : CmdApplyCreates(o, t)
          \/ \E r \in RunIds :
                \/ CmdPlan(o, r) \/ CmdApply(o, r) \/ CmdVerify(o, r)
                \/ PostMigrationAbort(o, r) \/ CmdShredFlips(o, r)
                \/ \E l \in Lines, name \in FreeNames : CmdResolve(o, r, l, name)
    \/ \E h \in Heads : VaultAdvances(h)
MigrationNext ==
    migrationSteps < MaxMigrationSteps /\ migrationSteps' = migrationSteps + 1 /\ MigrationStep

MigrationSpec == MigrationInit /\ [][MigrationNext]_migrationVars

-----------------------------------------------------------------------------
(* PROPERTY (migrate.rs:5, `shred-legacy` "destroys the legacy vault only  *)
(* when every ledgered secret is disabled"; migration_ledger.rs:115, the   *)
(* no-loss gate).  When the legacy vault has been destroyed, every value   *)
(* its last snapshot held is a live scoped secret.                         *)
ShredLosesNothing ==
    vault.shredded => \A l \in Lines :
        \E s \in ScopedIds : scoped[s].live /\ Contents[vault.head][l] \in scoped[s].held

(* PROPERTY (maybe_complete, validate_mapped).  A run that is complete     *)
(* stays wholly verified, whatever late marks, resolutions and aborts      *)
(* reach it, and no two of a run's entries lead to one secret's name.      *)
CompleteIsVerified ==
    \A r \in RunIds :
        /\ runs[r].state = "complete" => In(r, {"VALIDATED", "MIGRATED", "QUARANTINED"}) = {}
        /\ \A l, k \in Lines : l # k /\ ledger[r][l].state \in Claims /\ ledger[r][k].state \in Claims
                                => ledger[r][l].name # ledger[r][k].name

(* What a migration promises (migrate.rs, migration_ledger.rs).            *)
MigrationSound == MigrationTypeOK /\ ShredLosesNothing /\ CompleteIsVerified
=============================================================================
