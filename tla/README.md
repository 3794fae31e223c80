# CipherVault: specifications, model checking and proofs

CipherVault keeps encrypted snapshots of a directory of confidential files, in a
local SQLite vault and on several independent operators, so that a clean machine
with only the recovery kit can find, authenticate and restore the newest one. An
account service beside it hosts accounts, scoped secrets and the migration of
vaults into them. This directory holds TLA+ specifications of these parts, the TLC
runs that check them on small instances, and theorems about them that TLAPS checks
for every instance.

## The system

| Part | State it keeps | What makes it hard |
|---|---|---|
| Journaled restore (`crates/snapshot/src/restore.rs`, `crates/file-lock`) | destination files; stage directory with journal, new files and backups | crash between any two file operations, failing operations, edits by others |
| Local store (`crates/local-store/src/db.rs`), agent (`apps/agent`), push, pull and prune (`apps/cli/src/commands`) | snapshots, chunks, heads, recovery sets, pending uploads, device counter; the agent's hash baseline | transactions are atomic, sequences of them are not; several processes, lost events, timeouts |
| Head selection and recovery (`crates/recovery`, `recover.rs`, `recovery_kit.rs`, `recovery_key.rs`) | certified heads, envelopes, kits, shares, kit backups | gaps, forks, incomplete logs, a lost device that returns |
| Multi-operator pool (`crates/storage/src/pool.rs`, `transport.rs`) | sessions, pipelines in flight | concurrent pipelines, early exit, lost answers |
| Operator (`services/operator/src/state.rs`, `handlers.rs`, `lib.rs`) | recovery logs, objects, leases, vouchers, sessions, challenges, members, tickets, approvals | concurrent requests, crashes inside writes, limits, failed persistence |
| Operator swarm (`services/operator/src/swarm`) | peers, liveness views, pending requests, repair state | unreliable delivery, views that differ, restarted counters |
| Maintenance (`services/maintenance/src`) | inventory, job, receipts | stages over an inventory read before them, lost answers |
| Account service (`services/account/src`) | one SQLite database: accounts, sessions, factors, devices, members, secrets, grants, tokens, bindings, audit chain, migration ledger | handlers that release the lock between check and use, retries, expiry |
| Anchoring (`anchor.rs`, `feed.rs`, `crates/storage/src/chain.rs`, `finality.rs`) | evidence, relayed checkpoints, finality cache | reorganisations, refreshes that overtake each other |
| Client commands: update, node, run, migrate, account | installed binaries, pid file, context file, account record | interruption between two files, other processes |
| Terminal workbench and private dashboard (`apps/cli/src/tui`, `dashboard`) | selection, guards, tasks; browser session, workspace | results that land late, tabs that move on |
| Key file (`crates/local-store/src/keyring.rs`) | master key | racing processes, death, power loss |

How they interact: the agent and the CLI write snapshots to the store and hand
each one's recovery set to the pool; the pool runs one pipeline per operator
endpoint (objects, lease, proof of storage, recovery records, head, discovery
readback) and reports success when enough distinct operators are verified;
operators repair replicas among themselves, and maintenance audits the same
operators, appends what one no longer lists and renews leases; recovery and `pull`
read the logs page by page, select a head and publish its files through the
journaled restore. `migrate` moves the values of a vault into the account service's
scoped secrets, `run` materializes those for a child process, and the dashboard
and the workbench act on the local store and account on a user's behalf.

`PROJECT.json` lists every part under `components`, with what of it is modelled, and
under `hazards` the places where it can go wrong, each with the properties that
cover it.

## Modules

| Module | Models | State and actions |
|---|---|---|
| `Restore` | one target directory and the call that holds its lock | below |
| `AtomicRestore` | what a restore promises: all files change in one step | |
| `Capture` | the store shared by agent, push, pull and prune | below |
| `RecoveryLog`, `LogReader` | an operator's logs, and a reader that pages through one | below |
| `Replication` | pool pipelines, quorum and discovery repair over `RecoveryLog` | below |
| `Sessions` | identities, login challenges, sessions, revocation at one operator | maps and their files apart; a request is a worker with a `pc` that stops wherever the code releases a lock; a write fails before or after the rename |
| `Vouchers` | object puts under write vouchers, repair pushes, leases | `BeginPut`, `Authorize` (charge and ledger file), `WriteObject`, `ReleaseWrite`; `CreateLease`, `RenewLease`; crash |
| `Membership` | ticket joins, announcements, refreshes, probation and graduation | a join is `SpendInvite`, `InsertPeer`, `MarkProbation`, `LogAdmission` over four files, undone by `UndoRoute`, `UndoMember`, `UnspendInvite` |
| `InviteQuorum` | v1 and v2 join tickets made by holders offline, any mixture of their signatures presented | `IssueTicket`, `ApproveRequest`, `Combine`, `JoinPresented`, `JoinAuthConfig` |
| `Approvals` | challenges registered at several operators, receipts signed and submitted | `RegisterChallenge`, `ApproveSign`, `CheckScope`, `SubmitReceipt` |
| `Heartbeats` | liveness views from heartbeats whose counter restarts | `HeartbeatTick`, `IntervalPasses` (prune), `PeerStops`, `PeerBoots` |
| `SwarmLoop` | the event loop and the callers waiting on one-shot channels | commands, connection events one step late, block list, DHT answers |
| `SwarmRepair` | scan, provider query, rendezvous plan, paced pushes | live sets that change at will, refused and lost pushes, restarts |
| `OperatorApi` | HTTP and swarm front ends: limiter, admission pool, guards | the same operations checked in two orders; a limit of 0 turns the HTTP limiter off and closes the swarm's |
| `Maintenance` | the daemon's job: audit, repair, discovery, renewals, back-off | operators that lose, stop and do not answer; attempts without a signing key, which only audit; restarts of the daemon |
| `AccountAuth` | logins, handoffs, TOTP, passkeys, recovery codes, devices, policy, reset | `db` behind one mutex; a handler that takes it twice is two actions |
| `AuthLimits` | lockout rows and the account's challenge quota | `AskChallenge`, `CheckRate`, `AnswerRightly`, `AnswerWrongly` |
| `AccountMembers` | invitations, memberships, vault links | one action per handler |
| `ScopedSecrets` | secrets, sealed versions, rotation receipts, key rings, rehearsal | wrapping key read under one lock, used under the next |
| `ScopeGrants` | roles, two-person admin grants, invites, scope tokens, proofs | a request authenticates in one step and acts in a later one |
| `Repositories` | bindings to a provider repository, webhooks, reconcile | deliveries repeated and reordered |
| `AuditChain` | chained events, paged export, online backup, rehearsal | a walk and a backup that writers interrupt |
| `Migration` | the ledger and the `migrate` commands up to `shred-legacy` | each request a step; the commands act on what they read before |
| `NodeInstall` | `update` and `node` on one machine | downloads, replacement binary by binary, pid file, port, reused pids |
| `VaultRecovery` | capture, publication, key rotation, kits, shares, recovery on new devices | `PublishRecords`, `PublishHead`, `LoseDevice`, `ReadRecords`, `SelectHead`, `RebuildStore` |
| `KeyBackup` | passphrase backup of the kit | `BeginBackup`, `PutEnvelope`, `ConfirmReplica`, `RecordBackup`, `FetchBackup`, `WriteKit` |
| `Anchoring` | anchoring a head with or without a registry contract, relayed checkpoints and relayers' claims, feed, finality view | the chain and its reorganisations are external |
| `Workbench` | the terminal event loop and its background tasks | `PressTask`, `JobLands`, `Select`, dialogs, `OutsideChange` |
| `LocalAccount`, `Dashboard` | account files under overlapping commands; the private server on them | file by file; `Guard`, `Context`, `Act`, `StreamSample` |
| `ScopedRun` | `run` with scoped secrets or with a snapshot's files | four requests with changes between them |
| `Keystore` | the master key file | `WriteTemporary`, `LinkKey`, `SyncKeyDirectory`, `SealWithFile`, `PowerLoss` |
| `RestoreProofs`, `CaptureProofs`, `ReplicationProofs`, `OperatorProofs`, `AccountProofs`, `LedgerProofs`, `FleetProofs`, `ClientProofs` | theorems | the header of each says why its properties are not inductive and what the strengthening adds |
| `MCStore`, `MCOperator`, `MCFleet`, `MCAccount`, `MCClient` | instances for TLC; `Restore` and `Capture` are also run as they are | |

The header comment of each module says which code it models, what one step is and
what is abstracted; `map` in `PROJECT.json` gives the lines of every definition.

The MC modules of larger parts have a variable `focus`: their modules share no
state (of a replication the store sees only the outcome, an action of `Capture`), so
a behaviour exercises only the module its initial state picks, and the state space
is the sum of the modules' instead of their product. It is a way to check several specifications in one run, and not a
composition: a property about one module has nothing to say about the others.
Where modules do share state one extends or instantiates the other (`LogReader` and
`Replication` the logs, `Dashboard` the account files).

Definitions whose comment starts with "Mutant" are variants of the definition that
follows, each with one plausible mistake; replacing the definition by it makes
TLC violate the property named in `PROJECT.json`. No specification uses them.

### Restore

On disk: `dest` (the destination files), `stage` (the directory
`.ciphervault-restore` exists), `journal` (`journal.json`), `backup`
(`backup-<i>`). The call in progress is `pc` with its locals; the exclusive lock of
`acquire` makes it the only one. `BeginRestore` is `publish_with`, `BeginRecover`
is `recover_interrupted_restore`, `ReadJournal` is `recover_locked`. Staging takes a
digest and a backup of one destination per step (`TakeDigest`, `TakeBackup`),
`WriteJournal` makes the journal durable, `CheckUnchanged` and `Publish` replace one
file per round, `Commit` writes the commit record. Every error path leads to
`StartRollback` or `DropStage` as `journal.publishing` decides. `RollbackCheck`,
`RollbackWrite` and `RollbackStops` are `rollback`, from the last file to the first;
`RemoveEntry` and `RemoveStage` are `remove_dir_all`, which unlinks in an order the
code does not control. `Crash` may strike between any two steps, each `...Fails`
action is a failing file operation with the partial effects it can have, and `Edit`
is a writer that does not take the lock.

A digest is the content it was computed from. `old`, `files`, `ext`, `raced` and `torn` are
history variables that only properties read: what was there before, the snapshot, the
last foreign edit, edits that fell between a check and its replacement (which the
code cannot see), and a commit record whose directory sync failed.

### Capture

The tables of `vault.db` are sets and numbers (`rows`, `chunks`, `pending`, `sets`,
`heads`, `active`, `counter`); each method of the store is one step, and everything
between two methods is a place where another process may act. `BeginCapture` ...
`CommitHead` follow `capture_and_sync` and `cmd_push`, which call the same methods in
the same order; `Replicate`, `ReplicateFails` and `Complete` are the outcome of the pool,
and only the agent clears its pending upload, as in the code. `sync` is the mode of the
running agent, chosen at each start (`SyncModes`): without `--sync`, which is the
default, or without operators, `KeepLocal` marks the upload completed and sends nothing,
and `retry_pending_uploads` does nothing. `local` remembers the snapshots settled that
way: for them the store promises no quorum, prune may take them, and
`UploadsRecoverable` and `HeadsReplicated` speak of the others. `BeginPull` ...
`PullHead` follow `cmd_pull` without `--force` (the modification check, the restore,
`save_snapshot`, `set_head`); `BeginPrune`, `ReadGuards` and `Prune` follow `cmd_prune` and
`prune_snapshots`, whose guards are read before its transaction. All tracked files
are one file and its content one chunk: sharing of chunks between snapshots of equal
content remains. `--keep-days` is 0. Only one device writes; a pull therefore finds
snapshots of this device.

### RecoveryLog and LogReader

A log is the sequence of its complete frames, `torn` an incomplete one behind them.
`Accepts` is the decision of `append_authorized_recovery_record_inner` (capacity,
signature rule, caller), `WriteFrame` its effect including the repair of the tail,
`WriteInterrupted` every state a failed write or a crash leaves. A record is its
kind, its signer and its subject; heads, epoch envelopes and snapshot records share
one rule and are items. The stripe lock of the locator makes an append or a page
one step. `LogReader` lets any caller append any offered record while a client
fetches the log by cursor, as `get_recovery_records` in `transport.rs` does.

### Replication

Each pipeline of `replicate_to_single_operator` is a `stage` per device and endpoint;
`ServerOf` lets several endpoints lead to one operator. `Authenticate` starts an attempt,
`Collect`, `ReturnOk` and `ReturnDeficit` are the loop of `replicate_and_verify_inner`. A
rejected bootstrap record is skipped and a rejected head ends the pipeline.
`PipelineFails`, `AppendInterrupted` and `Cancel` are failures: requests that are lost before or after they are
served, operators that stop inside an append, cancelled uploads. `BeginRepair` and
`RepairNext` are the discovery repair of `run_inventory_job`, which appends what is
missing in the order of the pipeline, one record a step; an append can be
interrupted too (`RepairInterrupted`). The objects of a head are
stored or not; a lease is committed or not.


### Sessions, Vouchers, Membership, Approvals

These modules keep each map of `state.rs` and its file as two variables. A handler
is cut where it releases a lock; a critical section that ends in a save is one
step, which may fail with the file old (the write failed) or new (only the
directory sync failed), and then takes the code's own path of repair. A crash
forgets requests and maps and loads the files. History variables (`denied`,
`granted`, `payer`, `admitted`, `accepted`) record what a client was told; the
properties compare them with what the operator has.

### The account service

`AccountState` holds one SQLite connection behind a mutex. A handler that locks
once is one action; `post_session_handoff`, the scope-token routes and the wrapping-key
routes lock twice, and the request between its two locks is kept in a variable
(`minting`, `opened`, `rings`), so that every other handler may run in between.
Sealing and signatures are symbolic: a version opens under the scope and key it
was sealed with. The step counters (`requests`, `acts`, `steps`, ...) only bound the
length of a behaviour.

### Client commands

Commands that act on files are cut at every file and every request, and another
process, an interruption or an answer that comes late may fall between.
`VaultRecovery` follows `select_head` and `select_envelope` over heads of several
devices; `Capture` has one device. `Workbench` keeps the bag of running tasks and what
each will deliver; the tracked files are numbered in the order of their paths, which is
the order `list_tracked_files` lists them in, so that a new file moves the rows behind
it. `Dashboard` extends `LocalAccount`: the guard of a request reads
the files that account commands rewrite. Its history keeps the tokens that were ended
(by a logout in another tab, a revocation, age, a restart) and what the guard admitted;
`PrivateServed` compares admissions, acts and released samples with that history and
with the devices that account commands have revoked, not with the check itself.

`Anchoring` chooses with each command whether a registry contract is configured.
With one, a receipt must carry its log for the commitment; without one (the zero
address, which is the default) a successful transaction is enough, and `AnchorsBacked`
promises no more. A relayer may answer any claim of `RelayClaims`; `loose` remembers
the transactions that were recorded without a check against the registry.

## Runs

| Run | Checks |
|---|---|
| `RestoreSafety` | two files, three contents, one crash, one failing operation, one edit: `AllOrNothing`, `EditSurvives`, and `RestoreSound` (types, `CommittedIsComplete`, `PriorContentKept`) |
| `RestoreCrash` | three crashes: `Restore` implements `AtomicRestore`; recovery completes (`RecoveryCompletes`) unless a removal was cut short at the wrong place |
| `RestoreStuck` | violated: `InterruptedRestoreRecovers` |
| `CaptureSafety` | agent, push, pull and prune interleaved with one fault: `CaptureKept` (types, `ChunksRetained`), `UploadsRecoverable`, with agents that replicate and local-only ones; one head over three endpoints of two operators: `QuorumSound` |
| `CaptureGap` | violated: `ComparableHeadsSelectable` |
| `CapturePull` | violated: `PullAdvances` |
| `UploadProgress` | capture, the agent changing its mode at restarts: `HeadsOrdered`, `EditsReach`, and `HeadsReach` if it replicates from some time on; replication: `HeadsReach`, `DiscoveryRestored` |
| `OperatorSafety` | logs (`AckedStays`, `LogSound`), `SessionsSound`, `VouchersSound`, admission (`AdmissionSound`, `StandingKept`), `ApprovalsSound`, `RejoinersSeen` |
| `FleetProgress` | `RepairProgress`, `SwarmCallsEnd`, `MaintenanceProgress`, `SignInProgress`, and on the way `FleetGuarded` |
| `AccountSafety` | `AuthSound`, `RolesSound`, `SecretsSound`, `UsedWhileEntitled`, `RepositoriesSound`, `AuditSound`, `MigrationSound` |
| `MigrateShred` | violated: `ShredLosesNothing` |
| `ClientSafety` | `NodeSound`, `InstallAdvances`, `RecoverySound`, `AnchorsSound`, `WorkbenchSound`, `DashboardSound`, `RunsSound`, `KeystoreSound` |

A property named `...Sound` is the conjunction of one module's type invariant and
its safety properties, which are defined and explained one by one in the module.
What they say, in short:

- operator: a challenge is answered once, a revoked identity has no session even
  after a restart, a token the client has stays valid (`SessionsSound`); the bytes
  stored under a voucher stay within its quota and charges are exact
  (`VouchersSound`); only nodes that enough pinned holders signed for are let in and
  an acknowledged member keeps record and time served (`AdmissionSound`,
  `StandingKept`); an approval is a signature over exactly that challenge
  (`ApprovalsSound`); a restarted node becomes visible again (`RejoinersSeen`);
- fleet: an under-replicated object reaches its target, every call through the
  event loop is answered, maintenance restores closure and leases, a locked-out
  client gets in; meanwhile only proven members receive replicas, blocked peers
  have no connection, both front ends agree on every guard, no caller exceeds the
  limiter, receipts promise no more than the operator has (`FleetGuarded`);
- account: after a reset no older session authenticates, a replaced key is
  powerless, a policy always has a factor (`AuthSound`); nobody becomes an admin by
  one principal's doing (`RolesSound`); a request acts only while its session, role
  and factor stand (`UsedWhileEntitled`); every retained version opens, the current
  one is the last written, a rotation retried with its key rotates once
  (`SecretsSound`); an active binding is proven and a deletion noticed
  (`RepositoriesSound`); the chain verifies, a walk is a prefix, a rehearsal is of
  one moment (`AuditSound`); a destroyed vault's values are all scoped secrets
  (`MigrationSound`);
- client: binaries only go forward, a set-up node stays manageable; a recovery
  restores the newest of what it was shown with the right key and the history goes
  on; a recorded kit backup can be restored; what is recorded or shown as anchored
  has a receipt, bound to the commitment where a registry was asked, and an alarm stays; one task of a kind, and the inspector follows the
  selection; an account can be unlocked and revocations stand; a request acts on
  the workspace it was admitted to, and nothing is admitted or streamed on an ended
  token or for a revoked device; a child runs with one whole source of
  variables; a sealed secret stays openable.

Bounds. Two files are enough for a restore to be half done, and the third content
is one that neither tree has; a crash, a failure and an edit together reach every
combination of an interrupted rollback. Two snapshots and two edits let a prune
meet a capture, a pull and a second head; `UploadProgress` has four snapshots so that
a failed one lies between others. A log of four records holds genesis,
certificate, head and one more, with two pages. Three endpoints of two operators
make endpoints and operators differ; the log of `CaptureSafety` is too short for
all retries of a head, the one of `UploadProgress` has room for every attempt. In the
operator's stores two concurrent requests, one or two failing writes and a restart
suffice for every pair of critical sections to meet; limits are one or two, so
that they are reached. The account modules bound the number of requests (6 to 14),
chosen so that each scenario named in a property fits: for example issue, use and
denial of a token with a role lost in between. `MaxTokens` and similar bounds are in
guards. In the client modules two processes, three devices, one reorganisation and
one power loss are the smallest numbers at which the hazards occur; of two scoped
runs of one shell the second is pinned to the revision of the first and sets nothing. The
dashboard has one tab that does everything and one that logs out, beside one process
whose third command revokes a device. Where two processes have no state at rest, the
second starts only beside the first, and the kit is split before the first capture,
since a split matters to recoveries alone.
`CHECK_DEADLOCK FALSE` stands where bounded budgets let everything come to rest;
`Restore` never rests, since another restore may always start.

Instances that exclude a case. `Overlap = FALSE` (two requests for one operator id
are not in flight together), `ClockSteps = 0` (the wall clock is not set back),
one bound project, `PlanHalfSeen = FALSE` in `AccountSafety`: these are conditions the
properties need, for the reasons listed below. `PlanHalfSeen` is `TRUE` in `MigrateShred`.
Two people share one migration run in `AccountSafety`. In `ScopedSecrets` the
administrator drops historical keys only on a clean rewrap report for the key file in
place, when no request that read an older file is still running (`clear`): the code
leaves both to the operator of the service. The theorems
carry these conditions as hypotheses (`~Overlap`, `ClockRuns`, `~PlanHalfSeen`), and
`ShredKeepsEveryValue` has for the one run what it is needed for (`DeletedAlone`: an abort
deletes no secret that another entry counts as imported).

Fairness. `Restore`: the OS schedules a call that holds the lock, and an interrupted
restore is followed by another recovery. `UploadProgress`: the agent is restarted,
its fallback scan runs every three seconds and its worker takes the job (weak
fairness of its steps); `retry_pending_uploads` goes through all pending uploads
every 30 seconds (strong fairness of each retry, because a capture may
intervene; justified while single uploads fit into the 90 seconds that `run_loop`
grants, see the hazard at `watcher.rs:513`); a device polls its pipelines and
maintenance runs in a loop. `FleetProgress`: the swarm's ticks go on, unheard peers are
heard again and pushes that are not lost are answered; tokio polls tasks that can
go on and libp2p ends every request and query with a result or a failure; the
daemon's loop goes on and operators come back; a client that is turned down keeps
trying, with strong fairness for the challenge quota, which is free infinitely
often. Nothing is assumed of crashes, failures, edits and losses, which are
bounded, and nothing of commands a user starts.

### What the violated runs show

- `RestoreStuck`: after a rollback, `remove_dir_all` may unlink backups before the
  journal. A crash in between leaves an uncommitted journal without backups, and
  every later recovery stops with "backup missing", although the files are back.
  The documents promise that a subsequent call rolls back or cleans up.
- `CaptureGap`: if the middle one of three snapshots in a row was not replicated,
  `select_head` sees two unconnected maximal heads and reports a fork.
- `CapturePull`: while the newest snapshot is still being replicated, pull takes its
  replicated ancestor for newer and moves files and active head back.
- `MigrateShred`: `cmd_shred` takes a run whose entries are not submitted yet for a
  migrated one, because it has no open entries, and destroys the vault.

### Limits met while modelling

Behaviour of the code that the properties exempt or the instances exclude, each
at the place where it comes from:

- Store and pool: the operator accepts records it already has, although
  `pool.rs:330-331` says it rejects them, so retries use up a locator's capacity; agent
  and push may use one counter twice (`push.rs:30`); an edit between pull's check and
  the restore's digest is not seen (`commands/restore.rs:258`); with pull beside prune the
  rows of the new active head can be deleted.
- Operator: a failed rejoin under a spent ticket frees the ticket
  (`state.rs:2793`, against the comment at `2907-2909`), which then admits its holder
  again, nobody else; overlapping requests for one operator id can undo each
  other's record; an object that a failed put had already renamed into place stays
  without a charge.
- Swarm: a scan forgets an object's failures together with its ended cooldown
  (`swarm/mod.rs:824`), so the back-off of `repair.rs:171` seldom grows as section 3 of
  `REPAIR_PROTOCOL.md` describes; holders on probation are not counted as replicas (`mod.rs:886`); a send rate below an object's
  size starves its repair (`DEPLOYMENT_RUNBOOK.md:644`); blocking a peer leaves it in the
  routing table (`mod.rs:1417`).
- Maintenance: a renewal whose answer is lost leaves a local receipt that is not
  renewed again (`engine.rs:470`), although the lease runs.
- Account: a token denied after authentication still finishes its request; a
  revoked member with a second pending invitation returns with it
  (`memberships.rs:222`); with two projects bound to one repository a delivery signed
  for one is refused for the other (`vcs.rs:382`); an event stamped before its
  predecessor breaks verification (`audit_chain.rs:267-270`); a rotation that is
  started again without `--idempotency-key` draws a new key and rotates again
  (`secret.rs:500`); an import that meets a secret of its name with the same bytes adopts
  it (`migrate.rs:709-711`), and `abort_run` deletes the secret of every imported entry, the
  adopted ones too, although the comment at `migration_ledger.rs:1031-1033` says "created by
  this run": the run that created it stays complete without it; a deleted secret keeps
  its name (`scoped.rs:117`), which validation does not look at, so a second run over
  the same names passes validation after an abort and fails at its first creation; a
  wrapping key is compared with one sealed version only (`key_lifecycle.rs:104`).
- Client: an update interrupted between binaries leaves the companions behind until
  the next release (`update.rs:125-128`), and two at a time may install the older
  (`update.rs:517`); a start that timed out and is repeated spawns a second daemon
  (`node.rs:583-593`); the context file is written in place (`scope.rs:187`); a kit backup
  counts endpoints, not operators (`recovery_key.rs`); `recover` restores files before
  it notices an existing store; a second anchoring overwrites the evidence of the
  first (`anchor.rs:410-420`); a slower refresh wipes a newer one's alarm
  (`finality.rs:830`); the inspector matches results by row (`app.rs:1525`); account
  commands write the whole record back (`account.rs:345-363`); without a contract
  configured, which is the default (`anchor.rs:58-61`), any successful transaction is
  recorded as the evidence of a head (`anchor.rs:146`, `177`, `329`, `345`), and the
  finality view knows the transaction's hash only; a relayer's hash is stored even
  when its receipt does not pass (`anchor.rs:264-265`), then without a block; a node too
  old to identify itself is taken for one's own (`node.rs:565-572`); a rebuild of the
  store that dies before `set_head` (`recover.rs:479-511`) leaves a store without a head; a key used before the
  winner's directory sync can be lost with power (`keyring.rs:242-244`).

## Proofs

All proofs are checked by TLAPS without assumptions other than the named `ASSUME`s
of the modules, which say what the constants are (TLC evaluates them in every run),
and the hypotheses a theorem names. The bounds (`MaxFaults`, `MaxSteps`, ...) are
arbitrary numbers in the theorems. Each proof has the same shape: an inductive
invariant (`IInv`, or with the part's name before it), checked with TLC first, a
lemma that `Init` implies it, one lemma per action that preserves it, and one that it
implies the property. The properties are seldom inductive because a request acts on
what it read before other steps; what the strengthenings add is what each process
may rely on between its steps.

| Theorem | States | The strengthening |
|---|---|---|
| `RestoreProofs!RestoreSafety`, `RestoreKeepsContent`, `EditsAreKept` | `AllOrNothing`, `RestoreSound`, `EditSurvives`, for any files, contents, crashes, failures and edits | ties the control point to the disk: during staging the destinations are untouched; journal in memory and on disk record the prior contents; while publishing, destinations below the index are new, the others old, and every backup exists; a rollback at index `i` has restored what lies above `i`; cleanup starts only from a completely old or new tree. Each clause exempts edited files |
| `RestoreProofs!RestoreIsAtomic` | without failing operations and edits, `Restore` implements `AtomicRestore` | the mapping reads an uncommitted journal as the tree it would roll back to; only the commit changes the mapped tree |
| `CaptureProofs!CaptureSafety`, `UploadsStayRecoverable` | `CaptureKept` and `UploadsRecoverable` for any commands and any modes of the agent | a stored snapshot is pending until a quorum has it or a local-only agent kept it (`Settled`, `StoreInv`); a capturer past `save` has its row and pending upload, and nobody else knows its snapshot (`CaptureInv`); a pull names a listed head (`PullInv`); targets of a prune are settled however old the selection is (`PruneInv`) |
| `CaptureProofs!CountersOrderHeads`, `ActiveHeadOpens`, `HeadsStayOrdered` | the parts of `HeadsOrdered`, and `HeadsOrdered` where only prune runs beside the agent | counters of stored, published and half-captured snapshots are all behind the store's; without push respectively pull, because each breaks it (see the limits) |
| `OperatorProofs!RecoveryLogSafety`, `AcknowledgedRecordsStay` | `LogSound`, `AckedStays` | appending an accepted record preserves the authorities and devices of every prefix; a torn frame lies behind every acknowledged one |
| `ReplicationProofs!ReportedHeadsHaveQuorum` | `QuorumSound` for any devices, endpoints and operators | what each stage has left at its operator (`PipelineInv`), that what the loop counted is there (`VerifiedInv`), and that logs, objects and leases only grow |
| `OperatorProofs!OperatorSessionsSafety` | `SessionsSound` | who took a challenge alone has its number (`TakenInv`); `identity_lock` covers a revocation and the file says revoked before sessions go (`LockInv`, `DeniedInv`); a failed insert takes back only its own session (`InsertInv`) |
| `OperatorProofs!ApprovalsSafety` | `ApprovalsSound` | a page, in memory and on disk, is about one challenge and so are its receipts |
| `OperatorProofs!RejoinersAreSeen` | `RejoinersSeen` for any nodes and any timeout of more than one interval | an entry that turns heartbeats down is at least as old as the time the node has been heard again (`AgeInv`), and an old entry is pruned (`OldInv`, `PrunedInv`) |
| `OperatorProofs!AdmissionIsGuarded` | `AdmissionSound`, if requests about one id do not overlap (`~Overlap`) | tickets: what was let in was signed by enough holders pinned then; members: a rollback puts back no less than was acknowledged (`JobInv`) |
| `OperatorProofs!MembersKeepTheirStanding` | `StandingKept` under the same condition | the record a file or a rollback holds joined no later than the member's, and is full or served where that one is (`ServedInv`) |
| `OperatorProofs!VouchersStayWithinQuota` | `VouchersSound` for any overlapping puts, sizes, failing writes and restarts | what is due is what is stored and what puts under way still hold; quotas cover it, and every ledger entry that may be read again, in memory or on disk, says no less (`ChargeInv`, `TotalInv`); who pays for an object is known (`PayerInv`, `PutInv`) |
| `FleetProofs!FleetStaysGuarded` | `FleetGuarded`, of all five parts | `SwarmIInv`: an open link is to nobody blocked, the pending queries are those a task waits for, and an answer names what was provided; `LimitIInv`: a lockout row counts what was judged; the others below |
| `FleetProofs!ReplicasGoToProven`, `FrontEndsAgree` | the parts of `FleetGuarded` about repair and the front ends, of the component's own specification | every push in flight is to a proven member (`PushesInv`); every hit of a window is one admission (`LimiterInv`), whatever hygiene and eviction forget; an HTTP limit of 0 admits everybody and is exempt |
| `AccountProofs!AuthenticationSafety` | `AuthSound` | a handoff agrees with the session it was copied from while that is there (`CopyInv`), and token numbers are not used again (`RowInv`) |
| `AccountProofs!BindingsSafety`, `SoleBindingSound` | `ActiveIsProven` for any projects; `RepositoriesSound` where one project binds the repository | webhooks are looked up under the first binding only, so a deletion need not reach a second one: for several projects the theorem says it of the first |
| `AccountProofs!ScopedSecretsSafety` | `SecretsSound` | label and bytes of a registered key are bound (`RegisteredInv`); the current version is one (`VersionInv`); a rotation has its receipt (`ReceiptInv`); after a clean report nobody seals with an old key (`ClearInv`) |
| `AccountProofs!RolesAreDelegated` | `RolesSound` | invitations a membership came from are spent (`SpentInv`) |
| `AccountProofs!RequestsAreEntitled` | `UsedWhileEntitled`, an action property | a denial outlives its token (`DenyInv`) and a proof is remembered while its stamp is near the clock (`ProofInv`), from `DenyTtl > TokenTtl` and `ProofRetention > ProofWindow`, as the code's constants are |
| `LedgerProofs!LedgerStaysConsistent` | types and `CompleteIsVerified` for any runs, people and interruptions | claims of one run have different names and a complete run's entries are settled (`BooksInv`), though commands act on lists they read before (`ListedInv`) |
| `LedgerProofs!ShredKeepsEveryValue` | `MigrationSound`, if no plan dies between its two requests and no abort deletes a secret that another entry counts as imported | an imported entry's secret was given its value (`WrittenInv`) and lives (`BackedInv`); an entry's value is the snapshot's (`SourcesInv`) |
| `LedgerProofs!SoleMigrationLosesNothing` | `MigrationSound` for one person and one run, of aborts nothing is assumed | an imported entry's secret has its name (`NamesInv`), so that no two entries of a run share one |
| `LedgerProofs!AuditTrailSound` | `AuditSound`, if the clock is not set back (`ClockRuns`) | rows in the order of their seconds are rows in the order of their numbers (`ChainInv`); an export has the first rows of the chain (`WalkInv`), a copy those of a moment (`BackupInv`, `DrillInv`) |
| `ClientProofs!SealedSecretsOpen` | `KeystoreSound` | what a power loss would leave of a key file is the key a reader finds or nothing (`DiskInv`); a kept secret's key is on disk (`KeptInv`) |
| `ClientProofs!AnchorsStayBacked` | `AnchorsSound` | every transaction a relay, a refresh or the evidence speaks of once had the event, or was recorded without a registry or on a relayer's claim and succeeded where shown (`EmitInv`, `RefreshOK`); the memory of deep receipts is what was shown, unless refreshes overlapped (`MemoryInv`) |
| `ClientProofs!RecoveryIsFaithful` | `RecoverySound` | snapshots follow their parents with epoch and key, a store is where its head and its device's snapshots are (`HistoryOK`, `StoreOK`); every published head but the newest is the parent of another, unless two devices branched (`Chained`); replicas counted as intact hold the envelope (`HeldInv`) |
| `ClientProofs!RunsHaveOneSource` | `RunsSound`, if a snapshot's merged files are its layered ones | a command goes on with the values of the digest it has (`RunCommandOK`): the digest covers what tells them apart (`RevisionTells`) and a page that is not full has left nothing out (`PageIsWhole`) |
| `ClientProofs!NodeStaysManageable`, `UpdatesAdvance` | `NodeSound`; `InstallAdvances`, an action property | who holds the port and which process a recorded number names (`DaemonInv`); the token is written before the configuration (`FolderInv`); a download is of the release the update found (`UpdateInv`) |
| `ClientProofs!DashboardIsPrivate` | `DashboardSound` | what a command has in memory this account's record said once (`AccountIInv`); ended tokens are older than the current one and a request about to act was admitted as it stands (`UiInv`); a revoked device is not authenticated, whoever asks (`ValidInTime`) |
| `ClientProofs!WorkbenchStaysTrue` | `WorkbenchSound` for any files, operators, keys and late results | a guarded task runs once under its guard (`Guarded`); an offered update is known (`Offered`); every inspection is of the file in its row, and the awaited row is being inspected (`Inspecting`) |

Several of the proofs are inductions over data: that every head leads to the selected
one (`TopsAncestor`), that a page that is not full is whole, that a chain verifies. The
prover cannot instantiate an induction rule; they go through the least or greatest
counterexample (`LeastNatural`, `GreatestNatural`, `Upwards`, from the well-foundedness
of the naturals). Where a model sums or sorts, it says so without recursion: a sum
of sizes is the number of bytes (`Bytes`, a cardinality), a sorted list is given by
each member's rank (`Rank`, `ListTracked`), so that the theorems about finite sets apply.

What the proofs found. `AnchorsBacked` said that the event of a checkpoint shown as
deep was proven at the very block shown. A transaction that is mined again after a
reorganisation, when another one has published its commitment meanwhile, is shown
at a block where it emitted nothing; five blocks reach this, the run's three do
not. The property now says that the transaction succeeded at the block shown and the event was proven
at some block. A pinned run (`--revision`) was
compared with its own list although it has the values of the run that
printed the revision; names that were swapped and swapped back tell the two
apart. `DeletionNoticed` holds of one bound project only (above). That imported
secrets live on failed at an abort in another run (above; with two runs of one line TLC
shows it in a few steps), which is why `ShredKeepsEveryValue` excludes it; a plan's second request to a run that was aborted meanwhile had been left
without an end. The limiter's model treated a limit of zero as
any other; in the code it turns the HTTP limiter off (`lib.rs:255-257`) and makes the
swarm's refuse everyone, and the model has both (`Unlimited`). A bound on the workbench's tasks that its type invariant named was too
low in general (a finished push starts a probe and an inspection), and its list had new
files at the end instead of in the order of their paths.

Only model-checked:

- the liveness properties (`RecoveryCompletes`, `HeadsReach`, `EditsReach`,
  `DiscoveryRestored` and those of `FleetProgress`): outside the prover's reach;
- that a snapshot's merged files are its layered ones: a fold over a sequence, which
  the prover cannot unfold; it is a hypothesis of `RunsHaveOneSource`.

Every other property of the passing runs is stated by a theorem.

## Not modelled

- Cryptography, encodings, redaction and smart-card commands: data
  transformations without state of their own, taken as unforgeable and injective.
- Parsing of arguments, output, drawing of the workbench, diffs, metrics, status
  pages and the web pages: nothing that outlives a call.
- Power loss that loses directory entries, except in `Keystore`: the hazards of the
  new stage directory and of a new log file (`restore.rs:258`, `state.rs:2349`) need a
  model of unsynced directories that TLC can hold only for one file at a time.
- libp2p, the chain, the repository provider and the file system: external, as the
  code uses them.
- The Windows variants, relay reservations and hole punching, peer discovery of the
  pool, import and export of secrets, historical release signatures.

What is left out of a modelled part is said in its note in `PROJECT.json`.

## Plan

1. Restore, capture, logs and replication: modelled, checked and proved.
2. Operator stores, swarm, maintenance, account service, migration, recovery,
   anchoring, client commands and interfaces: modelled and checked, and their safety
   invariants and action properties proved.
3. What is left: the liveness properties stay with TLC; the merge of a snapshot's
   files awaits a prover that unfolds folds; the hazards in `PROJECT.json` without a
   property, each with its reason there; a model of unsynced directories for more
   than one file.
