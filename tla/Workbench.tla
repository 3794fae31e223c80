----------------------------- MODULE Workbench -----------------------------
(***************************************************************************)
(* The terminal workbench (apps/cli/src/tui/app.rs, events.rs): an event   *)
(* loop that never waits, background tasks whose results land later, one   *)
(* in-flight guard per kind of task, dialogs that a late result may open,  *)
(* and tables whose rows change under the selection. Another process may   *)
(* change the vault and the configured operators meanwhile; a task may     *)
(* panic. What the tasks do is the subject of Capture, Anchoring and       *)
(* NodeInstall; the screen's layout is left out.                           *)
(***************************************************************************)
EXTENDS Naturals, Sequences, FiniteSets, Bags

CONSTANTS NumPaths,       \* files that may be tracked
          OperatorSets,   \* operator lists that may be configured
          MaxTasks,       \* background tasks at a time
          MaxKeys,        \* key presses and changes from outside
          MaxPanics

ASSUME WorkbenchAssumption ==
  NumPaths \in Nat /\ MaxTasks \in Nat \ {0} /\ {MaxKeys, MaxPanics} \subseteq Nat /\ OperatorSets # {}

VARIABLES
  disk,     \* the vault's tracked files and the configured operators
  rows,     \* the files shown and the selected row
  inspect,  \* the chunk inspector
  health,   \* operators shown, whose health they show, echo of a refresh
  flags,    \* in-flight guards
  jobs,     \* background tasks, a bag
  dialogs,  \* open dialogs
  update,   \* the update offered and whether it is being installed
  workbench \* quit, key presses, panics, history

workbenchVars == <<disk, rows, inspect, health, flags, jobs, dialogs, update, workbench>>

\* Files are numbered in the order of their relative paths.
Paths == 1..NumPaths
NoPath == 0
Simple == {"explorer", "token", "probe", "push", "anchor"}
Dialogs == {"help", "snapshot", "track", "search", "update"}
Shown(list, i) == IF list = <<>> THEN NoPath ELSE list[i + 1]

\* list_tracked_files: the tracked files in the order of their paths.
ListTracked(S) ==
  [i \in 1..Cardinality(S) |-> CHOOSE p \in S : Cardinality({q \in S : q <= p}) = i]

\* Background tasks.
Task(k) == [kind |-> k]
Polls == [kind : {"poll"}, operators : OperatorSets]
Inspections == [kind : {"inspect"}, row : Paths, path : Paths]
Tasks == {Task(k) : k \in Simple \cup {"check", "apply"}} \cup Polls \cup Inspections
TaskRunning(kinds) == {job \in DOMAIN jobs : job.kind \in kinds}
Alone(kinds) == \A a, b \in TaskRunning(kinds) : a = b /\ jobs[a] = 1
Start(tasks, new) == tasks (+) SetToBag(new)
Rest(job) == jobs (-) SetToBag({job})

\* TuiApp::new and run_tui: the local state is read, the first file inspected, and
\* the poll, the token probe and the check for updates start.
WorkbenchInit ==
  /\ disk \in [tracked : {{}, Paths}, operators : {CHOOSE o \in OperatorSets : TRUE}]
  /\ rows = [files |-> ListTracked(disk.tracked), sel |-> 0]
  /\ inspect = [flight |-> IF rows.files = <<>> THEN 0 ELSE 1,
                key |-> Shown(rows.files, 0), shows |-> NoPath]
  /\ health = [operators |-> disk.operators, probed |-> {}, echo |-> FALSE]
  /\ flags = {"poll", "token", "update"}
  /\ jobs = SetToBag({Task("token"), [kind |-> "poll", operators |-> disk.operators],
                      Task("check")}
                     \cup (IF rows.files = <<>> THEN {}
                           ELSE {[kind |-> "inspect", row |-> 1, path |-> rows.files[1]]}))
  /\ dialogs = {}
  /\ update = [pending |-> FALSE, installing |-> FALSE]
  /\ workbench = [quit |-> FALSE, keys |-> 0, panics |-> 0, shifted |-> FALSE]

\* A key press; MaxKeys and MaxTasks bound the presses.
Pressed == ~workbench.quit /\ workbench.keys < MaxKeys /\ BagCardinality(jobs) < MaxTasks
Counted == [workbench EXCEPT !.keys = @ + 1]

\* It reaches the global bindings only when no dialog is open.
Key == Pressed /\ dialogs = {} /\ workbench' = Counted

SimpleUnguarded(k) == TRUE

\* The in-flight guard of a kind of task.
SimpleFree(k) == k \notin flags

\* spawn_push, spawn_anchor, spawn_token_probe, spawn_explorer_refresh and
\* spawn_object_probe: the task, unless one of its kind is in flight.
Spawn(k) == IF SimpleFree(k) THEN {Task(k)} ELSE {}

\* spawn_operator_poll.
SpawnOperatorPoll(operators) ==
  IF SimpleFree("poll") THEN {[kind |-> "poll", operators |-> operators]} ELSE {}

-----------------------------------------------------------------------------
(* Tables and the inspector *)

\* request_inspection, with the files and the selection given: skipped when the
\* file shown is the one asked for, or its row is being inspected.
NeedsInspection(list, i) ==
  /\ list # <<>>
  /\ ~(inspect.key = Shown(list, i) /\ inspect.shows # NoPath)
  /\ inspect.flight # i + 1

RequestInspection(list, i) ==
  IF list = <<>> THEN [inspect EXCEPT !.key = NoPath, !.shows = NoPath]
  ELSE IF NeedsInspection(list, i)
       THEN [inspect EXCEPT !.flight = i + 1, !.key = Shown(list, i)]
       ELSE inspect

SpawnInspection(list, i) ==
  IF NeedsInspection(list, i)
  THEN {[kind |-> "inspect", row |-> i + 1, path |-> Shown(list, i)]} ELSE {}

\* clamp_table_indices.
Clamped(list, i) == IF i >= Len(list) THEN 0 ELSE i

\* History: the list changes while an inspection runs, wanted or not.
Shifts(list) == list # rows.files /\ TaskRunning({"inspect"}) # {}

\* refresh_local_state, with the tracked files it reads, the tasks and guards
\* before it, and what its caller spawns after it: files, operators (whose
\* health is unknown when they changed), token probe, selection, inspection.
RefreshLocalState(list, tasks, guards, after) ==
  LET i == Clamped(list, rows.sel) IN
  /\ rows' = [files |-> list, sel |-> i]
  /\ inspect' = RequestInspection(list, i)
  /\ jobs' = Start(tasks, Spawn("token") \cup SpawnInspection(list, i) \cup after)
  /\ flags' = guards \cup {"token"} \cup {job.kind : job \in after}
  /\ health' = [operators |-> disk.operators,
                probed |-> IF health.operators = disk.operators THEN health.probed ELSE {},
                echo |-> health.echo \/ after # {}]

\* select_next, select_prev, select_page, select_edge, set_table_index.
Select(i) ==
  /\ Key /\ i + 1 \in DOMAIN rows.files
  /\ rows' = [rows EXCEPT !.sel = i]
  /\ inspect' = RequestInspection(rows.files, i)
  /\ jobs' = Start(jobs, SpawnInspection(rows.files, i))
  /\ UNCHANGED <<disk, health, flags, dialogs, update>>

\* The track dialog, which opens over nothing but an update: a file is tracked and
\* the local state read again.
TrackFile(p) ==
  /\ Pressed /\ "track" \in dialogs
  /\ LET tracked == disk.tracked \cup {p}
         list == ListTracked(tracked) IN
     /\ disk' = [disk EXCEPT !.tracked = tracked]
     /\ RefreshLocalState(list, jobs, flags, {})
     /\ workbench' = [Counted EXCEPT !.shifted = @ \/ Shifts(list)]
  /\ dialogs' = dialogs \ {"track"}
  /\ UNCHANGED update

\* untrack_selected_file: the vault's row goes, if it is still there.
UntrackSelectedFile ==
  /\ Pressed /\ dialogs = {} /\ rows.files # <<>>
  /\ LET tracked == disk.tracked \ {Shown(rows.files, rows.sel)}
         list == ListTracked(tracked) IN
     /\ disk' = [disk EXCEPT !.tracked = tracked]
     /\ RefreshLocalState(list, jobs, flags, {})
     /\ workbench' = [Counted EXCEPT !.shifted = @ \/ Shifts(list)]
  /\ UNCHANGED <<dialogs, update>>

\* Another process tracks or untracks a file, or reconfigures the operators.
OutsideChange(tracked, operators) ==
  /\ workbench.keys < MaxKeys
  /\ disk' = [tracked |-> tracked, operators |-> operators]
  /\ disk' # disk
  /\ workbench' = Counted
  /\ UNCHANGED <<rows, inspect, health, flags, jobs, dialogs, update>>

-----------------------------------------------------------------------------
(* Keys that start tasks or open dialogs *)

PressTask(k) ==
  /\ Key /\ k \in {"push", "anchor", "token", "explorer"}
  /\ jobs' = Start(jobs, Spawn(k)) /\ flags' = flags \cup {k}
  /\ UNCHANGED <<disk, rows, inspect, health, dialogs, update>>

\* r: the local state read again, then a poll and an explorer refresh.
ForceRefresh ==
  /\ Pressed /\ dialogs = {}
  /\ RefreshLocalState(ListTracked(disk.tracked), jobs, flags,
                       SpawnOperatorPoll(disk.operators) \cup Spawn("explorer"))
  /\ workbench' = [Counted EXCEPT !.shifted = @ \/ Shifts(ListTracked(disk.tracked))]
  /\ UNCHANGED <<disk, dialogs, update>>

\* The poll by the clock, whatever dialog is open.
TimedPoll ==
  /\ Pressed /\ workbench' = Counted
  /\ jobs' = Start(jobs, SpawnOperatorPoll(health.operators)) /\ flags' = flags \cup {"poll"}
  /\ UNCHANGED <<disk, rows, inspect, health, dialogs, update>>

\* The search key refreshes the explorer and opens the search dialog, which closes
\* with a probe for the object asked for.
OpenSearch ==
  /\ Key /\ dialogs' = {"search"}
  /\ jobs' = Start(jobs, Spawn("explorer")) /\ flags' = flags \cup {"explorer"}
  /\ UNCHANGED <<disk, rows, inspect, health, update>>

Search ==
  /\ Pressed /\ "search" \in dialogs /\ dialogs' = dialogs \ {"search"}
  /\ jobs' = Start(jobs, Spawn("probe")) /\ flags' = flags \cup {"probe"}
  /\ workbench' = Counted
  /\ UNCHANGED <<disk, rows, inspect, health, update>>

\* spawn_update_check, by key or by the clock.
SpawnUpdateCheck ==
  /\ Pressed /\ workbench' = Counted /\ "update" \notin flags
  /\ flags' = flags \cup {"update"} /\ jobs' = Start(jobs, {Task("check")})
  /\ UNCHANGED <<disk, rows, inspect, health, dialogs, update>>

\* spawn_update_apply, from the update dialog.
SpawnUpdateApply ==
  /\ dialogs = {"update"} /\ ~update.installing /\ Pressed /\ workbench' = Counted
  /\ "update" \notin flags /\ update.pending
  /\ update' = [pending |-> FALSE, installing |-> TRUE]
  /\ flags' = flags \cup {"update"} /\ jobs' = Start(jobs, {Task("apply")})
  /\ UNCHANGED <<disk, rows, inspect, health, dialogs>>

OpenDialog(d) ==
  /\ Key /\ d \in {"help", "snapshot", "track"} /\ dialogs' = {d}
  /\ UNCHANGED <<disk, rows, inspect, health, flags, jobs, update>>

\* Keys go to the dialog opened by a key before the update's, which a result
\* may open under it and which is locked while an update is being installed.
CloseDialog ==
  /\ dialogs # {} /\ (dialogs = {"update"} => ~update.installing)
  /\ dialogs' = IF dialogs = {"update"} THEN {} ELSE dialogs \cap {"update"}
  /\ UNCHANGED <<disk, rows, inspect, health, flags, jobs, update, workbench>>

Quit ==
  /\ Pressed /\ dialogs = {} /\ workbench' = [Counted EXCEPT !.quit = TRUE]
  /\ UNCHANGED <<disk, rows, inspect, health, flags, jobs, dialogs, update>>

-----------------------------------------------------------------------------
(* apply_task_out *)

\* A poll of operators that are no longer the ones shown is dropped.
OperatorsPolled(job) ==
  /\ job.kind = "poll"
  /\ flags' = flags \ {"poll"} /\ jobs' = Rest(job)
  /\ health' = IF job.operators = health.operators
               THEN [health EXCEPT !.probed = {job.operators}, !.echo = FALSE]
               ELSE health
  /\ UNCHANGED <<disk, rows, inspect, dialogs, update, workbench>>

\* ExplorerRefreshed, ObjectProbed, TokenProbed, and a push or anchor that failed.
SimpleFinished(job) ==
  /\ job.kind \in Simple
  /\ flags' = flags \ {job.kind} /\ jobs' = Rest(job)
  /\ UNCHANGED <<disk, rows, inspect, health, dialogs, update, workbench>>

\* PushFinished, AnchorFinished: the local state is read again.
WorkFinished(job) ==
  /\ job.kind \in {"push", "anchor"}
  /\ RefreshLocalState(ListTracked(disk.tracked), Rest(job), flags \ {job.kind}, {})
  /\ workbench' = [workbench EXCEPT !.shifted = @ \/ Shifts(ListTracked(disk.tracked))]
  /\ UNCHANGED <<disk, dialogs, update>>

\* UpdateChecked: a newer release opens the update dialog.
UpdateChecked(job, found) ==
  /\ job.kind = "check"
  /\ flags' = flags \ {"update"} /\ jobs' = Rest(job)
  /\ update' = [update EXCEPT !.pending = @ \/ found]
  /\ dialogs' = IF found THEN dialogs \cup {"update"} ELSE dialogs
  /\ UNCHANGED <<disk, rows, inspect, health, workbench>>

UpdateFailedDropped == [pending |-> FALSE, installing |-> FALSE]

\* A failed installation is offered again.
UpdateFailed == [pending |-> TRUE, installing |-> FALSE]

UpdateApplied(job, outcome) ==
  /\ job.kind = "apply"
  /\ flags' = flags \ {"update"} /\ jobs' = Rest(job)
  /\ update' = IF outcome = "failed" THEN UpdateFailed ELSE [update EXCEPT !.installing = FALSE]
  /\ dialogs' = IF outcome = "failed" THEN dialogs ELSE dialogs \ {"update"}
  /\ workbench' = [workbench EXCEPT !.quit = @ \/ outcome = "restart"]
  /\ UNCHANGED <<disk, rows, inspect, health>>

InspectedAny(job) == TRUE

\* A result for a row that is no longer the one asked for is dropped.
InspectionWanted(job) == inspect.flight = job.row

Inspected(job, ok) ==
  /\ job.kind = "inspect" /\ jobs' = Rest(job)
  /\ inspect' = IF ~InspectionWanted(job) THEN inspect
                ELSE IF ok THEN [inspect EXCEPT !.flight = 0, !.shows = job.path]
                ELSE [flight |-> 0, key |-> NoPath, shows |-> NoPath]
  /\ UNCHANGED <<disk, rows, health, flags, dialogs, update, workbench>>

\* drain_tasks on a task that panicked: every guard is released.
TaskPanics(job) ==
  /\ workbench.panics < MaxPanics
  /\ flags' = {} /\ inspect' = [inspect EXCEPT !.flight = 0]
  /\ update' = [update EXCEPT !.installing = FALSE]
  /\ jobs' = Rest(job)
  /\ workbench' = [workbench EXCEPT !.panics = @ + 1]
  /\ UNCHANGED <<disk, rows, health, dialogs>>

JobLands(job) ==
  \/ OperatorsPolled(job) \/ SimpleFinished(job) \/ WorkFinished(job)
  \/ \E found \in BOOLEAN : UpdateChecked(job, found)
  \/ \E outcome \in {"installed", "restart", "failed"} : UpdateApplied(job, outcome)
  \/ \E ok \in BOOLEAN : Inspected(job, ok)
  \/ TaskPanics(job)

WorkbenchNext ==
  \/ \E i \in 0..(NumPaths - 1) : Select(i)
  \/ \E p \in Paths : TrackFile(p)
  \/ UntrackSelectedFile
  \/ \E p \in Paths, o \in OperatorSets :
       OutsideChange(disk.tracked \ {p}, o) \/ OutsideChange(disk.tracked \cup {p}, o)
  \/ \E k \in Simple : PressTask(k)
  \/ ForceRefresh \/ TimedPoll \/ OpenSearch \/ Search
  \/ SpawnUpdateCheck \/ SpawnUpdateApply
  \/ \E d \in Dialogs : OpenDialog(d)
  \/ CloseDialog \/ Quit
  \/ ~workbench.quit /\ \E job \in DOMAIN jobs : JobLands(job)

WorkbenchSpec == WorkbenchInit /\ [][WorkbenchNext]_workbenchVars

-----------------------------------------------------------------------------
\* The selected row exists, and the guards, dialogs and tasks are of known kinds.
WorkbenchTypeOK ==
  /\ disk \in [tracked : SUBSET Paths, operators : OperatorSets]
  /\ rows \in [files : Seq(Paths), sel : 0..NumPaths]
  /\ rows.files # <<>> => rows.sel < Len(rows.files)
  /\ inspect \in [flight : 0..NumPaths, key : Paths \cup {NoPath}, shows : Paths \cup {NoPath}]
  /\ health \in [operators : OperatorSets, probed : SUBSET OperatorSets, echo : BOOLEAN]
  /\ flags \subseteq Simple \cup {"poll", "update"} /\ dialogs \subseteq Dialogs
  /\ IsABag(jobs) /\ DOMAIN jobs \subseteq Tasks
  /\ update \in [pending : BOOLEAN, installing : BOOLEAN]
  /\ workbench \in [quit : BOOLEAN, keys : 0..MaxKeys, panics : 0..MaxPanics, shifted : BOOLEAN]

\* The guards hold whatever lands when (spawn_*, apply_task_out): one task per
\* kind, a push or anchor never twice at a time, an open update dialog has an
\* update to install or one being installed, and operators show a health that was
\* probed at the operators shown. A panicking task releases every guard; the
\* first two are promised until then.
GuardsHold ==
  /\ workbench.panics = 0 =>
       /\ \A k \in Simple : Alone({k})
       /\ Alone({"check", "apply"})
       /\ "update" \in dialogs => update.pending \/ update.installing
       /\ update.installing => TaskRunning({"apply"}) # {}
  /\ health.probed \subseteq {health.operators}

\* The inspector settles on the selected file (request_inspection, Inspected): with
\* no inspection running, what it shows is the selected file, however the selection
\* moved and whichever results came late. A list that changes under a running
\* inspection breaks it, because a result is matched by its row.
InspectorFollows ==
  \/ workbench.shifted \/ workbench.panics > 0
  \/ inspect.flight # 0 \/ inspect.shows = NoPath
  \/ inspect.shows = inspect.key
=============================================================================
