----------------------------- MODULE Maintenance -----------------------------
(***************************************************************************)
(* The maintenance daemon (services/maintenance): one tracked vault, its   *)
(* registered inventory, the persisted job with its back-off, and the      *)
(* stages of run_inventory_job against operators that lose objects and     *)
(* records, go down and lose answers.  Discovery records are one whole     *)
(* here; their appends are in Replication.  Time is in units of the        *)
(* longest back-off, and passes only while the daemon has nothing due; a   *)
(* lease is the time it has left, a receipt that and whether the operator  *)
(* has renewed the lease since (its term_days differ then).                *)
(***************************************************************************)
EXTENDS Naturals, FiniteSets

CONSTANTS
    Ops, Cids,              \* pinned operators, objects of the closure
    HoldsAtFirst,           \* the operators complete at the start
    Replicas,               \* required_replicas
    TermDays, Runway,       \* what one renewal adds; renew below this
    MaxLeft,                \* bound on the time a lease has left
    MaxTries,               \* the cap of the attempts counter
    MaxMaintFaults

ASSUME MaintenanceAssumption ==
    /\ {Replicas, TermDays, Runway, MaxLeft, MaxTries, MaxMaintFaults} \subseteq Nat
    /\ HoldsAtFirst \subseteq Ops /\ Runway > 0 /\ TermDays <= MaxLeft

VARIABLES
    fleet,      \* per operator: held objects, records, up, lease
    db,         \* the daemon's database
    task,       \* the job attempt in progress
    mFaults

maintVars == <<fleet, db, task, mFaults>>

MaintStages == {"idle", "audit", "repair", "discover", "reaudit", "renew", "store", "record"}
Receipt == [left : 0..MaxLeft, behind : BOOLEAN]
NoReport == [complete |-> {}, degraded |-> FALSE, lost |-> FALSE, undiscovered |-> {}]

MaintTypeOK ==
    /\ \A o \in Ops : fleet[o].held \subseteq Cids /\ fleet[o].left \in 0..MaxLeft
    /\ db.status \in {"Registered", "Healthy", "Degraded", "Unverified"}
    /\ db.attempts \in 0..MaxTries /\ db.wait \in 0..1
    /\ db.inventory \in {"none", "registered"} /\ db.receipts \in [Ops -> Receipt]
    /\ task.stage \in MaintStages /\ task.sessions \subseteq Ops
    /\ mFaults \in 0..MaxMaintFaults

MaintInit ==
    /\ fleet = [o \in Ops |-> [held |-> IF o \in HoldsAtFirst THEN Cids ELSE {},
                               records |-> o \in HoldsAtFirst, up |-> TRUE,
                               left |-> TermDays]]
    /\ db = [status |-> "Registered", attempts |-> 0, wait |-> 0, inventory |-> "none",
             receipts |-> [o \in Ops |-> [left |-> TermDays, behind |-> FALSE]]]
    /\ task = [stage |-> "idle", sessions |-> {}, report |-> NoReport,
               receipts |-> db.receipts, todo |-> {}]
    /\ mFaults = 0

Up == {o \in Ops : fleet[o].up}
Idle == task.stage = "idle"
To(stage) == task' = [task EXCEPT !.stage = stage]
MFault == mFaults < MaxMaintFaults /\ mFaults' = mFaults + 1

(* job_due *)
JobDue == db.wait = 0

(* record_audit or record_unverified, then record_job_result: the back-off *)
(* doubles up to its ceiling, here one unit of time.                       *)
Recorded(status, failed) ==
    [db EXCEPT !.status = status,
               !.attempts = IF failed THEN (IF @ < MaxTries THEN @ + 1 ELSE @) ELSE 0,
               !.wait = 1]

(* store_inventory of an inventory that validates, from the command line.  *)
RegisterInventory ==
    /\ Idle /\ db.inventory = "none"
    /\ db' = [db EXCEPT !.inventory = "registered"]
    /\ UNCHANGED <<fleet, task, mFaults>>
(* A job for a vault that is only tracked.                                 *)
UnverifiedJob ==
    /\ Idle /\ JobDue /\ db.inventory = "none"
    /\ db' = Recorded("Unverified", TRUE)
    /\ UNCHANGED <<fleet, task, mFaults>>

(* run_inventory_job: validate, then authenticate_all.  A daemon started   *)
(* without a signing key reads anonymously: it has no session to repair or *)
(* to renew with.  Such attempts count among the faults.                   *)
BeginJob(keyed) ==
    /\ Idle /\ JobDue /\ db.inventory = "registered"
    /\ task' = [task EXCEPT !.stage = "audit", !.sessions = IF keyed THEN Up ELSE {},
                            !.receipts = db.receipts]
    /\ (IF keyed THEN UNCHANGED mFaults ELSE MFault)
    /\ UNCHANGED <<fleet, db>>

(* audit_closure_with_cache and audit_recovery_set: every operator's       *)
(* objects, by challenge or by download, and its records.  An object that  *)
(* not every operator holds is degraded.                                   *)
Report ==
    LET present(c) == {o \in Up : c \in fleet[o].held} IN
    [complete |-> {o \in Up : fleet[o].held = Cids /\ fleet[o].records},
     degraded |-> \E c \in Cids : present(c) # Ops,
     lost |-> \E c \in Cids : present(c) = {},
     undiscovered |-> {o \in Ops : ~(o \in Up /\ fleet[o].records)}]
\* Mutant: only missing records start a repair.
RepairDueRecords(r) == r.undiscovered # {}
RepairDue(r) == r.degraded \/ r.undiscovered # {}
AuditSet ==
    LET r == Report IN
    /\ task.stage \in {"audit", "reaudit"}
    /\ task' = [task EXCEPT !.report = r,
                            !.stage = IF task.stage = "audit" /\ RepairDue(r) /\ task.sessions # {}
                                      THEN "repair" ELSE "renew",
                            !.todo = {o \in Ops : task.receipts[o].left < Runway}]
    /\ UNCHANGED <<fleet, db, mFaults>>

(* repair_single_object for every degraded object: a surviving copy goes   *)
(* to every operator that misses it and has a session.                     *)
Repaired(o) ==
    IF o \in Up \cap task.sessions
    THEN fleet[o].held \cup UNION {fleet[q].held : q \in Up \cap task.sessions}
    ELSE fleet[o].held
RepairClosure ==
    /\ task.stage = "repair"
    /\ fleet' = [o \in Ops |-> [fleet[o] EXCEPT !.held = Repaired(o)]]
    /\ To("discover")
    /\ UNCHANGED <<db, mFaults>>
(* The records missing at an operator are appended again.                  *)
RepairDiscovery ==
    /\ task.stage = "discover"
    /\ fleet' = [o \in Ops |-> [fleet[o] EXCEPT !.records =
                    @ \/ o \in task.report.undiscovered \cap task.sessions \cap Up]]
    /\ To("reaudit")
    /\ UNCHANGED <<db, mFaults>>

(* renew_lease at the operator: added to the stored lease, or to today.    *)
Extended(left) == IF left + TermDays > MaxLeft THEN MaxLeft ELSE left + TermDays
(* What the daemon accepts as the renewal of a receipt: term_days is the   *)
(* receipt's and one term more.                                            *)
Acceptable(receipt) == ~receipt.behind
\* Mutant: a receipt is renewed without asking its operator.
RenewAlone(o, answered) ==
    /\ task' = [task EXCEPT !.todo = @ \ {o},
                            !.receipts[o] = [left |-> Extended(@.left), behind |-> FALSE]]
    /\ UNCHANGED <<fleet, db>>
(* renew_leases for one due receipt; the answer may be lost.               *)
RenewLease(o, answered) ==
    LET reached == o \in Up \cap task.sessions
        new == Extended(fleet[o].left) IN
    /\ fleet' = IF reached THEN [fleet EXCEPT ![o].left = new] ELSE fleet
    /\ db' = IF reached THEN [db EXCEPT !.receipts[o].behind = TRUE] ELSE db
    /\ task' = [task EXCEPT !.todo = @ \ {o},
                            !.receipts[o] = IF ~reached THEN @
                                            ELSE IF answered /\ Acceptable(@)
                                            THEN [left |-> new, behind |-> FALSE]
                                            ELSE [@ EXCEPT !.behind = TRUE]]
RenewLeases(o, answered) ==
    /\ task.stage = "renew" /\ o \in task.todo
    /\ RenewLease(o, answered)
    /\ (IF answered THEN UNCHANGED mFaults ELSE MFault)
(* store_inventory with the renewed receipts.                              *)
StoreInventory ==
    /\ task.stage = "renew" /\ task.todo = {}
    /\ db' = [db EXCEPT !.receipts = task.receipts]
    /\ To("record")
    /\ UNCHANGED <<fleet, mFaults>>
(* The end of the job: healthy when enough distinct operators hold the     *)
(* whole closure and its records and nothing is lost.                      *)
RecordJob ==
    LET healthy == Cardinality(task.report.complete) >= Replicas /\ ~task.report.lost IN
    /\ task.stage = "record"
    /\ db' = Recorded(IF healthy THEN "Healthy" ELSE "Degraded", ~healthy)
    /\ To("idle")
    /\ UNCHANGED <<fleet, mFaults>>
(* The attempt fails, or the daemon is restarted, between two stages.      *)
JobFails ==
    /\ ~Idle /\ MFault
    /\ db' = Recorded("Unverified", TRUE) /\ To("idle")
    /\ UNCHANGED fleet
DaemonRestarts ==
    /\ ~Idle /\ MFault /\ To("idle") /\ UNCHANGED <<fleet, db>>

(* The operators. *)
OperatorLoses(o, c) ==
    /\ c \in fleet[o].held /\ \E q \in Ops \ {o} : fleet[q].held = Cids /\ fleet[q].up
    /\ fleet' = [fleet EXCEPT ![o].held = @ \ {c}]
    /\ MFault /\ UNCHANGED <<db, task>>
OperatorForgets(o) ==
    /\ fleet[o].records /\ fleet' = [fleet EXCEPT ![o].records = FALSE]
    /\ MFault /\ UNCHANGED <<db, task>>
OperatorDown(o) ==
    /\ fleet[o].up /\ \E q \in Up \ {o} : fleet[q].held = Cids
    /\ fleet' = [fleet EXCEPT ![o].up = FALSE]
    /\ MFault /\ UNCHANGED <<db, task>>
OperatorUp(o) ==
    /\ ~fleet[o].up /\ fleet' = [fleet EXCEPT ![o].up = TRUE]
    /\ UNCHANGED <<db, task, mFaults>>

(* The daemon's timer: time passes once the due job is done.               *)
Less(n) == IF n = 0 THEN 0 ELSE n - 1
DayPasses ==
    /\ Idle /\ ~JobDue
    /\ fleet' = [o \in Ops |-> [fleet[o] EXCEPT !.left = Less(@)]]
    /\ db' = [db EXCEPT !.wait = Less(@),
                        !.receipts = [o \in Ops |-> [db.receipts[o] EXCEPT !.left = Less(@)]]]
    /\ UNCHANGED <<task, mFaults>>

DaemonStep ==
    \/ BeginJob(TRUE) \/ AuditSet \/ RepairClosure \/ RepairDiscovery
    \/ (\E o \in Ops : RenewLeases(o, TRUE)) \/ StoreInventory \/ RecordJob
    \/ UnverifiedJob \/ DayPasses
MaintNext ==
    \/ DaemonStep \/ RegisterInventory \/ BeginJob(FALSE) \/ JobFails \/ DaemonRestarts
    \/ \E o \in Ops :
          \/ OperatorForgets(o) \/ OperatorDown(o) \/ OperatorUp(o) \/ RenewLeases(o, FALSE)
          \/ \E c \in Cids : OperatorLoses(o, c)

MaintSpec == MaintInit /\ [][MaintNext]_maintVars

-----------------------------------------------------------------------------
(* PROPERTY (renew_leases).  A receipt the inventory keeps never promises  *)
(* more than the operator has on record, whichever renewals were refused,  *)
(* lost or cut short by a restart.                                         *)
ReceiptsBacked == \A o \in Ops : db.receipts[o].left <= fleet[o].left

(* PROPERTY (run_inventory_job).  Whatever was lost while some operator    *)
(* still held everything, and whichever attempts failed, the daemon ends   *)
(* with the whole closure and its records on the required operators and    *)
(* with every lease running.                                               *)
FleetRestored ==
    <>[](/\ Cardinality({o \in Ops : fleet[o].held = Cids /\ fleet[o].records}) >= Replicas
         /\ \A o \in Ops : fleet[o].left > 0)
=============================================================================
