----------------------------- MODULE MCFleet --------------------------------
(***************************************************************************)
(* The fleet that serves a vault, for TLC: the swarm's repair and event    *)
(* loop, the operators' front ends, the maintenance service and the limits *)
(* on sign-in.  A behaviour exercises the part its initial state focuses   *)
(* on, under that part's fairness.                                         *)
(***************************************************************************)
EXTENDS SwarmRepair, SwarmLoop, OperatorApi, Maintenance, AuthLimits, TLC

CONSTANTS m1, m2, m3, o1, c1, c2, c3, c4, k1, k2

VARIABLE focus

MCScore == m1 :> 1 @@ m2 :> 2 @@ m3 :> 3
MCHeld == o1 :> {m1}
MCRecorded == {<<"p1", 1>>, <<"p1", 2>>, <<"p2", 1>>}
MCShown == {[token |-> "session", vault |-> "own", service |-> FALSE]}
MCKeyOf == c1 :> k1 @@ c2 :> k1 @@ c3 :> k1 @@ c4 :> k2

MCInit ==
    /\ focus \in {"repair", "swarm", "api", "maintenance", "limits"}
    /\ RepairInit /\ SwarmInit /\ ApiInit /\ MaintInit /\ LimitInit
    /\ focus = "swarm" \/ blocked = {}
    /\ focus = "api" \/ session.permissions = Permissions

MCNext ==
    /\ UNCHANGED focus
    /\ \/ /\ focus = "repair" /\ SwarmRepairNext
          /\ UNCHANGED <<swarmVars, apiVars, maintVars, limitVars>>
       \/ /\ focus = "swarm" /\ SwarmNext
          /\ UNCHANGED <<repairVars, apiVars, maintVars, limitVars>>
       \/ /\ focus = "api" /\ ApiNext
          /\ UNCHANGED <<repairVars, swarmVars, maintVars, limitVars>>
       \/ /\ focus = "maintenance" /\ MaintNext
          /\ UNCHANGED <<repairVars, swarmVars, apiVars, limitVars>>
       \/ /\ focus = "limits" /\ LimitNext
          /\ UNCHANGED <<repairVars, swarmVars, apiVars, maintVars>>

mcVars == <<focus, repairVars, swarmVars, apiVars, maintVars, limitVars>>

(***************************************************************************)
(* What the code's schedulers do, in the behaviours that exercise a part.  *)
(* The event loop's ticks go on, peers are heard again, and a push that is *)
(* not lost is served or refused.                                          *)
(***************************************************************************)
RepairFair ==
    /\ WF_repairVars(focus = "repair" /\ RoundPasses)
    /\ WF_repairVars(focus = "repair" /\ \E m, p \in Members : PeerHeard(m, p))
    /\ WF_repairVars(focus = "repair" /\ \E p \in pushes : ServePush(p) \/ RefusePush(p))
    /\ \A m \in Members :
          WF_repairVars(focus = "repair" /\ \E o \in Objects : RepairScan(m, o) \/ FinishCheck(m, o))

(* tokio polls a task that can go on; libp2p ends every request and query. *)
SwarmFair ==
    /\ \A t \in SwarmTasks : /\ WF_swarmVars(focus = "swarm" /\ TaskSteps(t))
                             /\ WF_swarmVars(focus = "swarm" /\ LoopAnswers(t))
    /\ \A p \in SwarmPeers : WF_swarmVars(focus = "swarm" /\ ConnectionEstablished(p))

(* The daemon's loop goes on, the vault's owner registers the inventory,   *)
(* and operators come back.                                                *)
MaintFair ==
    /\ WF_maintVars(focus = "maintenance" /\ DaemonStep)
    /\ WF_maintVars(focus = "maintenance" /\ RegisterInventory)
    /\ \A o \in Ops : WF_maintVars(focus = "maintenance" /\ OperatorUp(o))

(* Time passes, and a client that is not let in keeps trying; every quota  *)
(* window leaves it a unit because the others make finitely many requests  *)
(* that matter: a strong fairness on the quota stands for that.            *)
LimitFair ==
    /\ WF_limitVars(focus = "limits" /\ TimePasses)
    /\ \A c \in Clients \ Guessers :
          /\ SF_limitVars(focus = "limits" /\ AskChallenge(c))
          /\ WF_limitVars(focus = "limits" /\ CheckRate(c))
          /\ WF_limitVars(focus = "limits" /\ AnswerRightly(c))

MCSpec ==
    MCInit /\ [][MCNext]_mcVars /\ RepairFair /\ SwarmFair /\ MaintFair /\ LimitFair

(***************************************************************************)
(* What holds on the way: types, and the guards of the swarm loop, the     *)
(* repair, the request limits, the lease receipts and the sign-in limits.  *)
(***************************************************************************)
FleetGuarded ==
    CASE focus = "repair" -> RepairTypeOK /\ OnlyProvenReceive
      [] focus = "swarm" -> SwarmTypeOK /\ SwarmGuarded
      [] focus = "api" -> ApiTypeOK /\ GuardsAgree /\ AdmittedWithinLimit
      [] focus = "maintenance" -> MaintTypeOK /\ ReceiptsBacked
      [] focus = "limits" -> LimitTypeOK /\ GuessesBounded

(***************************************************************************)
(* Replicas come back (SwarmRepair), in the behaviours that exercise it.    *)
(***************************************************************************)
RepairProgress == focus = "repair" => ObjectsRepaired

(***************************************************************************)
(* So do the fleet's copies and leases (Maintenance).                       *)
(***************************************************************************)
MaintenanceProgress == focus = "maintenance" => FleetRestored

(***************************************************************************)
(* A locked-out client with the right answer returns (AuthLimits).          *)
(***************************************************************************)
SignInProgress == focus = "limits" => LockedOutReturns
=============================================================================
