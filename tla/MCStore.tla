------------------------------ MODULE MCStore ------------------------------
(***************************************************************************)
(* The vault store and its replication for TLC: the agent, push, pull and  *)
(* prune on one store, and the endpoints that receive a head.  The store   *)
(* sees only the outcome of a replication (Replicate, ReplicateFails), so  *)
(* a behaviour exercises the part its initial state focuses on.            *)
(***************************************************************************)
EXTENDS Capture, Replication, TLC

VARIABLE focus

(* Two of three endpoints lead to one operator, or each to its own. *)
MCTwoToOne == [e1 |-> "s1", e2 |-> "s1", e3 |-> "s2"]
MCOneEach == [e1 |-> "s1", e3 |-> "s2"]
MCOneHead == [d1 |-> {"h1"}]

(* Contents are interchangeable. *)
Symmetry == Permutations(Content)

MCInit ==
    /\ focus \in {"capture", "replication"}
    /\ Init /\ ReplicationInit
    /\ focus = "capture" \/ file = CHOOSE v \in Content : TRUE

MCNext ==
    /\ UNCHANGED focus
    /\ \/ focus = "capture" /\ Next /\ UNCHANGED replicationVars
       \/ focus = "replication" /\ ReplicationNext /\ UNCHANGED vars

mcVars == <<focus, vars, replicationVars>>

(***************************************************************************)
(* A device's runtime polls its pipelines and retries; the maintenance     *)
(* service audits in a loop.                                               *)
(***************************************************************************)
ReplicationFair ==
    /\ WF_replicationVars(focus = "replication" /\ Maintain)
    /\ \A d \in Device : WF_replicationVars(focus = "replication" /\ Step(d))

(* The agent is restarted and scans every three seconds, its worker runs   *)
(* what it was given, and every 30 seconds pending uploads are retried.    *)
CaptureFair ==
    /\ WF_vars(focus = "capture" /\ AgentStep)
    /\ \A s \in Id : SF_vars(focus = "capture" /\ RetryPendingUpload(s))

MCSpec == MCInit /\ [][MCNext]_mcVars /\ ReplicationFair /\ CaptureFair

(***************************************************************************)
(* Every head is eventually replicated, while the logs have room for the   *)
(* records each attempt appends (Replication), and every saved head is     *)
(* eventually verified by a quorum (Capture).                              *)
(***************************************************************************)
HeadsReach == (focus = "replication" => HeadsAcked) /\ HeadsReplicated

(***************************************************************************)
(* An edit that stays ends up in the active head (Capture).                *)
(***************************************************************************)
EditsReach == focus = "capture" => EditsCaptured
=============================================================================
