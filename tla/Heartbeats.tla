----------------------------- MODULE Heartbeats -----------------------------
(***************************************************************************)
(* Liveness views of the operator swarm (services/operator/src/swarm):     *)
(* every node publishes signed heartbeats with a counter kept in memory,   *)
(* and every receiver keeps the last counter and the time of the last      *)
(* heartbeat it accepted.  A restarted node counts from one again, so its  *)
(* heartbeats look like replays until its entry is pruned.  An entry's gap *)
(* is the sender's counter minus the last accepted one, cut at 1: only     *)
(* its sign decides.                                                       *)
(***************************************************************************)
EXTENDS Integers, FiniteSets

CONSTANTS
    Peers,
    Timeout,        \* heartbeat_timeout, in heartbeat intervals; must exceed one, or live peers flap
    OldSeqs,        \* counters a node may have reached when it stops
    HeartbeatFaults \* bound on lost heartbeats and crashes

ASSUME HeartbeatsAssumption ==
    /\ Timeout \in Nat \ {0, 1}
    /\ OldSeqs \subseteq Nat \ {0} /\ OldSeqs # {}
    /\ HeartbeatFaults \in Nat

VARIABLES
    running,        \* nodes whose event loop runs
    heard,          \* LivenessTracker of each node: entries by peer
    due,            \* nodes whose heartbeat tick of this interval is still to come
    steady,         \* history: intervals since the node last restarted or lost a heartbeat
    heartbeatFaults

heartbeatsVars == <<running, heard, due, steady, heartbeatFaults>>

NoEntry == [gap |-> 0, age |-> -1]
Horizon == 4 * Timeout
Entry == {NoEntry} \cup [gap : Int, age : 0..Horizon]

HeartbeatsTypeOK ==
    /\ running \subseteq Peers /\ due \subseteq running
    /\ heard \in [Peers -> [Peers -> Entry]]
    /\ steady \in [Peers -> 0..(Horizon + 2)]
    /\ heartbeatFaults \in 0..HeartbeatFaults

HeartbeatsInit ==
    /\ running = Peers /\ due = Peers
    /\ heard = [n \in Peers |-> [p \in Peers |-> NoEntry]]
    /\ steady = [n \in Peers |-> 0]
    /\ heartbeatFaults = 0

-----------------------------------------------------------------------------
(* LivenessTracker::is_live and live_peers. *)
IsLive(n, p) == heard[n][p] # NoEntry /\ heard[n][p].age < Timeout
LivePeers(n) == {p \in Peers : IsLive(n, p)}

(* verify_heartbeat: the counter must exceed the last accepted one; there  *)
(* is none for a peer without an entry.                                    *)
Fresher(e) == e = NoEntry \/ e.gap + 1 > 0

(* note_heartbeat, or a counter that moved on without being heard. *)
Noted == [gap |-> 0, age |-> 0]
Missed(e) == IF e = NoEntry THEN e
             ELSE [e EXCEPT !.gap = IF @ + 1 > 1 THEN 1 ELSE @ + 1]

\* Mutant: entries of silent peers stay.
PruneNever(e) == e
(* LivenessTracker::prune. *)
Prune(e) == IF e.age < Horizon THEN e ELSE NoEntry

(* What r has of n after n publishes, with the message lost to some. *)
Received(r, n, lost) ==
    IF r \in running \ lost /\ Fresher(heard[r][n]) THEN Noted ELSE Missed(heard[r][n])

(* The heartbeat tick of n: prune its own entries, then publish; the nodes *)
(* of lost do not get the message.                                         *)
HeartbeatTick(n) ==
    /\ n \in due
    /\ \E lost \in SUBSET (running \ {n}) :
          /\ Cardinality(lost) <= HeartbeatFaults - heartbeatFaults
          /\ heartbeatFaults' = heartbeatFaults + Cardinality(lost)
          /\ heard' = [r \in Peers |-> [p \in Peers |->
                 IF r = n THEN Prune(heard[n][p])
                 ELSE IF p = n THEN Received(r, n, lost) ELSE heard[r][p]]]
          /\ steady' = [steady EXCEPT ![n] = IF lost = {} THEN @ ELSE 0]
    /\ due' = due \ {n}
    /\ UNCHANGED running

(* One heartbeat interval passes. *)
IntervalPasses ==
    /\ due = {}
    /\ due' = running
    /\ heard' = [n \in Peers |-> [p \in Peers |->
           LET e == heard[n][p] IN
           IF e = NoEntry THEN e ELSE [e EXCEPT !.age = IF @ < Horizon THEN @ + 1 ELSE @]]]
    /\ steady' = [n \in Peers |-> IF n \in running /\ steady[n] < Horizon + 2
                                  THEN steady[n] + 1 ELSE steady[n]]
    /\ UNCHANGED <<running, heartbeatFaults>>

(* The process stops and its tracker is gone. *)
PeerStops(n) ==
    /\ n \in running /\ heartbeatFaults < HeartbeatFaults
    /\ running' = running \ {n} /\ due' = due \ {n}
    /\ heard' = [heard EXCEPT ![n] = [p \in Peers |-> NoEntry]]
    /\ heartbeatFaults' = heartbeatFaults + 1
    /\ UNCHANGED steady

(* boot_swarm: heartbeat_seq starts at 0, behind what the others recorded. *)
PeerBoots(n) ==
    /\ n \notin running
    /\ running' = running \cup {n}
    /\ \E old \in OldSeqs :
          heard' = [r \in Peers |-> [heard[r] EXCEPT ![n] =
                        IF @ = NoEntry THEN @ ELSE [@ EXCEPT !.gap = -old]]]
    /\ steady' = [steady EXCEPT ![n] = 0]
    /\ UNCHANGED <<due, heartbeatFaults>>

HeartbeatsNext ==
    \/ IntervalPasses
    \/ \E n \in Peers : HeartbeatTick(n) \/ PeerStops(n) \/ PeerBoots(n)

HeartbeatsSpec ==
    /\ HeartbeatsInit /\ [][HeartbeatsNext]_heartbeatsVars
    /\ WF_heartbeatsVars(IntervalPasses)
    /\ \A n \in Peers : WF_heartbeatsVars(HeartbeatTick(n)) /\ WF_heartbeatsVars(PeerBoots(n))

-----------------------------------------------------------------------------
(* A node that has run and been heard for four timeouts is live in every   *)
(* view again, however far its old counter had come: accept_control_message *)
(* turns its heartbeats down only until prune drops the old entry.          *)
RejoinersSeen ==
    \A n, p \in running : n # p /\ steady[n] > Horizon + 1 /\ steady[p] > Horizon + 1
                          => IsLive(n, p)
=============================================================================
