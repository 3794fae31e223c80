----------------------------- MODULE SwarmLoop -----------------------------
(***************************************************************************)
(* The event loop of an operator's swarm (services/operator/src/swarm/     *)
(* mod.rs run_loop and handle_swarm_event) and the transport that calls    *)
(* through it (transport.rs).  One task owns the libp2p swarm; callers     *)
(* send it commands with a one-shot reply channel, the network gives it    *)
(* events, and maps of pending requests tie the two together.              *)
(*                                                                         *)
(* What libp2p does by itself is external: it dials, opens and closes      *)
(* connections, reports them one event later, and ends every request and   *)
(* every Kademlia query with a result or a failure.                        *)
(***************************************************************************)
EXTENDS Naturals, FiniteSets

CONSTANTS
    SwarmPeers,     \* the other peers
    SwarmTasks,     \* callers that hold a handle
    Provider,       \* peers that really provide the asked-for chunk
    DhtRecords,       \* what the DHT holds under a peer's key: <<signer, n>>
    MaxSwarmCalls, MaxLinks, MaxBlocks

ASSUME SwarmAssumption ==
    /\ SwarmPeers # {} /\ Provider \subseteq SwarmPeers
    /\ DhtRecords \subseteq SwarmPeers \X Nat
    /\ MaxSwarmCalls \in Nat /\ MaxLinks \in Nat /\ MaxBlocks \in Nat

VARIABLES
    links,      \* peer -> its connection, as the swarm has it
    blocked,    \* loop_state.blocked
    routing,    \* peers in the Kademlia routing table
    discovered,      \* loop_state.rendezvous_discoveries
    pending,    \* the reply channels of requests and queries on their way
    tasks,      \* task -> the call it makes and what it was told
    swarmPast   \* what the bounds count
swarmVars == <<links, blocked, routing, discovered, pending, tasks, swarmPast>>

LinkStates == {"none", "dialing", "opening", "open"}
Asks == {"rpc", "record", "providers"}
AtRest == [pc |-> "rest", ask |-> "rpc", peer |-> CHOOSE p \in SwarmPeers : TRUE, got |-> {}]
TaskStates == {"rest", "connect", "dialed", "send", "wait", "done", "failed"}

SwarmInit ==
    /\ links = [p \in SwarmPeers |-> "none"]
    /\ blocked \in {{}, {AtRest.peer}}
    /\ routing = {} /\ discovered = {} /\ pending = {}
    /\ tasks = [t \in SwarmTasks |-> AtRest]
    /\ swarmPast = [calls |-> 0, links |-> 0, blocks |-> 0]

-----------------------------------------------------------------------------
(* libp2p. *)
SwarmIsConnected(p) == links[p] \in {"opening", "open"}
LinkIs(p, s) == links' = [links EXCEPT ![p] = s]
(* An outbound dial, ours or a behaviour's own; an inbound connection.     *)
Connects(p) ==
    /\ links[p] \in {"none", "dialing"} /\ swarmPast.links < MaxLinks
    /\ LinkIs(p, "opening")
    /\ swarmPast' = [swarmPast EXCEPT !.links = @ + 1]
    /\ UNCHANGED <<blocked, routing, discovered, pending, tasks>>
Disconnects(p) ==
    /\ links[p] # "none" /\ LinkIs(p, "none")
    /\ UNCHANGED <<blocked, routing, discovered, pending, tasks, swarmPast>>

\* Mutant: an established connection is kept whoever it is with.
KeepsLinkAlways(p) == TRUE

(* ConnectionEstablished: the backstop of the block list, for inbound      *)
(* connections and dials that carried no peer id.                          *)
KeepsLink(p) == p \notin blocked
ConnectionEstablished(p) ==
    /\ links[p] = "opening"
    /\ LinkIs(p, IF KeepsLink(p) THEN "open" ELSE "none")
    /\ UNCHANGED <<blocked, routing, discovered, pending, tasks, swarmPast>>

(* Command::Dial and the dial of a discovered peer: not to a listed one.   *)
Dialed(p) ==
    links' = IF p \in blocked \/ links[p] # "none" THEN links ELSE [links EXCEPT ![p] = "dialing"]
MdnsDiscovered(p) ==
    /\ links[p] = "none" /\ p \notin blocked
    /\ routing' = routing \cup {p} /\ Dialed(p)
    /\ UNCHANGED <<blocked, discovered, pending, tasks, swarmPast>>
(* identify: whoever answers is added to the routing table.                *)
IdentifyReceived(p) ==
    /\ SwarmIsConnected(p) /\ routing' = routing \cup {p}
    /\ UNCHANGED <<links, blocked, discovered, pending, tasks, swarmPast>>
RendezvousSeen(p) ==
    /\ discovered' = discovered \cup {p}
    /\ UNCHANGED <<links, blocked, routing, pending, tasks, swarmPast>>
RendezvousGone(p) ==
    /\ discovered' = discovered \ {p}
    /\ UNCHANGED <<links, blocked, routing, pending, tasks, swarmPast>>
TakeRendezvousDiscoveries ==
    /\ discovered # {} /\ discovered' = {}
    /\ UNCHANGED <<links, blocked, routing, pending, tasks, swarmPast>>

(* Command::BlockPeer drops the live connection at once. *)
BlockPeer(p) ==
    /\ p \notin blocked /\ swarmPast.blocks < MaxBlocks
    /\ blocked' = blocked \cup {p}
    /\ LinkIs(p, IF SwarmIsConnected(p) THEN "none" ELSE links[p])
    /\ swarmPast' = [swarmPast EXCEPT !.blocks = @ + 1]
    /\ UNCHANGED <<routing, discovered, pending, tasks>>
UnblockPeer(p) ==
    /\ p \in blocked /\ blocked' = blocked \ {p}
    /\ UNCHANGED <<links, routing, discovered, pending, tasks, swarmPast>>

-----------------------------------------------------------------------------
(* The transport: every call makes sure of the connection first.           *)
AtPc(t, pc) == tasks' = [tasks EXCEPT ![t].pc = pc]
StartCall(t) ==
    \E a \in Asks, p \in SwarmPeers :
        /\ tasks[t].pc \in {"rest", "done", "failed"} /\ swarmPast.calls < MaxSwarmCalls
        /\ tasks' = [tasks EXCEPT ![t] = [pc |-> IF a = "rpc" THEN "connect" ELSE "send",
                                          ask |-> a, peer |-> p, got |-> {}]]
        /\ swarmPast' = [swarmPast EXCEPT !.calls = @ + 1]
        /\ UNCHANGED <<links, blocked, routing, discovered, pending>>
EnsureConnected(t) ==
    /\ tasks[t].pc = "connect"
    /\ IF SwarmIsConnected(tasks[t].peer) THEN AtPc(t, "send") /\ UNCHANGED links
       ELSE AtPc(t, "dialed") /\ Dialed(tasks[t].peer)
    /\ UNCHANGED <<blocked, routing, discovered, pending, swarmPast>>
(* It polls is_connected until DIAL_TIMEOUT.                               *)
PollConnected(t) ==
    /\ tasks[t].pc = "dialed" /\ SwarmIsConnected(tasks[t].peer) /\ AtPc(t, "send")
    /\ UNCHANGED <<links, blocked, routing, discovered, pending, swarmPast>>
DialTimeout(t) ==
    /\ tasks[t].pc = "dialed" /\ ~SwarmIsConnected(tasks[t].peer) /\ AtPc(t, "failed")
    /\ UNCHANGED <<links, blocked, routing, discovered, pending, swarmPast>>

(* Command::RpcRequest, GetVerifiedPeers and GetProviders: the reply       *)
(* channel waits under the request's or the query's id.                    *)
SendCommand(t) ==
    /\ tasks[t].pc = "send" /\ AtPc(t, "wait") /\ pending' = pending \cup {t}
    /\ UNCHANGED <<links, blocked, routing, discovered, swarmPast>>

(* The loop answers through the channel and forgets it.                    *)
Reply(t, pc, got) ==
    /\ pending' = pending \ {t}
    /\ tasks' = [tasks EXCEPT ![t].pc = pc, ![t].got = got]
    /\ UNCHANGED <<links, blocked, routing, discovered, swarmPast>>
Response(t) ==
    /\ t \in pending /\ tasks[t].ask = "rpc" /\ SwarmIsConnected(tasks[t].peer)
    /\ Reply(t, "done", {tasks[t].peer})

\* Mutant: the channel of a failed request stays in the map.
ReplyFailureKept(t) == UNCHANGED swarmVars

ReplyFailure(t) == Reply(t, "failed", {})
OutboundFailure(t) ==
    /\ t \in pending /\ tasks[t].ask = "rpc" /\ ReplyFailure(t)

(* Kademlia: results come in pieces, in any number and order, until the    *)
(* query ends.  A record counts only if the wanted key signed it.          *)
Verified(p, record) == record[1] = p
Piece(t, more) ==
    /\ more \ tasks[t].got # {}
    /\ tasks' = [tasks EXCEPT ![t].got = @ \cup more]
    /\ UNCHANGED <<links, blocked, routing, discovered, pending, swarmPast>>
FoundRecord(t) ==
    /\ t \in pending /\ tasks[t].ask = "record"
    /\ \E r \in DhtRecords : Piece(t, {x \in {r} : Verified(tasks[t].peer, x)})
FoundProviders(t) ==
    /\ t \in pending /\ tasks[t].ask = "providers"
    /\ \E p \in Provider : Piece(t, {p})
QueryFinished(t) ==
    /\ t \in pending /\ tasks[t].ask # "rpc" /\ Reply(t, "done", tasks[t].got)

LoopAnswers(t) == Response(t) \/ OutboundFailure(t) \/ QueryFinished(t)
TaskSteps(t) == EnsureConnected(t) \/ PollConnected(t) \/ DialTimeout(t) \/ SendCommand(t)

SwarmNext ==
    \/ TakeRendezvousDiscoveries
    \/ \E p \in SwarmPeers :
          \/ Connects(p) \/ Disconnects(p) \/ ConnectionEstablished(p)
          \/ MdnsDiscovered(p) \/ IdentifyReceived(p) \/ RendezvousSeen(p) \/ RendezvousGone(p)
          \/ BlockPeer(p) \/ UnblockPeer(p)
    \/ \E t \in SwarmTasks :
          \/ StartCall(t) \/ TaskSteps(t) \/ LoopAnswers(t)
          \/ FoundRecord(t) \/ FoundProviders(t)

SwarmSpec == SwarmInit /\ [][SwarmNext]_swarmVars

-----------------------------------------------------------------------------
SwarmTypeOK ==
    /\ links \in [SwarmPeers -> LinkStates]
    /\ blocked \subseteq SwarmPeers /\ routing \subseteq SwarmPeers /\ discovered \subseteq SwarmPeers
    /\ pending \subseteq SwarmTasks
    /\ \A t \in SwarmTasks : tasks[t].pc \in TaskStates /\ tasks[t].ask \in Asks

(* The block list and the reply channels hold at every interleaving of     *)
(* commands and events: no connection the loop has let through is with a   *)
(* listed peer, whichever side opened it and however late its event came;  *)
(* a channel waits exactly for the tasks that wait; and a DHT answer holds *)
(* only records of the key that was asked for, or real providers.          *)
SwarmGuarded ==
    /\ \A p \in blocked : links[p] # "open"
    /\ pending = {t \in SwarmTasks : tasks[t].pc = "wait"}
    /\ \A t \in SwarmTasks :
          /\ tasks[t].ask = "record" => \A r \in tasks[t].got : r[1] = tasks[t].peer
          /\ tasks[t].ask = "providers" => tasks[t].got \subseteq Provider

(* Every call through the transport ends, connected or not, blocked or     *)
(* not: its caller waits on a one-shot channel without a timeout.          *)
SwarmCallsEnd ==
    \A t \in SwarmTasks : tasks[t].pc = "connect" ~> tasks[t].pc \in {"done", "failed"}
=============================================================================
