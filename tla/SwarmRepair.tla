---------------------------- MODULE SwarmRepair -----------------------------
(***************************************************************************)
(* Replica repair in the operator swarm (services/operator/src/swarm/mod.rs *)
(* and repair.rs).  A holder asks the DHT who provides an object, plans by  *)
(* rendezvous hashing from the providers it counts live, and pushes if the  *)
(* plan elects it; pushes are paced by a token bucket, a cap, a cooldown    *)
(* per object and the receiver's budget.  Live sets change at will: they    *)
(* are what Heartbeats computes, and a node may lag behind another.         *)
(***************************************************************************)
EXTENDS Naturals, FiniteSets

CONSTANTS
    Members, Objects,
    Score,          \* score of each member, the same order for every object
    HeldAtFirst,    \* [Objects -> SUBSET Members]
    Probationers,   \* members on probation, in everybody's view
    RepairTarget,   \* RepairConfig::target
    MaxQueries, MaxPushesAtOnce,
    SendRate,       \* objects the token bucket admits per round
    ReceiveBudget,  \* objects a receiver takes per round
    Cooldown, Requeue, MaxBackoff,
    MaxChurn,       \* bound on changes of live sets
    MaxAnnounced,   \* bound on provider announcements
    RepairFaults    \* bound on lost pushes and restarts

ASSUME RepairAssumption ==
    /\ IsFiniteSet(Members) /\ Score \in [Members -> Nat]
    /\ \A m, n \in Members : Score[m] = Score[n] => m = n
    /\ HeldAtFirst \in [Objects -> SUBSET Members]
    /\ Probationers \subseteq Members
    /\ RepairTarget \in Nat /\ MaxQueries \in Nat /\ MaxPushesAtOnce \in Nat
    /\ SendRate \in Nat /\ ReceiveBudget \in Nat
    /\ Cooldown \in Nat /\ Requeue \in Nat /\ MaxBackoff \in Nat
    /\ MaxChurn \in Nat /\ MaxAnnounced \in Nat /\ RepairFaults \in Nat

VARIABLES
    replicas,   \* [Objects -> SUBSET Members]: who has the object on disk
    announced,  \* [Objects -> SUBSET Members]: provider records of the DHT
    live,       \* liveness.live_peers of each member
    querying,   \* pending_queries of each member, by object
    cooldowns, failCounts, tokens, budget,
    pushes,     \* RepairPush requests in flight
    churn, announcements, repairFaults

repairVars == <<replicas, announced, live, querying, cooldowns, failCounts, tokens, budget,
                pushes, churn, announcements, repairFaults>>

Push == [from : Members, to : Members, object : Objects]
Lowest(S) == CHOOSE m \in S : \A n \in S : Score[m] <= Score[n]
AtMost(a, b) == IF a < b THEN a ELSE b

RepairTypeOK ==
    /\ replicas \in [Objects -> SUBSET Members] /\ announced \in [Objects -> SUBSET Members]
    /\ live \in [Members -> SUBSET Members] /\ querying \in [Members -> SUBSET Objects]
    /\ cooldowns \in [Members -> [Objects -> 0..(MaxBackoff + Cooldown + Requeue)]]
    /\ failCounts \in [Members -> [Objects -> Nat]]
    /\ tokens \in [Members -> 0..SendRate] /\ budget \in [Members -> 0..ReceiveBudget]
    /\ pushes \subseteq Push
    /\ churn \in 0..MaxChurn /\ announcements \in 0..MaxAnnounced
    /\ repairFaults \in 0..RepairFaults

Zero == [m \in Members |-> [o \in Objects |-> 0]]

RepairInit ==
    /\ replicas = HeldAtFirst /\ announced = [o \in Objects |-> {}]
    /\ live = [m \in Members |-> Members \ {m}]
    /\ querying = [m \in Members |-> {}]
    /\ cooldowns = Zero /\ failCounts = Zero
    /\ tokens = [m \in Members |-> SendRate]
    /\ budget = [m \in Members |-> ReceiveBudget]
    /\ pushes = {} /\ churn = 0 /\ announcements = 0 /\ repairFaults = 0

-----------------------------------------------------------------------------
(* repair_scan: forget expired cooldowns, and with them the failure counts. *)
StillCooling(m, o) == cooldowns[m][o] > 0
FailCountsScanned(m) ==
    [o \in Objects |-> IF StillCooling(m, o) THEN failCounts[m][o] ELSE 0]

(* start_repair_check: a held object that does not cool down and is not    *)
(* being asked about; every gate here is silent.                           *)
MayCheck(m, o, force) ==
    /\ force \/ ~StillCooling(m, o)
    /\ m \in replicas[o]
    /\ Cardinality(querying[m]) < MaxQueries
    /\ o \notin querying[m]

RepairScan(m, o) ==
    /\ MayCheck(m, o, FALSE)
    /\ failCounts' = [failCounts EXCEPT ![m] = FailCountsScanned(m)]
    /\ querying' = [querying EXCEPT ![m] = @ \cup {o}]
    /\ UNCHANGED <<replicas, announced, live, cooldowns, tokens, budget, pushes, churn,
                   announcements, repairFaults>>

(* Command::TriggerRepair ignores the cooldown; counted as churn. *)
TriggerRepair(m, o) ==
    /\ churn < MaxChurn /\ StillCooling(m, o) /\ MayCheck(m, o, TRUE)
    /\ churn' = churn + 1
    /\ querying' = [querying EXCEPT ![m] = @ \cup {o}]
    /\ UNCHANGED <<replicas, announced, live, cooldowns, failCounts, tokens, budget, pushes,
                   announcements, repairFaults>>

(* retain_eligible_recipients: live members and self without probationers. *)
\* Mutant: probationers receive replicas too.
EligibleAnyone(m) == live[m] \cup {m}
Eligible(m) == (live[m] \ Probationers) \cup {m}

(* plan_repair: the lowest score among the holders pushes to the lowest    *)
(* scores among the live others, as many as are missing.                   *)
NeedsRepair(holders, view) ==
    /\ RepairTarget > 0 /\ holders # {} /\ Cardinality(holders) < RepairTarget
    /\ view \ holders # {}
Elected(m, holders) == m = Lowest(holders)
\* Mutant: holders are candidates too.
RecipientsAmongAll(holders, view) ==
    LET needed == RepairTarget - Cardinality(holders) IN
    {r \in view : Cardinality({c \in view : Score[c] < Score[r]}) < needed}
Recipients(holders, view) ==
    LET candidates == view \ holders
        needed == RepairTarget - Cardinality(holders) IN
    {r \in candidates : Cardinality({c \in candidates : Score[c] < Score[r]}) < needed}

(* execute_repair_plan: recipients in order of score, until the cap on     *)
(* requests in flight or the token bucket ends; a recipient that is not    *)
(* tracked any more is skipped.  What is left over shortens the cooldown.  *)
PushedTo(m, recipients) ==
    LET reachable == recipients \cap live[m]
        inFlight == Cardinality({p \in pushes : p.from = m})
        room == IF inFlight < MaxPushesAtOnce THEN MaxPushesAtOnce - inFlight ELSE 0 IN
    {r \in reachable :
        Cardinality({c \in reachable : Score[c] < Score[r]}) < AtMost(tokens[m], room)}

(* finish_repair_check: the providers found so far, live ones only, and    *)
(* the member itself.                                                      *)
FinishCheck(m, o) ==
    /\ o \in querying[m]
    /\ querying' = [querying EXCEPT ![m] = @ \ {o}]
    /\ \E found \in SUBSET announced[o] :
       LET view == Eligible(m)
           holders == (found \cap view) \cup {m}
           recipients == Recipients(holders, view)
           mine == NeedsRepair(holders, view) /\ Elected(m, holders)
           targets == IF mine THEN PushedTo(m, recipients) ELSE {}
           healthy == ~NeedsRepair(holders, view) IN
       /\ pushes' = pushes \cup {[from |-> m, to |-> r, object |-> o] : r \in targets}
       /\ tokens' = [tokens EXCEPT ![m] = @ - Cardinality(targets)]
       /\ cooldowns' = [cooldowns EXCEPT ![m][o] =
                           IF mine /\ targets # recipients THEN Requeue ELSE Cooldown]
       /\ failCounts' = [failCounts EXCEPT ![m][o] = IF healthy THEN 0 ELSE @]
    /\ UNCHANGED <<replicas, announced, live, budget, churn, announcements, repairFaults>>

(* schedule_repair_backoff, with backoff_for: 1 << fails, by at most ten.   *)
OneShifted == <<2, 4, 8, 16, 32, 64, 128, 256, 512, 1024>>
Backoff(m, o) ==
    LET fails == failCounts[m][o] + 1
        grown == AtMost(Cooldown * OneShifted[AtMost(fails, 10)], MaxBackoff) IN
    /\ failCounts' = [failCounts EXCEPT ![m][o] = fails]
    /\ \E jitter \in {0, Cooldown} :
          cooldowns' = [cooldowns EXCEPT ![m][o] = AtMost(grown + jitter, MaxBackoff)]

(* serve_operator_rpc, RepairPush: within the budget of the receiver the   *)
(* object is stored (again), and the answer clears the sender's failures.  *)
ServePush(p) ==
    /\ budget[p.to] > 0
    /\ budget' = [budget EXCEPT ![p.to] = @ - 1]
    /\ replicas' = [replicas EXCEPT ![p.object] = @ \cup {p.to}]
    /\ pushes' = pushes \ {p}
    /\ failCounts' = [failCounts EXCEPT ![p.from][p.object] = 0]
    /\ UNCHANGED <<announced, live, querying, cooldowns, tokens, churn, announcements,
                   repairFaults>>

(* The answer is 429, or the request fails in transport. *)
RefusePush(p) ==
    /\ \/ budget[p.to] = 0 /\ UNCHANGED repairFaults
       \/ repairFaults < RepairFaults /\ repairFaults' = repairFaults + 1
    /\ pushes' = pushes \ {p}
    /\ Backoff(p.from, p.object)
    /\ UNCHANGED <<replicas, announced, live, querying, tokens, budget, churn, announcements>>

(* Any other error answer (403 from a receiver that does not know the      *)
(* sender, a bad object): the round has failed, and that is all.           *)
FailPush(p) ==
    /\ repairFaults < RepairFaults /\ repairFaults' = repairFaults + 1
    /\ pushes' = pushes \ {p}
    /\ UNCHANGED <<replicas, announced, live, querying, cooldowns, failCounts, tokens, budget,
                   churn, announcements>>

(* Time: cooldowns run down and the buckets fill up. *)
RoundPasses ==
    /\ \/ \E m \in Members, o \in Objects : cooldowns[m][o] > 0
       \/ \E m \in Members : tokens[m] < SendRate \/ budget[m] < ReceiveBudget
    /\ cooldowns' = [m \in Members |-> [o \in Objects |->
                        IF cooldowns[m][o] > 0 THEN cooldowns[m][o] - 1 ELSE 0]]
    /\ tokens' = [m \in Members |-> SendRate]
    /\ budget' = [m \in Members |-> ReceiveBudget]
    /\ UNCHANGED <<replicas, announced, live, querying, failCounts, pushes, churn,
                   announcements, repairFaults>>

(* The tracker of m loses a member, or hears it again. *)
PeerUnheard(m, p) ==
    /\ churn < MaxChurn /\ churn' = churn + 1
    /\ p \in live[m] /\ live' = [live EXCEPT ![m] = @ \ {p}]
    /\ UNCHANGED <<replicas, announced, querying, cooldowns, failCounts, tokens, budget, pushes,
                   announcements, repairFaults>>

PeerHeard(m, p) ==
    /\ p \notin live[m] \cup {m} /\ live' = [live EXCEPT ![m] = @ \cup {p}]
    /\ UNCHANGED <<replicas, announced, querying, cooldowns, failCounts, tokens, budget, pushes,
                   churn, announcements, repairFaults>>

(* SwarmHandle::provide_chunk, called from outside. *)
ProvideChunk(m, o) ==
    /\ announcements < MaxAnnounced /\ announcements' = announcements + 1
    /\ m \in replicas[o] \ announced[o]
    /\ announced' = [announced EXCEPT ![o] = @ \cup {m}]
    /\ UNCHANGED <<replicas, live, querying, cooldowns, failCounts, tokens, budget, pushes,
                   churn, repairFaults>>

(* The process restarts with an empty RepairState and tracker. *)
RepairRestart(m) ==
    /\ repairFaults < RepairFaults /\ repairFaults' = repairFaults + 1
    /\ live' = [live EXCEPT ![m] = {}]
    /\ querying' = [querying EXCEPT ![m] = {}]
    /\ cooldowns' = [cooldowns EXCEPT ![m] = [o \in Objects |-> 0]]
    /\ failCounts' = [failCounts EXCEPT ![m] = [o \in Objects |-> 0]]
    /\ tokens' = [tokens EXCEPT ![m] = SendRate]
    /\ budget' = [budget EXCEPT ![m] = ReceiveBudget]
    /\ pushes' = {p \in pushes : p.from # m}
    /\ UNCHANGED <<replicas, announced, churn, announcements>>

SwarmRepairNext ==
    \/ RoundPasses
    \/ \E m, p \in Members : PeerUnheard(m, p) \/ PeerHeard(m, p)
    \/ \E m \in Members : RepairRestart(m)
    \/ \E m \in Members, o \in Objects :
          RepairScan(m, o) \/ TriggerRepair(m, o) \/ FinishCheck(m, o) \/ ProvideChunk(m, o)
    \/ \E p \in pushes : ServePush(p) \/ RefusePush(p) \/ FailPush(p)

RepairSpec == RepairInit /\ [][SwarmRepairNext]_repairVars

-----------------------------------------------------------------------------
(* Only members past probation receive replicas, whatever the live sets    *)
(* do between the query and its answer.                                    *)
OnlyProvenReceive ==
    \A o \in Objects : replicas[o] \ HeldAtFirst[o] \subseteq Members \ Probationers

(* Every object reaches its target of replicas: lost and refused pushes,   *)
(* restarts and disagreeing live sets only delay it.                       *)
ObjectsRepaired ==
    \A o \in Objects : <>(Cardinality(replicas[o]) >= RepairTarget)
=============================================================================
