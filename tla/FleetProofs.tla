----------------------------- MODULE FleetProofs ------------------------------
(***************************************************************************)
(* Proofs about the fleet that serves a vault: replica repair, the swarm's *)
(* event loop, the two front ends, the maintenance daemon and the sign-in  *)
(* limits.  Each part has an inductive invariant of its own; FleetGuarded  *)
(* follows because a behaviour of MCFleet exercises one part.              *)
(***************************************************************************)
EXTENDS MCFleet, FiniteSetTheorems, SequenceTheorems, WellFoundedInduction, TLAPS

-----------------------------------------------------------------------------
(* Naturals and finite sets *)

LEMMA LeastNatural ==
    ASSUME NEW S \in SUBSET Nat, S # {}
    PROVE  \E n \in S : \A m \in S : n <= m
<1> DEFINE R == OpToRel(<, Nat)
<1>1. IsWellFoundedOn(R, Nat)
  BY NatLessThanWellFounded
<1>2. \A m, n \in Nat : m < n => <<m, n>> \in R
  BY Zenon DEF OpToRel
<1> HIDE DEF R
<1>3. PICK n \in S : \A m \in S : ~(<<m, n>> \in R)
  BY <1>1, WFMin
<1>4. ASSUME NEW m \in S PROVE n <= m
  <2>1. m \in Nat /\ n \in Nat /\ ~(<<m, n>> \in R)
    BY <1>3
  <2>2. ~(m < n)
    BY <1>2, <2>1
  <2> QED
    BY <2>1, <2>2
<1> QED
  BY <1>3, <1>4

LEMMA GreatestNatural ==
    ASSUME NEW N \in Nat, NEW S \in SUBSET (0..N), S # {}
    PROVE  \E n \in S : \A m \in S : m <= n
<1> DEFINE T == {N - n : n \in S}
<1>1. T \in SUBSET Nat /\ T # {}
  <2>1. \A n \in S : n \in 0..N
    OBVIOUS
  <2>2. \A n \in 0..N : N - n \in Nat
    OBVIOUS
  <2> QED
    BY <2>1, <2>2
<1> HIDE DEF T
<1>2. PICK k \in T : \A m \in T : k <= m
  BY <1>1, LeastNatural
<1>3. PICK n \in S : k = N - n
  BY <1>2 DEF T
<1>4. \A m \in S : N - m \in T
  BY DEF T
<1>5. ASSUME NEW m \in S PROVE m <= n
  <2>1. N - n <= N - m
    BY <1>2, <1>3, <1>4
  <2>2. m \in 0..N /\ n \in 0..N
    OBVIOUS
  <2> QED
    BY <2>1, <2>2
<1> QED
  BY <1>5

-----------------------------------------------------------------------------
(* Replica repair: the inductive invariant *)

\* Pushes on their way are for members past probation.
PushesInv == IsFiniteSet(pushes) /\ \A p \in pushes : p.to \notin Probationers

RepairIInv == RepairTypeOK /\ PushesInv /\ OnlyProvenReceive

LEMMA RepairConstants ==
    /\ IsFiniteSet(Members) /\ Score \in [Members -> Nat]
    /\ \A m, n \in Members : Score[m] = Score[n] => m = n
    /\ HeldAtFirst \in [Objects -> SUBSET Members] /\ Probationers \subseteq Members
    /\ RepairTarget \in Nat /\ MaxQueries \in Nat /\ MaxPushesAtOnce \in Nat
    /\ SendRate \in Nat /\ ReceiveBudget \in Nat
    /\ Cooldown \in Nat /\ Requeue \in Nat /\ MaxBackoff \in Nat
    /\ MaxChurn \in Nat /\ MaxAnnounced \in Nat /\ RepairFaults \in Nat
BY RepairAssumption

-----------------------------------------------------------------------------
(* Replica repair: counting *)

LEMMA SomeMembers ==
    ASSUME NEW S \in SUBSET Members PROVE IsFiniteSet(S) /\ Cardinality(S) \in Nat
BY RepairConstants, FS_Subset, FS_CardinalityType

\* At most n members have fewer than n others below them.
LEMMA FewAreLowest ==
    ASSUME NEW S \in SUBSET Members, NEW n \in Nat
    PROVE  Cardinality({r \in S : Cardinality({c \in S : Score[c] < Score[r]}) < n}) <= n
<1>. DEFINE Below(r) == {c \in S : Score[c] < Score[r]}
            T == {r \in S : Cardinality(Below(r)) < n}
            R == {Cardinality(Below(r)) : r \in T}
<1>1. \A r \in S : Below(r) \in SUBSET Members /\ Cardinality(Below(r)) \in Nat
  BY SomeMembers
<1>2. T \in SUBSET Members /\ IsFiniteSet(T) /\ Cardinality(T) \in Nat BY SomeMembers
<1>3. CASE T = {}
  <2>. HIDE DEF T
  <2>1. Cardinality(T) = 0 BY <1>3, FS_EmptySet
  <2>2. Cardinality(T) <= n BY <2>1
  <2>. QED BY <2>2 DEF T
<1>4. CASE T # {}
  <2>0. \A x \in T : Cardinality(Below(x)) \in 0..n
    <3>1. ASSUME NEW x \in T PROVE Cardinality(Below(x)) \in 0..n
      <4>1. Cardinality(Below(x)) \in Nat /\ Cardinality(Below(x)) < n BY <1>1
      <4>. HIDE DEF Below
      <4>. QED BY <4>1
    <3>. QED BY <3>1
  <2>1. R \in SUBSET (0..n) /\ R # {} BY <1>4, <2>0
  <2>2. PICK k \in R : \A j \in R : j <= k BY <2>1, GreatestNatural
  <2>3. PICK r \in T : k = Cardinality(Below(r)) BY <2>2
  <2>4. \A c \in T : Cardinality(Below(c)) <= Cardinality(Below(r)) BY <2>2, <2>3
  <2>. HIDE DEF T, R
  <2>5. r \in S /\ r \in Members /\ Cardinality(Below(r)) < n /\ Cardinality(Below(r)) \in Nat
    BY <1>1, <2>3 DEF T
  <2>6. ASSUME NEW c \in T \ {r} PROVE c \in Below(r)
    <3>0. c \in S /\ c \in Members BY DEF T
    <3>1. Score[c] \in Nat /\ Score[r] \in Nat /\ Score[c] # Score[r]
      BY <2>5, <2>6, <3>0, RepairConstants
    <3>2. CASE Score[r] < Score[c]
      <4>1. \A x \in Below(r) \cup {r} : x \in Below(c)
        BY <2>5, <3>0, <3>1, <3>2, RepairConstants
      <4>2. IsFiniteSet(Below(r)) /\ IsFiniteSet(Below(c)) BY <1>1, <2>5, <3>0, SomeMembers
      <4>3. r \notin Below(r) BY <3>1
      <4>4. Cardinality(Below(r) \cup {r}) = Cardinality(Below(r)) + 1 BY <4>2, <4>3, FS_AddElement
      <4>5. Cardinality(Below(r) \cup {r}) <= Cardinality(Below(c)) BY <4>1, <4>2, FS_Subset
      <4>6. Cardinality(Below(c)) <= Cardinality(Below(r)) BY <2>4, <2>6
      <4>7. Cardinality(Below(c)) \in Nat /\ Cardinality(Below(r)) \in Nat BY <1>1, <2>5, <3>0
      <4>. HIDE DEF Below
      <4>. QED BY <4>4, <4>5, <4>6, <4>7
    <3>. QED BY <3>0, <3>1, <3>2
  <2>7. T \ {r} \in SUBSET Below(r) BY <2>6
  <2>8. IsFiniteSet(Below(r)) BY <1>1, <2>5, SomeMembers
  <2>9. Cardinality(T \ {r}) <= Cardinality(Below(r)) BY <2>7, <2>8, FS_Subset
  <2>10. Cardinality(T \ {r}) = Cardinality(T) - 1 BY <1>2, <2>3, FS_RemoveElement
  <2>11. Cardinality(T) <= n BY <1>2, <2>5, <2>9, <2>10
  <2>. QED BY <2>11 DEF T
<1>. QED BY <1>3, <1>4

LEMMA RoomCounts ==
    ASSUME RepairIInv, NEW m \in Members, NEW S \in SUBSET Members
    PROVE  PushedTo(m, S) \in SUBSET (S \cap live[m]) /\ Cardinality(PushedTo(m, S)) \in 0..tokens[m]
<1>. DEFINE F == {p \in pushes : p.from = m}
            room == IF Cardinality(F) < MaxPushesAtOnce THEN MaxPushesAtOnce - Cardinality(F) ELSE 0
            n == AtMost(tokens[m], room)
            near == S \cap live[m]
<1>1. F \in SUBSET pushes /\ IsFiniteSet(pushes) BY DEF RepairIInv, PushesInv
<1>2. Cardinality(F) \in Nat BY <1>1, FS_Subset, FS_CardinalityType
<1>3. room \in Nat BY <1>2, RepairConstants
<1>4. tokens[m] \in Nat BY RepairConstants DEF RepairIInv, RepairTypeOK
<1>5. n \in Nat /\ n <= tokens[m] BY <1>3, <1>4 DEF AtMost
<1>6. PushedTo(m, S) = {r \in near : Cardinality({c \in near : Score[c] < Score[r]}) < n}
  BY DEF PushedTo
<1>7. near \in SUBSET Members OBVIOUS
<1>. HIDE DEF n, near
<1>8. Cardinality(PushedTo(m, S)) <= n BY <1>5, <1>6, <1>7, FewAreLowest
<1>9. PushedTo(m, S) \in SUBSET near BY <1>6
<1>10. Cardinality(PushedTo(m, S)) \in Nat BY <1>7, <1>9, SomeMembers
<1>. QED BY <1>4, <1>5, <1>8, <1>9, <1>10 DEF near

-----------------------------------------------------------------------------
(* Replica repair: one lemma per step *)

\* Steps that store nothing and push nothing new.
LEMMA QuietRepair ==
    ASSUME RepairIInv, RepairTypeOK', UNCHANGED replicas, pushes' \subseteq pushes
    PROVE  RepairIInv'
<1>1. PushesInv' BY FS_Subset DEF RepairIInv, PushesInv
<1>2. OnlyProvenReceive' BY DEF RepairIInv, OnlyProvenReceive
<1>. QED BY <1>1, <1>2 DEF RepairIInv

LEMMA ChecksKeep ==
    ASSUME RepairIInv, NEW m \in Members, NEW o \in Objects, RepairScan(m, o) \/ TriggerRepair(m, o)
    PROVE  RepairIInv'
<1>1. querying' = [querying EXCEPT ![m] = @ \cup {o}]
      /\ UNCHANGED <<replicas, announced, live, cooldowns, tokens, budget, pushes, announcements,
                     repairFaults>>
  BY DEF RepairScan, TriggerRepair
<1>2. querying' \in [Members -> SUBSET Objects] BY <1>1 DEF RepairIInv, RepairTypeOK
<1>3. failCounts' \in [Members -> [Objects -> Nat]]
  <2>1. failCounts \in [Members -> [Objects -> Nat]] BY DEF RepairIInv, RepairTypeOK
  <2>2. FailCountsScanned(m) \in [Objects -> Nat] BY <2>1 DEF FailCountsScanned
  <2>. QED BY <2>1, <2>2 DEF RepairScan, TriggerRepair
<1>4. churn' \in 0..MaxChurn
  <2>1. churn \in 0..MaxChurn BY DEF RepairIInv, RepairTypeOK
  <2>2. CASE RepairScan(m, o) BY <2>1, <2>2 DEF RepairScan
  <2>3. CASE TriggerRepair(m, o) BY <2>1, <2>3, RepairConstants DEF TriggerRepair
  <2>. QED BY <2>2, <2>3
<1>5. RepairTypeOK' BY <1>1, <1>2, <1>3, <1>4 DEF RepairIInv, RepairTypeOK
<1>. QED BY <1>1, <1>5, QuietRepair

LEMMA FinishKeeps ==
    ASSUME RepairIInv, NEW m \in Members, NEW o \in Objects, FinishCheck(m, o)
    PROVE  RepairIInv'
<1>1. PICK found \in SUBSET announced[o] :
       LET view == Eligible(m)
           holders == (found \cap view) \cup {m}
           recipients == Recipients(holders, view)
           mine == NeedsRepair(holders, view) /\ Elected(m, holders)
           targets == IF mine THEN PushedTo(m, recipients) ELSE {}
           healthy == ~NeedsRepair(holders, view) IN
       /\ pushes' = pushes \cup {[from |-> m, to |-> r, object |-> o] : r \in targets}
       /\ tokens' = [tokens EXCEPT ![m] = @ - Cardinality(targets)]
       /\ cooldowns' = [cooldowns EXCEPT ![m][o] =
                           IF mine /\ targets # recipients THEN Requeue ELSE Cooldown]
       /\ failCounts' = [failCounts EXCEPT ![m][o] = IF healthy THEN 0 ELSE @]
  BY DEF FinishCheck
<1>. DEFINE view == Eligible(m)
            holders == (found \cap view) \cup {m}
            recipients == Recipients(holders, view)
            mine == NeedsRepair(holders, view) /\ Elected(m, holders)
            targets == IF mine THEN PushedTo(m, recipients) ELSE {}
            new == {[from |-> m, to |-> r, object |-> o] : r \in targets}
            wait == IF mine /\ targets # recipients THEN Requeue ELSE Cooldown
            fails == IF ~NeedsRepair(holders, view) THEN 0 ELSE failCounts[m][o]
<1>2. /\ pushes' = pushes \cup new
      /\ tokens' = [tokens EXCEPT ![m] = @ - Cardinality(targets)]
      /\ cooldowns' = [cooldowns EXCEPT ![m][o] = wait]
      /\ failCounts' = [failCounts EXCEPT ![m][o] = fails]
      /\ querying' = [querying EXCEPT ![m] = @ \ {o}]
      /\ UNCHANGED <<replicas, announced, live, budget, churn, announcements, repairFaults>>
  BY <1>1 DEF FinishCheck
<1>3. live[m] \subseteq Members BY DEF RepairIInv, RepairTypeOK
<1>4. recipients \in SUBSET (Members \ Probationers) BY <1>3 DEF Recipients, Eligible
<1>5. targets \in SUBSET (Members \ Probationers) /\ Cardinality(targets) \in 0..tokens[m]
  <2>. HIDE DEF mine, recipients
  <2>0. recipients \in SUBSET Members BY <1>4
  <2>1. CASE mine
    <3>1. targets = PushedTo(m, recipients) BY <2>1
    <3>2. PushedTo(m, recipients) \in SUBSET (recipients \cap live[m])
          /\ Cardinality(PushedTo(m, recipients)) \in 0..tokens[m]
      BY <2>0, RoomCounts
    <3>. QED BY <1>4, <3>1, <3>2
  <2>2. CASE ~mine
    <3>1. targets = {} BY <2>2
    <3>2. tokens[m] \in Nat BY RepairConstants DEF RepairIInv, RepairTypeOK
    <3>3. Cardinality({}) = 0 BY FS_EmptySet
    <3>. HIDE DEF targets
    <3>. QED BY <3>1, <3>2, <3>3
  <2>. QED BY <2>1, <2>2
<1>6. wait \in 0..(MaxBackoff + Cooldown + Requeue) BY RepairConstants
<1>7. fails \in Nat BY DEF RepairIInv, RepairTypeOK
<1>. HIDE DEF wait, fails, targets, recipients
<1>8. IsFiniteSet(new)
  <2>. DEFINE f == [r \in targets |-> [from |-> m, to |-> r, object |-> o]]
  <2>1. f \in Surjection(targets, new) BY DEF Surjection
  <2>2. IsFiniteSet(targets) BY <1>5, SomeMembers
  <2>. HIDE DEF f, new
  <2>. QED BY <2>1, <2>2, FS_Surjection
<1>9. new \subseteq Push /\ \A p \in new : p.to \notin Probationers BY <1>5 DEF Push
<1>. HIDE DEF new
<1>10. PushesInv' BY <1>2, <1>8, <1>9, FS_Union DEF RepairIInv, PushesInv
<1>11. tokens' \in [Members -> 0..SendRate]
  <2>1. tokens \in [Members -> 0..SendRate] BY DEF RepairIInv, RepairTypeOK
  <2>2. tokens[m] - Cardinality(targets) \in 0..SendRate BY <1>5, <2>1, RepairConstants
  <2>. QED BY <1>2, <2>1, <2>2
<1>12. cooldowns' \in [Members -> [Objects -> 0..(MaxBackoff + Cooldown + Requeue)]]
  BY <1>2, <1>6 DEF RepairIInv, RepairTypeOK
<1>13. failCounts' \in [Members -> [Objects -> Nat]] BY <1>2, <1>7 DEF RepairIInv, RepairTypeOK
<1>14. querying' \in [Members -> SUBSET Objects] BY <1>2 DEF RepairIInv, RepairTypeOK
<1>15. pushes' \subseteq Push BY <1>2, <1>9 DEF RepairIInv, RepairTypeOK
<1>16. RepairTypeOK' BY <1>2, <1>11, <1>12, <1>13, <1>14, <1>15 DEF RepairIInv, RepairTypeOK
<1>17. OnlyProvenReceive' BY <1>2 DEF RepairIInv, OnlyProvenReceive
<1>. QED BY <1>10, <1>16, <1>17 DEF RepairIInv

LEMMA PushFields ==
    ASSUME RepairIInv, NEW p \in pushes
    PROVE  p.from \in Members /\ p.to \in Members \ Probationers /\ p.object \in Objects
BY DEF RepairIInv, RepairTypeOK, PushesInv, Push

LEMMA ServeKeeps == ASSUME RepairIInv, NEW p \in pushes, ServePush(p) PROVE RepairIInv'
<1>1. p.from \in Members /\ p.to \in Members \ Probationers /\ p.object \in Objects BY PushFields
<1>2. /\ budget[p.to] > 0 /\ budget' = [budget EXCEPT ![p.to] = @ - 1]
      /\ replicas' = [replicas EXCEPT ![p.object] = @ \cup {p.to}]
      /\ pushes' = pushes \ {p} /\ failCounts' = [failCounts EXCEPT ![p.from][p.object] = 0]
      /\ UNCHANGED <<announced, live, querying, cooldowns, tokens, churn, announcements, repairFaults>>
  BY DEF ServePush
<1>3. budget' \in [Members -> 0..ReceiveBudget]
  BY <1>1, <1>2, RepairConstants DEF RepairIInv, RepairTypeOK
<1>4. replicas' \in [Objects -> SUBSET Members] BY <1>1, <1>2 DEF RepairIInv, RepairTypeOK
<1>5. failCounts' \in [Members -> [Objects -> Nat]] BY <1>1, <1>2 DEF RepairIInv, RepairTypeOK
<1>6. RepairTypeOK' BY <1>2, <1>3, <1>4, <1>5 DEF RepairIInv, RepairTypeOK
<1>7. PushesInv' BY <1>2, FS_Subset DEF RepairIInv, PushesInv
<1>8. OnlyProvenReceive'
  <2>1. ASSUME NEW x \in Objects PROVE replicas'[x] \ HeldAtFirst[x] \subseteq Members \ Probationers
    <3>1. replicas'[x] \subseteq replicas[x] \cup {p.to} BY <1>2 DEF RepairIInv, RepairTypeOK
    <3>. QED BY <1>1, <3>1 DEF RepairIInv, OnlyProvenReceive
  <2>. QED BY <2>1 DEF OnlyProvenReceive
<1>. QED BY <1>6, <1>7, <1>8 DEF RepairIInv

LEMMA BackoffTypes ==
    ASSUME RepairIInv, NEW m \in Members, NEW o \in Objects, Backoff(m, o)
    PROVE  /\ failCounts' \in [Members -> [Objects -> Nat]]
           /\ cooldowns' \in [Members -> [Objects -> 0..(MaxBackoff + Cooldown + Requeue)]]
<1>. DEFINE fails == failCounts[m][o] + 1
            grown == AtMost(Cooldown * OneShifted[AtMost(fails, 10)], MaxBackoff)
<1>1. PICK jitter \in {0, Cooldown} :
        cooldowns' = [cooldowns EXCEPT ![m][o] = AtMost(grown + jitter, MaxBackoff)]
  BY DEF Backoff
<1>2. fails \in Nat /\ fails >= 1 BY DEF RepairIInv, RepairTypeOK
<1>3. AtMost(fails, 10) \in 1..10 BY <1>2 DEF AtMost
<1>4. \A n \in 1..10 : OneShifted[n] \in Nat
  <2>1. ASSUME NEW n \in 1..10 PROVE OneShifted[n] \in Nat
    <3>1. n = 1 \/ n = 2 \/ n = 3 \/ n = 4 \/ n = 5 \/ n = 6 \/ n = 7 \/ n = 8 \/ n = 9 \/ n = 10
      OBVIOUS
    <3>. QED BY <3>1 DEF OneShifted
  <2>. QED BY <2>1
<1>5. Cooldown * OneShifted[AtMost(fails, 10)] \in Nat
  <2>1. \A a, b \in Nat : a * b \in Nat OBVIOUS
  <2>. QED BY <1>3, <1>4, <2>1, RepairConstants
<1>6. grown \in Nat BY <1>5, RepairConstants DEF AtMost
<1>. HIDE DEF grown, fails
<1>7. AtMost(grown + jitter, MaxBackoff) \in 0..(MaxBackoff + Cooldown + Requeue)
  BY <1>6, RepairConstants DEF AtMost
<1>8. cooldowns' \in [Members -> [Objects -> 0..(MaxBackoff + Cooldown + Requeue)]]
  BY <1>1, <1>7 DEF RepairIInv, RepairTypeOK
<1>9. failCounts' = [failCounts EXCEPT ![m][o] = fails] BY DEF Backoff, fails
<1>. QED BY <1>2, <1>8, <1>9 DEF RepairIInv, RepairTypeOK

LEMMA LostKeeps == ASSUME RepairIInv, NEW p \in pushes, RefusePush(p) \/ FailPush(p) PROVE RepairIInv'
<1>1. p.from \in Members /\ p.object \in Objects BY PushFields
<1>2. /\ failCounts' \in [Members -> [Objects -> Nat]]
      /\ cooldowns' \in [Members -> [Objects -> 0..(MaxBackoff + Cooldown + Requeue)]]
  <2>1. CASE RefusePush(p) BY <1>1, <2>1, BackoffTypes DEF RefusePush
  <2>2. CASE FailPush(p) BY <2>2 DEF FailPush, RepairIInv, RepairTypeOK
  <2>. QED BY <2>1, <2>2
<1>3. repairFaults' \in 0..RepairFaults
  BY RepairConstants DEF RefusePush, FailPush, RepairIInv, RepairTypeOK
<1>4. /\ pushes' = pushes \ {p}
      /\ UNCHANGED <<replicas, announced, live, querying, tokens, budget, churn, announcements>>
  BY DEF RefusePush, FailPush
<1>5. RepairTypeOK' BY <1>2, <1>3, <1>4 DEF RepairIInv, RepairTypeOK
<1>. QED BY <1>4, <1>5, QuietRepair

LEMMA RoundKeeps == ASSUME RepairIInv, RoundPasses PROVE RepairIInv'
<1>1. /\ cooldowns' = [m \in Members |-> [o \in Objects |->
                          IF cooldowns[m][o] > 0 THEN cooldowns[m][o] - 1 ELSE 0]]
      /\ tokens' = [m \in Members |-> SendRate] /\ budget' = [m \in Members |-> ReceiveBudget]
      /\ UNCHANGED <<replicas, announced, live, querying, failCounts, pushes, churn, announcements,
                     repairFaults>>
  BY DEF RoundPasses
<1>2. cooldowns' \in [Members -> [Objects -> 0..(MaxBackoff + Cooldown + Requeue)]]
  <2>1. ASSUME NEW m \in Members, NEW o \in Objects
        PROVE  (IF cooldowns[m][o] > 0 THEN cooldowns[m][o] - 1 ELSE 0) \in 0..(MaxBackoff + Cooldown + Requeue)
    <3>1. cooldowns[m][o] \in 0..(MaxBackoff + Cooldown + Requeue) BY DEF RepairIInv, RepairTypeOK
    <3>. QED BY <3>1, RepairConstants
  <2>. QED BY <1>1, <2>1
<1>3. tokens' \in [Members -> 0..SendRate] /\ budget' \in [Members -> 0..ReceiveBudget]
  BY <1>1, RepairConstants
<1>4. RepairTypeOK' BY <1>1, <1>2, <1>3 DEF RepairIInv, RepairTypeOK
<1>. QED BY <1>1, <1>4, QuietRepair

LEMMA HeardKeeps ==
    ASSUME RepairIInv, NEW m \in Members, NEW p \in Members, PeerUnheard(m, p) \/ PeerHeard(m, p)
    PROVE  RepairIInv'
<1>1. live' \in [Members -> SUBSET Members]
  <2>1. live \in [Members -> SUBSET Members] BY DEF RepairIInv, RepairTypeOK
  <2>2. CASE PeerUnheard(m, p) BY <2>1, <2>2 DEF PeerUnheard
  <2>3. CASE PeerHeard(m, p) BY <2>1, <2>3 DEF PeerHeard
  <2>. QED BY <2>2, <2>3
<1>2. churn' \in 0..MaxChurn
  BY RepairConstants DEF PeerUnheard, PeerHeard, RepairIInv, RepairTypeOK
<1>3. UNCHANGED <<replicas, announced, querying, cooldowns, failCounts, tokens, budget, pushes,
                  announcements, repairFaults>>
  BY DEF PeerUnheard, PeerHeard
<1>4. RepairTypeOK' BY <1>1, <1>2, <1>3 DEF RepairIInv, RepairTypeOK
<1>. QED BY <1>3, <1>4, QuietRepair

LEMMA ProvideKeeps ==
    ASSUME RepairIInv, NEW m \in Members, NEW o \in Objects, ProvideChunk(m, o) PROVE RepairIInv'
<1>1. announced' \in [Objects -> SUBSET Members] BY DEF ProvideChunk, RepairIInv, RepairTypeOK
<1>2. announcements' \in 0..MaxAnnounced
  BY RepairConstants DEF ProvideChunk, RepairIInv, RepairTypeOK
<1>3. RepairTypeOK' BY <1>1, <1>2 DEF ProvideChunk, RepairIInv, RepairTypeOK
<1>. QED BY <1>3, QuietRepair DEF ProvideChunk

LEMMA RestartKeeps == ASSUME RepairIInv, NEW m \in Members, RepairRestart(m) PROVE RepairIInv'
<1>1. repairFaults' \in 0..RepairFaults
  BY RepairConstants DEF RepairRestart, RepairIInv, RepairTypeOK
<1>2. live' \in [Members -> SUBSET Members] /\ querying' \in [Members -> SUBSET Objects]
  BY DEF RepairRestart, RepairIInv, RepairTypeOK
<1>3. 0 \in 0..(MaxBackoff + Cooldown + Requeue) BY RepairConstants
<1>4. [o \in Objects |-> 0] \in [Objects -> 0..(MaxBackoff + Cooldown + Requeue)] BY <1>3
<1>5. [o \in Objects |-> 0] \in [Objects -> Nat] OBVIOUS
<1>6. cooldowns' \in [Members -> [Objects -> 0..(MaxBackoff + Cooldown + Requeue)]]
  BY <1>4 DEF RepairRestart, RepairIInv, RepairTypeOK
<1>7. failCounts' \in [Members -> [Objects -> Nat]]
  BY <1>5 DEF RepairRestart, RepairIInv, RepairTypeOK
<1>8. tokens' \in [Members -> 0..SendRate] /\ budget' \in [Members -> 0..ReceiveBudget]
  BY RepairConstants DEF RepairRestart, RepairIInv, RepairTypeOK
<1>9. UNCHANGED <<replicas, announced, churn, announcements>> /\ pushes' \subseteq pushes
  BY DEF RepairRestart
<1>10. RepairTypeOK' BY <1>1, <1>2, <1>6, <1>7, <1>8, <1>9 DEF RepairIInv, RepairTypeOK
<1>. QED BY <1>9, <1>10, QuietRepair

-----------------------------------------------------------------------------
(* Replica repair: the theorem *)

LEMMA RepairStarts == ASSUME RepairInit PROVE RepairIInv
<1>1. 0 \in 0..(MaxBackoff + Cooldown + Requeue) BY RepairConstants
<1>2. Zero \in [Members -> [Objects -> 0..(MaxBackoff + Cooldown + Requeue)]]
      /\ Zero \in [Members -> [Objects -> Nat]]
  BY <1>1 DEF Zero
<1>3. RepairTypeOK BY <1>2, RepairConstants DEF RepairInit, RepairTypeOK
<1>4. PushesInv BY FS_EmptySet DEF RepairInit, PushesInv
<1>5. OnlyProvenReceive BY DEF RepairInit, OnlyProvenReceive
<1>. QED BY <1>3, <1>4, <1>5 DEF RepairIInv

LEMMA RepairStep == ASSUME RepairIInv, [SwarmRepairNext]_repairVars PROVE RepairIInv'
<1>1. CASE UNCHANGED repairVars
  BY <1>1 DEF repairVars, RepairIInv, RepairTypeOK, PushesInv, OnlyProvenReceive
<1>2. CASE SwarmRepairNext
  BY <1>2, ChecksKeep, FinishKeeps, ServeKeeps, LostKeeps, RoundKeeps, HeardKeeps, ProvideKeeps,
     RestartKeeps
     DEF SwarmRepairNext
<1>. QED BY <1>1, <1>2

-----------------------------------------------------------------------------
(* The swarm's event loop: the inductive invariant *)

SwarmCall ==
    [pc : TaskStates, ask : Asks, peer : SwarmPeers, got : SUBSET (SwarmPeers \cup DhtRecords)]

\* No connection that was let through is with a listed peer.
LinksInv ==
    /\ links \in [SwarmPeers -> LinkStates] /\ blocked \subseteq SwarmPeers
    /\ \A p \in blocked : links[p] # "open"

\* What a DHT query may have been told.
ToldRightly(call) ==
    /\ call.ask = "record" => \A r \in call.got : r[1] = call.peer
    /\ call.ask = "providers" => call.got \subseteq Provider

TasksInv ==
    /\ tasks \in [SwarmTasks -> SwarmCall]
    /\ pending = {t \in SwarmTasks : tasks[t].pc = "wait"}
    /\ \A t \in SwarmTasks : ToldRightly(tasks[t])

SwarmIInv ==
    /\ LinksInv /\ TasksInv
    /\ routing \subseteq SwarmPeers /\ discovered \subseteq SwarmPeers

-----------------------------------------------------------------------------
(* The swarm's event loop: connections *)

LEMMA LinkSet ==
    ASSUME LinksInv, NEW p \in SwarmPeers, NEW s \in LinkStates, LinkIs(p, s), UNCHANGED blocked,
           s = "open" => p \notin blocked
    PROVE  LinksInv'
BY DEF LinksInv, LinkIs

LEMMA DialSet ==
    ASSUME LinksInv, NEW p \in SwarmPeers, Dialed(p), UNCHANGED blocked PROVE LinksInv'
BY DEF LinksInv, Dialed, LinkStates

LEMMA TasksAlone == ASSUME TasksInv, UNCHANGED <<tasks, pending>> PROVE TasksInv'
BY DEF TasksInv

LEMMA PeerStepsKeep ==
    ASSUME SwarmIInv, NEW p \in SwarmPeers,
           \/ Connects(p) \/ Disconnects(p) \/ ConnectionEstablished(p)
           \/ MdnsDiscovered(p) \/ IdentifyReceived(p) \/ RendezvousSeen(p) \/ RendezvousGone(p)
           \/ BlockPeer(p) \/ UnblockPeer(p)
    PROVE  SwarmIInv'
<1>0. LinksInv /\ TasksInv /\ routing \subseteq SwarmPeers /\ discovered \subseteq SwarmPeers
  BY DEF SwarmIInv
<1>1. UNCHANGED <<tasks, pending>>
  BY DEF Connects, Disconnects, ConnectionEstablished, MdnsDiscovered, IdentifyReceived,
         RendezvousSeen, RendezvousGone, BlockPeer, UnblockPeer
<1>2. TasksInv' BY <1>0, <1>1, TasksAlone
<1>3. routing' \subseteq SwarmPeers /\ discovered' \subseteq SwarmPeers
  BY <1>0 DEF Connects, Disconnects, ConnectionEstablished, MdnsDiscovered, IdentifyReceived,
              RendezvousSeen, RendezvousGone, BlockPeer, UnblockPeer
<1>4. LinksInv'
  <2>0. {"none", "opening", "open"} \subseteq LinkStates BY DEF LinkStates
  <2>1. CASE Connects(p) BY <1>0, <2>0, <2>1, LinkSet DEF Connects
  <2>2. CASE Disconnects(p) BY <1>0, <2>0, <2>2, LinkSet DEF Disconnects
  <2>3. CASE ConnectionEstablished(p)
    <3>1. CASE KeepsLink(p) BY <1>0, <2>0, <2>3, <3>1, LinkSet DEF ConnectionEstablished, KeepsLink
    <3>2. CASE ~KeepsLink(p) BY <1>0, <2>0, <2>3, <3>2, LinkSet DEF ConnectionEstablished
    <3>. QED BY <3>1, <3>2
  <2>4. CASE MdnsDiscovered(p) BY <1>0, <2>4, DialSet DEF MdnsDiscovered
  <2>5. CASE IdentifyReceived(p) BY <1>0, <2>5 DEF IdentifyReceived, LinksInv
  <2>6. CASE RendezvousSeen(p) \/ RendezvousGone(p)
    BY <1>0, <2>6 DEF RendezvousSeen, RendezvousGone, LinksInv
  <2>7. CASE BlockPeer(p)
    BY <1>0, <2>0, <2>7 DEF BlockPeer, LinksInv, LinkIs, SwarmIsConnected
  <2>8. CASE UnblockPeer(p) BY <1>0, <2>8 DEF UnblockPeer, LinksInv
  <2>. QED BY <2>1, <2>2, <2>3, <2>4, <2>5, <2>6, <2>7, <2>8
<1>. QED BY <1>2, <1>3, <1>4 DEF SwarmIInv

-----------------------------------------------------------------------------
(* The swarm's event loop: calls *)

\* One task's call changes, and its channel waits when and only when it does.
LEMMA OneTask ==
    ASSUME TasksInv, NEW t \in SwarmTasks, NEW c \in SwarmCall, ToldRightly(c),
           tasks' = [tasks EXCEPT ![t] = c],
           pending' = IF c.pc = "wait" THEN pending \cup {t} ELSE pending \ {t}
    PROVE  TasksInv'
<1>1. tasks' \in [SwarmTasks -> SwarmCall] BY DEF TasksInv
<1>2. \A u \in SwarmTasks : tasks'[u] = IF u = t THEN c ELSE tasks[u] BY DEF TasksInv
<1>3. \A u \in SwarmTasks : ToldRightly(tasks'[u]) BY <1>2 DEF TasksInv
<1>4. pending' = {u \in SwarmTasks : tasks'[u].pc = "wait"} BY <1>2 DEF TasksInv
<1>. QED BY <1>1, <1>3, <1>4 DEF TasksInv

LEMMA TaskFields ==
    ASSUME TasksInv, NEW t \in SwarmTasks
    PROVE  /\ tasks[t] \in SwarmCall /\ tasks[t].pc \in TaskStates /\ tasks[t].ask \in Asks
           /\ tasks[t].peer \in SwarmPeers /\ tasks[t].got \subseteq SwarmPeers \cup DhtRecords
           /\ ToldRightly(tasks[t])
           /\ t \in pending <=> tasks[t].pc = "wait"
BY DEF TasksInv, SwarmCall

\* A task at another stage has been told what it was told.
LEMMA StageSet ==
    ASSUME TasksInv, NEW t \in SwarmTasks, NEW s \in TaskStates, AtPc(t, s),
           tasks[t].pc # "wait",
           pending' = IF s = "wait" THEN pending \cup {t} ELSE pending
    PROVE  TasksInv'
<1>. DEFINE c == [tasks[t] EXCEPT !.pc = s]
<1>1. tasks[t] \in SwarmCall /\ ToldRightly(tasks[t]) /\ t \notin pending BY TaskFields
<1>2. c \in SwarmCall /\ c.pc = s /\ c.ask = tasks[t].ask /\ c.got = tasks[t].got /\ c.peer = tasks[t].peer
  BY <1>1 DEF SwarmCall
<1>3. ToldRightly(c) BY <1>1, <1>2 DEF ToldRightly
<1>4. tasks' = [tasks EXCEPT ![t] = c] BY DEF AtPc
<1>5. pending' = IF c.pc = "wait" THEN pending \cup {t} ELSE pending \ {t} BY <1>1, <1>2
<1>. HIDE DEF c
<1>. QED BY <1>2, <1>3, <1>4, <1>5, OneTask

LEMMA StartKeeps == ASSUME SwarmIInv, NEW t \in SwarmTasks, StartCall(t) PROVE SwarmIInv'
<1>1. PICK a \in Asks, p \in SwarmPeers :
        /\ tasks[t].pc \in {"rest", "done", "failed"}
        /\ tasks' = [tasks EXCEPT ![t] = [pc |-> IF a = "rpc" THEN "connect" ELSE "send",
                                          ask |-> a, peer |-> p, got |-> {}]]
        /\ UNCHANGED <<links, blocked, routing, discovered, pending>>
  BY DEF StartCall
<1>. DEFINE c == [pc |-> IF a = "rpc" THEN "connect" ELSE "send", ask |-> a, peer |-> p, got |-> {}]
<1>2. c \in SwarmCall /\ c.pc # "wait" /\ c.got = {} BY DEF SwarmCall, TaskStates
<1>3. ToldRightly(c) BY <1>2 DEF ToldRightly
<1>4. t \notin pending BY <1>1, TaskFields DEF SwarmIInv
<1>5. pending' = IF c.pc = "wait" THEN pending \cup {t} ELSE pending \ {t} BY <1>1, <1>2, <1>4
<1>6. tasks' = [tasks EXCEPT ![t] = c] BY <1>1
<1>. HIDE DEF c
<1>7. TasksInv' BY <1>2, <1>3, <1>5, <1>6, OneTask DEF SwarmIInv
<1>. QED BY <1>1, <1>7 DEF SwarmIInv, LinksInv

LEMMA TaskStepsKeep == ASSUME SwarmIInv, NEW t \in SwarmTasks, TaskSteps(t) PROVE SwarmIInv'
<1>0. LinksInv /\ TasksInv /\ tasks[t].peer \in SwarmPeers BY TaskFields DEF SwarmIInv
<1>1. {"send", "dialed", "failed", "wait"} \subseteq TaskStates BY DEF TaskStates
<1>2. UNCHANGED <<blocked, routing, discovered>>
  BY DEF TaskSteps, EnsureConnected, PollConnected, DialTimeout, SendCommand
<1>3. LinksInv'
  <2>1. CASE UNCHANGED links BY <1>0, <1>2, <2>1 DEF LinksInv
  <2>2. CASE Dialed(tasks[t].peer) BY <1>0, <1>2, <2>2, DialSet
  <2>. QED BY <2>1, <2>2 DEF TaskSteps, EnsureConnected, PollConnected, DialTimeout, SendCommand
<1>4. TasksInv'
  <2>1. CASE EnsureConnected(t)
    <3>1. AtPc(t, "send") \/ AtPc(t, "dialed")
      BY <2>1 DEF EnsureConnected
    <3>2. tasks[t].pc = "connect" /\ pending' = pending BY <2>1 DEF EnsureConnected
    <3>. QED BY <1>0, <1>1, <3>1, <3>2, StageSet
  <2>2. CASE PollConnected(t) BY <1>0, <1>1, <2>2, StageSet DEF PollConnected
  <2>3. CASE DialTimeout(t) BY <1>0, <1>1, <2>3, StageSet DEF DialTimeout
  <2>4. CASE SendCommand(t) BY <1>0, <1>1, <2>4, StageSet DEF SendCommand
  <2>. QED BY <2>1, <2>2, <2>3, <2>4 DEF TaskSteps
<1>. QED BY <1>2, <1>3, <1>4 DEF SwarmIInv

LEMMA ReplyKeeps ==
    ASSUME SwarmIInv, NEW t \in SwarmTasks, NEW s \in {"done", "failed"},
           NEW g \in SUBSET (SwarmPeers \cup DhtRecords), Reply(t, s, g),
           \/ tasks[t].ask = "rpc" \/ g = tasks[t].got
    PROVE  SwarmIInv'
<1>. DEFINE c == [tasks[t] EXCEPT !.pc = s, !.got = g]
<1>1. tasks[t] \in SwarmCall /\ ToldRightly(tasks[t]) BY TaskFields DEF SwarmIInv
<1>2. /\ c \in SwarmCall /\ c.pc = s /\ c.ask = tasks[t].ask /\ c.got = g /\ c.peer = tasks[t].peer
  BY <1>1 DEF SwarmCall, TaskStates
<1>3. ToldRightly(c) BY <1>1, <1>2 DEF ToldRightly
<1>4. tasks' = [tasks EXCEPT ![t] = c] BY DEF Reply, SwarmIInv, TasksInv
<1>5. pending' = IF c.pc = "wait" THEN pending \cup {t} ELSE pending \ {t} BY <1>2 DEF Reply
<1>. HIDE DEF c
<1>6. TasksInv' BY <1>2, <1>3, <1>4, <1>5, OneTask DEF SwarmIInv
<1>. QED BY <1>6 DEF SwarmIInv, LinksInv, Reply

LEMMA AnswersKeep == ASSUME SwarmIInv, NEW t \in SwarmTasks, LoopAnswers(t) PROVE SwarmIInv'
<1>0. tasks[t].peer \in SwarmPeers /\ tasks[t].got \in SUBSET (SwarmPeers \cup DhtRecords)
  BY TaskFields DEF SwarmIInv
<1>1. CASE Response(t) BY <1>0, <1>1, ReplyKeeps DEF Response
<1>2. CASE OutboundFailure(t) BY <1>2, ReplyKeeps DEF OutboundFailure, ReplyFailure
<1>3. CASE QueryFinished(t) BY <1>0, <1>3, ReplyKeeps DEF QueryFinished
<1>. QED BY <1>1, <1>2, <1>3 DEF LoopAnswers

LEMMA PieceKeeps ==
    ASSUME SwarmIInv, NEW t \in SwarmTasks, NEW more \in SUBSET (SwarmPeers \cup DhtRecords),
           t \in pending, Piece(t, more),
           tasks[t].ask = "record" => \A r \in more : r[1] = tasks[t].peer,
           tasks[t].ask = "providers" => more \subseteq Provider
    PROVE  SwarmIInv'
<1>. DEFINE c == [tasks[t] EXCEPT !.got = @ \cup more]
<1>1. tasks[t] \in SwarmCall /\ ToldRightly(tasks[t]) /\ tasks[t].pc = "wait"
      /\ tasks[t].got \subseteq SwarmPeers \cup DhtRecords
  BY TaskFields DEF SwarmIInv
<1>2. /\ c \in SwarmCall /\ c.pc = "wait" /\ c.ask = tasks[t].ask /\ c.got = tasks[t].got \cup more
      /\ c.peer = tasks[t].peer
  BY <1>1 DEF SwarmCall
<1>3. ToldRightly(c) BY <1>1, <1>2 DEF ToldRightly
<1>4. tasks' = [tasks EXCEPT ![t] = c] BY DEF Piece, SwarmIInv, TasksInv
<1>5. pending' = IF c.pc = "wait" THEN pending \cup {t} ELSE pending \ {t} BY <1>2 DEF Piece
<1>. HIDE DEF c
<1>6. TasksInv' BY <1>2, <1>3, <1>4, <1>5, OneTask DEF SwarmIInv
<1>. QED BY <1>6 DEF SwarmIInv, LinksInv, Piece

LEMMA PiecesKeep ==
    ASSUME SwarmIInv, NEW t \in SwarmTasks, FoundRecord(t) \/ FoundProviders(t)
    PROVE  SwarmIInv'
<1>1. CASE FoundRecord(t)
  <2>1. PICK r \in DhtRecords : Piece(t, {x \in {r} : Verified(tasks[t].peer, x)})
    BY <1>1 DEF FoundRecord
  <2>. DEFINE more == {x \in {r} : Verified(tasks[t].peer, x)}
  <2>2. more \in SUBSET (SwarmPeers \cup DhtRecords) /\ \A x \in more : x[1] = tasks[t].peer
    BY DEF Verified
  <2>3. tasks[t].ask # "providers" /\ t \in pending BY <1>1 DEF FoundRecord
  <2>. HIDE DEF more
  <2>4. Piece(t, more) BY <2>1 DEF more
  <2>. QED BY <2>2, <2>3, <2>4, PieceKeeps
<1>2. CASE FoundProviders(t)
  <2>1. PICK p \in Provider : Piece(t, {p}) BY <1>2 DEF FoundProviders
  <2>2. {p} \in SUBSET (SwarmPeers \cup DhtRecords) BY SwarmAssumption
  <2>3. tasks[t].ask # "record" /\ t \in pending /\ {p} \subseteq Provider BY <1>2 DEF FoundProviders
  <2>. QED BY <2>1, <2>2, <2>3, PieceKeeps
<1>. QED BY <1>1, <1>2

-----------------------------------------------------------------------------
(* The swarm's event loop: the theorem *)

LEMMA SwarmStarts == ASSUME SwarmInit PROVE SwarmIInv
<1>1. AtRest \in SwarmCall /\ AtRest.pc = "rest" /\ AtRest.got = {} /\ AtRest.peer \in SwarmPeers
  <2>1. (CHOOSE p \in SwarmPeers : TRUE) \in SwarmPeers BY SwarmAssumption
  <2>. QED BY <2>1 DEF AtRest, SwarmCall, TaskStates, Asks
<1>2. LinksInv BY <1>1 DEF SwarmInit, LinksInv, LinkStates
<1>3. TasksInv BY <1>1 DEF SwarmInit, TasksInv, ToldRightly
<1>. QED BY <1>2, <1>3 DEF SwarmInit, SwarmIInv

LEMMA SwarmStep == ASSUME SwarmIInv, [SwarmNext]_swarmVars PROVE SwarmIInv'
<1>1. CASE UNCHANGED swarmVars BY <1>1 DEF swarmVars, SwarmIInv, LinksInv, TasksInv
<1>2. CASE TakeRendezvousDiscoveries
  BY <1>2 DEF TakeRendezvousDiscoveries, SwarmIInv, LinksInv, TasksInv
<1>3. CASE SwarmNext /\ ~TakeRendezvousDiscoveries
  <2>1. CASE \E p \in SwarmPeers :
                \/ Connects(p) \/ Disconnects(p) \/ ConnectionEstablished(p)
                \/ MdnsDiscovered(p) \/ IdentifyReceived(p) \/ RendezvousSeen(p) \/ RendezvousGone(p)
                \/ BlockPeer(p) \/ UnblockPeer(p)
    BY <2>1, PeerStepsKeep
  <2>2. CASE \E t \in SwarmTasks :
                \/ StartCall(t) \/ TaskSteps(t) \/ LoopAnswers(t)
                \/ FoundRecord(t) \/ FoundProviders(t)
    BY <2>2, StartKeeps, TaskStepsKeep, AnswersKeep, PiecesKeep
  <2>. QED BY <1>3, <2>1, <2>2 DEF SwarmNext
<1>. QED BY <1>1, <1>2, <1>3

LEMMA SwarmIInvSound == ASSUME SwarmIInv PROVE SwarmTypeOK /\ SwarmGuarded
BY DEF SwarmIInv, LinksInv, TasksInv, ToldRightly, SwarmCall, SwarmTypeOK, SwarmGuarded

-----------------------------------------------------------------------------
(* Front ends: sequences of ages *)

LEMMA ApiConstants ==
    /\ StrictAuth \in BOOLEAN /\ RateLimit \in Nat /\ RateWindow \in Nat /\ RateWindow > 0
    /\ MaxTracked \in Nat /\ PoolSize \in Nat /\ MaxCalls \in Nat
    /\ ApiOps \subseteq SharedOps \cup HttpOps \cup P2pOps /\ Shown \subseteq Credentials
BY ApiAssumption, ApiOpsAssumption

LEMMA RowIsSeq ==
    ASSUME NEW S, NEW n \in Nat, NEW f \in [1..n -> S]
    PROVE  f \in Seq(S) /\ Len(f) = n
<1>1. f = [i \in 1..n |-> f[i]] OBVIOUS
<1>2. [i \in 1..n |-> f[i]] \in Seq(S) /\ Len([i \in 1..n |-> f[i]]) = n OBVIOUS
<1>. QED BY <1>1, <1>2

LEMMA SuffixIs ==
    ASSUME NEW S, NEW s \in Seq(S), NEW k \in 1..Len(s)
    PROVE  /\ SubSeq(s, k, Len(s)) \in Seq(S)
           /\ Len(SubSeq(s, k, Len(s))) = (Len(s) - k) + 1
           /\ \A i \in 1..((Len(s) - k) + 1) : SubSeq(s, k, Len(s))[i] = s[(k - 1) + i]
<1>. DEFINE n == Len(s)
<1>1. n \in Nat /\ s \in [1..n -> S] BY LenProperties
<1>2. k \in 1..n OBVIOUS
<1>. HIDE DEF n
<1>3. k \in Int /\ n \in Int /\ k <= n /\ k >= 1 BY <1>1, <1>2
<1>4. \A i \in k..n : s[i] \in S BY <1>1, <1>3
<1>5. /\ SubSeq(s, k, n) \in Seq(S)
      /\ Len(SubSeq(s, k, n)) = IF k <= n THEN n - k + 1 ELSE 0
      /\ \A i \in 1..n - k + 1 : SubSeq(s, k, n)[i] = s[k + i - 1]
  BY <1>3, <1>4, SubSeqProperties
<1>6. Len(SubSeq(s, k, n)) = (n - k) + 1 BY <1>3, <1>5
<1>7. ASSUME NEW i \in 1..((n - k) + 1) PROVE SubSeq(s, k, n)[i] = s[(k - 1) + i]
  <2>1. i \in 1..n - k + 1 /\ k + i - 1 = (k - 1) + i BY <1>3
  <2>. QED BY <1>5, <2>1
<1>. QED BY <1>5, <1>6, <1>7 DEF n

LEMMA FirstIs ==
    ASSUME NEW n \in Nat, NEW alive \in SUBSET (1..n), alive # {}
    PROVE  Min(alive) \in alive /\ \A i \in alive : Min(alive) <= i
<1>1. alive \in SUBSET Nat OBVIOUS
<1>2. \E k \in alive : \A i \in alive : k <= i BY <1>1, LeastNatural
<1>. QED BY <1>2 DEF Min

\* The live part of a deque is a suffix of it.
Live(s) == {i \in DOMAIN s : ~Expired(s[i])}

LEMMA RecentIs ==
    ASSUME NEW S \in SUBSET Nat, NEW s \in Seq(S)
    PROVE  /\ (\A i \in 1..Len(s) : Expired(s[i])) => Recent(s) = <<>>
           /\ (\E i \in 1..Len(s) : ~Expired(s[i])) =>
                 \E k \in 1..Len(s) : /\ ~Expired(s[k]) /\ \A i \in 1..(k - 1) : Expired(s[i])
                                      /\ Recent(s) = SubSeq(s, k, Len(s))
<1>1. Len(s) \in Nat /\ DOMAIN s = 1..Len(s) BY LenProperties
<1>2. Recent(s) = LiveFrom(s, Live(s)) BY DEF Recent, Live
<1>3. Live(s) \in SUBSET (1..Len(s)) /\ \A i \in 1..Len(s) : i \in Live(s) <=> ~Expired(s[i])
  BY <1>1 DEF Live
<1>. DEFINE n == Len(s)
            L == Live(s)
<1>. HIDE DEF n, L
<1>4. n \in Nat /\ L \in SUBSET (1..n) /\ (\A i \in 1..n : i \in L <=> ~Expired(s[i]))
      /\ Recent(s) = LiveFrom(s, L)
  BY <1>1, <1>2, <1>3 DEF n, L
<1>5. CASE L = {} BY <1>4, <1>5 DEF LiveFrom, n
<1>6. CASE L # {}
  <2>1. Min(L) \in L /\ \A i \in L : Min(L) <= i BY <1>4, <1>6, FirstIs
  <2>. DEFINE k == Min(L)
  <2>. HIDE DEF k
  <2>2. k \in L /\ k \in 1..n /\ (\A i \in L : k <= i) BY <1>4, <2>1 DEF k
  <2>3. Recent(s) = SubSeq(s, k, n) BY <1>4, <1>6 DEF LiveFrom, k, n
  <2>4. ASSUME NEW i \in 1..(k - 1) PROVE Expired(s[i])
    <3>1. i \in 1..n /\ ~(k <= i) BY <1>4, <2>2
    <3>. QED BY <1>4, <2>2, <3>1
  <2>5. ~Expired(s[k]) BY <1>4, <2>2
  <2>. QED BY <2>2, <2>3, <2>4, <2>5 DEF n
<1>. QED BY <1>5, <1>6

LEMMA RecentType ==
    ASSUME NEW S \in SUBSET Nat, NEW s \in Seq(S)
    PROVE  /\ Recent(s) \in Seq(S) /\ Len(Recent(s)) <= Len(s)
           /\ Recent(s) # <<>> => ~Expired(Recent(s)[1])
<1>1. Len(s) \in Nat BY LenProperties
<1>2. CASE \A i \in 1..Len(s) : Expired(s[i])
  <2>1. Recent(s) = <<>> BY <1>2, RecentIs
  <2>2. <<>> \in Seq(S) /\ Len(<<>>) = 0 BY EmptySeq
  <2>. QED BY <1>1, <2>1, <2>2
<1>3. CASE \E i \in 1..Len(s) : ~Expired(s[i])
  <2>1. PICK k \in 1..Len(s) : ~Expired(s[k]) /\ Recent(s) = SubSeq(s, k, Len(s)) BY <1>3, RecentIs
  <2>2. /\ Recent(s) \in Seq(S) /\ Len(Recent(s)) = (Len(s) - k) + 1
        /\ \A i \in 1..((Len(s) - k) + 1) : Recent(s)[i] = s[(k - 1) + i]
    BY <2>1, SuffixIs
  <2>3. 1 \in 1..((Len(s) - k) + 1) /\ (k - 1) + 1 = k /\ (Len(s) - k) + 1 <= Len(s) BY <1>1
  <2>. QED BY <2>1, <2>2, <2>3
<1>. QED BY <1>2, <1>3

\* A deque that starts live is kept whole.
LEMMA LiveKept ==
    ASSUME NEW S \in SUBSET Nat, NEW s \in Seq(S), s = <<>> \/ ~Expired(s[1])
    PROVE  Recent(s) = s
<1>1. Len(s) \in Nat /\ s \in [1..Len(s) -> S] BY LenProperties
<1>2. CASE s = <<>>
  <2>1. Len(s) = 0 BY <1>2, EmptySeq
  <2>2. \A i \in 1..Len(s) : Expired(s[i]) BY <2>1
  <2>. QED BY <1>2, <2>2, RecentIs
<1>3. CASE s # <<>>
  <2>1. Len(s) >= 1 /\ 1 \in 1..Len(s) /\ ~Expired(s[1])
    <3>1. Len(s) \in Nat \ {0} BY <1>3, EmptySeq
    <3>. QED BY <1>3, <3>1
  <2>2. PICK k \in 1..Len(s) : /\ \A i \in 1..(k - 1) : Expired(s[i])
                               /\ Recent(s) = SubSeq(s, k, Len(s))
    BY <2>1, RecentIs
  <2>3. k = 1
    <3>1. ~(1 \in 1..(k - 1)) BY <2>1, <2>2
    <3>2. k \in Int /\ k >= 1 BY <1>1
    <3>. QED BY <3>1, <3>2
  <2>4. /\ Recent(s) \in Seq(S) /\ Len(Recent(s)) = (Len(s) - 1) + 1
        /\ \A i \in 1..((Len(s) - 1) + 1) : Recent(s)[i] = s[(1 - 1) + i]
    BY <2>1, <2>2, <2>3, SuffixIs
  <2>5. Len(Recent(s)) = Len(s) BY <1>1, <2>4
  <2>6. ASSUME NEW i \in 1..Len(s) PROVE Recent(s)[i] = s[i]
    <3>1. i \in 1..((Len(s) - 1) + 1) /\ (1 - 1) + i = i BY <1>1
    <3>. QED BY <2>4, <3>1
  <2>. QED BY <2>4, <2>5, <2>6, SeqEqual
<1>. QED BY <1>2, <1>3

\* Dropping expired entries in front drops nothing live.
LEMMA FrontExpired ==
    ASSUME NEW S \in SUBSET Nat, NEW s \in Seq(S), NEW k \in 1..Len(s),
           \A i \in 1..(k - 1) : Expired(s[i])
    PROVE  Recent(SubSeq(s, k, Len(s))) = Recent(s)
<1>. DEFINE g == SubSeq(s, k, Len(s))
            n == Len(s)
<1>1. n \in Nat /\ k \in 1..n BY LenProperties
<1>2. g \in Seq(S) /\ Len(g) = (n - k) + 1 /\ \A i \in 1..((n - k) + 1) : g[i] = s[(k - 1) + i]
  BY SuffixIs
<1>. HIDE DEF g, n
<1>3. CASE \A i \in 1..n : Expired(s[i])
  <2>1. ASSUME NEW i \in 1..Len(g) PROVE Expired(g[i])
    <3>1. i \in 1..((n - k) + 1) /\ (k - 1) + i \in 1..n BY <1>1, <1>2
    <3>. QED BY <1>2, <1>3, <3>1
  <2>2. Recent(g) = <<>> BY <1>2, <2>1, RecentIs
  <2>3. Recent(s) = <<>> BY <1>3, RecentIs DEF n
  <2>. QED BY <2>2, <2>3 DEF g
<1>4. CASE \E i \in 1..n : ~Expired(s[i])
  <2>1. PICK j \in 1..n : /\ ~Expired(s[j]) /\ \A i \in 1..(j - 1) : Expired(s[i])
                          /\ Recent(s) = SubSeq(s, j, n)
    BY <1>4, RecentIs DEF n
  <2>2. j >= k
    <3>1. ~(j \in 1..(k - 1)) BY <2>1
    <3>. QED BY <1>1, <3>1
  <2>. DEFINE d == (j - k) + 1
  <2>3. d \in 1..((n - k) + 1) /\ (k - 1) + d = j BY <1>1, <2>2
  <2>4. ~Expired(g[d]) BY <1>2, <2>1, <2>3
  <2>. HIDE DEF d
  <2>5. \E i \in 1..Len(g) : ~Expired(g[i]) BY <1>2, <2>3, <2>4
  <2>6. PICK e \in 1..Len(g) : /\ ~Expired(g[e]) /\ \A i \in 1..(e - 1) : Expired(g[i])
                               /\ Recent(g) = SubSeq(g, e, Len(g))
    BY <1>2, <2>5, RecentIs
  <2>7. e \in 1..((n - k) + 1) /\ (k - 1) + e \in 1..n BY <1>1, <1>2
  <2>8. e = d
    <3>1. ~(d \in 1..(e - 1)) BY <2>4, <2>6
    <3>2. ~((k - 1) + e \in 1..(j - 1)) BY <1>2, <2>1, <2>6, <2>7
    <3>. QED BY <1>1, <2>3, <2>7, <3>1, <3>2
  <2>9. /\ Recent(s) \in Seq(S) /\ Len(Recent(s)) = (n - j) + 1
        /\ \A i \in 1..((n - j) + 1) : Recent(s)[i] = s[(j - 1) + i]
    BY <2>1, SuffixIs DEF n
  <2>10. /\ Recent(g) \in Seq(S) /\ Len(Recent(g)) = (Len(g) - d) + 1
         /\ \A i \in 1..((Len(g) - d) + 1) : Recent(g)[i] = g[(d - 1) + i]
    BY <1>2, <2>6, <2>8, SuffixIs
  <2>11. Len(Recent(g)) = Len(Recent(s)) BY <1>1, <1>2, <2>3, <2>9, <2>10
  <2>12. ASSUME NEW i \in 1..Len(Recent(s)) PROVE Recent(g)[i] = Recent(s)[i]
    <3>1. /\ i \in 1..((n - j) + 1) /\ i \in 1..((Len(g) - d) + 1)
          /\ (d - 1) + i \in 1..((n - k) + 1) /\ (k - 1) + ((d - 1) + i) = (j - 1) + i
      BY <1>1, <1>2, <2>3, <2>9
    <3>2. Recent(g)[i] = g[(d - 1) + i] /\ g[(d - 1) + i] = s[(k - 1) + ((d - 1) + i)]
      BY <1>2, <2>10, <3>1
    <3>. QED BY <2>9, <3>1, <3>2
  <2>13. Recent(g) = Recent(s) BY <2>9, <2>10, <2>11, <2>12, SeqEqual
  <2>. QED BY <2>13 DEF g, n
<1>. QED BY <1>3, <1>4

\* As time passes the deque grows older in place.
LEMMA OlderIs ==
    ASSUME NEW s \in Seq(0..(RateWindow + 1))
    PROVE  /\ Older(s) \in Seq(0..(RateWindow + 1)) /\ Len(Older(s)) = Len(s)
           /\ \A i \in 1..Len(s) : Older(s)[i] = IF s[i] < RateWindow THEN s[i] + 1 ELSE s[i]
<1>. DEFINE n == Len(s)
            e(i) == IF s[i] < RateWindow THEN s[i] + 1 ELSE s[i]
<1>1. n \in Nat /\ DOMAIN s = 1..n /\ s \in [1..n -> 0..(RateWindow + 1)] BY LenProperties
<1>. HIDE DEF n
<1>2. Older(s) = [i \in 1..n |-> e(i)] BY <1>1 DEF Older
<1>3. ASSUME NEW i \in 1..n PROVE e(i) \in 0..(RateWindow + 1)
  <2>1. s[i] \in 0..(RateWindow + 1) BY <1>1
  <2>. QED BY <2>1, ApiConstants
<1>4. [i \in 1..n |-> e(i)] \in [1..n -> 0..(RateWindow + 1)] BY <1>3
<1>. HIDE DEF e
<1>5. Older(s) \in Seq(0..(RateWindow + 1)) BY <1>1, <1>2, <1>4 DEF Seq
<1>6. Len(Older(s)) \in Nat /\ DOMAIN Older(s) = 1..Len(Older(s)) BY <1>5, LenProperties
<1>7. DOMAIN Older(s) = 1..n BY <1>2
<1>8. Len(Older(s)) = n BY <1>1, <1>2, <1>4, <1>6, <1>7
<1>. QED BY <1>2, <1>5, <1>8 DEF e, n

LEMMA OlderType ==
    ASSUME NEW s \in Seq(0..RateWindow) PROVE Older(s) \in Seq(0..RateWindow) /\ Len(Older(s)) = Len(s)
<1>1. 0..RateWindow \subseteq 0..(RateWindow + 1) BY ApiConstants
<1>2. s \in Seq(0..(RateWindow + 1))
  <2>1. Len(s) \in Nat /\ s \in [1..Len(s) -> 0..RateWindow] BY LenProperties
  <2>2. s \in [1..Len(s) -> 0..(RateWindow + 1)] BY <1>1, <2>1
  <2>. QED BY <2>1, <2>2, RowIsSeq
<1>3. /\ Older(s) \in Seq(0..(RateWindow + 1)) /\ Len(Older(s)) = Len(s)
      /\ \A i \in 1..Len(s) : Older(s)[i] = IF s[i] < RateWindow THEN s[i] + 1 ELSE s[i]
  BY <1>2, OlderIs
<1>4. Len(s) \in Nat /\ s \in [1..Len(s) -> 0..RateWindow] BY LenProperties
<1>5. ASSUME NEW i \in 1..Len(s) PROVE Older(s)[i] \in 0..RateWindow
  <2>1. s[i] \in 0..RateWindow BY <1>4
  <2>2. Older(s)[i] = IF s[i] < RateWindow THEN s[i] + 1 ELSE s[i] BY <1>3
  <2>. QED BY <2>1, <2>2, ApiConstants
<1>6. Older(s) \in [1..Len(s) -> 0..RateWindow]
  <2>1. Older(s) \in [1..Len(s) -> 0..(RateWindow + 1)] BY <1>3, LenProperties
  <2>. QED BY <1>5, <2>1
<1>. QED BY <1>3, <1>4, <1>6, RowIsSeq

LEMMA WindowIsRecent == ASSUME NEW s \in Seq(0..(RateWindow + 1)) PROVE InWindow(s) = Recent(s)
<1>1. Len(s) \in Nat /\ DOMAIN s = 1..Len(s) /\ s \in [1..Len(s) -> 0..(RateWindow + 1)] BY LenProperties
<1>2. ASSUME NEW i \in DOMAIN s PROVE (s[i] < RateWindow) <=> ~Expired(s[i])
  <2>1. s[i] \in 0..(RateWindow + 1) BY <1>1
  <2>. QED BY <2>1, ApiConstants DEF Expired
<1>3. {i \in DOMAIN s : s[i] < RateWindow} = {i \in DOMAIN s : ~Expired(s[i])} BY <1>2
<1>. QED BY <1>3 DEF InWindow, Recent

\* What has left the window never returns to it.
LEMMA AgesAlike ==
    ASSUME NEW s \in Seq(0..(RateWindow + 1))
    PROVE  InWindow(Older(Recent(s))) = Recent(Older(s))
<1>. DEFINE n == Len(s)
            A == 0..(RateWindow + 1)
            o == Older(s)
<1>0. A \in SUBSET Nat BY ApiConstants
<1>1. n \in Nat /\ s \in [1..n -> A] BY LenProperties
<1>2. o \in Seq(A) /\ Len(o) = n /\ (\A i \in 1..n : o[i] = IF s[i] < RateWindow THEN s[i] + 1 ELSE s[i])
  BY OlderIs
<1>3. Recent(s) \in Seq(A) BY <1>0, RecentType
<1>4. ASSUME NEW i \in 1..n, Expired(s[i]) PROVE Expired(o[i])
  <2>1. s[i] \in 0..(RateWindow + 1) BY <1>1
  <2>2. o[i] = IF s[i] < RateWindow THEN s[i] + 1 ELSE s[i] BY <1>2
  <2>. HIDE DEF o
  <2>. QED BY <1>4, <2>1, <2>2, ApiConstants DEF Expired
<1>5. Older(Recent(s)) \in Seq(A) BY <1>3, OlderIs
<1>6. InWindow(Older(Recent(s))) = Recent(Older(Recent(s))) BY <1>5, WindowIsRecent
<1>. HIDE DEF o, n
<1>7. CASE \A i \in 1..n : Expired(s[i])
  <2>1. Recent(s) = <<>> BY <1>0, <1>7, RecentIs DEF A, n
  <2>2. Recent(o) = <<>> BY <1>0, <1>2, <1>4, <1>7, RecentIs
  <2>3. Len(<<>>) = 0 BY EmptySeq
  <2>4. Len(Older(<<>>)) = 0 BY <1>3, <2>1, <2>3, OlderIs
  <2>5. Older(<<>>) = <<>> BY <1>5, <2>1, <2>4, EmptySeq
  <2>6. Recent(<<>>) = <<>> BY <1>0, <1>3, <2>1, LiveKept
  <2>. QED BY <1>6, <2>1, <2>2, <2>5, <2>6 DEF o
<1>8. CASE \E i \in 1..n : ~Expired(s[i])
  <2>1. PICK k \in 1..n : /\ \A i \in 1..(k - 1) : Expired(s[i])
                          /\ Recent(s) = SubSeq(s, k, n)
    BY <1>0, <1>8, RecentIs DEF A, n
  <2>2. \A i \in 1..(k - 1) : Expired(o[i])
    <3>1. ASSUME NEW i \in 1..(k - 1) PROVE Expired(o[i])
      <4>1. i \in 1..n BY <1>1
      <4>. QED BY <1>4, <2>1, <4>1
    <3>. QED BY <3>1
  <2>3. Recent(SubSeq(o, k, n)) = Recent(o) BY <1>0, <1>2, <2>2, FrontExpired
  <2>4. Older(Recent(s)) = SubSeq(o, k, n)
    <3>. DEFINE g == SubSeq(s, k, n)
                h == SubSeq(o, k, n)
    <3>1. g \in Seq(A) /\ Len(g) = (n - k) + 1 /\ \A i \in 1..((n - k) + 1) : g[i] = s[(k - 1) + i]
      BY SuffixIs DEF n
    <3>2. h \in Seq(A) /\ Len(h) = (n - k) + 1 /\ \A i \in 1..((n - k) + 1) : h[i] = o[(k - 1) + i]
      <4>1. k \in 1..Len(o) /\ Len(o) = n BY <1>2
      <4>2. /\ SubSeq(o, k, Len(o)) \in Seq(A) /\ Len(SubSeq(o, k, Len(o))) = (Len(o) - k) + 1
            /\ \A i \in 1..((Len(o) - k) + 1) : SubSeq(o, k, Len(o))[i] = o[(k - 1) + i]
        BY <1>2, <4>1, SuffixIs
      <4>. QED BY <4>1, <4>2
    <3>. HIDE DEF g, h
    <3>3. /\ Older(g) \in Seq(A) /\ Len(Older(g)) = Len(g)
          /\ \A i \in 1..Len(g) : Older(g)[i] = IF g[i] < RateWindow THEN g[i] + 1 ELSE g[i]
      BY <3>1, OlderIs
    <3>4. ASSUME NEW i \in 1..Len(g) PROVE Older(g)[i] = h[i]
      <4>1. i \in 1..((n - k) + 1) /\ (k - 1) + i \in 1..n BY <1>1, <3>1
      <4>. QED BY <1>2, <3>1, <3>2, <3>3, <4>1
    <3>5. Older(g) = h BY <3>1, <3>2, <3>3, <3>4, SeqEqual
    <3>. QED BY <2>1, <3>5 DEF g, h
  <2>. QED BY <1>6, <2>3, <2>4 DEF o
<1>. QED BY <1>7, <1>8

-----------------------------------------------------------------------------
(* Front ends: the limiters *)

LEMMA WindowsAre ==
    ASSUME NEW x
    PROVE  x \in RateWindows <=> (x = Untracked \/ (x \in Seq(0..RateWindow) /\ Len(x) <= RateLimit))
<1>1. ASSUME x \in SeqOf(0..RateWindow, RateLimit) PROVE x \in Seq(0..RateWindow) /\ Len(x) <= RateLimit
  <2>1. PICK m \in 0..RateLimit : x \in [1..m -> 0..RateWindow] BY <1>1 DEF SeqOf
  <2>2. m \in Nat BY ApiConstants
  <2>3. x \in Seq(0..RateWindow) BY <2>1, <2>2, RowIsSeq
  <2>4. Len(x) = m
    <3>1. DOMAIN x = 1..m BY <2>1
    <3>2. Len(x) \in Nat /\ DOMAIN x = 1..Len(x) BY <2>3, LenProperties
    <3>. QED BY <2>1, <2>2, <2>3, <3>1, <3>2
  <2>. QED BY <2>3, <2>4, ApiConstants
<1>2. ASSUME x \in Seq(0..RateWindow), Len(x) <= RateLimit PROVE x \in SeqOf(0..RateWindow, RateLimit)
  <2>1. Len(x) \in Nat /\ x \in [1..Len(x) -> 0..RateWindow] BY <1>2, LenProperties
  <2>2. Len(x) \in 0..RateLimit BY <1>2, <2>1, ApiConstants
  <2>. QED BY <2>1, <2>2 DEF SeqOf
<1>. QED BY <1>1, <1>2 DEF RateWindows

LEMMA UntrackedIs ==
    /\ Untracked \in Seq(0..(RateWindow + 1)) /\ Recent(Untracked) = <<>>
    /\ Older(Untracked) = Untracked /\ \A x \in Seq(0..RateWindow) : x # Untracked
<1>0. RateWindow + 1 \in 0..(RateWindow + 1) /\ 0..(RateWindow + 1) \in SUBSET Nat BY ApiConstants
<1>1. Untracked \in Seq(0..(RateWindow + 1)) /\ Len(Untracked) = 1 /\ Untracked[1] = RateWindow + 1
  BY <1>0 DEF Untracked
<1>. DEFINE u == Untracked
<1>. HIDE DEF u
<1>2. u \in Seq(0..(RateWindow + 1)) /\ Len(u) = 1 /\ u[1] = RateWindow + 1 BY <1>1 DEF u
<1>3. \A i \in 1..Len(u) : Expired(u[i])
  <2>1. ASSUME NEW i \in 1..Len(u) PROVE Expired(u[i])
    <3>1. i = 1 BY <1>2
    <3>. QED BY <1>2, <3>1, ApiConstants DEF Expired
  <2>. QED BY <2>1
<1>4. Recent(u) = <<>> BY <1>0, <1>2, <1>3, RecentIs
<1>5. Older(u) = u
  <2>1. /\ Older(u) \in Seq(0..(RateWindow + 1)) /\ Len(Older(u)) = Len(u)
        /\ \A i \in 1..Len(u) : Older(u)[i] = IF u[i] < RateWindow THEN u[i] + 1 ELSE u[i]
    BY <1>2, OlderIs
  <2>2. ASSUME NEW i \in 1..Len(u) PROVE Older(u)[i] = u[i]
    <3>1. i = 1 /\ ~(RateWindow + 1 < RateWindow) BY <1>2, ApiConstants
    <3>. QED BY <1>2, <2>1, <3>1
  <2>3. Len(Older(u)) = Len(u) /\ \A i \in 1..Len(Older(u)) : Older(u)[i] = u[i] BY <2>1, <2>2
  <2>. QED BY <1>2, <2>1, <2>3, SeqEqual
<1>6. ASSUME NEW x \in Seq(0..RateWindow), x = u PROVE FALSE
  <2>1. x \in [1..Len(x) -> 0..RateWindow] BY LenProperties
  <2>2. 1 \in 1..Len(x) BY <1>2, <1>6
  <2>3. x[1] \in 0..RateWindow BY <2>1, <2>2
  <2>. QED BY <1>2, <1>6, <2>3, ApiConstants
<1>. QED BY <1>2, <1>4, <1>5, <1>6 DEF u

\* What a window becomes when it is cleaned: within the limit, with the same recent hits.
LEMMA CleanedIs ==
    ASSUME NEW x \in RateWindows
    PROVE  /\ Recent(x) \in Seq(0..RateWindow) /\ Len(Recent(x)) <= RateLimit
           /\ Recent(x) \in RateWindows /\ Recent(Recent(x)) = Recent(x)
           /\ x \in Seq(0..(RateWindow + 1))
<1>0. 0..RateWindow \in SUBSET Nat /\ 0..RateWindow \subseteq 0..(RateWindow + 1) /\ 0 <= RateLimit
  BY ApiConstants
<1>1. CASE x = Untracked
  <2>1. Recent(x) = <<>> BY <1>1, UntrackedIs
  <2>2. <<>> \in Seq(0..RateWindow) /\ Len(<<>>) = 0 BY EmptySeq
  <2>3. Recent(<<>>) = <<>> BY <1>0, <2>2, LiveKept
  <2>. QED BY <1>0, <1>1, <2>1, <2>2, <2>3, WindowsAre, UntrackedIs
<1>2. CASE x \in Seq(0..RateWindow) /\ Len(x) <= RateLimit
  <2>1. /\ Recent(x) \in Seq(0..RateWindow) /\ Len(Recent(x)) <= Len(x)
        /\ Recent(x) # <<>> => ~Expired(Recent(x)[1])
    BY <1>0, <1>2, RecentType
  <2>2. Len(x) \in Nat /\ Len(Recent(x)) \in Nat /\ x \in [1..Len(x) -> 0..RateWindow]
    BY <1>2, <2>1, LenProperties
  <2>3. Len(Recent(x)) <= RateLimit BY <1>2, <2>1, <2>2, ApiConstants
  <2>4. Recent(Recent(x)) = Recent(x) BY <1>0, <2>1, LiveKept
  <2>5. x \in Seq(0..(RateWindow + 1)) 
    <3>1. x \in [1..Len(x) -> 0..(RateWindow + 1)] BY <1>0, <2>2
    <3>. QED BY <2>2, <3>1, RowIsSeq
  <2>. QED BY <2>1, <2>3, <2>4, <2>5, WindowsAre
<1>. QED BY <1>1, <1>2, WindowsAre

Limiter == [Callers -> RateWindows]

LEMMA HygieneKeeps ==
    ASSUME NEW h \in Limiter
    PROVE  Hygiene(h) \in Limiter /\ \A c \in Callers : Recent(Hygiene(h)[c]) = Recent(h[c])
<1>1. \A c \in Callers : h[c] \in RateWindows BY DEF Limiter
<1>. DEFINE w(c) == IF h[c] = Untracked \/ Recent(h[c]) = <<>> THEN Untracked ELSE Recent(h[c])
<1>2. ASSUME NEW c \in Callers PROVE w(c) \in RateWindows /\ Recent(w(c)) = Recent(h[c])
  <2>1. Recent(h[c]) \in RateWindows /\ Recent(Recent(h[c])) = Recent(h[c]) BY <1>1, CleanedIs
  <2>2. Untracked \in RateWindows /\ Recent(Untracked) = <<>> BY WindowsAre, UntrackedIs
  <2>. QED BY <2>1, <2>2
<1>3. Hygiene(h) = [c \in Callers |-> w(c)] \/ Hygiene(h) = h BY DEF Hygiene
<1>. HIDE DEF w
<1>4. CASE Hygiene(h) = h BY <1>4
<1>5. CASE Hygiene(h) = [c \in Callers |-> w(c)] BY <1>2, <1>5 DEF Limiter
<1>. QED BY <1>3, <1>4, <1>5

LEMMA BeforeIs == ASSUME NEW h, NEW c \in Callers PROVE HitsBefore(h, c) = Recent(h[c])
BY UntrackedIs DEF HitsBefore

LEMMA CountedKeeps ==
    ASSUME NEW h \in Limiter, NEW c \in Callers
    PROVE  /\ Counted(h, c) \in Limiter
           /\ \A d \in Callers : Recent(Counted(h, c)[d]) =
                                   IF d = c /\ Fits(h, c) THEN Append(Recent(h[c]), 0) ELSE Recent(h[d])
<1>1. h[c] \in RateWindows BY DEF Limiter
<1>. DEFINE b == Recent(h[c])
<1>2. b \in Seq(0..RateWindow) /\ b \in RateWindows /\ Recent(b) = b /\ Len(b) <= RateLimit
  BY <1>1, CleanedIs
<1>3. HitsBefore(h, c) = b BY BeforeIs
<1>. HIDE DEF b
<1>4. CASE Fits(h, c)
  <2>1. Counted(h, c) = [h EXCEPT ![c] = Append(b, 0)] BY <1>3, <1>4 DEF Counted, Fits
  <2>2. Len(b) < RateLimit /\ Len(b) \in Nat BY <1>2, <1>3, <1>4, LenProperties DEF Fits
  <2>3. 0 \in 0..RateWindow /\ 0..RateWindow \in SUBSET Nat BY ApiConstants
  <2>. DEFINE a == Append(b, 0)
  <2>4. /\ a \in Seq(0..RateWindow) /\ a # <<>> /\ Len(a) = Len(b) + 1
        /\ (\A i \in 1..Len(b) : a[i] = b[i]) /\ a[Len(b) + 1] = 0
    BY <1>2, <2>3, AppendProperties
  <2>. HIDE DEF a
  <2>5. Len(a) <= RateLimit BY <2>2, <2>4, ApiConstants
  <2>6. a \in RateWindows BY <2>4, <2>5, WindowsAre
  <2>7. ~Expired(a[1])
    <3>1. CASE b = <<>>
      <4>1. Len(b) = 0 BY <3>1, EmptySeq
      <4>2. a[1] = 0 BY <2>4, <4>1
      <4>. QED BY <4>2, ApiConstants DEF Expired
    <3>2. CASE b # <<>>
      <4>1. Len(b) \in Nat \ {0} BY <1>2, <3>2, EmptySeq
      <4>2. 1 \in 1..Len(b) BY <4>1
      <4>3. a[1] = b[1] BY <2>4, <4>2
      <4>4. h[c] \in Seq(0..(RateWindow + 1)) BY <1>1, CleanedIs
      <4>5. 0..(RateWindow + 1) \in SUBSET Nat BY ApiConstants
      <4>6. ~Expired(b[1]) BY <3>2, <4>4, <4>5, RecentType DEF b
      <4>. QED BY <4>3, <4>6
    <3>. QED BY <3>1, <3>2
  <2>8. Recent(a) = a BY <2>3, <2>4, <2>7, LiveKept
  <2>9. Counted(h, c) = [h EXCEPT ![c] = a] BY <2>1 DEF a
  <2>10. Counted(h, c) \in Limiter BY <2>6, <2>9 DEF Limiter
  <2>11. \A d \in Callers : Recent(Counted(h, c)[d]) = IF d = c THEN a ELSE Recent(h[d])
    BY <2>8, <2>9 DEF Limiter
  <2>. QED BY <1>4, <2>10, <2>11 DEF a, b
<1>5. CASE ~Fits(h, c) /\ Trackable(h, c)
  <2>1. Counted(h, c) = [h EXCEPT ![c] = b] BY <1>3, <1>5 DEF Counted
  <2>2. Counted(h, c) \in Limiter BY <1>2, <2>1 DEF Limiter
  <2>3. \A d \in Callers : Recent(Counted(h, c)[d]) = IF d = c THEN b ELSE Recent(h[d])
    BY <1>2, <2>1 DEF Limiter
  <2>. QED BY <1>5, <2>2, <2>3 DEF b
<1>6. CASE ~Trackable(h, c)
  <2>1. Counted(h, c) = h /\ ~Fits(h, c) BY <1>6 DEF Counted, Fits
  <2>. QED BY <2>1
<1>. QED BY <1>4, <1>5, <1>6

-----------------------------------------------------------------------------
(* Front ends: the guards *)

Verdicts == {200, 400, 401, 403}

LEMMA VerdictTypes ==
    ASSUME NEW k \in Credentials
    PROVE  /\ RequireSession(k, TRUE) \in Verdicts /\ RequireSession(k, FALSE) \in Verdicts
           /\ RequireControlAuth(k) \in Verdicts /\ RequireServiceToken(k) \in Verdicts
           /\ ApprovalScope(k, TRUE) \in Verdicts /\ ApprovalScope(k, FALSE) \in Verdicts
<1>1. \A w \in BOOLEAN : RequireSession(k, w) \in Verdicts
  BY DEF RequireSession, Verdicts
<1>2. RequireSession(k, TRUE) \in Verdicts /\ RequireSession(k, FALSE) \in Verdicts BY <1>1
<1>3. RequireControlAuth(k) \in Verdicts
  <2>1. k.service \in BOOLEAN /\ LegacyCaller(k) \in BOOLEAN BY DEF Credentials, LegacyCaller
  <2>2. CASE k.service \/ LegacyCaller(k) BY <2>1, <2>2 DEF RequireControlAuth, Verdicts
  <2>3. CASE ~k.service /\ ~LegacyCaller(k) /\ RequireSession(k, TRUE) # 200
    BY <1>2, <2>1, <2>3 DEF RequireControlAuth
  <2>4. CASE ~k.service /\ ~LegacyCaller(k) /\ RequireSession(k, TRUE) = 200
    BY <2>1, <2>4 DEF RequireControlAuth, Verdicts
  <2>. QED BY <2>2, <2>3, <2>4
<1>4. ApprovalScope(k, TRUE) \in Verdicts /\ ApprovalScope(k, FALSE) \in Verdicts
  <2>1. CASE k.service \/ LegacyCaller(k)
    <3>1. ApprovalScope(k, TRUE) = 200 /\ ApprovalScope(k, FALSE) = 200
      BY <2>1, Zenon DEF ApprovalScope
    <3>. QED BY <3>1 DEF Verdicts
  <2>2. CASE ~(k.service \/ LegacyCaller(k))
    <3>1. /\ ApprovalScope(k, TRUE) = RequireSession(k, TRUE)
          /\ ApprovalScope(k, FALSE) = RequireSession(k, FALSE)
      BY <2>2, Zenon DEF ApprovalScope
    <3>. QED BY <1>2, <3>1, Zenon
  <2>. QED BY <2>1, <2>2
<1>5. RequireServiceToken(k) \in Verdicts BY DEF RequireServiceToken, Verdicts
<1>. QED BY <1>2, <1>3, <1>4, <1>5

LEMMA SharedGuards ==
    ASSUME NEW op \in SharedOps, NEW k \in Credentials
    PROVE  HttpGuard(op, k) = P2pGuard(op, k) /\ HttpGuard(op, k) \in Verdicts
<1>. USE DEF HttpOpen, HttpService, HttpOwner, HttpReader, HttpLog, HttpControl, HttpJoin,
             HttpGraduate, P2pOpen, P2pOwner, P2pLeases, P2pReader, P2pControl, P2pSigned
<1>0. /\ RequireSession(k, TRUE) \in Verdicts /\ RequireSession(k, FALSE) \in Verdicts
      /\ RequireControlAuth(k) \in Verdicts /\ ApprovalScope(k, FALSE) \in Verdicts
  BY VerdictTypes
<1>1. CASE op \in {"info", "challenge", "redeem", "readLog"}
  BY <1>1 DEF HttpGuard, P2pGuard, Verdicts
<1>2. CASE op \in {"revokeSession", "putObject", "lease", "renewLease", "listLeases", "append"}
  BY <1>0, <1>2 DEF HttpGuard, P2pGuard
<1>3. CASE op \in {"getObject", "prove"} BY <1>0, <1>3 DEF HttpGuard, P2pGuard
<1>4. CASE op \in {"announce", "peers"} BY <1>0, <1>4 DEF HttpGuard, P2pGuard
<1>5. CASE op = "pendingApprovals" BY <1>0, <1>5 DEF HttpGuard, P2pGuard
<1>. QED BY <1>1, <1>2, <1>3, <1>4, <1>5 DEF SharedOps

LEMMA OtherGuards ==
    ASSUME NEW op, NEW k \in Credentials
    PROVE  /\ op \in HttpOps => HttpGuard(op, k) \in Verdicts
           /\ op \in P2pOps => P2pGuard(op, k) \in Verdicts
<1>. USE DEF HttpOpen, HttpService, HttpOwner, HttpReader, HttpLog, HttpControl, HttpJoin,
             HttpGraduate, P2pOpen, P2pOwner, P2pLeases, P2pReader, P2pControl, P2pSigned
<1>0. /\ RequireServiceToken(k) \in Verdicts /\ RequireControlAuth(k) \in Verdicts
      /\ ApprovalScope(k, TRUE) \in Verdicts
  BY VerdictTypes
<1>1. CASE op \in {"enroll", "issueVoucher"} BY <1>0, <1>1 DEF HttpGuard, HttpOps, P2pOps
<1>2. CASE op \in {"relay", "graduate"} BY <1>0, <1>2 DEF HttpGuard, HttpOps, P2pOps
<1>3. CASE op = "submitApproval" BY <1>0, <1>3 DEF HttpGuard, HttpOps, P2pOps
<1>4. CASE op = "join" BY <1>4 DEF HttpGuard, HttpOps, P2pOps, Verdicts
<1>5. CASE op = "repairPush" BY <1>5 DEF P2pGuard, HttpOps, P2pOps, Verdicts
<1>. QED BY <1>1, <1>2, <1>3, <1>4, <1>5 DEF HttpOps, P2pOps

-----------------------------------------------------------------------------
(* Front ends: the inductive invariant and the steps *)

\* A request is for an operation its front end has.
Routed(call) == call.op \in SharedOps \cup (IF call.via = "http" THEN HttpOps ELSE P2pOps)

CallInv == \A c \in Callers : calls[c].pc # "idle" => Routed(calls[c])

\* The limiter remembers every admitted request for as long as its window lasts.
LimiterInv ==
    \A t \in Transports, c \in Callers : ~Unlimited(t) => admitted[t][c] = Recent(hits[t][c])

ApiIInv == ApiTypeOK /\ CallInv /\ LimiterInv

LEMMA ApiIInvSound == ASSUME ApiIInv PROVE ApiTypeOK /\ GuardsAgree /\ AdmittedWithinLimit
<1>1. GuardsAgree BY SharedGuards DEF GuardsAgree
<1>2. ASSUME NEW t \in Transports, NEW c \in Callers, ~Unlimited(t)
      PROVE  Len(admitted[t][c]) <= RateLimit
  <2>1. hits[t][c] \in RateWindows BY DEF ApiIInv, ApiTypeOK
  <2>2. Len(Recent(hits[t][c])) <= RateLimit BY <2>1, CleanedIs
  <2>. QED BY <1>2, <2>2 DEF ApiIInv, LimiterInv
<1>. QED BY <1>1, <1>2 DEF ApiIInv, AdmittedWithinLimit

LEMMA ApiStarts == ASSUME ApiInit PROVE ApiIInv
<1>1. Untracked \in RateWindows BY WindowsAre
<1>2. <<>> \in Seq(0..RateWindow) BY EmptySeq
<1>3. calls \in [Callers -> Call] /\ \A c \in Callers : calls[c].pc = "idle"
  BY DEF ApiInit, Call, NoCall
<1>4. hits \in [Transports -> [Callers -> RateWindows]]
      /\ admitted \in [Transports -> [Callers -> Seq(0..RateWindow)]]
  BY <1>1, <1>2 DEF ApiInit
<1>5. session \in [alive : BOOLEAN, permissions : SUBSET Permissions] BY DEF ApiInit, Permissions
<1>6. callCount \in 0..MaxCalls BY ApiConstants DEF ApiInit
<1>7. LimiterInv BY UntrackedIs DEF ApiInit, LimiterInv
<1>. QED BY <1>3, <1>4, <1>5, <1>6, <1>7 DEF ApiIInv, ApiTypeOK, CallInv

LEMMA CallFields ==
    ASSUME ApiIInv, NEW c \in Callers, calls[c].pc # "idle"
    PROVE  /\ calls[c] \in [pc : {"sent", "checked", "working", "answered"}, via : Transports,
                            op : ApiOps, credential : Credentials,
                            status : {0, 200, 400, 401, 403, 429, 503}]
           /\ Routed(calls[c])
BY DEF ApiIInv, ApiTypeOK, Call, NoCall, CallInv

LEMMA CallReplaced ==
    ASSUME ApiIInv, NEW c \in Callers, NEW k \in Call, Routed(k), calls' = [calls EXCEPT ![c] = k]
    PROVE  calls' \in [Callers -> Call] /\ CallInv'
<1>1. calls \in [Callers -> Call] BY DEF ApiIInv, ApiTypeOK
<1>2. calls' \in [Callers -> Call] BY <1>1
<1>3. ASSUME NEW d \in Callers, calls'[d].pc # "idle" PROVE Routed(calls'[d])
  <2>1. CASE d = c
    <3>1. calls'[d] = k BY <1>1, <2>1
    <3>. QED BY <3>1
  <2>2. CASE d # c
    <3>1. calls'[d] = calls[d] BY <1>1, <2>2
    <3>. QED BY <1>3, <3>1 DEF ApiIInv, CallInv
  <2>. QED BY <2>1, <2>2
<1>. QED BY <1>2, <1>3 DEF CallInv, Routed

LEMMA AnsweredIs ==
    ASSUME NEW r \in [pc : {"sent", "checked", "working", "answered"}, via : Transports, op : ApiOps,
                      credential : Credentials, status : {0, 200, 400, 401, 403, 429, 503}],
           Routed(r), NEW code \in {0, 200, 400, 401, 403, 429, 503}
    PROVE  Answered(r, code) \in Call /\ Routed(Answered(r, code))
<1>. DEFINE mid == [r EXCEPT !.pc = "answered"]
            k == [pc |-> "answered", via |-> r.via, op |-> r.op, credential |-> r.credential,
                  status |-> code]
<1>1. mid = [pc |-> "answered", via |-> r.via, op |-> r.op, credential |-> r.credential,
             status |-> r.status]
  OBVIOUS
<1>2. Answered(r, code) = [mid EXCEPT !.status = code] BY DEF Answered
<1>. HIDE DEF mid
<1>3. [mid EXCEPT !.status = code] = k BY <1>1
<1>4. k \in Call /\ Routed(k) BY DEF Call, Routed
<1>. QED BY <1>2, <1>3, <1>4

Statuses == {0, 200, 400, 401, 403, 429, 503}

LEMMA CallAnswered ==
    ASSUME ApiIInv, NEW c \in Callers, calls[c].pc # "idle", NEW code, code \in Statuses,
           Answer(c, code)
    PROVE  calls' \in [Callers -> Call] /\ CallInv'
<1>. DEFINE k == Answered(calls[c], code)
<1>1. k \in Call /\ Routed(k) BY CallFields, AnsweredIs DEF Statuses
<1>2. calls' = [calls EXCEPT ![c] = k] BY DEF Answer
<1>. HIDE DEF k
<1>. QED BY <1>1, <1>2, CallReplaced

LEMMA CallPasses ==
    ASSUME ApiIInv, NEW c \in Callers, calls[c].pc # "idle", NEW at \in {"checked", "working"},
           calls' = [calls EXCEPT ![c].pc = at]
    PROVE  calls' \in [Callers -> Call] /\ CallInv'
<1>1. calls[c].status \in {0, 200, 400, 401, 403, 429, 503} BY CallFields
<1>2. [calls[c] EXCEPT !.pc = at] =
        [pc |-> at, via |-> calls[c].via, op |-> calls[c].op,
         credential |-> calls[c].credential, status |-> calls[c].status]
  BY CallFields
<1>3. calls' = [calls EXCEPT ![c] = [pc |-> at, via |-> calls[c].via, op |-> calls[c].op,
                                     credential |-> calls[c].credential,
                                     status |-> calls[c].status]]
  BY <1>2
<1>4. at \in {"sent", "checked", "working", "answered"} OBVIOUS
<1>. DEFINE k == [pc |-> at, via |-> calls[c].via, op |-> calls[c].op,
                  credential |-> calls[c].credential, status |-> calls[c].status]
<1>5. k \in Call /\ Routed(k) BY <1>1, <1>4, CallFields DEF Call, Routed
<1>. HIDE DEF k
<1>6. calls' = [calls EXCEPT ![c] = k] BY <1>3 DEF k
<1>. QED BY <1>5, <1>6, CallReplaced

LEMMA SendKeeps == ASSUME ApiIInv, NEW c \in Callers, Send(c) PROVE ApiIInv'
<1>1. PICK t \in Transports, op \in ApiOps, k \in Shown :
        /\ op \in SharedOps \/ op \in (IF t = "http" THEN HttpOps ELSE P2pOps)
        /\ calls' = [calls EXCEPT ![c] = [pc |-> "sent", via |-> t, op |-> op,
                                          credential |-> k, status |-> 0]]
  BY DEF Send
<1>. DEFINE new == [pc |-> "sent", via |-> t, op |-> op, credential |-> k, status |-> 0]
<1>2. new \in Call /\ Routed(new) BY <1>1, ApiConstants DEF Call, Routed
<1>3. calls' = [calls EXCEPT ![c] = new] BY <1>1
<1>. HIDE DEF new
<1>4. calls' \in [Callers -> Call] /\ CallInv' BY <1>2, <1>3, CallReplaced
<1>7. callCount' \in 0..MaxCalls BY ApiConstants DEF Send, ApiIInv, ApiTypeOK
<1>8. UNCHANGED <<hits, session, admitted>> BY DEF Send
<1>9. ApiTypeOK' BY <1>4, <1>7, <1>8 DEF ApiIInv, ApiTypeOK
<1>10. LimiterInv' BY <1>8 DEF ApiIInv, LimiterInv
<1>. QED BY <1>4, <1>9, <1>10 DEF ApiIInv

LEMMA AdmitKeeps == ASSUME ApiIInv, NEW c \in Callers, Admit(c) PROVE ApiIInv'
<1>. DEFINE t == calls[c].via
            h == Hygiene(hits[t])
<1>1. calls[c].pc # "idle" BY DEF Admit
<1>2. t \in Transports BY <1>1, CallFields
<1>3. hits \in [Transports -> [Callers -> RateWindows]] /\ hits[t] \in Limiter
  BY <1>2 DEF ApiIInv, ApiTypeOK, Limiter
<1>4. h \in Limiter /\ \A d \in Callers : Recent(h[d]) = Recent(hits[t][d]) BY <1>3, HygieneKeeps
<1>. DEFINE free == Unlimited(t)
            pass == free \/ Fits(h, c)
<1>5. /\ hits' = IF free THEN hits ELSE [hits EXCEPT ![t] = Counted(h, c)]
      /\ IF ~pass THEN Answer(c, 429) /\ UNCHANGED admitted
         ELSE /\ calls' = [calls EXCEPT ![c].pc = "checked"]
              /\ admitted' = [admitted EXCEPT ![t][c] = Append(@, 0)]
      /\ UNCHANGED <<session, callCount>>
  BY DEF Admit
<1>. HIDE DEF h, t
<1>6. /\ Counted(h, c) \in Limiter
      /\ \A d \in Callers : Recent(Counted(h, c)[d]) =
                              IF d = c /\ Fits(h, c) THEN Append(Recent(h[c]), 0) ELSE Recent(h[d])
  BY <1>4, CountedKeeps
<1>7. hits' \in [Transports -> [Callers -> RateWindows]]
  <2>. HIDE DEF free
  <2>1. CASE free BY <1>3, <1>5, <2>1
  <2>2. CASE ~free BY <1>3, <1>5, <1>6, <2>2 DEF Limiter
  <2>. QED BY <2>1, <2>2
<1>8. calls' \in [Callers -> Call] /\ CallInv'
  <2>. HIDE DEF pass
  <2>1. CASE pass BY <1>1, <1>5, <2>1, CallPasses
  <2>2. CASE ~pass
    <3>1. 429 \in Statuses BY DEF Statuses
    <3>. QED BY <1>1, <1>5, <2>2, <3>1, CallAnswered
  <2>. QED BY <2>1, <2>2
<1>9. admitted \in [Transports -> [Callers -> Seq(0..RateWindow)]] BY DEF ApiIInv, ApiTypeOK
<1>10. admitted' = IF pass THEN [admitted EXCEPT ![t][c] = Append(admitted[t][c], 0)] ELSE admitted
  <2>. HIDE DEF pass
  <2>. QED BY <1>2, <1>5, <1>9
<1>11. admitted' \in [Transports -> [Callers -> Seq(0..RateWindow)]]
  <2>1. admitted[t][c] \in Seq(0..RateWindow) /\ 0 \in 0..RateWindow BY <1>2, <1>9, ApiConstants
  <2>2. Append(admitted[t][c], 0) \in Seq(0..RateWindow) BY <2>1, AppendProperties
  <2>. HIDE DEF pass
  <2>. QED BY <1>2, <1>9, <1>10, <2>2
<1>12. ASSUME NEW u \in Transports, NEW d \in Callers, ~Unlimited(u)
       PROVE  admitted'[u][d] = Recent(hits'[u][d])
  <2>0. admitted[u][d] = Recent(hits[u][d]) BY <1>12 DEF ApiIInv, LimiterInv
  <2>1. CASE u # t
    <3>. HIDE DEF free, pass
    <3>1. hits'[u] = hits[u] BY <1>3, <1>5, <2>1
    <3>2. admitted'[u] = admitted[u] BY <1>9, <1>10, <2>1
    <3>. QED BY <2>0, <3>1, <3>2
  <2>2. CASE u = t
    <3>0. ~free /\ (pass <=> Fits(h, c)) /\ admitted[t][c] = Recent(hits[t][c])
      BY <1>2, <1>12, <2>2 DEF ApiIInv, LimiterInv
    <3>. HIDE DEF free, pass
    <3>1. hits'[u][d] = Counted(h, c)[d] BY <1>3, <1>5, <2>2, <3>0
    <3>2. Recent(hits'[u][d]) =
            IF d = c /\ Fits(h, c) THEN Append(admitted[t][c], 0) ELSE admitted[u][d]
      BY <1>4, <1>6, <2>0, <2>2, <3>0, <3>1
    <3>3. admitted'[u][d] = IF d = c /\ Fits(h, c) THEN Append(admitted[t][c], 0) ELSE admitted[u][d]
      BY <1>2, <1>9, <1>10, <2>2, <3>0
    <3>. QED BY <3>2, <3>3
  <2>. QED BY <2>1, <2>2
<1>13. LimiterInv' BY <1>12 DEF LimiterInv, Unlimited
<1>14. ApiTypeOK' BY <1>5, <1>7, <1>8, <1>11 DEF ApiIInv, ApiTypeOK
<1>. QED BY <1>8, <1>13, <1>14 DEF ApiIInv

LEMMA GuardTypes ==
    ASSUME NEW call, Routed(call), call.via \in Transports, call.credential \in Credentials
    PROVE  /\ call.via = "http" => HttpGuard(call.op, call.credential) \in Verdicts
           /\ call.via = "p2p" => P2pGuard(call.op, call.credential) \in Verdicts
<1>1. CASE call.op \in SharedOps BY <1>1, SharedGuards
<1>2. CASE call.op \notin SharedOps BY <1>2, OtherGuards DEF Routed
<1>. QED BY <1>1, <1>2

\* Steps that leave the limiters alone.
LEMMA LimitersAlone ==
    ASSUME ApiIInv, UNCHANGED <<hits, callCount, admitted>>,
           calls' \in [Callers -> Call], CallInv',
           session' \in [alive : BOOLEAN, permissions : SUBSET Permissions]
    PROVE  ApiIInv'
<1>1. ApiTypeOK' BY DEF ApiIInv, ApiTypeOK
<1>2. LimiterInv' BY DEF ApiIInv, LimiterInv
<1>. QED BY <1>1, <1>2 DEF ApiIInv

LEMMA ServeHttpKeeps == ASSUME ApiIInv, NEW c \in Callers, ServeHttp(c) PROVE ApiIInv'
<1>. DEFINE v == HttpGuard(calls[c].op, calls[c].credential)
<1>1. calls[c].pc # "idle" /\ calls[c].via = "http" BY DEF ServeHttp
<1>2. v \in Verdicts BY <1>1, CallFields, GuardTypes
<1>3. Answer(c, v) \/ Answer(c, 503) \/ calls' = [calls EXCEPT ![c].pc = "working"] BY DEF ServeHttp
<1>. HIDE DEF v
<1>4. CASE Answer(c, v)
  <2>1. v \in Statuses BY <1>2 DEF Verdicts, Statuses
  <2>2. calls' \in [Callers -> Call] /\ CallInv' BY <1>1, <1>4, <2>1, CallAnswered
  <2>. QED BY <2>2, LimitersAlone DEF ServeHttp, ApiIInv, ApiTypeOK
<1>5. CASE Answer(c, 503)
  <2>1. 503 \in Statuses BY DEF Statuses
  <2>2. calls' \in [Callers -> Call] /\ CallInv' BY <1>1, <1>5, <2>1, CallAnswered
  <2>. QED BY <2>2, LimitersAlone DEF ServeHttp, ApiIInv, ApiTypeOK
<1>6. CASE calls' = [calls EXCEPT ![c].pc = "working"]
  <2>2. calls' \in [Callers -> Call] /\ CallInv' BY <1>1, <1>6, CallPasses
  <2>. QED BY <2>2, LimitersAlone DEF ServeHttp, ApiIInv, ApiTypeOK
<1>. QED BY <1>3, <1>4, <1>5, <1>6

LEMMA ServeP2pKeeps == ASSUME ApiIInv, NEW c \in Callers, ServeP2p(c) PROVE ApiIInv'
<1>1. calls[c].pc # "idle" BY DEF ServeP2p
<1>2. Answer(c, 503) \/ calls' = [calls EXCEPT ![c].pc = "working"] BY DEF ServeP2p
<1>3. calls' \in [Callers -> Call] /\ CallInv'
  <2>1. 503 \in Statuses BY DEF Statuses
  <2>. QED BY <1>1, <1>2, <2>1, CallAnswered, CallPasses
<1>. QED BY <1>3, LimitersAlone DEF ServeP2p, ApiIInv, ApiTypeOK

LEMMA FinishCallKeeps == ASSUME ApiIInv, NEW c \in Callers, Finish(c) PROVE ApiIInv'
<1>. DEFINE v == IF calls[c].via = "p2p" THEN P2pGuard(calls[c].op, calls[c].credential) ELSE 200
            a == session.alive /\ ~(v = 200 /\ calls[c].op = "revokeSession"
                                    /\ calls[c].credential.token = "session")
<1>1. calls[c].pc # "idle" BY DEF Finish
<1>2. v \in Statuses
  <2>1. Routed(calls[c]) /\ calls[c].via \in Transports /\ calls[c].credential \in Credentials BY <1>1, CallFields
  <2>2. CASE calls[c].via = "p2p"
    <3>1. P2pGuard(calls[c].op, calls[c].credential) \in Verdicts BY <2>1, <2>2, GuardTypes
    <3>. QED BY <2>2, <3>1 DEF Verdicts, Statuses
  <2>. QED BY <2>2 DEF Statuses
<1>3. session \in [alive : BOOLEAN, permissions : SUBSET Permissions] BY DEF ApiIInv, ApiTypeOK
<1>4. Answer(c, v) /\ session' = [session EXCEPT !.alive = a] /\ UNCHANGED <<hits, callCount, admitted>>
  BY <1>3 DEF Finish
<1>5. a \in BOOLEAN BY <1>3
<1>. HIDE DEF v, a
<1>6. session' \in [alive : BOOLEAN, permissions : SUBSET Permissions] BY <1>3, <1>4, <1>5
<1>7. calls' \in [Callers -> Call] /\ CallInv' BY <1>1, <1>2, <1>4, CallAnswered
<1>. QED BY <1>4, <1>6, <1>7, LimitersAlone

LEMMA InstantKeeps == ASSUME ApiIInv, InstantPasses PROVE ApiIInv'
<1>1. /\ hits' = [t \in Transports |-> [c \in Callers |-> Older(hits[t][c])]]
      /\ admitted' = [t \in Transports |-> [c \in Callers |-> InWindow(Older(admitted[t][c]))]]
      /\ UNCHANGED <<calls, session, callCount>>
  BY DEF InstantPasses
<1>2. ASSUME NEW t \in Transports, NEW c \in Callers
      PROVE  /\ Older(hits[t][c]) \in RateWindows
             /\ ~Unlimited(t) => InWindow(Older(admitted[t][c])) = Recent(Older(hits[t][c]))
             /\ InWindow(Older(admitted[t][c])) \in Seq(0..RateWindow)
  <2>. DEFINE x == hits[t][c]
  <2>1. x \in RateWindows BY DEF ApiIInv, ApiTypeOK
  <2>2. ~Unlimited(t) => admitted[t][c] = Recent(x) BY DEF ApiIInv, LimiterInv
  <2>. HIDE DEF x
  <2>3. Older(x) \in RateWindows
    <3>1. CASE x = Untracked BY <2>1, <3>1, UntrackedIs
    <3>2. CASE x # Untracked
      <4>1. x \in Seq(0..RateWindow) /\ Len(x) <= RateLimit BY <2>1, <3>2, WindowsAre
      <4>2. Older(x) \in Seq(0..RateWindow) /\ Len(Older(x)) = Len(x) BY <4>1, OlderType
      <4>. QED BY <4>1, <4>2, WindowsAre
    <3>. QED BY <3>1, <3>2
  <2>4. x \in Seq(0..(RateWindow + 1)) BY <2>1, CleanedIs
  <2>5. ~Unlimited(t) => InWindow(Older(admitted[t][c])) = Recent(Older(x)) BY <2>2, <2>4, AgesAlike
  <2>6. InWindow(Older(admitted[t][c])) \in Seq(0..RateWindow)
    <3>1. admitted[t][c] \in Seq(0..RateWindow) BY DEF ApiIInv, ApiTypeOK
    <3>2. Older(admitted[t][c]) \in Seq(0..RateWindow) BY <3>1, OlderType
    <3>4. 0..RateWindow \in SUBSET Nat /\ 0..RateWindow \subseteq 0..(RateWindow + 1) BY ApiConstants
    <3>. DEFINE o == Older(admitted[t][c])
    <3>. HIDE DEF o
    <3>5. o \in Seq(0..RateWindow) BY <3>2 DEF o
    <3>6. Len(o) \in Nat /\ o \in [1..Len(o) -> 0..RateWindow] BY <3>5, LenProperties
    <3>7. o \in [1..Len(o) -> 0..(RateWindow + 1)] BY <3>4, <3>6
    <3>8. o \in Seq(0..(RateWindow + 1)) BY <3>6, <3>7, RowIsSeq
    <3>3. InWindow(Older(admitted[t][c])) = Recent(Older(admitted[t][c]))
      BY <3>8, WindowIsRecent DEF o
    <3>. QED BY <3>2, <3>3, <3>4, RecentType
  <2>. QED BY <2>3, <2>5, <2>6 DEF x
<1>3. hits' \in [Transports -> [Callers -> RateWindows]]
      /\ admitted' \in [Transports -> [Callers -> Seq(0..RateWindow)]]
  BY <1>1, <1>2
<1>4. LimiterInv'
  <2>1. ASSUME NEW t \in Transports, NEW c \in Callers, ~Unlimited(t)
        PROVE  admitted'[t][c] = Recent(hits'[t][c])
    <3>1. hits'[t][c] = Older(hits[t][c]) /\ admitted'[t][c] = InWindow(Older(admitted[t][c])) BY <1>1
    <3>. QED BY <1>2, <2>1, <3>1
  <2>. QED BY <2>1 DEF LimiterInv, Unlimited
<1>5. ApiTypeOK' BY <1>1, <1>3 DEF ApiIInv, ApiTypeOK
<1>6. CallInv' BY <1>1 DEF ApiIInv, CallInv, Routed
<1>. QED BY <1>4, <1>5, <1>6 DEF ApiIInv

LEMMA ApiStep == ASSUME ApiIInv, [ApiNext]_apiVars PROVE ApiIInv'
<1>1. CASE InstantPasses BY <1>1, InstantKeeps
<1>2. CASE \E c \in Callers : Send(c) \/ Admit(c) \/ ServeHttp(c) \/ ServeP2p(c) \/ Finish(c)
  BY <1>2, SendKeeps, AdmitKeeps, ServeHttpKeeps, ServeP2pKeeps, FinishCallKeeps
<1>3. CASE UNCHANGED apiVars
  BY <1>3 DEF apiVars, ApiIInv, ApiTypeOK, CallInv, Routed, LimiterInv
<1>. QED BY <1>1, <1>2, <1>3 DEF ApiNext

-----------------------------------------------------------------------------
(* The maintenance daemon: the inductive invariant *)

FleetRow == [held : SUBSET Cids, records : BOOLEAN, up : BOOLEAN, left : 0..MaxLeft]
AuditReport ==
    [complete : SUBSET Ops, degraded : BOOLEAN, lost : BOOLEAN, undiscovered : SUBSET Ops]
DaemonDb ==
    [status : {"Registered", "Healthy", "Degraded", "Unverified"}, attempts : 0..MaxTries,
     wait : 0..1, inventory : {"none", "registered"}, receipts : [Ops -> Receipt]]
DaemonTask ==
    [stage : MaintStages, sessions : SUBSET Ops, report : AuditReport,
     receipts : [Ops -> Receipt], todo : SUBSET Ops]

\* The receipts of a running job are backed too: they are stored at its end.
JobBacked == task.stage # "idle" => \A o \in Ops : task.receipts[o].left <= fleet[o].left

MaintIInv ==
    /\ fleet \in [Ops -> FleetRow] /\ db \in DaemonDb /\ task \in DaemonTask
    /\ mFaults \in 0..MaxMaintFaults
    /\ ReceiptsBacked /\ JobBacked

LEMMA MaintConstants ==
    /\ Replicas \in Nat /\ TermDays \in Nat /\ Runway \in Nat /\ MaxLeft \in Nat
    /\ MaxTries \in Nat /\ MaxMaintFaults \in Nat /\ TermDays <= MaxLeft
BY MaintenanceAssumption

LEMMA ExtendedLasts ==
    ASSUME NEW n \in 0..MaxLeft PROVE Extended(n) \in 0..MaxLeft /\ n <= Extended(n)
BY MaintConstants DEF Extended

LEMMA ReceiptFields == ASSUME NEW r \in Receipt PROVE r.left \in 0..MaxLeft /\ r.behind \in BOOLEAN
BY DEF Receipt

-----------------------------------------------------------------------------
(* The maintenance daemon: steps by what they leave alone *)

\* Steps that touch neither a lease nor a receipt.
LEMMA LeasesUntouched ==
    ASSUME MaintIInv, fleet' \in [Ops -> FleetRow], db' \in DaemonDb, task' \in DaemonTask,
           mFaults' \in 0..MaxMaintFaults,
           \A o \in Ops : fleet'[o].left = fleet[o].left /\ db'.receipts[o].left = db.receipts[o].left,
           \/ task'.stage = "idle"
           \/ task.stage # "idle" /\ task'.receipts = task.receipts
           \/ task'.receipts = db.receipts
    PROVE  MaintIInv'
<1>1. ReceiptsBacked' BY DEF MaintIInv, ReceiptsBacked
<1>2. JobBacked' BY DEF MaintIInv, ReceiptsBacked, JobBacked
<1>. QED BY <1>1, <1>2 DEF MaintIInv

LEMMA FaultCounts == ASSUME MaintIInv, MFault PROVE mFaults' \in 0..MaxMaintFaults
BY MaintConstants DEF MaintIInv, MFault

LEMMA RecordedDb ==
    ASSUME MaintIInv, NEW s \in {"Registered", "Healthy", "Degraded", "Unverified"},
           NEW f \in BOOLEAN, db' = Recorded(s, f)
    PROVE  db' \in DaemonDb /\ db'.receipts = db.receipts
<1>. DEFINE n == IF f THEN (IF db.attempts < MaxTries THEN db.attempts + 1 ELSE db.attempts) ELSE 0
<1>1. db \in DaemonDb /\ db.attempts \in 0..MaxTries BY DEF MaintIInv, DaemonDb
<1>2. n \in 0..MaxTries BY <1>1, MaintConstants
<1>3. db' = [db EXCEPT !.status = s, !.attempts = n, !.wait = 1] BY DEF Recorded
<1>. HIDE DEF n
<1>4. db' = [status |-> s, attempts |-> n, wait |-> 1, inventory |-> db.inventory,
             receipts |-> db.receipts]
  BY <1>1, <1>3 DEF DaemonDb
<1>5. db.inventory \in {"none", "registered"} /\ db.receipts \in [Ops -> Receipt]
  BY <1>1 DEF DaemonDb
<1>. QED BY <1>2, <1>4, <1>5 DEF DaemonDb

LEMMA IdleStepsKeep ==
    ASSUME MaintIInv, RegisterInventory \/ UnverifiedJob \/ BeginJob(TRUE) \/ BeginJob(FALSE)
    PROVE  MaintIInv'
<1>1. CASE RegisterInventory
  <2>1. db' = [db EXCEPT !.inventory = "registered"] /\ UNCHANGED <<fleet, task, mFaults>>
        /\ task.stage = "idle"
    BY <1>1 DEF RegisterInventory, Idle
  <2>2. db' \in DaemonDb /\ db'.receipts = db.receipts BY <2>1 DEF MaintIInv, DaemonDb
  <2>. QED BY <2>1, <2>2, LeasesUntouched DEF MaintIInv
<1>2. CASE UnverifiedJob
  <2>1. db' = Recorded("Unverified", TRUE) /\ UNCHANGED <<fleet, task, mFaults>> /\ task.stage = "idle"
    BY <1>2 DEF UnverifiedJob, Idle
  <2>2. db' \in DaemonDb /\ db'.receipts = db.receipts BY <2>1, RecordedDb
  <2>. QED BY <2>1, <2>2, LeasesUntouched DEF MaintIInv
<1>3. CASE BeginJob(TRUE) \/ BeginJob(FALSE)
  <2>1. PICK s \in {Up, {}} :
           /\ task' = [task EXCEPT !.stage = "audit", !.sessions = s, !.receipts = db.receipts]
           /\ UNCHANGED <<fleet, db>>
    BY <1>3 DEF BeginJob
  <2>4. mFaults' \in 0..MaxMaintFaults
    BY <1>3, MaintenanceAssumption DEF BeginJob, MFault, MaintIInv
  <2>2. s \subseteq Ops /\ db.receipts \in [Ops -> Receipt] BY DEF Up, MaintIInv, DaemonDb
  <2>3. task' \in DaemonTask /\ task'.receipts = db.receipts
    BY <2>1, <2>2 DEF MaintIInv, DaemonTask, MaintStages
  <2>. QED BY <2>1, <2>3, <2>4, LeasesUntouched DEF MaintIInv
<1>. QED BY <1>1, <1>2, <1>3

LEMMA ReportType == Report \in AuditReport
<1>. DEFINE present(c) == {o \in Up : c \in fleet[o].held}
            co == {o \in Up : fleet[o].held = Cids /\ fleet[o].records}
            de == \E c \in Cids : present(c) # Ops
            lo == \E c \in Cids : present(c) = {}
            un == {o \in Ops : ~(o \in Up /\ fleet[o].records)}
<1>1. Report = [complete |-> co, degraded |-> de, lost |-> lo, undiscovered |-> un]
  BY DEF Report
<1>2. de \in BOOLEAN /\ lo \in BOOLEAN /\ co \subseteq Ops /\ un \subseteq Ops BY DEF Up
<1>. HIDE DEF co, de, lo, un
<1>. QED BY <1>1, <1>2 DEF AuditReport

LEMMA AuditSetKeeps == ASSUME MaintIInv, AuditSet PROVE MaintIInv'
<1>. DEFINE st == IF task.stage = "audit" /\ RepairDue(Report) /\ task.sessions # {}
                  THEN "repair" ELSE "renew"
            td == {o \in Ops : task.receipts[o].left < Runway}
<1>1. /\ task' = [task EXCEPT !.report = Report, !.stage = st, !.todo = td]
      /\ UNCHANGED <<fleet, db, mFaults>> /\ task.stage # "idle"
  BY DEF AuditSet
<1>2. st \in MaintStages /\ td \subseteq Ops BY DEF MaintStages
<1>. HIDE DEF st, td
<1>3. task' \in DaemonTask /\ task'.receipts = task.receipts
  BY <1>1, <1>2, ReportType DEF MaintIInv, DaemonTask
<1>. QED BY <1>1, <1>3, LeasesUntouched DEF MaintIInv

LEMMA StageMoves ==
    ASSUME MaintIInv, NEW s \in MaintStages, To(s)
    PROVE  task' \in DaemonTask /\ task'.receipts = task.receipts /\ task'.stage = s
BY DEF MaintIInv, DaemonTask, To

LEMMA RepairsKeep == ASSUME MaintIInv, RepairClosure \/ RepairDiscovery PROVE MaintIInv'
<1>1. CASE RepairClosure
  <2>1. /\ fleet' = [o \in Ops |-> [fleet[o] EXCEPT !.held = Repaired(o)]]
        /\ To("discover") /\ UNCHANGED <<db, mFaults>> /\ task.stage # "idle"
    BY <1>1 DEF RepairClosure
  <2>2. ASSUME NEW o \in Ops PROVE fleet'[o] \in FleetRow /\ fleet'[o].left = fleet[o].left
    <3>1. \A q \in Ops : fleet[q].held \subseteq Cids BY DEF MaintIInv, FleetRow
    <3>2. Repaired(o) \subseteq Cids BY <3>1 DEF Repaired, Up
    <3>. QED BY <2>1, <3>2 DEF MaintIInv, FleetRow
  <2>3. fleet' \in [Ops -> FleetRow] BY <2>1, <2>2
  <2>4. "discover" \in MaintStages BY DEF MaintStages
  <2>. QED BY <2>1, <2>2, <2>3, <2>4, StageMoves, LeasesUntouched DEF MaintIInv
<1>2. CASE RepairDiscovery
  <2>1. /\ fleet' = [o \in Ops |-> [fleet[o] EXCEPT !.records =
                        @ \/ o \in task.report.undiscovered \cap task.sessions \cap Up]]
        /\ To("reaudit") /\ UNCHANGED <<db, mFaults>> /\ task.stage # "idle"
    BY <1>2 DEF RepairDiscovery
  <2>2. ASSUME NEW o \in Ops PROVE fleet'[o] \in FleetRow /\ fleet'[o].left = fleet[o].left
    <3>. DEFINE rec == fleet[o].records \/ o \in task.report.undiscovered \cap task.sessions \cap Up
    <3>1. rec \in BOOLEAN OBVIOUS
    <3>2. fleet'[o] = [fleet[o] EXCEPT !.records = rec] BY <2>1
    <3>. HIDE DEF rec
    <3>. QED BY <3>1, <3>2 DEF MaintIInv, FleetRow
  <2>3. fleet' \in [Ops -> FleetRow] BY <2>1, <2>2
  <2>4. "reaudit" \in MaintStages BY DEF MaintStages
  <2>. QED BY <2>1, <2>2, <2>3, <2>4, StageMoves, LeasesUntouched DEF MaintIInv
<1>. QED BY <1>1, <1>2

-----------------------------------------------------------------------------
(* The maintenance daemon: leases and receipts *)

LEMMA RenewKeeps ==
    ASSUME MaintIInv, NEW o \in Ops, NEW answered \in BOOLEAN, RenewLeases(o, answered)
    PROVE  MaintIInv'
<1>. DEFINE reached == o \in Up \cap task.sessions
            new == Extended(fleet[o].left)
            rcpt == IF ~reached THEN task.receipts[o]
                    ELSE IF answered /\ Acceptable(task.receipts[o])
                    THEN [left |-> new, behind |-> FALSE]
                    ELSE [task.receipts[o] EXCEPT !.behind = TRUE]
<1>1. /\ task.stage = "renew"
      /\ fleet' = IF reached THEN [fleet EXCEPT ![o].left = new] ELSE fleet
      /\ db' = IF reached THEN [db EXCEPT !.receipts[o].behind = TRUE] ELSE db
      /\ task' = [task EXCEPT !.todo = @ \ {o}, !.receipts[o] = rcpt]
  BY DEF RenewLeases, RenewLease
<1>2. mFaults' \in 0..MaxMaintFaults BY FaultCounts DEF RenewLeases, MaintIInv
<1>3. fleet[o] \in FleetRow /\ fleet[o].left \in 0..MaxLeft BY DEF MaintIInv, FleetRow
<1>4. new \in 0..MaxLeft /\ fleet[o].left <= new BY <1>3, ExtendedLasts
<1>5. /\ task.receipts \in [Ops -> Receipt] /\ db.receipts \in [Ops -> Receipt]
      /\ task.receipts[o].left <= fleet[o].left /\ task.receipts[o] \in Receipt
      /\ task.receipts[o].left \in 0..MaxLeft
  BY <1>1, ReceiptFields DEF MaintIInv, DaemonTask, DaemonDb, JobBacked
<1>6. rcpt \in Receipt
  <2>1. [left |-> new, behind |-> FALSE] \in Receipt BY <1>4 DEF Receipt
  <2>2. [task.receipts[o] EXCEPT !.behind = TRUE] \in Receipt BY <1>5 DEF Receipt
  <2>. QED BY <1>5, <2>1, <2>2
<1>7. rcpt.left = IF reached /\ answered /\ Acceptable(task.receipts[o]) THEN new ELSE task.receipts[o].left
  BY <1>5 DEF Receipt
<1>8. /\ fleet' \in [Ops -> FleetRow]
      /\ \A q \in Ops : fleet'[q].left = IF reached /\ q = o THEN new ELSE fleet[q].left
  BY <1>1, <1>3, <1>4 DEF MaintIInv, FleetRow
<1>9. db' \in DaemonDb /\ \A q \in Ops : db'.receipts[q].left = db.receipts[q].left
  <2>1. CASE reached
    <3>. DEFINE rs == [db.receipts EXCEPT ![o].behind = TRUE]
    <3>1. db' = [db EXCEPT !.receipts = rs] /\ db \in DaemonDb BY <1>1, <2>1 DEF MaintIInv, DaemonDb
    <3>2. rs \in [Ops -> Receipt] /\ \A q \in Ops : rs[q].left = db.receipts[q].left
      BY <1>5 DEF Receipt
    <3>. HIDE DEF rs
    <3>. QED BY <3>1, <3>2 DEF DaemonDb
  <2>2. CASE ~reached BY <1>1, <2>2 DEF MaintIInv
  <2>. QED BY <2>1, <2>2
<1>. HIDE DEF rcpt, new, reached
<1>10. /\ task' \in DaemonTask /\ task'.stage = "renew"
       /\ \A q \in Ops : task'.receipts[q] = IF q = o THEN rcpt ELSE task.receipts[q]
  <2>. DEFINE rs == [task.receipts EXCEPT ![o] = rcpt]
              td == task.todo \ {o}
  <2>1. task' = [task EXCEPT !.todo = td, !.receipts = rs] /\ task \in DaemonTask
    BY <1>1 DEF MaintIInv
  <2>2. rs \in [Ops -> Receipt] /\ \A q \in Ops : rs[q] = IF q = o THEN rcpt ELSE task.receipts[q]
    BY <1>5, <1>6
  <2>3. td \subseteq Ops BY DEF MaintIInv, DaemonTask
  <2>. HIDE DEF rs, td
  <2>. QED BY <1>1, <2>1, <2>2, <2>3 DEF DaemonTask
<1>11. ASSUME NEW q \in Ops
       PROVE  db'.receipts[q].left <= fleet'[q].left /\ task'.receipts[q].left <= fleet'[q].left
  <2>1. /\ db.receipts[q].left <= fleet[q].left /\ task.receipts[q].left <= fleet[q].left
        /\ db.receipts[q].left \in 0..MaxLeft /\ task.receipts[q].left \in 0..MaxLeft
        /\ fleet[q].left \in 0..MaxLeft
    BY <1>1, <1>5, ReceiptFields DEF MaintIInv, ReceiptsBacked, JobBacked, FleetRow
  <2>2. CASE q # o BY <1>8, <1>9, <1>10, <2>1, <2>2
  <2>3. CASE q = o
    <3>1. CASE reached
      <4>1. fleet'[q].left = new BY <1>8, <2>3, <3>1
      <4>2. rcpt.left = new \/ rcpt.left = task.receipts[o].left BY <1>7
      <4>3. rcpt.left <= new BY <1>4, <2>1, <2>3, <4>2, MaintConstants
      <4>4. db.receipts[q].left <= new BY <1>4, <2>1, <2>3, MaintConstants
      <4>. QED BY <1>9, <1>10, <2>3, <4>1, <4>3, <4>4
    <3>2. CASE ~reached
      <4>1. fleet'[q].left = fleet[q].left BY <1>8, <3>2
      <4>2. rcpt.left = task.receipts[o].left BY <1>7, <3>2
      <4>. QED BY <1>9, <1>10, <2>1, <2>3, <4>1, <4>2
    <3>. QED BY <3>1, <3>2
  <2>. QED BY <2>2, <2>3
<1>. QED BY <1>2, <1>8, <1>9, <1>10, <1>11 DEF MaintIInv, ReceiptsBacked, JobBacked

LEMMA StoreKeeps == ASSUME MaintIInv, StoreInventory PROVE MaintIInv'
<1>1. /\ db' = [db EXCEPT !.receipts = task.receipts] /\ To("record")
      /\ UNCHANGED <<fleet, mFaults>> /\ task.stage # "idle"
  BY DEF StoreInventory
<1>2. task' \in DaemonTask /\ task'.receipts = task.receipts BY <1>1, StageMoves DEF MaintStages
<1>3. db' \in DaemonDb /\ db'.receipts = task.receipts BY <1>1 DEF MaintIInv, DaemonDb, DaemonTask
<1>. QED BY <1>1, <1>2, <1>3 DEF MaintIInv, ReceiptsBacked, JobBacked

LEMMA EndsKeep == ASSUME MaintIInv, RecordJob \/ JobFails \/ DaemonRestarts PROVE MaintIInv'
<1>0. "idle" \in MaintStages BY DEF MaintStages
<1>1. CASE RecordJob
  <2>. DEFINE healthy == Cardinality(task.report.complete) >= Replicas /\ ~task.report.lost
              s == IF healthy THEN "Healthy" ELSE "Degraded"
              f == ~healthy
  <2>1. db' = Recorded(s, f) /\ To("idle") /\ UNCHANGED <<fleet, mFaults>> BY <1>1 DEF RecordJob
  <2>2. s \in {"Registered", "Healthy", "Degraded", "Unverified"} /\ f \in BOOLEAN OBVIOUS
  <2>. HIDE DEF s, f
  <2>3. db' \in DaemonDb /\ db'.receipts = db.receipts BY <2>1, <2>2, RecordedDb
  <2>. QED BY <1>0, <2>1, <2>3, StageMoves, LeasesUntouched DEF MaintIInv
<1>2. CASE JobFails
  <2>1. db' = Recorded("Unverified", TRUE) /\ To("idle") /\ UNCHANGED fleet /\ MFault
    BY <1>2 DEF JobFails
  <2>2. db' \in DaemonDb /\ db'.receipts = db.receipts BY <2>1, RecordedDb
  <2>. QED BY <1>0, <2>1, <2>2, FaultCounts, StageMoves, LeasesUntouched DEF MaintIInv
<1>3. CASE DaemonRestarts
  BY <1>0, <1>3, FaultCounts, StageMoves, LeasesUntouched DEF MaintIInv, DaemonRestarts
<1>. QED BY <1>1, <1>2, <1>3

LEMMA OperatorStepsKeep ==
    ASSUME MaintIInv, NEW o \in Ops,
           \/ OperatorForgets(o) \/ OperatorDown(o) \/ OperatorUp(o)
           \/ \E c \in Cids : OperatorLoses(o, c)
    PROVE  MaintIInv'
<1>1. /\ mFaults' \in 0..MaxMaintFaults /\ UNCHANGED <<db, task>>
      /\ \/ fleet' = [fleet EXCEPT ![o].records = FALSE]
         \/ fleet' = [fleet EXCEPT ![o].up = FALSE]
         \/ fleet' = [fleet EXCEPT ![o].up = TRUE]
         \/ \E c \in Cids : fleet' = [fleet EXCEPT ![o].held = @ \ {c}]
  BY FaultCounts DEF OperatorForgets, OperatorDown, OperatorUp, OperatorLoses, MaintIInv
<1>2. fleet' \in [Ops -> FleetRow] /\ \A q \in Ops : fleet'[q].left = fleet[q].left
  <2>1. fleet \in [Ops -> FleetRow] BY DEF MaintIInv
  <2>2. CASE fleet' = [fleet EXCEPT ![o].records = FALSE] BY <2>1, <2>2 DEF FleetRow
  <2>3. CASE fleet' = [fleet EXCEPT ![o].up = FALSE] BY <2>1, <2>3 DEF FleetRow
  <2>4. CASE fleet' = [fleet EXCEPT ![o].up = TRUE] BY <2>1, <2>4 DEF FleetRow
  <2>5. CASE \E c \in Cids : fleet' = [fleet EXCEPT ![o].held = @ \ {c}]
    <3>1. PICK c \in Cids : fleet' = [fleet EXCEPT ![o].held = @ \ {c}] BY <2>5
    <3>2. fleet[o].held \ {c} \in SUBSET Cids BY <2>1 DEF FleetRow
    <3>. QED BY <2>1, <3>1, <3>2 DEF FleetRow
  <2>. QED BY <1>1, <2>2, <2>3, <2>4, <2>5
<1>. QED BY <1>1, <1>2, LeasesUntouched DEF MaintIInv

LEMMA DayKeeps == ASSUME MaintIInv, DayPasses PROVE MaintIInv'
<1>. DEFINE rs == [o \in Ops |-> [db.receipts[o] EXCEPT !.left = Less(@)]]
<1>1. /\ task.stage = "idle" /\ UNCHANGED <<task, mFaults>>
      /\ fleet' = [o \in Ops |-> [fleet[o] EXCEPT !.left = Less(@)]]
      /\ db' = [db EXCEPT !.wait = Less(@), !.receipts = rs]
  BY DEF DayPasses, Idle
<1>2. \A n \in 0..MaxLeft : Less(n) \in 0..MaxLeft BY MaintConstants DEF Less
<1>3. \A m, n \in 0..MaxLeft : m <= n => Less(m) <= Less(n) BY MaintConstants DEF Less
<1>4. \A n \in 0..1 : Less(n) \in 0..1 BY DEF Less
<1>5. ASSUME NEW o \in Ops
      PROVE  /\ fleet'[o] \in FleetRow /\ fleet'[o].left = Less(fleet[o].left)
             /\ fleet[o].left \in 0..MaxLeft
  BY <1>1, <1>2 DEF MaintIInv, FleetRow
<1>6. ASSUME NEW o \in Ops
      PROVE  /\ rs[o] \in Receipt /\ rs[o].left = Less(db.receipts[o].left)
             /\ db.receipts[o].left \in 0..MaxLeft
  <2>1. db.receipts[o] \in Receipt BY DEF MaintIInv, DaemonDb
  <2>. QED BY <1>2, <2>1 DEF Receipt
<1>7. fleet' \in [Ops -> FleetRow] /\ rs \in [Ops -> Receipt] BY <1>1, <1>5, <1>6
<1>. HIDE DEF rs
<1>8. db' \in DaemonDb /\ db'.receipts = rs BY <1>1, <1>4, <1>7 DEF MaintIInv, DaemonDb
<1>9. ReceiptsBacked'
  <2>1. ASSUME NEW o \in Ops PROVE db'.receipts[o].left <= fleet'[o].left
    <3>1. db.receipts[o].left <= fleet[o].left BY DEF MaintIInv, ReceiptsBacked
    <3>. QED BY <1>3, <1>5, <1>6, <1>8, <3>1
  <2>. QED BY <2>1 DEF ReceiptsBacked
<1>. QED BY <1>1, <1>7, <1>8, <1>9 DEF MaintIInv, JobBacked

-----------------------------------------------------------------------------
(* The maintenance daemon: the theorem *)

LEMMA MaintStarts == ASSUME MaintInit PROVE MaintIInv
<1>. DEFINE rs == [o \in Ops |-> [left |-> TermDays, behind |-> FALSE]]
<1>1. rs \in [Ops -> Receipt] /\ \A o \in Ops : rs[o].left = TermDays
  BY MaintConstants DEF Receipt
<1>2. /\ fleet \in [Ops -> FleetRow] /\ \A o \in Ops : fleet[o].left = TermDays
  <2>1. ASSUME NEW o \in Ops PROVE fleet[o] \in FleetRow /\ fleet[o].left = TermDays
    <3>. DEFINE h == IF o \in HoldsAtFirst THEN Cids ELSE {}
                b == o \in HoldsAtFirst
    <3>1. fleet[o] = [held |-> h, records |-> b, up |-> TRUE, left |-> TermDays] BY DEF MaintInit
    <3>2. h \subseteq Cids /\ b \in BOOLEAN OBVIOUS
    <3>. HIDE DEF h, b
    <3>. QED BY <3>1, <3>2, MaintConstants DEF FleetRow
  <2>. QED BY <2>1 DEF MaintInit
<1>3. /\ db = [status |-> "Registered", attempts |-> 0, wait |-> 0, inventory |-> "none", receipts |-> rs]
      /\ task = [stage |-> "idle", sessions |-> {}, report |-> NoReport, receipts |-> rs, todo |-> {}]
      /\ mFaults = 0
  BY DEF MaintInit
<1>. HIDE DEF rs
<1>4. NoReport \in AuditReport BY DEF NoReport, AuditReport
<1>5. db \in DaemonDb /\ task \in DaemonTask
  BY <1>1, <1>3, <1>4, MaintConstants DEF DaemonDb, DaemonTask, MaintStages
<1>6. ReceiptsBacked BY <1>1, <1>2, <1>3, MaintConstants DEF ReceiptsBacked
<1>. QED BY <1>2, <1>3, <1>5, <1>6, MaintConstants DEF MaintIInv, JobBacked

LEMMA MaintStep == ASSUME MaintIInv, [MaintNext]_maintVars PROVE MaintIInv'
<1>1. CASE UNCHANGED maintVars BY <1>1 DEF maintVars, MaintIInv, ReceiptsBacked, JobBacked
<1>2. CASE MaintNext
  BY <1>2, IdleStepsKeep, AuditSetKeeps, RepairsKeep, RenewKeeps, StoreKeeps, EndsKeep,
     OperatorStepsKeep, DayKeeps
     DEF MaintNext, DaemonStep
<1>. QED BY <1>1, <1>2

LEMMA MaintIInvSound == ASSUME MaintIInv PROVE MaintTypeOK /\ ReceiptsBacked
BY DEF MaintIInv, MaintTypeOK, FleetRow, DaemonDb, DaemonTask

-----------------------------------------------------------------------------
(* Sign-in limits: the inductive invariant *)

RateRow == [age : 0..(LockWindow + 1), failures : Nat, left : 0..LockWindow]
GuessersOf(k) == {c \in Guessers : KeyOf[c] = k}
Allowed(k) == {c \in Guessers : KeyOf[c] = k /\ clients[c] = "allowed"}
\* The last answer that may be judged wrongly under a key.
GuessLimit(k) == MaxFailures + Cardinality(GuessersOf(k)) - 1

\* A row counts the failures judged under its key and those still to come.
RowInv(k) ==
    \/ rate[k] = NoRow /\ judged[k] = 0
    \/ /\ rate[k] \in RateRow /\ judged[k] <= rate[k].failures
       /\ rate[k].failures + Cardinality(Allowed(k)) <= GuessLimit(k)

LimitIInv ==
    /\ DOMAIN rate = RateKeys /\ rate = [k \in RateKeys |-> rate[k]]
    /\ quota \in [age : 0..QuotaWindow, count : 0..QuotaMax]
    /\ clients \in [Clients -> {"idle", "challenged", "allowed", "in"}]
    /\ guesses \in 0..MaxGuesses
    /\ judged \in [RateKeys -> Nat]
    /\ \A k \in RateKeys : RowInv(k)

-----------------------------------------------------------------------------
(* Sign-in limits: counting *)

LEMMA LimitConstants ==
    /\ IsFiniteSet(Clients) /\ KeyOf \in [Clients -> RateKeys] /\ Guessers \subseteq Clients
    /\ MaxGuesses \in Nat
    /\ MaxFailures \in Nat \ {0} /\ LockWindow \in Nat \ {0} /\ MaxRateKeys \in Nat \ {0}
    /\ QuotaWindow \in Nat \ {0} /\ QuotaMax \in Nat \ {0}
BY AuthLimitsAssumption

LEMMA AllowedCounts ==
    ASSUME NEW k
    PROVE  /\ IsFiniteSet(Allowed(k)) /\ Cardinality(Allowed(k)) \in Nat
           /\ IsFiniteSet(GuessersOf(k)) /\ Cardinality(GuessersOf(k)) \in Nat
           /\ Cardinality(Allowed(k)) <= Cardinality(GuessersOf(k))
           /\ Cardinality(GuessersOf(k)) <= Cardinality(Clients)
           /\ Cardinality(Clients) \in Nat
<1>1. IsFiniteSet(Clients) /\ GuessersOf(k) \in SUBSET Clients BY LimitConstants DEF GuessersOf
<1>2. IsFiniteSet(GuessersOf(k)) /\ Cardinality(GuessersOf(k)) <= Cardinality(Clients)
  BY <1>1, FS_Subset
<1>3. Allowed(k) \in SUBSET GuessersOf(k) BY DEF Allowed, GuessersOf
<1>4. IsFiniteSet(Allowed(k)) /\ Cardinality(Allowed(k)) <= Cardinality(GuessersOf(k))
  BY <1>2, <1>3, FS_Subset
<1>. QED BY <1>1, <1>2, <1>4, FS_CardinalityType

\* A client that leaves a ceremony it was allowed in is one fewer.
LEMMA OneFewer ==
    ASSUME LimitIInv, NEW c \in Guessers, clients[c] = "allowed", Goes(c, "idle")
    PROVE  /\ Cardinality(Allowed(KeyOf[c])') = Cardinality(Allowed(KeyOf[c])) - 1
           /\ \A k : k # KeyOf[c] => Allowed(k)' = Allowed(k)
<1>1. c \in Clients /\ Guessers \subseteq Clients BY LimitConstants
<1>2. clients' = [clients EXCEPT ![c] = "idle"] /\ clients \in [Clients -> {"idle", "challenged", "allowed", "in"}]
  BY DEF Goes, LimitIInv
<1>3. \A x \in Guessers : clients'[x] = IF x = c THEN "idle" ELSE clients[x] BY <1>1, <1>2
<1>4. Allowed(KeyOf[c])' = Allowed(KeyOf[c]) \ {c} BY <1>3 DEF Allowed
<1>5. c \in Allowed(KeyOf[c]) BY DEF Allowed
<1>6. \A k : k # KeyOf[c] => Allowed(k)' = Allowed(k) BY <1>3 DEF Allowed
<1>7. IsFiniteSet(Allowed(KeyOf[c])) BY AllowedCounts
<1>8. Cardinality(Allowed(KeyOf[c]) \ {c}) = Cardinality(Allowed(KeyOf[c])) - 1
  BY <1>5, <1>7, FS_RemoveElement
<1>. QED BY <1>4, <1>6, <1>8

\* A client that goes somewhere else, from somewhere else, is not counted.
LEMMA NoneMore ==
    ASSUME LimitIInv, NEW c \in Clients, NEW pc, pc # "allowed", Goes(c, pc), NEW k
    PROVE  Cardinality(Allowed(k)') <= Cardinality(Allowed(k)) /\ Cardinality(Allowed(k)') \in Nat
<1>1. clients' = [clients EXCEPT ![c] = pc] /\ clients \in [Clients -> {"idle", "challenged", "allowed", "in"}]
  BY DEF Goes, LimitIInv
<1>2. Guessers \subseteq Clients BY LimitConstants
<1>3. \A x \in Guessers : clients'[x] = IF x = c THEN pc ELSE clients[x] BY <1>1, <1>2
<1>4. Allowed(k)' \in SUBSET Allowed(k) BY <1>3 DEF Allowed
<1>. QED BY <1>4, AllowedCounts, FS_Subset, FS_CardinalityType

LEMMA AllowedLater ==
    ASSUME NEW k
    PROVE  /\ Cardinality(Allowed(k)') \in Nat
           /\ Cardinality(Allowed(k)') <= Cardinality(GuessersOf(k))
<1>1. Allowed(k)' \in SUBSET GuessersOf(k) BY DEF Allowed, GuessersOf
<1>. QED BY <1>1, AllowedCounts, FS_Subset, FS_CardinalityType

\* A row with few failures has room for everybody who may still answer.
LEMMA FewFailures ==
    ASSUME NEW k, NEW n \in Nat, n < MaxFailures
    PROVE  n + Cardinality(Allowed(k)') <= GuessLimit(k)
<1>1. Cardinality(GuessersOf(k)) \in Nat /\ MaxFailures \in Nat BY AllowedCounts, LimitConstants
<1>. QED BY <1>1, AllowedLater DEF GuessLimit

-----------------------------------------------------------------------------
(* Sign-in limits: one lemma per step *)

LEMMA RowCases ==
    ASSUME LimitIInv, NEW k \in RateKeys
    PROVE  /\ rate[k] = NoRow => judged[k] = 0
           /\ rate[k] # NoRow =>
                 /\ rate[k] \in RateRow /\ judged[k] <= rate[k].failures
                 /\ rate[k].failures + Cardinality(Allowed(k)) <= GuessLimit(k)
           /\ judged[k] \in Nat
<1>1. RowInv(k) /\ judged[k] \in Nat BY DEF LimitIInv
<1>2. NoRow \notin RateRow
  <2>1. NoRow.failures \notin Nat BY DEF NoRow
  <2>. QED BY <2>1 DEF RateRow
<1>. QED BY <1>1, <1>2 DEF RowInv


\* A row that stays, or whose history begins again, is as good as before.
LEMMA RowStays ==
    ASSUME LimitIInv, NEW k \in RateKeys, rate'[k] = rate[k], judged'[k] \in {0, judged[k]},
           Cardinality(Allowed(k)') <= Cardinality(Allowed(k)), Cardinality(Allowed(k)') \in Nat
    PROVE  RowInv(k)'
<1>1. CASE rate[k] = NoRow BY <1>1, RowCases DEF RowInv
<1>2. CASE rate[k] # NoRow
  <2>1. rate[k].failures \in Nat /\ GuessLimit(k) \in Int /\ rate[k] \in RateRow
    BY <1>2, RowCases, AllowedCounts, LimitConstants DEF RateRow, GuessLimit
  <2>2. rate[k].failures + Cardinality(Allowed(k)') <= GuessLimit(k)
    BY <1>2, <2>1, RowCases, AllowedCounts
  <2>3. judged'[k] <= rate[k].failures BY <1>2, <2>1, RowCases
  <2>. QED BY <2>1, <2>2, <2>3 DEF RowInv, GuessLimit, GuessersOf
<1>. QED BY <1>1, <1>2

LEMMA NoRowStays ==
    ASSUME NEW k \in RateKeys, rate'[k] = NoRow, judged'[k] = 0 PROVE RowInv(k)'
BY DEF RowInv

LEMMA AskKeeps == ASSUME LimitIInv, NEW c \in Clients, AskChallenge(c) PROVE LimitIInv'
<1>1. Goes(c, "challenged") /\ UNCHANGED <<rate, guesses, judged>> BY DEF AskChallenge
<1>2. quota' \in [age : 0..QuotaWindow, count : 0..QuotaMax]
  BY LimitConstants DEF AskChallenge, QuotaTaken, LimitIInv
<1>3. clients' \in [Clients -> {"idle", "challenged", "allowed", "in"}] BY <1>1 DEF Goes, LimitIInv
<1>4. ASSUME NEW k \in RateKeys PROVE RowInv(k)' BY <1>1, NoneMore, RowStays
<1>. QED BY <1>1, <1>2, <1>3, <1>4 DEF LimitIInv

\* What the limiter's check leaves of the rows.
LEMMA PrunedRows ==
    ASSUME LimitIInv, NEW k \in RateKeys
    PROVE  \/ Pruned(rate)[k] = NoRow
           \/ /\ Pruned(rate)[k] = rate[k] /\ rate[k] # NoRow
              /\ rate[k].left > 0 \/ rate[k].age <= LockWindow
<1>1. rate[k] # NoRow => rate[k].left \in 0..LockWindow /\ rate[k].age \in 0..(LockWindow + 1)
  BY RowCases DEF RateRow
<1>2. Pruned(rate)[k] = IF rate[k].left = 0 /\ rate[k].age > LockWindow THEN NoRow ELSE rate[k]
  BY DEF Pruned
<1>3. CASE rate[k] = NoRow BY <1>2, <1>3
<1>4. CASE rate[k] # NoRow
  <2>1. rate[k].left > 0 \/ rate[k].age <= LockWindow \/ (rate[k].left = 0 /\ rate[k].age > LockWindow)
    BY <1>1, <1>4, LimitConstants
  <2>. QED BY <1>2, <1>4, <2>1
<1>. QED BY <1>3, <1>4

LEMMA CheckedRow ==
    ASSUME LimitIInv, NEW c \in Clients, CheckRate(c), NEW k, k = KeyOf[c]
    PROVE  RowInv(k)'
<1>. DEFINE r == Pruned(rate)
            fresh == [age |-> 0, failures |-> 0, left |-> 0]
            pc == IF RateAllows(r, k) THEN "allowed" ELSE "idle"
<1>1. /\ k \in RateKeys /\ r \in [RateKeys -> {r[x] : x \in RateKeys}]
      /\ rate' = [r EXCEPT ![k] = RateChecked(r, k)] /\ Goes(c, pc)
      /\ judged' = [x \in RateKeys |-> IF r[x] = NoRow \/ (x = k /\ Stale(r[k])) THEN 0 ELSE judged[x]]
  BY LimitConstants DEF CheckRate, Pruned
<1>2. rate'[k] = RateChecked(r, k) BY <1>1
<1>. HIDE DEF r
<1>3. CASE r[k] = NoRow
  <2>1. judged'[k] = 0 BY <1>1, <1>3
  <2>2. rate'[k] = fresh \/ rate'[k] = NoRow BY <1>2, <1>3 DEF RateChecked
  <2>3. fresh \in RateRow /\ fresh.failures = 0 BY LimitConstants DEF RateRow
  <2>4. 0 + Cardinality(Allowed(k)') <= GuessLimit(k) BY LimitConstants, FewFailures
  <2>5. CASE rate'[k] = NoRow BY <1>1, <2>1, <2>5, NoRowStays
  <2>6. CASE rate'[k] = fresh BY <2>1, <2>3, <2>4, <2>6 DEF RowInv, GuessLimit, GuessersOf
  <2>. QED BY <2>2, <2>5, <2>6
<1>4. CASE r[k] # NoRow
  <2>1. r[k] = rate[k] /\ rate[k] # NoRow /\ (rate[k].left > 0 \/ rate[k].age <= LockWindow)
    BY <1>1, <1>4, PrunedRows DEF r
  <2>2. /\ rate[k] \in RateRow /\ rate[k].failures \in Nat /\ judged[k] <= rate[k].failures
        /\ rate[k].left \in 0..LockWindow /\ judged[k] \in Nat
        /\ rate[k].age \in 0..(LockWindow + 1)
    BY <1>1, <2>1, RowCases DEF RateRow
  <2>3. judged'[k] \in {0, judged[k]} BY <1>1
  <2>4. CASE rate[k].left > 0
    <3>1. RateChecked(r, k) = rate[k] BY <1>4, <2>1, <2>2, <2>4 DEF RateChecked
    <3>2. ~RateAllows(r, k) BY <1>4, <2>1, <2>2, <2>4 DEF RateAllows
    <3>3. Goes(c, "idle") BY <1>1, <3>2
    <3>. QED BY <1>1, <1>2, <2>3, <3>1, <3>3, NoneMore, RowStays
  <2>5. CASE rate[k].left = 0 /\ rate[k].failures >= MaxFailures
    <3>1. rate[k].age <= LockWindow BY <2>1, <2>2, <2>5
    <3>2. RateChecked(r, k) = [rate[k] EXCEPT !.left = LockWindow]
      BY <1>4, <2>1, <2>2, <2>5, <3>1, LimitConstants DEF RateChecked
    <3>3. ~RateAllows(r, k) BY <1>4, <2>1, <2>2, <2>5, <3>1, LimitConstants DEF RateAllows
    <3>4. Goes(c, "idle") BY <1>1, <3>3
    <3>5. Cardinality(Allowed(k)') <= Cardinality(Allowed(k)) /\ Cardinality(Allowed(k)') \in Nat
      BY <3>4, NoneMore
    <3>6. rate[k].failures + Cardinality(Allowed(k)) <= GuessLimit(k) BY <1>1, <2>1, RowCases
    <3>7. rate[k].failures + Cardinality(Allowed(k)') <= GuessLimit(k)
      BY <2>2, <3>5, <3>6, AllowedCounts, LimitConstants DEF GuessLimit
    <3>8. rate'[k] \in RateRow /\ rate'[k].failures = rate[k].failures
      BY <1>2, <2>2, <3>2, LimitConstants DEF RateRow
    <3>9. judged'[k] <= rate[k].failures BY <2>2, <2>3
    <3>. QED BY <3>7, <3>8, <3>9 DEF RowInv, GuessLimit, GuessersOf
  <2>6. CASE rate[k].left = 0 /\ rate[k].failures < MaxFailures
    <3>1. rate[k].age <= LockWindow BY <2>1, <2>2, <2>6
    <3>2. RateChecked(r, k) = rate[k]
      BY <1>4, <2>1, <2>2, <2>6, <3>1, LimitConstants DEF RateChecked
    <3>3. rate[k].failures + Cardinality(Allowed(k)') <= GuessLimit(k) BY <2>2, <2>6, FewFailures
    <3>4. judged'[k] <= rate[k].failures BY <2>2, <2>3
    <3>. QED BY <1>2, <2>2, <3>2, <3>3, <3>4 DEF RowInv, GuessLimit, GuessersOf
  <2>. QED BY <2>2, <2>4, <2>5, <2>6, LimitConstants
<1>. QED BY <1>3, <1>4

LEMMA CheckKeeps == ASSUME LimitIInv, NEW c \in Clients, CheckRate(c) PROVE LimitIInv'
<1>. DEFINE r == Pruned(rate)
            k == KeyOf[c]
            pc == IF RateAllows(r, k) THEN "allowed" ELSE "idle"
<1>1. /\ k \in RateKeys /\ DOMAIN r = RateKeys /\ r = [x \in RateKeys |-> r[x]]
      /\ rate' = [r EXCEPT ![k] = RateChecked(r, k)] /\ Goes(c, pc)
      /\ judged' = [x \in RateKeys |-> IF r[x] = NoRow \/ (x = k /\ Stale(r[k])) THEN 0 ELSE judged[x]]
      /\ UNCHANGED <<quota, guesses>>
  BY LimitConstants DEF CheckRate, Pruned
<1>2. pc \in {"idle", "allowed"} OBVIOUS
<1>3. clients' \in [Clients -> {"idle", "challenged", "allowed", "in"}]
  BY <1>1, <1>2 DEF Goes, LimitIInv
<1>4. judged' \in [RateKeys -> Nat] BY <1>1 DEF LimitIInv
<1>5. ASSUME NEW x \in RateKeys PROVE RowInv(x)'
  <2>1. CASE x = k BY <2>1, CheckedRow
  <2>2. CASE x # k
    <3>1. rate'[x] = r[x] BY <1>1, <2>2
    <3>2. CASE r[x] = NoRow
      <4>1. judged'[x] = 0 BY <1>1, <3>2
      <4>. QED BY <3>1, <3>2, <4>1, NoRowStays
    <3>3. CASE r[x] # NoRow
      <4>1. rate'[x] = rate[x] /\ judged'[x] \in {0, judged[x]} BY <1>1, <3>1, <3>3, PrunedRows
      <4>2. Allowed(x)' = Allowed(x)
        <5>1. clients' = [clients EXCEPT ![c] = pc] /\ clients \in [Clients -> {"idle", "challenged", "allowed", "in"}]
          BY <1>1 DEF Goes, LimitIInv
        <5>2. \A y \in Guessers : KeyOf[y] = x => clients'[y] = clients[y]
          BY <2>2, <5>1, LimitConstants
        <5>. QED BY <5>2 DEF Allowed
      <4>. QED BY <4>1, <4>2, AllowedCounts, RowStays
    <3>. QED BY <3>2, <3>3
  <2>. QED BY <2>1, <2>2
<1>6. DOMAIN rate' = RateKeys /\ rate' = [x \in RateKeys |-> rate'[x]] BY <1>1
<1>. QED BY <1>1, <1>3, <1>4, <1>5, <1>6 DEF LimitIInv

LEMMA WrongKeeps == ASSUME LimitIInv, NEW c \in Clients, AnswerWrongly(c) PROVE LimitIInv'
<1>. DEFINE k == KeyOf[c]
<1>1. /\ clients[c] = "allowed" /\ c \in Guessers /\ k \in RateKeys
      /\ guesses' = guesses + 1 /\ guesses < MaxGuesses /\ Goes(c, "idle") /\ UNCHANGED quota
      /\ rate' = [rate EXCEPT ![k] = RateFailed(@)]
      /\ judged' = [judged EXCEPT ![k] = IF Stale(rate[k]) THEN 1 ELSE @ + 1]
  BY LimitConstants DEF AnswerWrongly
<1>2. guesses' \in 0..MaxGuesses BY <1>1, LimitConstants DEF LimitIInv
<1>3. clients' \in [Clients -> {"idle", "challenged", "allowed", "in"}] BY <1>1 DEF Goes, LimitIInv
<1>4. judged' \in [RateKeys -> Nat] BY <1>1 DEF LimitIInv
<1>5. DOMAIN rate' = RateKeys /\ rate' = [x \in RateKeys |-> rate'[x]] BY <1>1 DEF LimitIInv
<1>6. ASSUME NEW x \in RateKeys PROVE RowInv(x)'
  <2>1. CASE x # k
    <3>1. rate'[x] = rate[x] /\ judged'[x] = judged[x] BY <1>1, <2>1 DEF LimitIInv
    <3>2. Allowed(x)' = Allowed(x) BY <1>1, <2>1, OneFewer
    <3>. QED BY <3>1, <3>2, AllowedCounts, RowStays
  <2>2. CASE x = k
    <3>. DEFINE n == Failures(rate[k])
    <3>1. Cardinality(Allowed(k)') = Cardinality(Allowed(k)) - 1 BY <1>1, OneFewer
    <3>2. rate'[k] = RateFailed(rate[k]) /\ judged'[k] = IF Stale(rate[k]) THEN 1 ELSE judged[k] + 1
      BY <1>1 DEF LimitIInv
    <3>3. CASE Stale(rate[k])
      <4>1. n = 1 /\ rate'[k] = [age |-> 0, failures |-> 1, left |-> IF 1 >= MaxFailures THEN LockWindow ELSE 0]
        BY <3>2, <3>3 DEF RateFailed, Failures
      <4>2. (IF 1 >= MaxFailures THEN LockWindow ELSE 0) \in 0..LockWindow BY LimitConstants
      <4>3. rate'[k] \in RateRow /\ rate'[k].failures = 1 BY <4>1, <4>2, LimitConstants DEF RateRow
      <4>4. 1 + Cardinality(Allowed(k)') <= GuessLimit(k)
        BY <3>1, AllowedCounts, LimitConstants DEF GuessLimit
      <4>. QED BY <2>2, <3>2, <3>3, <4>3, <4>4 DEF RowInv, GuessLimit, GuessersOf
    <3>4. CASE ~Stale(rate[k])
      <4>1. /\ rate[k] # NoRow /\ rate[k] \in RateRow /\ judged[k] <= rate[k].failures
            /\ rate[k].failures + Cardinality(Allowed(k)) <= GuessLimit(k)
            /\ rate[k].failures \in Nat /\ judged[k] \in Nat /\ rate[k].age \in 0..(LockWindow + 1)
        BY <1>1, <3>4, RowCases DEF Stale, RateRow
      <4>2. n = rate[k].failures + 1 BY <3>4 DEF Failures
      <4>3. rate'[k] = [age |-> rate[k].age, failures |-> n,
                        left |-> IF n >= MaxFailures THEN LockWindow ELSE 0]
        BY <3>2, <3>4 DEF RateFailed
      <4>4. (IF n >= MaxFailures THEN LockWindow ELSE 0) \in 0..LockWindow BY LimitConstants
      <4>. HIDE DEF n
      <4>5. n \in Nat BY <4>1, <4>2
      <4>6. rate'[k] \in RateRow /\ rate'[k].failures = n BY <4>1, <4>3, <4>4, <4>5 DEF RateRow
      <4>7. n + Cardinality(Allowed(k)') <= GuessLimit(k)
        BY <3>1, <4>1, <4>2, AllowedCounts, LimitConstants DEF GuessLimit
      <4>8. judged'[k] <= n BY <3>2, <3>4, <4>1, <4>2
      <4>. QED BY <2>2, <4>6, <4>7, <4>8 DEF RowInv, GuessLimit, GuessersOf
    <3>. QED BY <3>3, <3>4
  <2>. QED BY <2>1, <2>2
<1>. QED BY <1>1, <1>2, <1>3, <1>4, <1>5, <1>6 DEF LimitIInv

LEMMA RightKeeps == ASSUME LimitIInv, NEW c \in Clients, AnswerRightly(c) PROVE LimitIInv'
<1>. DEFINE k == KeyOf[c]
<1>1. /\ k \in RateKeys /\ Goes(c, "in") /\ UNCHANGED <<quota, guesses>>
      /\ rate' = [rate EXCEPT ![k] = NoRow] /\ judged' = [judged EXCEPT ![k] = 0]
  BY LimitConstants DEF AnswerRightly
<1>2. clients' \in [Clients -> {"idle", "challenged", "allowed", "in"}] BY <1>1 DEF Goes, LimitIInv
<1>3. judged' \in [RateKeys -> Nat] BY <1>1 DEF LimitIInv
<1>4. DOMAIN rate' = RateKeys /\ rate' = [x \in RateKeys |-> rate'[x]] BY <1>1 DEF LimitIInv
<1>5. ASSUME NEW x \in RateKeys PROVE RowInv(x)'
  <2>1. CASE x = k
    <3>1. rate'[x] = NoRow /\ judged'[x] = 0 BY <1>1, <2>1 DEF LimitIInv
    <3>. QED BY <3>1, NoRowStays
  <2>2. CASE x # k
    <3>1. rate'[x] = rate[x] /\ judged'[x] = judged[x] BY <1>1, <2>2 DEF LimitIInv
    <3>. QED BY <1>1, <3>1, NoneMore, RowStays
  <2>. QED BY <2>1, <2>2
<1>. QED BY <1>1, <1>2, <1>3, <1>4, <1>5 DEF LimitIInv

LEMMA TimeKeeps == ASSUME LimitIInv, TimePasses PROVE LimitIInv'
<1>1. /\ UNCHANGED <<clients, guesses, judged>>
      /\ rate' = [k \in RateKeys |-> IF rate[k] = NoRow THEN NoRow ELSE
                   [rate[k] EXCEPT !.age = IF @ <= LockWindow THEN @ + 1 ELSE @,
                                   !.left = IF @ > 0 THEN @ - 1 ELSE 0]]
  BY DEF TimePasses
<1>2. quota' \in [age : 0..QuotaWindow, count : 0..QuotaMax]
  <2>. DEFINE a == IF quota.age < QuotaWindow THEN quota.age + 1 ELSE quota.age
  <2>1. quota \in [age : 0..QuotaWindow, count : 0..QuotaMax] /\ quota' = [quota EXCEPT !.age = a]
    BY DEF TimePasses, LimitIInv
  <2>2. a \in 0..QuotaWindow BY <2>1, LimitConstants
  <2>. HIDE DEF a
  <2>. QED BY <2>1, <2>2
<1>3. DOMAIN rate' = RateKeys /\ rate' = [x \in RateKeys |-> rate'[x]] BY <1>1
<1>4. ASSUME NEW k \in RateKeys PROVE RowInv(k)'
  <2>1. CASE rate[k] = NoRow
    <3>1. rate'[k] = NoRow /\ judged'[k] = 0 BY <1>1, <2>1, RowCases
    <3>. QED BY <3>1, NoRowStays
  <2>2. CASE rate[k] # NoRow
    <3>. DEFINE a == IF rate[k].age <= LockWindow THEN rate[k].age + 1 ELSE rate[k].age
                l == IF rate[k].left > 0 THEN rate[k].left - 1 ELSE 0
    <3>1. /\ rate[k] \in RateRow /\ judged[k] <= rate[k].failures
          /\ rate[k].failures + Cardinality(Allowed(k)) <= GuessLimit(k)
          /\ rate[k].age \in 0..(LockWindow + 1) /\ rate[k].left \in 0..LockWindow
      BY <2>2, RowCases DEF RateRow
    <3>2. a \in 0..(LockWindow + 1) /\ l \in 0..LockWindow BY <3>1, LimitConstants
    <3>3. rate'[k] = [rate[k] EXCEPT !.age = a, !.left = l] BY <1>1, <2>2
    <3>. HIDE DEF a, l
    <3>4. rate'[k] \in RateRow /\ rate'[k].failures = rate[k].failures
      BY <3>1, <3>2, <3>3 DEF RateRow
    <3>5. Allowed(k)' = Allowed(k) BY <1>1 DEF Allowed
    <3>. QED BY <1>1, <3>1, <3>4, <3>5 DEF RowInv, GuessLimit, GuessersOf
  <2>. QED BY <2>1, <2>2
<1>. QED BY <1>1, <1>2, <1>3, <1>4 DEF LimitIInv

-----------------------------------------------------------------------------
(* Sign-in limits: the theorem *)

LEMMA LimitStarts == ASSUME LimitInit PROVE LimitIInv
<1>1. \A k \in RateKeys : rate[k] = NoRow /\ judged[k] = 0 BY DEF LimitInit
<1>2. quota \in [age : 0..QuotaWindow, count : 0..QuotaMax] BY LimitConstants DEF LimitInit
<1>. QED BY <1>1, <1>2, LimitConstants DEF LimitInit, LimitIInv, RowInv

LEMMA LimitStep == ASSUME LimitIInv, [LimitNext]_limitVars PROVE LimitIInv'
<1>1. CASE UNCHANGED limitVars
  <2>1. ASSUME NEW k \in RateKeys PROVE RowInv(k)'
    BY <1>1, <2>1 DEF limitVars, LimitIInv, RowInv, Allowed, GuessLimit, GuessersOf
  <2>. QED BY <1>1, <2>1 DEF limitVars, LimitIInv
<1>2. CASE LimitNext
  BY <1>2, AskKeeps, CheckKeeps, WrongKeeps, RightKeeps, TimeKeeps DEF LimitNext
<1>. QED BY <1>1, <1>2

LEMMA LimitIInvSound == ASSUME LimitIInv PROVE LimitTypeOK /\ GuessesBounded
<1>1. ASSUME NEW k \in RateKeys
      PROVE  /\ rate[k] \in Rows
             /\ judged[k] + Cardinality(Allowed(k)) <= GuessLimit(k)
  <2>1. CASE rate[k] = NoRow
    BY <2>1, RowCases, AllowedCounts, LimitConstants DEF Rows, GuessLimit
  <2>2. CASE rate[k] # NoRow
    <3>1. /\ rate[k] \in RateRow /\ rate[k].failures \in Nat /\ judged[k] <= rate[k].failures
          /\ rate[k].failures + Cardinality(Allowed(k)) <= GuessLimit(k) /\ judged[k] \in Nat
      BY <2>2, RowCases DEF RateRow
    <3>2. rate[k].failures <= MaxFailures + Cardinality(Clients)
      BY <3>1, AllowedCounts, LimitConstants DEF GuessLimit
    <3>3. rate[k].failures \in 0..(MaxFailures + Cardinality(Clients))
      BY <3>1, <3>2, AllowedCounts, LimitConstants
    <3>. QED BY <3>1, <3>3, AllowedCounts, LimitConstants DEF RateRow, Rows, GuessLimit
  <2>. QED BY <2>1, <2>2
<1>2. rate \in [RateKeys -> Rows] BY <1>1 DEF LimitIInv
<1>3. GuessesBounded BY <1>1 DEF GuessesBounded, Allowed, GuessLimit, GuessersOf
<1>. QED BY <1>2, <1>3 DEF LimitTypeOK, LimitIInv

-----------------------------------------------------------------------------
(* The theorems *)

(***************************************************************************)
(* Whatever the trackers, lost pushes and restarts do between a query and  *)
(* its answer, finish_repair_check sends replicas only to members past     *)
(* probation.                                                              *)
(***************************************************************************)
THEOREM ReplicasGoToProven == RepairSpec => [](RepairTypeOK /\ OnlyProvenReceive)
<1>1. RepairInit => RepairIInv BY RepairStarts
<1>2. RepairIInv /\ [SwarmRepairNext]_repairVars => RepairIInv' BY RepairStep
<1>3. RepairIInv => RepairTypeOK /\ OnlyProvenReceive BY DEF RepairIInv
<1>. QED BY <1>1, <1>2, <1>3, PTL DEF RepairSpec

(***************************************************************************)
(* rpc_allowed_at and HttpRateLimiter::allowed_at: hygiene, eviction and a *)
(* full tracker never let a caller past the limit of a window, except that *)
(* an HTTP limit of zero means no limit (http_rate_limit); and both front  *)
(* ends give one verdict on every operation they share.                    *)
(***************************************************************************)
THEOREM FrontEndsAgree == ApiSpec => [](ApiTypeOK /\ GuardsAgree /\ AdmittedWithinLimit)
<1>1. ApiInit => ApiIInv BY ApiStarts
<1>2. ApiIInv /\ [ApiNext]_apiVars => ApiIInv' BY ApiStep
<1>3. ApiIInv => ApiTypeOK /\ GuardsAgree /\ AdmittedWithinLimit BY ApiIInvSound
<1>. QED BY <1>1, <1>2, <1>3, PTL DEF ApiSpec

\* A behaviour exercises one part and leaves the others as they are.
FleetIInv ==
    /\ focus \in {"repair", "swarm", "api", "maintenance", "limits"}
    /\ RepairIInv /\ SwarmIInv /\ ApiIInv /\ MaintIInv /\ LimitIInv

(***************************************************************************)
(* The guards of all five parts, for fleets, callers, objects and limits   *)
(* of any size: the swarm's block list and query answers, the repair, the  *)
(* request limits, the daemon's lease receipts and the sign-in lockout.    *)
(***************************************************************************)
THEOREM FleetStaysGuarded == MCSpec => []FleetGuarded
<1>1. MCInit => FleetIInv
  BY RepairStarts, SwarmStarts, ApiStarts, MaintStarts, LimitStarts DEF MCInit, FleetIInv
<1>2. FleetIInv /\ [MCNext]_mcVars => FleetIInv'
  <2>. SUFFICES ASSUME FleetIInv, [MCNext]_mcVars PROVE FleetIInv' OBVIOUS
  <2>1. focus' = focus BY DEF MCNext, mcVars
  <2>2. [SwarmRepairNext]_repairVars BY DEF MCNext, mcVars
  <2>3. [SwarmNext]_swarmVars BY DEF MCNext, mcVars
  <2>4. [ApiNext]_apiVars BY DEF MCNext, mcVars
  <2>5. [MaintNext]_maintVars BY DEF MCNext, mcVars
  <2>6. [LimitNext]_limitVars BY DEF MCNext, mcVars
  <2>7. RepairIInv' BY <2>2, RepairStep DEF FleetIInv
  <2>8. SwarmIInv' BY <2>3, SwarmStep DEF FleetIInv
  <2>9. ApiIInv' BY <2>4, ApiStep DEF FleetIInv
  <2>10. MaintIInv' BY <2>5, MaintStep DEF FleetIInv
  <2>11. LimitIInv' BY <2>6, LimitStep DEF FleetIInv
  <2>. QED BY <2>1, <2>7, <2>8, <2>9, <2>10, <2>11 DEF FleetIInv
<1>3. FleetIInv => FleetGuarded
  <2>. SUFFICES ASSUME FleetIInv PROVE FleetGuarded OBVIOUS
  <2>1. RepairTypeOK /\ OnlyProvenReceive BY DEF FleetIInv, RepairIInv
  <2>2. SwarmTypeOK /\ SwarmGuarded BY SwarmIInvSound DEF FleetIInv
  <2>3. ApiTypeOK /\ GuardsAgree /\ AdmittedWithinLimit BY ApiIInvSound DEF FleetIInv
  <2>4. MaintTypeOK /\ ReceiptsBacked BY MaintIInvSound DEF FleetIInv
  <2>5. LimitTypeOK /\ GuessesBounded BY LimitIInvSound DEF FleetIInv
  <2>6. focus \in {"repair", "swarm", "api", "maintenance", "limits"} BY DEF FleetIInv
  <2>. QED BY <2>1, <2>2, <2>3, <2>4, <2>5, <2>6 DEF FleetGuarded
<1>. QED BY <1>1, <1>2, <1>3, PTL DEF MCSpec
===============================================================================
