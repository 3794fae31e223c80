----------------------------- MODULE AuthLimits -----------------------------
(***************************************************************************)
(* The limits of the account service: the lockout after failed             *)
(* authentications (http.rs) and the challenge quotas (abuse.rs).  A       *)
(* client asks for a challenge, passes the limiter and answers; most       *)
(* ceremonies check the limiter under one lock and judge the answer under  *)
(* another.  Rows keep ages instead of times; an age stops one past its    *)
(* window, where it no longer matters.  Of the three quotas of a challenge *)
(* (everybody, source, account) the account's is modelled: the others are  *)
(* wider buckets of the same code, and only refuse more.                   *)
(***************************************************************************)
EXTENDS Integers, FiniteSets

CONSTANTS
    Clients,
    RateKeys,           \* ceremony:account:source
    KeyOf,              \* the key each client's requests count under
    Guessers,           \* clients that answer wrongly
    MaxGuesses,         \* bound on wrong answers
    MaxFailures,        \* AUTH_RATE_MAX_FAILURES
    LockWindow,         \* AUTH_RATE_WINDOW_SECONDS and AUTH_RATE_LOCK_SECONDS
    MaxRateKeys,        \* AUTH_RATE_MAX_KEYS
    QuotaWindow, QuotaMax

ASSUME AuthLimitsAssumption ==
    /\ IsFiniteSet(Clients) /\ KeyOf \in [Clients -> RateKeys] /\ Guessers \subseteq Clients
    /\ MaxGuesses \in Nat
    /\ {MaxFailures, LockWindow, MaxRateKeys, QuotaWindow, QuotaMax} \subseteq Nat \ {0}

VARIABLES
    rate,       \* auth_rate_limits
    quota,      \* abuse_quotas: the account's bucket of challenges
    clients,    \* where each client's ceremony is
    guesses,    \* wrong answers so far
    judged      \* history: wrong answers judged under a key since its window began

limitVars == <<rate, quota, clients, guesses, judged>>

NoRow == [age |-> 0, failures |-> -1, left |-> 0]
Rows == {NoRow} \cup [age : 0..(LockWindow + 1), failures : 0..(MaxFailures + Cardinality(Clients)),
                      left : 0..LockWindow]

LimitTypeOK ==
    /\ rate \in [RateKeys -> Rows]
    /\ quota \in [age : 0..QuotaWindow, count : 0..QuotaMax]
    /\ clients \in [Clients -> {"idle", "challenged", "allowed", "in"}]
    /\ guesses \in 0..MaxGuesses
    /\ judged \in [RateKeys -> Nat]

LimitInit ==
    /\ rate = [k \in RateKeys |-> NoRow]
    /\ quota = [age |-> QuotaWindow, count |-> 0]
    /\ clients = [c \in Clients |-> "idle"]
    /\ guesses = 0
    /\ judged = [k \in RateKeys |-> 0]

-----------------------------------------------------------------------------
(* auth_rate_allowed_with_db: first delete every row past its lock and its *)
(* window.                                                                 *)
\* Mutant: rows are never deleted.
PrunedNever(r) == r
Pruned(r) ==
    [k \in RateKeys |-> IF r[k].left = 0 /\ r[k].age > LockWindow THEN NoRow ELSE r[k]]
Known(r) == {k \in RateKeys : r[k] # NoRow}

RateAllows(r, k) ==
    IF r[k] = NoRow THEN Cardinality(Known(r)) < MaxRateKeys
    ELSE r[k].left = 0 /\ (r[k].age > LockWindow \/ r[k].failures < MaxFailures)

(* The row after the check: started, begun again, or locked once more if   *)
(* its failures still stand.                                               *)
RateChecked(r, k) ==
    CASE r[k] = NoRow -> IF Cardinality(Known(r)) < MaxRateKeys
                         THEN [age |-> 0, failures |-> 0, left |-> 0] ELSE NoRow
      [] r[k] # NoRow /\ r[k].left = 0 /\ r[k].age > LockWindow ->
            [age |-> 0, failures |-> 0, left |-> 0]
      [] r[k] # NoRow /\ r[k].left = 0 /\ r[k].age <= LockWindow /\ r[k].failures >= MaxFailures ->
            [r[k] EXCEPT !.left = LockWindow]
      [] OTHER -> r[k]

(* auth_rate_failure_with_db. *)
Stale(row) == row = NoRow \/ row.age > LockWindow
Failures(row) == IF Stale(row) THEN 1 ELSE row.failures + 1

\* Mutant: the failure begins a window and is not counted.
RateFailedUncounted(row) ==
    [age |-> IF Stale(row) THEN 0 ELSE row.age, failures |-> 0, left |-> 0]
RateFailed(row) ==
    [age |-> IF Stale(row) THEN 0 ELSE row.age,
     failures |-> Failures(row),
     left |-> IF Failures(row) >= MaxFailures THEN LockWindow ELSE 0]

Goes(c, pc) == clients' = [clients EXCEPT ![c] = pc]

(* check_quota: one statement takes a unit or begins a new window. *)
QuotaTaken ==
    \/ quota.age >= QuotaWindow /\ quota' = [age |-> 0, count |-> 1]
    \/ quota.age < QuotaWindow /\ quota.count < QuotaMax /\ quota' = [quota EXCEPT !.count = @ + 1]

AskChallenge(c) ==
    /\ clients[c] = "idle" /\ QuotaTaken
    /\ Goes(c, "challenged")
    /\ UNCHANGED <<rate, guesses, judged>>

(* The first lock of a ceremony: turned down, the client starts over. *)
CheckRate(c) ==
    /\ clients[c] = "challenged"
    /\ LET r == Pruned(rate)  k == KeyOf[c] IN
       /\ rate' = [r EXCEPT ![k] = RateChecked(r, k)]
       /\ Goes(c, IF RateAllows(r, k) THEN "allowed" ELSE "idle")
       /\ judged' = [x \in RateKeys |->
              IF r[x] = NoRow \/ (x = k /\ Stale(r[k])) THEN 0 ELSE judged[x]]
    /\ UNCHANGED <<quota, guesses>>

(* The second lock: a wrong answer counts, a right one deletes the row. *)
AnswerWrongly(c) ==
    /\ clients[c] = "allowed" /\ c \in Guessers /\ guesses < MaxGuesses
    /\ guesses' = guesses + 1
    /\ LET k == KeyOf[c] IN
       /\ rate' = [rate EXCEPT ![k] = RateFailed(@)]
       /\ judged' = [judged EXCEPT ![k] = IF Stale(rate[k]) THEN 1 ELSE @ + 1]
    /\ Goes(c, "idle")
    /\ UNCHANGED <<quota>>

AnswerRightly(c) ==
    /\ clients[c] = "allowed" /\ c \notin Guessers
    /\ rate' = [rate EXCEPT ![KeyOf[c]] = NoRow]
    /\ judged' = [judged EXCEPT ![KeyOf[c]] = 0]
    /\ Goes(c, "in")
    /\ UNCHANGED <<quota, guesses>>

TimePasses ==
    /\ rate' = [k \in RateKeys |-> IF rate[k] = NoRow THEN NoRow ELSE
                   [rate[k] EXCEPT !.age = IF @ <= LockWindow THEN @ + 1 ELSE @,
                                   !.left = IF @ > 0 THEN @ - 1 ELSE 0]]
    /\ quota' = [quota EXCEPT !.age = IF @ < QuotaWindow THEN @ + 1 ELSE @]
    /\ UNCHANGED <<clients, guesses, judged>>

LimitNext ==
    \/ TimePasses
    \/ \E c \in Clients : AskChallenge(c) \/ CheckRate(c) \/ AnswerWrongly(c) \/ AnswerRightly(c)

LimitSpec == LimitInit /\ [][LimitNext]_limitVars

-----------------------------------------------------------------------------
(* Wrong answers under one key stop at the limit of http.rs, but for the   *)
(* clients that had passed the check before the lock fell: one each.       *)
GuessesBounded ==
    \A k \in RateKeys :
        judged[k] + Cardinality({c \in Guessers : KeyOf[c] = k /\ clients[c] = "allowed"})
            <= MaxFailures + Cardinality({c \in Guessers : KeyOf[c] = k}) - 1

(* A client with the right answer gets in: locks and full tables end, and  *)
(* a failed attempt of the locked client does not prolong them.            *)
LockedOutReturns == \A c \in Clients \ Guessers : <>(clients[c] = "in")
=============================================================================
