--------------------------- MODULE OperatorProofs ---------------------------
(***************************************************************************)
(* The operator's recovery log, sessions, approvals, liveness views, join  *)
(* tickets, members, vouchers and leases for any workers, identities,      *)
(* nodes, requests, clocks and faults.                                     *)
(*                                                                         *)
(* Recovery log.  SelfCertifying needs that what a prefix registers does   *)
(* not depend on what follows it (the ...UpTo lemmas), and a finished read *)
(* needs that what it must contain was in the log (FloorInv).              *)
(*                                                                         *)
(* Sessions.  None of the three promises is inductive.  A challenge is     *)
(* answered once because whoever took it is the only one to hold its       *)
(* number (TakenInv); a revocation stands because identity_lock covers the *)
(* call and the file says revoked before the sessions go (LockInv,         *)
(* DeniedInv); a granted token stays because a failed insert takes back    *)
(* only its own session (InsertInv).                                       *)
(*                                                                         *)
(* Approvals.  A page, in memory and on disk, is about one challenge and   *)
(* its receipts are over it (PageInv).                                     *)
(*                                                                         *)
(* Heartbeats.  A restarted node's heartbeats are turned down until its    *)
(* old entry is pruned.  The entry is at least as old as the time the node *)
(* has been heard again (AgeInv), so it goes in time (OldInv, PrunedInv).  *)
(*                                                                         *)
(* Join tickets.  What was let through was signed by holders pinned then;  *)
(* a combined ticket lists distinct holders of one body (CombinedInv).     *)
(*                                                                         *)
(* Membership.  A rollback puts back the record it took away, and the one  *)
(* it put back is never less than what was acknowledged (JobInv), as long  *)
(* as requests are about different ids (UniqueInv).  It is as old as the   *)
(* one it replaces and full, or served, where that one is (ServedInv).     *)
(*                                                                         *)
(* Vouchers.  What counts is what is due: the bytes stored and those of    *)
(* puts under way.  A quota covers it, and so does every entry that may    *)
(* still be used, in memory and on disk, so that a crash cannot lose a     *)
(* charge that an object already stands for (ChargeInv, TotalInv).         *)
(***************************************************************************)
EXTENDS MCOperator, FiniteSetTheorems, SequenceTheorems, TLAPS

-----------------------------------------------------------------------------
(* The recovery log: the inductive invariant *)

\* What a read must contain was acknowledged, and so is in the log.
FloorInv == \A s \in Server : floor[s] \subseteq acked[s]

LogIInv ==
    /\ TypeOK /\ SelfCertifying /\ OneAuthority /\ WithinCapacity
    /\ AckedStays /\ FloorInv /\ ReadsConsistent

-----------------------------------------------------------------------------
(* One more record at the end of a log *)

LEMMA AppendKeeps ==
    ASSUME NEW l \in Seq(Record), NEW r \in Record
    PROVE /\ Append(l, r) \in Seq(Record) /\ Len(Append(l, r)) = Len(l) + 1
          /\ \A n \in 1..Len(l) : Append(l, r)[n] = l[n]
          /\ Append(l, r)[Len(l) + 1] = r
BY AppendProperties

\* What the first k records register is not changed by a later record.
LEMMA UpToStable ==
    ASSUME NEW l \in Seq(Record), NEW r \in Record, NEW k \in 0..Len(l)
    PROVE /\ RegisteredUpTo(Append(l, r), k) = RegisteredUpTo(l, k)
          /\ DevicesUpTo(Append(l, r), k) = DevicesUpTo(l, k)
<1>1. \A n \in 1..k : Append(l, r)[n] = l[n] BY AppendKeeps
<1>2. RegisteredUpTo(Append(l, r), k) = RegisteredUpTo(l, k) BY <1>1 DEF RegisteredUpTo
<1>3. DevicesUpTo(Append(l, r), k) = DevicesUpTo(l, k) BY <1>1, <1>2 DEF DevicesUpTo
<1>. QED BY <1>2, <1>3

\* The authorities after an append: those before, and a new genesis.
LEMMA RegisteredAppend ==
    ASSUME NEW l \in Seq(Record), NEW r \in Record
    PROVE Registered(Append(l, r)) =
              Registered(l) \cup (IF r.kind = "genesis" THEN {r.by} ELSE {})
<1>. DEFINE m == Append(l, r)
<1>1. /\ Len(m) = Len(l) + 1 /\ Len(l) \in Nat
      /\ \A n \in 1..Len(l) : m[n] = l[n]
      /\ m[Len(l) + 1] = r
  BY AppendKeeps, LenProperties
<1>2. 1..Len(m) = (1..Len(l)) \cup {Len(l) + 1} BY <1>1
<1>. HIDE DEF m
<1>. QED BY <1>1, <1>2 DEF Registered, RegisteredUpTo

-----------------------------------------------------------------------------
(* Steps that write a log *)

\* What is said of the logs alone survives the append of an accepted record.
LEMMA WriteFrameLog ==
    ASSUME LogTypeOK, SelfCertifying, OneAuthority, WithinCapacity,
           NEW s \in Server, NEW r \in Record, NEW c \in Key,
           Accepts(log[s], r, c), WriteFrame(s, r)
    PROVE (LogTypeOK /\ SelfCertifying /\ OneAuthority /\ WithinCapacity)'
<1>. USE LogAssumption
<1>. DEFINE l == log[s]
<1>1. l \in Seq(Record) /\ Len(l) \in Nat BY LenProperties DEF LogTypeOK
<1>2. log'[s] = Append(l, r) /\ \A t \in Server \ {s} : log'[t] = log[t]
  BY DEF WriteFrame, LogTypeOK
<1>3. torn'[s] = FALSE /\ \A t \in Server \ {s} : torn'[t] = torn[t]
  BY DEF WriteFrame, LogTypeOK
<1>4. /\ Append(l, r) \in Seq(Record) /\ Len(Append(l, r)) = Len(l) + 1
      /\ \A n \in 1..Len(l) : Append(l, r)[n] = l[n]
      /\ Append(l, r)[Len(l) + 1] = r
  BY <1>1, AppendKeeps
<1>5. LogTypeOK'
  <2>1. log' \in [Server -> Seq(Record)] BY <1>4 DEF WriteFrame, LogTypeOK
  <2>2. torn' \in [Server -> BOOLEAN] BY DEF WriteFrame, LogTypeOK
  <2>. QED BY <2>1, <2>2 DEF LogTypeOK
<1>6. SelfCertifying'
  <2>1. SUFFICES ASSUME NEW t \in Server, NEW n \in 1..Len(log'[t])
                 PROVE /\ log'[t][n].kind = "cert" => log'[t][n].by \in RegisteredUpTo(log'[t], n - 1)
                       /\ log'[t][n].kind = "item" =>
                            log'[t][n].by \in DevicesUpTo(log'[t], n - 1) \cup RegisteredUpTo(log'[t], n - 1)
    BY DEF SelfCertifying
  <2>2. CASE t # s BY <2>2, <1>2 DEF SelfCertifying
  <2>3. CASE t = s /\ n \in 1..Len(l)
    <3>1. n - 1 \in 0..Len(l) BY <1>1, <2>3
    <3>2. /\ RegisteredUpTo(Append(l, r), n - 1) = RegisteredUpTo(l, n - 1)
          /\ DevicesUpTo(Append(l, r), n - 1) = DevicesUpTo(l, n - 1)
      BY <3>1, <1>1, UpToStable
    <3>. QED BY <2>3, <3>2, <1>2, <1>4 DEF SelfCertifying
  <2>4. CASE t = s /\ n = Len(l) + 1
    <3>1. /\ RegisteredUpTo(Append(l, r), Len(l)) = RegisteredUpTo(l, Len(l))
          /\ DevicesUpTo(Append(l, r), Len(l)) = DevicesUpTo(l, Len(l))
      BY <1>1, UpToStable
    <3>2. n - 1 = Len(l) /\ log'[t][n] = r BY <2>4, <1>1, <1>2, <1>4
    <3>. QED BY <2>4, <3>1, <3>2, <1>2 DEF Accepts, Authorized, Registered, Devices
  <2>. QED BY <2>2, <2>3, <2>4, <1>1, <1>2, <1>4
<1>7. OneAuthority'
  <2>1. Registered(Append(l, r)) = Registered(l) \cup (IF r.kind = "genesis" THEN {r.by} ELSE {})
    BY <1>1, RegisteredAppend
  <2>2. \A a, b \in Registered(Append(l, r)) : a = b
    BY <2>1 DEF OneAuthority, Accepts, Authorized
  <2>. QED BY <2>2, <1>2 DEF OneAuthority
<1>8. WithinCapacity'
  BY <1>1, <1>2, <1>3, <1>4 DEF WithinCapacity, Accepts, HasCapacity
<1>. QED BY <1>5, <1>6, <1>7, <1>8

\* The same for an append that was interrupted.
LEMMA WriteInterruptedLog ==
    ASSUME LogTypeOK, SelfCertifying, OneAuthority, WithinCapacity,
           NEW s \in Server, NEW r \in Record, NEW c \in Key,
           Accepts(log[s], r, c), WriteInterrupted(s, r)
    PROVE (LogTypeOK /\ SelfCertifying /\ OneAuthority /\ WithinCapacity)'
<1>1. CASE WriteFrame(s, r) BY <1>1, WriteFrameLog
<1>2. CASE /\ UNCHANGED log
           /\ torn' \in {torn, [torn EXCEPT ![s] = FALSE], [torn EXCEPT ![s] = TRUE]}
  <2>1. torn' \in [Server -> BOOLEAN] BY <1>2 DEF LogTypeOK
  <2>2. LogTypeOK' BY <1>2, <2>1 DEF LogTypeOK
  <2>3. SelfCertifying' /\ OneAuthority' BY <1>2 DEF SelfCertifying, OneAuthority
  <2>4. \A t \in Server \ {s} : torn'[t] = torn[t] BY <1>2 DEF LogTypeOK
  <2>5. WithinCapacity' BY <1>2, <2>4 DEF WithinCapacity, Accepts, HasCapacity
  <2>. QED BY <2>2, <2>3, <2>5
<1>. QED BY <1>1, <1>2 DEF WriteInterrupted

\* Either way every log keeps the records it has.
LEMMA WriteKeeps ==
    ASSUME LogTypeOK, NEW s \in Server, NEW r \in Record,
           WriteFrame(s, r) \/ WriteInterrupted(s, r)
    PROVE \A t \in Server : /\ Len(log[t]) <= Len(log'[t]) /\ Len(log[t]) \in Nat
                            /\ Len(log'[t]) \in Nat
                            /\ \A n \in 1..Len(log[t]) : log'[t][n] = log[t][n]
<1>1. \A t \in Server : log[t] \in Seq(Record) /\ Len(log[t]) \in Nat
  BY LenProperties DEF LogTypeOK
<1>2. CASE UNCHANGED log BY <1>1, <1>2
<1>3. CASE WriteFrame(s, r)
  <2>1. log'[s] = Append(log[s], r) /\ \A t \in Server \ {s} : log'[t] = log[t]
    BY <1>3 DEF WriteFrame, LogTypeOK
  <2>2. /\ Len(Append(log[s], r)) = Len(log[s]) + 1
        /\ \A n \in 1..Len(log[s]) : Append(log[s], r)[n] = log[s][n]
    BY <1>1, AppendKeeps
  <2>. SUFFICES ASSUME NEW t \in Server
                PROVE /\ Len(log[t]) <= Len(log'[t]) /\ Len(log[t]) \in Nat
                      /\ Len(log'[t]) \in Nat
                      /\ \A n \in 1..Len(log[t]) : log'[t][n] = log[t][n]
    OBVIOUS
  <2>3. Len(log[t]) \in Nat BY <1>1
  <2>4. CASE t # s
    <3>1. log'[t] = log[t] BY <2>1, <2>4
    <3>. QED BY <2>3, <3>1
  <2>5. CASE t = s
    <3>1. Len(log'[t]) = Len(log[t]) + 1 BY <2>1, <2>2, <2>5
    <3>2. \A n \in 1..Len(log[t]) : log'[t][n] = log[t][n] BY <2>1, <2>2, <2>5
    <3>. QED BY <2>3, <3>1, <3>2
  <2>. QED BY <2>4, <2>5
<1>. QED BY <1>2, <1>3 DEF WriteInterrupted

\* What acknowledgements and reads rely on survives when logs only grow.
LEMMA GrowthKeeps ==
    ASSUME TypeOK, AckedStays, FloorInv, ReadsConsistent,
           UNCHANGED <<acked, reading, got, floor>>,
           \A t \in Server : /\ Len(log[t]) <= Len(log'[t]) /\ Len(log[t]) \in Nat
                             /\ Len(log'[t]) \in Nat
                             /\ \A n \in 1..Len(log[t]) : log'[t][n] = log[t][n]
    PROVE (AckedStays /\ FloorInv /\ ReadsConsistent)'
<1>1. AckedStays' BY DEF AckedStays
<1>2. FloorInv' BY DEF FloorInv
<1>3. ReadsConsistent'
  <2>1. \A t \in Server : Len(got[t]) \in Nat BY LenProperties DEF TypeOK
  <2>. QED BY <2>1 DEF ReadsConsistent
<1>. QED BY <1>1, <1>2, <1>3

-----------------------------------------------------------------------------
(* One lemma per action *)

LEMMA AppendRecordPreserves ==
    ASSUME LogIInv, NEW s \in Server, NEW r \in Offered, NEW c \in Key, AppendRecord(s, r, c)
    PROVE LogIInv'
<1>. USE DEF LogIInv, AppendRecord
<1>1. r \in Record BY ReaderAssumption
<1>2. (LogTypeOK /\ SelfCertifying /\ OneAuthority /\ WithinCapacity)'
  BY <1>1, WriteFrameLog DEF TypeOK
<1>3. \A t \in Server : /\ Len(log[t]) <= Len(log'[t]) /\ Len(log[t]) \in Nat
                        /\ Len(log'[t]) \in Nat
                        /\ \A n \in 1..Len(log[t]) : log'[t][n] = log[t][n]
  BY <1>1, WriteKeeps DEF TypeOK
<1>4. /\ \A t \in Server \ {s} : acked'[t] = acked[t]
      /\ acked'[s] = acked[s] \cup {<<Len(log[s]) + 1, r>>}
  BY DEF TypeOK
<1>5. TypeOK'
  <2>1. acked' \in [Server -> SUBSET (Nat \X Record)] BY <1>1, <1>3 DEF TypeOK
  <2>. QED BY <1>2, <2>1 DEF TypeOK
<1>6. AckedStays'
  <2>1. Len(log'[s]) = Len(log[s]) + 1 /\ log'[s][Len(log[s]) + 1] = r
    BY <1>1, AppendKeeps DEF WriteFrame, TypeOK, LogTypeOK
  <2>. QED BY <1>3, <1>4, <2>1 DEF AckedStays
<1>7. FloorInv' BY <1>4 DEF FloorInv
<1>8. ReadsConsistent'
  <2>1. \A t \in Server : Len(got[t]) \in Nat BY LenProperties DEF TypeOK
  <2>. QED BY <1>3, <2>1 DEF ReadsConsistent
<1>. QED BY <1>2, <1>5, <1>6, <1>7, <1>8

LEMMA AppendInterruptedPreserves ==
    ASSUME LogIInv, NEW s \in Server, NEW r \in Offered, NEW c \in Key, AppendInterrupted(s, r, c)
    PROVE LogIInv'
<1>. USE DEF LogIInv, AppendInterrupted
<1>1. r \in Record BY ReaderAssumption
<1>2. (LogTypeOK /\ SelfCertifying /\ OneAuthority /\ WithinCapacity)'
  BY <1>1, WriteInterruptedLog DEF TypeOK
<1>3. \A t \in Server : /\ Len(log[t]) <= Len(log'[t]) /\ Len(log[t]) \in Nat
                        /\ Len(log'[t]) \in Nat
                        /\ \A n \in 1..Len(log[t]) : log'[t][n] = log[t][n]
  BY <1>1, WriteKeeps DEF TypeOK
<1>4. (AckedStays /\ FloorInv /\ ReadsConsistent)' BY <1>3, GrowthKeeps
<1>5. faults' \in 0..MaxFaults BY ReaderAssumption DEF TypeOK
<1>6. TypeOK' BY <1>2, <1>5 DEF TypeOK
<1>. QED BY <1>2, <1>4, <1>6

\* The logs alone are untouched by readers.
LEMMA ReaderKeepsLogs ==
    ASSUME LogIInv, UNCHANGED <<log, torn, acked, faults>>
    PROVE (LogTypeOK /\ SelfCertifying /\ OneAuthority /\ WithinCapacity /\ AckedStays)'
BY DEF LogIInv, TypeOK, LogTypeOK, SelfCertifying, OneAuthority, WithinCapacity, AckedStays

LEMMA BeginReadPreserves ==
    ASSUME LogIInv, NEW s \in Server, BeginRead(s) PROVE LogIInv'
<1>. USE DEF LogIInv, BeginRead
<1>1. (LogTypeOK /\ SelfCertifying /\ OneAuthority /\ WithinCapacity /\ AckedStays)'
  BY ReaderKeepsLogs
<1>2. TypeOK'
  <2>1. reading' \in [Server -> BOOLEAN] BY DEF TypeOK
  <2>2. got' \in [Server -> Seq(Record)] BY EmptySeq DEF TypeOK
  <2>3. floor' \in [Server -> SUBSET (Nat \X Record)] BY DEF TypeOK
  <2>. QED BY <1>1, <2>1, <2>2, <2>3 DEF TypeOK
<1>3. FloorInv' BY DEF FloorInv, TypeOK
<1>4. ReadsConsistent'
  <2>1. got'[s] = << >> /\ Len(<< >>) = 0 /\ reading'[s] = TRUE BY DEF TypeOK
  <2>2. \A t \in Server \ {s} : got'[t] = got[t] /\ reading'[t] = reading[t] /\ floor'[t] = floor[t]
    BY DEF TypeOK
  <2>3. Len(log[s]) \in Nat BY LenProperties DEF TypeOK, LogTypeOK
  <2>. QED BY <2>1, <2>2, <2>3 DEF ReadsConsistent
<1>. QED BY <1>1, <1>2, <1>3, <1>4

\* A prefix of a sequence followed by the elements behind it is a longer prefix.
LEMMA PrefixExtended ==
    ASSUME NEW S, NEW l \in Seq(S), NEW g \in Seq(S), NEW top \in Nat,
           Len(g) <= top, top <= Len(l), \A n \in 1..Len(g) : g[n] = l[n],
           NEW page, page = SubSeq(l, Len(g) + 1, top)
    PROVE  /\ g \o page \in Seq(S) /\ Len(g \o page) = top
           /\ \A n \in 1..top : (g \o page)[n] = l[n]
<1>1. Len(g) \in Nat /\ Len(l) \in Nat BY LenProperties
<1>. DEFINE m == Len(g) + 1
<1>2. m \in Int /\ top \in Int BY <1>1
<1>3. \A n \in m..top : l[n] \in S BY <1>1, ElementOfSeq
<1>4. page = SubSeq(l, m, top) OBVIOUS
<1>5. m <= top + 1 /\ m = Len(g) + 1 BY <1>1
<1>. HIDE DEF m
<1>6. /\ page \in Seq(S)
      /\ Len(page) = IF m <= top THEN top - m + 1 ELSE 0
      /\ \A i \in 1..(top - m + 1) : page[i] = l[m + i - 1]
  <2>1. SubSeq(l, m, top) \in Seq(S) BY <1>2, <1>3, SubSeqProperties
  <2>2. Len(SubSeq(l, m, top)) = IF m <= top THEN top - m + 1 ELSE 0
    BY <1>2, <1>3, SubSeqProperties
  <2>3. \A i \in 1..(top - m + 1) : SubSeq(l, m, top)[i] = l[m + i - 1]
    BY <1>2, <1>3, SubSeqProperties
  <2>. QED BY <1>4, <2>1, <2>2, <2>3
<1>7. Len(page) = top - Len(g) BY <1>1, <1>2, <1>5, <1>6
<1>8. \A i \in 1..(top - Len(g)) : page[i] = l[Len(g) + i] BY <1>1, <1>2, <1>5, <1>6
<1>9. /\ g \o page \in Seq(S) /\ Len(g \o page) = Len(g) + Len(page)
      /\ \A i \in 1..(Len(g) + Len(page)) :
            (g \o page)[i] = IF i <= Len(g) THEN g[i] ELSE page[i - Len(g)]
  <2>1. page \in Seq(S) BY <1>6
  <2>2. g \o page \in Seq(S) /\ Len(g \o page) = Len(g) + Len(page) BY <2>1, ConcatProperties
  <2>3. \A i \in 1..(Len(g) + Len(page)) :
            (g \o page)[i] = IF i <= Len(g) THEN g[i] ELSE page[i - Len(g)]
    BY <2>1, ConcatProperties
  <2>. QED BY <2>2, <2>3
<1>. QED
  <2>1. Len(g \o page) = top BY <1>1, <1>7, <1>9
  <2>2. ASSUME NEW n \in 1..top PROVE (g \o page)[n] = l[n]
    <3>. HIDE <1>4
    <3>1. CASE n <= Len(g) BY <3>1, <1>1, <1>7, <1>9
    <3>2. CASE n > Len(g)
      <4>1. n - Len(g) \in 1..(top - Len(g)) /\ Len(g) + (n - Len(g)) = n BY <3>2, <1>1
      <4>2. (g \o page)[n] = page[n - Len(g)] BY <3>2, <1>1, <1>7, <1>9
      <4>. QED BY <4>1, <4>2, <1>8
    <3>. QED BY <3>1, <3>2, <1>1
  <2>. QED BY <2>1, <2>2, <1>9

\* The page behind the cursor extends what was fetched by the records of the
\* log that follow it.
LEMMA ReadPagePreserves ==
    ASSUME LogIInv, NEW s \in Server, ReadPage(s) PROVE LogIInv'
<1>. USE DEF LogIInv, ReadPage
<1>. DEFINE g == got[s]
            l == log[s]
            top == IF Len(g) + PageSize < Len(l) THEN Len(g) + PageSize ELSE Len(l)
            page == Page(s, Len(g), PageSize)
<1>1. (LogTypeOK /\ SelfCertifying /\ OneAuthority /\ WithinCapacity /\ AckedStays)'
  BY ReaderKeepsLogs
<1>2. /\ g \in Seq(Record) /\ l \in Seq(Record) /\ Len(g) \in Nat /\ Len(l) \in Nat
      /\ Len(g) <= Len(l) /\ \A n \in 1..Len(g) : g[n] = l[n]
  BY LenProperties DEF TypeOK, LogTypeOK, ReadsConsistent
<1>3. top \in Nat /\ Len(g) <= top /\ top <= Len(l) BY <1>2, ReaderAssumption
<1>4. page = SubSeq(l, Len(g) + 1, top) BY DEF Page
<1>5. /\ g \o page \in Seq(Record) /\ Len(g \o page) = top
      /\ \A n \in 1..top : (g \o page)[n] = l[n]
  <2>. HIDE DEF g, l, top, page
  <2>. QED BY <1>2, <1>3, <1>4, PrefixExtended
<1>6. /\ got'[s] = g \o page /\ reading'[s] = (Len(g) + PageSize < Len(l))
      /\ \A t \in Server \ {s} : got'[t] = got[t] /\ reading'[t] = reading[t]
  BY DEF TypeOK
<1>. HIDE DEF page
<1>7. TypeOK'
  <2>1. reading' \in [Server -> BOOLEAN] BY DEF TypeOK
  <2>2. got' \in [Server -> Seq(Record)] BY <1>5 DEF TypeOK, page
  <2>. QED BY <1>1, <2>1, <2>2 DEF TypeOK
<1>8. FloorInv' BY DEF FloorInv
<1>9. ReadsConsistent'
  <2>1. \A t \in Server \ {s} :
            /\ Len(got'[t]) <= Len(log'[t])
            /\ \A n \in 1..Len(got'[t]) : got'[t][n] = log'[t][n]
            /\ ~reading'[t] => \A a \in floor'[t] : a[1] <= Len(got'[t])
    BY <1>6 DEF ReadsConsistent
  <2>2. Len(got'[s]) <= Len(log'[s]) /\ \A n \in 1..Len(got'[s]) : got'[s][n] = log'[s][n]
    BY <1>3, <1>5, <1>6
  <2>3. ~reading'[s] => \A a \in floor'[s] : a[1] <= Len(got'[s])
    <3>1. ~reading'[s] => Len(got'[s]) = Len(l) BY <1>5, <1>6
    <3>2. \A a \in floor[s] : a[1] <= Len(l) BY <1>2 DEF FloorInv, AckedStays
    <3>. QED BY <3>1, <3>2
  <2>. QED BY <2>1, <2>2, <2>3 DEF ReadsConsistent
<1>. QED BY <1>1, <1>7, <1>8, <1>9

LEMMA ReadFailsPreserves ==
    ASSUME LogIInv, NEW s \in Server, ReadFails(s) PROVE LogIInv'
<1>. USE DEF LogIInv, ReadFails
<1>1. (LogTypeOK /\ SelfCertifying /\ OneAuthority /\ WithinCapacity /\ AckedStays)'
  BY ReaderKeepsLogs
<1>2. TypeOK'
  <2>1. reading' \in [Server -> BOOLEAN] BY DEF TypeOK
  <2>2. got' \in [Server -> Seq(Record)] BY EmptySeq DEF TypeOK
  <2>3. floor' \in [Server -> SUBSET (Nat \X Record)] BY DEF TypeOK
  <2>. QED BY <1>1, <2>1, <2>2, <2>3 DEF TypeOK
<1>3. FloorInv' BY DEF FloorInv, TypeOK
<1>4. ReadsConsistent'
  <2>1. got'[s] = << >> /\ Len(<< >>) = 0 /\ floor'[s] = {} BY DEF TypeOK
  <2>2. \A t \in Server \ {s} : got'[t] = got[t] /\ reading'[t] = reading[t] /\ floor'[t] = floor[t]
    BY DEF TypeOK
  <2>3. Len(log[s]) \in Nat BY LenProperties DEF TypeOK, LogTypeOK
  <2>. QED BY <2>1, <2>2, <2>3 DEF ReadsConsistent
<1>. QED BY <1>1, <1>2, <1>3, <1>4

-----------------------------------------------------------------------------
(* The theorem *)

LEMMA InitIInv == ASSUME Init PROVE LogIInv
<1>. USE DEF Init, LogInit
<1>1. \A s \in Server : log[s] = << >> /\ got[s] = << >> /\ torn[s] = FALSE
                        /\ acked[s] = {} /\ floor[s] = {}
  OBVIOUS
<1>2. TypeOK
  <2>1. log \in [Server -> Seq(Record)] /\ got \in [Server -> Seq(Record)] BY EmptySeq
  <2>2. torn \in [Server -> BOOLEAN] /\ reading \in [Server -> BOOLEAN] OBVIOUS
  <2>3. acked \in [Server -> SUBSET (Nat \X Record)] /\ floor \in [Server -> SUBSET (Nat \X Record)]
    OBVIOUS
  <2>4. faults \in 0..MaxFaults BY ReaderAssumption
  <2>. QED BY <2>1, <2>2, <2>3, <2>4 DEF TypeOK, LogTypeOK
<1>3. SelfCertifying BY <1>1 DEF SelfCertifying
<1>. HIDE DEF Init, LogInit
<1>4. OneAuthority
  <2>1. Len(<< >>) = 0 OBVIOUS
  <2>2. \A s \in Server : Len(log[s]) = 0 BY <1>1, <2>1
  <2>3. \A n : n \notin 1..0 OBVIOUS
  <2>4. \A s \in Server : \A k : k \notin Registered(log[s])
    BY <2>2, <2>3 DEF Registered, RegisteredUpTo
  <2>. QED BY <2>4 DEF OneAuthority
<1>5. WithinCapacity
  <2>1. Len(<< >>) = 0 OBVIOUS
  <2>2. \A s \in Server : Len(log[s]) = 0 BY <1>1, <2>1
  <2>3. \A s \in Server : ~torn[s] BY <1>1
  <2>4. 0 <= MaxRecords BY LogAssumption
  <2>. QED BY <2>2, <2>3, <2>4, Zenon DEF WithinCapacity
<1>6. AckedStays /\ FloorInv /\ ReadsConsistent BY <1>1 DEF AckedStays, FloorInv, ReadsConsistent
<1>. QED BY <1>2, <1>3, <1>4, <1>5, <1>6 DEF LogIInv

LEMMA NextPreserves == ASSUME LogIInv, [Next]_vars PROVE LogIInv'
<1>1. CASE Next
  BY <1>1, AppendRecordPreserves, AppendInterruptedPreserves, BeginReadPreserves,
     ReadPagePreserves, ReadFailsPreserves DEF Next
<1>2. CASE UNCHANGED vars
  BY <1>2 DEF vars, LogIInv, TypeOK, LogTypeOK, SelfCertifying, OneAuthority, WithinCapacity,
              AckedStays, FloorInv, ReadsConsistent
<1>. QED BY <1>1, <1>2

\* For any callers, records and interrupted appends: a log has one authority and
\* authenticates its own records, stays within its capacity with a repairable
\* tail, and is read consistently page by page while it grows.
THEOREM RecoveryLogSafety == Spec => [](TypeOK /\ LogSound)
<1>1. Init => LogIInv BY InitIInv
<1>2. LogIInv /\ [Next]_vars => LogIInv' BY NextPreserves
<1>3. LogIInv => TypeOK /\ LogSound BY DEF LogIInv, LogSound
<1>. QED BY <1>1, <1>2, <1>3, PTL DEF Spec

\* An append that was acknowledged is there for ever, under the number it was
\* given: neither a crash inside a later append nor the truncation that repairs
\* its torn frame takes it back.
THEOREM AcknowledgedRecordsStay == Spec => []AckedStays
<1>1. Init => LogIInv BY InitIInv
<1>2. LogIInv /\ [Next]_vars => LogIInv' BY NextPreserves
<1>3. LogIInv => AckedStays BY DEF LogIInv
<1>. QED BY <1>1, <1>2, <1>3, PTL DEF Spec

-----------------------------------------------------------------------------
(* Sessions: the inductive invariant *)

\* Numbers are used in order, and one number is one challenge.
NumberInv ==
    /\ \A c \in challenges \cup challengesFile : c.id <= issued
    /\ \A c, d \in challenges \cup challengesFile : c.id = d.id => c = d
    /\ \A s \in answered : s.id <= issued

\* A request that took a challenge is the only one to have it; once the file is
\* written no restart brings it back, and it was not answered.
Taker(w) == worker[w].pc \in {"removePersist", "check", "insert"}
TakenInv ==
    \A w \in Workers : Taker(w) =>
        LET n == worker[w].challenge.id
        IN  /\ n <= issued /\ worker[w].start <= clock
            /\ \A c \in challenges : c.id # n
            /\ worker[w].pc # "removePersist" => \A c \in challengesFile : c.id # n
            /\ \A s \in answered : s.id # n
            /\ \A v \in Workers \ {w} : Taker(v) => worker[v].challenge.id # n

\* A session being inserted is known to nobody else yet, and it is in the map
\* unless it was ended or is over.
InsertInv ==
    \A w \in Workers : worker[w].pc = "insertPersist" =>
        LET s == worker[w].session
        IN  /\ s \in answered /\ s \notin granted
            /\ s \in sessions \/ s \in ended \/ s.expires <= clock
            /\ \A v \in Workers \ {w} :
                  worker[v].pc = "insertPersist" => worker[v].session # s

\* Whoever holds identity_lock holds it alone; a revocation has marked the
\* identity, first in memory, then in the file.
LockPcs == {"enrollPersist", "revokePersist", "dropSessions", "dropPersist"}
LockInv ==
    \A w \in Workers :
        /\ worker[w].pc \in LockPcs =>
               \A v \in Workers \ {w} : worker[v].pc \notin LockPcs
        /\ worker[w].pc \in {"revokePersist", "dropSessions", "dropPersist"} =>
               enrolled[worker[w].who].status = "revoked"
        /\ worker[w].pc = "revokePersist" => worker[w].who \notin denied
        /\ worker[w].pc \in {"dropSessions", "dropPersist"} =>
               enrolledFile[worker[w].who].status = "revoked"

\* A revocation that was acknowledged is in memory and on disk.
DeniedInv ==
    \A i \in denied : enrolled[i].status = "revoked" /\ enrolledFile[i].status = "revoked"

SessionsIInv ==
    /\ SessionsTypeOK /\ NumberInv /\ TakenInv /\ InsertInv /\ LockInv /\ DeniedInv
    /\ ChallengeAnsweredOnce /\ GrantedSessionsDurable

-----------------------------------------------------------------------------
(* Approvals: the inductive invariant *)

\* A page, in memory or on disk, is about a challenge of its id, and its receipts
\* are over that challenge.
PageInv(pages) ==
    \A h \in Hosts, i \in RequestIds :
        /\ pages[h][i].about # NoRequest => pages[h][i].about.id = i
        /\ \A r \in pages[h][i].receipts : r.over = pages[h][i].about

\* An acknowledged receipt has its page in memory and on disk while it lasts.
AcceptedInv ==
    \A h \in Hosts : \A r \in accepted[h] :
        r.over.expires > minute =>
            /\ book[h][r.over.id].about = r.over /\ bookFile[h][r.over.id].about = r.over
            /\ \E q \in book[h][r.over.id].receipts \cap bookFile[h][r.over.id].receipts : q.by = r.by

ApprovalsIInv == ApprovalsTypeOK /\ PageInv(book) /\ PageInv(bookFile) /\ AcceptedInv

-----------------------------------------------------------------------------
(* Sessions: facts about the types *)

LEMMA SessionConsts ==
    /\ MaxTime \in Nat /\ MaxIssued \in Nat /\ MaxAdmin \in Nat /\ SessionFaults \in Nat
    /\ ChallengeTTL \in Nat /\ SessionTTL \in Nat /\ NoDevice \in Bindings
BY SessionsAssumption DEF Bindings

\* The control point of a request determines what it carries.
LEMMA JobShape ==
    ASSUME NEW j \in Job
    PROVE  /\ j.pc \in {"enrollPersist", "revokePersist", "dropSessions"} =>
                  j \in [pc : {"enrollPersist", "revokePersist", "dropSessions"}, who : Identities]
           /\ j.pc \in {"dropPersist", "endPersist"} =>
                  j \in [pc : {"dropPersist", "endPersist"}, who : Identities, removed : SUBSET Session]
           /\ j.pc \in {"issuePersist", "removePersist", "check", "insert"} =>
                  j \in [pc : {"issuePersist", "removePersist", "check", "insert"},
                         challenge : Challenge, start : 0..MaxTime]
           /\ j.pc = "insertPersist" => j \in [pc : {"insertPersist"}, session : Session]
<1>1. CASE j = Idle BY <1>1 DEF Idle
<1>2. CASE j \in [pc : {"enrollPersist"}, who : Identities] BY <1>2
<1>3. CASE j \in [pc : {"revokePersist", "dropSessions"}, who : Identities] BY <1>3
<1>4. CASE j \in [pc : {"dropPersist", "endPersist"}, who : Identities, removed : SUBSET Session]
  BY <1>4
<1>5. CASE j \in [pc : {"issuePersist", "removePersist", "check", "insert"},
                  challenge : Challenge, start : 0..MaxTime]
  BY <1>5
<1>6. CASE j \in [pc : {"insertPersist"}, session : Session] BY <1>6
<1>. QED BY <1>1, <1>2, <1>3, <1>4, <1>5, <1>6 DEF Job

LEMMA ServeFacts ==
    ASSUME worker \in [Workers -> Job], NEW w \in Workers, NEW j, Serve(w, j)
    PROVE  /\ worker'[w] = j /\ \A v \in Workers \ {w} : worker'[v] = worker[v]
           /\ j \in Job => worker' \in [Workers -> Job]
BY DEF Serve

LEMMA IdleFacts == Idle \in Job /\ Idle.pc = "idle"
BY DEF Idle, Job

\* What a request keeps when another one takes a step.
LEMMA OtherTakers ==
    ASSUME SessionsTypeOK, TakenInv, NEW w \in Workers, \A v \in Workers \ {w} : worker'[v] = worker[v],
           worker'[w].pc \notin {"removePersist", "check", "insert"},
           \A c \in challenges' : c \in challenges \/ c.id > issued,
           challengesFile' \subseteq challengesFile \cup challenges,
           answered' = answered, issued' \in Nat, issued <= issued', clock' = clock
    PROVE  TakenInv'
<1>1. issued \in Nat /\ clock \in Nat BY SessionConsts DEF SessionsTypeOK
<1>2. \A v \in Workers : Taker(v) => worker[v].challenge.id \in Nat
  BY JobShape DEF SessionsTypeOK, Taker, Challenge
<1>3. \A c \in challenges' : c \notin challenges => \A v \in Workers : Taker(v) => c.id # worker[v].challenge.id
  BY <1>1, <1>2 DEF TakenInv
<1>. QED BY <1>1, <1>2, <1>3 DEF TakenInv, Taker

LEMMA OtherInserts ==
    ASSUME SessionsTypeOK, InsertInv, NEW w \in Workers, \A v \in Workers \ {w} : worker'[v] = worker[v],
           worker'[w].pc # "insertPersist", answered \subseteq answered', ended \subseteq ended',
           clock' = clock,
           \A v \in Workers \ {w} : worker[v].pc = "insertPersist" =>
               /\ worker[v].session \notin granted'
               /\ \/ worker[v].session \notin sessions \/ worker[v].session \in sessions' \cup ended'
                  \/ worker[v].session.expires <= clock
    PROVE  InsertInv'
BY DEF InsertInv

LEMMA OtherLocks ==
    ASSUME SessionsTypeOK, LockInv, DeniedInv, NEW w \in Workers,
           \A v \in Workers \ {w} : worker'[v] = worker[v], worker'[w].pc \notin LockPcs,
           UNCHANGED <<enrolled, enrolledFile, denied>>
    PROVE  LockInv' /\ DeniedInv'
<1>. USE DEF LockPcs
<1>1. LockInv' BY DEF LockInv
<1>2. DeniedInv' BY DEF DeniedInv
<1>. QED BY <1>1, <1>2

\* A write, whatever becomes of it, leaves the old or the new contents.
LEMMA WriteFaults ==
    ASSUME sessionFaults \in 0..SessionFaults,
           \/ UNCHANGED sessionFaults
           \/ sessionFaults < SessionFaults /\ sessionFaults' = sessionFaults + 1
    PROVE  sessionFaults' \in 0..SessionFaults
BY SessionConsts

-----------------------------------------------------------------------------
(* Sessions: one lemma per action *)

LEMMA EnrollIdentityPreserves ==
    ASSUME SessionsIInv, NEW w \in Workers, NEW who \in Identities, NEW write \in BOOLEAN,
           NEW device \in Bindings, EnrollIdentity(w, who, write, device)
    PROVE  SessionsIInv'
<1>. USE DEF SessionsIInv, EnrollIdentity
<1>. DEFINE j == [pc |-> "enrollPersist", who |-> who]
<1>1. j \in Job /\ j.pc = "enrollPersist" BY DEF Job
<1>. HIDE DEF j
<1>2. /\ worker'[w] = j /\ \A v \in Workers \ {w} : worker'[v] = worker[v]
      /\ worker' \in [Workers -> Job]
  BY <1>1, ServeFacts DEF SessionsTypeOK, j
<1>3. /\ \A i \in Identities \ {who} : enrolled'[i] = enrolled[i]
      /\ enrolled' \in [Identities -> Identity]
  BY DEF SessionsTypeOK, Identity
<1>4. SessionsTypeOK'
  <2>1. adminCalls' \in 0..MaxAdmin BY SessionConsts DEF SessionsTypeOK
  <2>. QED BY <1>2, <1>3, <2>1 DEF SessionsTypeOK
<1>5. NumberInv' BY DEF NumberInv
<1>6. TakenInv' BY <1>1, <1>2, SessionConsts, OtherTakers DEF SessionsTypeOK
<1>7. InsertInv' BY <1>1, <1>2, OtherInserts DEF InsertInv
<1>8. LockInv'
  <2>1. \A v \in Workers : worker[v].pc \notin LockPcs BY DEF IdentityLockFree, LockPcs
  <2>. QED BY <1>1, <1>2, <2>1 DEF LockInv, LockPcs
<1>9. DeniedInv'
  <2>1. denied' \subseteq Identities \ {who} BY DEF SessionsTypeOK
  <2>. QED BY <1>3, <2>1 DEF DeniedInv
<1>10. ChallengeAnsweredOnce' /\ GrantedSessionsDurable'
  BY DEF ChallengeAnsweredOnce, GrantedSessionsDurable
<1>. QED BY <1>4, <1>5, <1>6, <1>7, <1>8, <1>9, <1>10

LEMMA EnrollPersistPreserves ==
    ASSUME SessionsIInv, NEW w \in Workers, EnrollPersist(w) PROVE SessionsIInv'
<1>. USE DEF SessionsIInv, EnrollPersist
<1>1. /\ worker'[w] = Idle /\ \A v \in Workers \ {w} : worker'[v] = worker[v]
      /\ worker' \in [Workers -> Job]
  BY ServeFacts, IdleFacts DEF SessionsTypeOK, Done
<1>2. enrolledFile' \in {enrolledFile, enrolled} /\ sessionFaults' \in 0..SessionFaults
  BY WriteFaults DEF Write, SessionsTypeOK
<1>3. SessionsTypeOK' BY <1>1, <1>2 DEF SessionsTypeOK
<1>4. NumberInv' BY DEF NumberInv
<1>5. TakenInv' BY <1>1, IdleFacts, SessionConsts, OtherTakers DEF SessionsTypeOK
<1>6. InsertInv' BY <1>1, IdleFacts, OtherInserts DEF InsertInv
<1>7. LockInv' BY <1>1, IdleFacts DEF LockInv, LockPcs
<1>8. DeniedInv' BY <1>2 DEF DeniedInv
<1>9. ChallengeAnsweredOnce' /\ GrantedSessionsDurable'
  BY DEF ChallengeAnsweredOnce, GrantedSessionsDurable
<1>. QED BY <1>3, <1>4, <1>5, <1>6, <1>7, <1>8, <1>9

LEMMA RevokeIdentityPreserves ==
    ASSUME SessionsIInv, NEW w \in Workers, NEW who \in Identities, RevokeIdentity(w, who)
    PROVE  SessionsIInv'
<1>. USE DEF SessionsIInv, RevokeIdentity
<1>. DEFINE j == [pc |-> "revokePersist", who |-> who]
<1>1. j \in Job /\ j.pc = "revokePersist" /\ j.who = who BY DEF Job
<1>. HIDE DEF j
<1>2. /\ worker'[w] = j /\ \A v \in Workers \ {w} : worker'[v] = worker[v]
      /\ worker' \in [Workers -> Job]
  BY <1>1, ServeFacts DEF SessionsTypeOK, j
<1>3. /\ \A i \in Identities \ {who} : enrolled'[i] = enrolled[i]
      /\ enrolled'[who].status = "revoked" /\ enrolled' \in [Identities -> Identity]
  BY DEF SessionsTypeOK, Identity
<1>4. SessionsTypeOK'
  <2>1. adminCalls' \in 0..MaxAdmin BY SessionConsts DEF SessionsTypeOK
  <2>. QED BY <1>2, <1>3, <2>1 DEF SessionsTypeOK
<1>5. NumberInv' BY DEF NumberInv
<1>6. TakenInv' BY <1>1, <1>2, SessionConsts, OtherTakers DEF SessionsTypeOK
<1>7. InsertInv' BY <1>1, <1>2, OtherInserts DEF InsertInv
<1>8. who \notin denied BY DEF DeniedInv
<1>9. LockInv'
  <2>1. \A v \in Workers : worker[v].pc \notin LockPcs BY DEF IdentityLockFree, LockPcs
  <2>. QED BY <1>1, <1>2, <1>3, <1>8, <2>1 DEF LockInv, LockPcs
<1>10. DeniedInv' BY <1>3, <1>8 DEF DeniedInv, SessionsTypeOK
<1>11. ChallengeAnsweredOnce' /\ GrantedSessionsDurable'
  BY DEF ChallengeAnsweredOnce, GrantedSessionsDurable
<1>. QED BY <1>4, <1>5, <1>6, <1>7, <1>9, <1>10, <1>11

\* The file says revoked before the sessions go; a failed write revives the
\* identity, whose revocation nobody was told of.
LEMMA RevokePersistPreserves ==
    ASSUME SessionsIInv, NEW w \in Workers, RevokePersist(w) PROVE SessionsIInv'
<1>. USE DEF SessionsIInv, RevokePersist
<1>. DEFINE who == worker[w].who
            j == [worker[w] EXCEPT !.pc = "dropSessions"]
<1>1. /\ who \in Identities /\ who \notin denied /\ enrolled[who].status = "revoked"
      /\ \A v \in Workers \ {w} : worker[v].pc \notin LockPcs
      /\ worker[w] \in [pc : {"enrollPersist", "revokePersist", "dropSessions"}, who : Identities]
  <2>1. worker[w] \in Job /\ worker[w].pc = "revokePersist" BY DEF SessionsTypeOK
  <2>2. worker[w] \in [pc : {"enrollPersist", "revokePersist", "dropSessions"}, who : Identities]
    BY <2>1, JobShape
  <2>. QED BY <2>1, <2>2 DEF LockInv, LockPcs
<1>2. j \in Job /\ j.pc = "dropSessions" /\ j.who = who BY <1>1 DEF Job
<1>. HIDE DEF j, who
<1>3. \/ /\ enrolledFile' = enrolled /\ enrolled' = enrolled /\ worker'[w] = j
      \/ /\ enrolledFile' \in {enrolledFile, enrolled}
         /\ enrolled' = [enrolled EXCEPT ![who].status = "active"] /\ worker'[w] = Idle
  BY ServeFacts DEF Write, Done, SessionsTypeOK, j, who
<1>4. /\ \A v \in Workers \ {w} : worker'[v] = worker[v]
      /\ worker' \in [Workers -> Job] /\ worker'[w].pc \in {"dropSessions", "idle"}
  BY <1>2, ServeFacts, IdleFacts DEF SessionsTypeOK, Done, j
<1>5. /\ \A i \in Identities \ {who} : enrolled'[i] = enrolled[i]
      /\ enrolled' \in [Identities -> Identity]
  BY <1>1, <1>3 DEF SessionsTypeOK, Identity
<1>6. SessionsTypeOK'
  <2>1. sessionFaults' \in 0..SessionFaults BY WriteFaults DEF Write, SessionsTypeOK
  <2>2. enrolledFile' \in [Identities -> Identity] BY <1>3 DEF SessionsTypeOK
  <2>. QED BY <1>4, <1>5, <2>1, <2>2 DEF SessionsTypeOK
<1>7. NumberInv' BY DEF NumberInv
<1>8. TakenInv' BY <1>4, SessionConsts, OtherTakers DEF SessionsTypeOK
<1>9. InsertInv' BY <1>4, OtherInserts DEF InsertInv
<1>10. LockInv' BY <1>1, <1>2, <1>3, <1>4, IdleFacts DEF LockInv, LockPcs
<1>11. DeniedInv' BY <1>1, <1>3, <1>5 DEF DeniedInv, SessionsTypeOK
<1>12. ChallengeAnsweredOnce' /\ GrantedSessionsDurable'
  BY DEF ChallengeAnsweredOnce, GrantedSessionsDurable
<1>. QED BY <1>6, <1>7, <1>8, <1>9, <1>10, <1>11, <1>12

\* The sessions of the key end; the revocation is on disk already.
LEMMA DropSessionsPreserves ==
    ASSUME SessionsIInv, NEW w \in Workers, DropSessions(w) PROVE SessionsIInv'
<1>. USE DEF SessionsIInv, DropSessions
<1>. DEFINE who == worker[w].who
            gone == {s \in sessions : s.who.key = worker[w].who.key}
            j == [pc |-> "dropPersist", who |-> who, removed |-> gone]
<1>1. who \in Identities /\ \A v \in Workers \ {w} : worker[v].pc \notin LockPcs
  <2>1. worker[w] \in Job /\ worker[w].pc = "dropSessions" BY DEF SessionsTypeOK
  <2>2. worker[w] \in [pc : {"enrollPersist", "revokePersist", "dropSessions"}, who : Identities]
    BY <2>1, JobShape
  <2>. QED BY <2>1, <2>2 DEF LockInv, LockPcs
<1>2. enrolled[who].status = "revoked" /\ enrolledFile[who].status = "revoked" BY DEF LockInv
<1>3. gone \subseteq sessions OBVIOUS
<1>4. sessions' = sessions \ gone /\ ended' = ended \cup gone OBVIOUS
<1>5. j \in Job /\ j.pc = "dropPersist" /\ j.who = who
  BY <1>1, <1>3 DEF Job, SessionsTypeOK
<1>. HIDE DEF j
<1>6. \/ worker'[w] = Idle /\ denied' = denied \cup {who}
      \/ worker'[w] = j /\ denied' = denied
  BY ServeFacts DEF Done, SessionsTypeOK, j
<1>7. \A v \in Workers \ {w} : worker'[v] = worker[v]
  BY ServeFacts DEF Done, SessionsTypeOK, j
<1>8. worker' \in [Workers -> Job] BY <1>5, ServeFacts, IdleFacts DEF Done, SessionsTypeOK, j
<1>9. worker'[w].pc \in {"idle", "dropPersist"} BY <1>5, <1>6, IdleFacts
<1>. HIDE DEF gone, who
<1>10. SessionsTypeOK' BY <1>1, <1>3, <1>4, <1>6, <1>8 DEF SessionsTypeOK
<1>11. NumberInv' BY DEF NumberInv
<1>12. TakenInv' BY <1>7, <1>9, SessionConsts, OtherTakers DEF SessionsTypeOK
<1>13. InsertInv' BY <1>4, <1>7, <1>9, OtherInserts DEF InsertInv
<1>14. LockInv' BY <1>1, <1>2, <1>5, <1>6, <1>7, <1>9, IdleFacts DEF LockInv, LockPcs
<1>15. DeniedInv' BY <1>2, <1>6 DEF DeniedInv
<1>16. ChallengeAnsweredOnce' BY DEF ChallengeAnsweredOnce
<1>17. GrantedSessionsDurable' BY <1>4 DEF GrantedSessionsDurable
<1>. QED BY <1>10, <1>11, <1>12, <1>13, <1>14, <1>15, <1>16, <1>17

\* Only a revocation of an identity adds to the denied ones.
LEMMA PersistRemovalPreserves ==
    ASSUME SessionsIInv, NEW w \in Workers, PersistRemoval(w) PROVE SessionsIInv'
<1>. USE DEF SessionsIInv, PersistRemoval
<1>1. /\ worker'[w] = Idle /\ \A v \in Workers \ {w} : worker'[v] = worker[v]
      /\ worker' \in [Workers -> Job]
  BY ServeFacts, IdleFacts DEF SessionsTypeOK, Done
<1>2. worker[w].who \in Identities /\ worker[w].removed \subseteq Session
  <2>1. worker[w] \in Job BY DEF SessionsTypeOK
  <2>. QED BY <2>1, JobShape
<1>3. /\ sessionsFile' \in {sessionsFile, sessions} /\ sessions \subseteq sessions'
      /\ sessions' \subseteq Session /\ sessionFaults' \in 0..SessionFaults
  BY <1>2, WriteFaults DEF Write, SessionsTypeOK
<1>4. \/ denied' = denied
      \/ worker[w].pc = "dropPersist" /\ denied' = denied \cup {worker[w].who}
  OBVIOUS
<1>5. SessionsTypeOK' BY <1>1, <1>2, <1>3, <1>4 DEF SessionsTypeOK
<1>6. NumberInv' BY DEF NumberInv
<1>7. TakenInv' BY <1>1, IdleFacts, SessionConsts, OtherTakers DEF SessionsTypeOK
<1>8. InsertInv' BY <1>1, <1>3, IdleFacts, OtherInserts DEF InsertInv
<1>9. DeniedInv' BY <1>4 DEF DeniedInv, LockInv
<1>10. LockInv'
  <2>1. CASE denied' = denied BY <1>1, <2>1, IdleFacts DEF LockInv, LockPcs
  <2>2. CASE worker[w].pc = "dropPersist" BY <1>1, <2>2, IdleFacts DEF LockInv, LockPcs
  <2>. QED BY <1>4, <2>1, <2>2
<1>11. ChallengeAnsweredOnce' BY DEF ChallengeAnsweredOnce
<1>12. GrantedSessionsDurable' BY <1>3 DEF GrantedSessionsDurable
<1>. QED BY <1>5, <1>6, <1>7, <1>8, <1>9, <1>10, <1>11, <1>12

\* A new number is nobody's yet.
LEMMA IssueChallengePreserves ==
    ASSUME SessionsIInv, NEW w \in Workers, NEW who \in Identities, NEW device \in Bindings,
           IssueChallenge(w, who, device)
    PROVE  SessionsIInv'
<1>. USE DEF SessionsIInv
<1>. DEFINE new == [id |-> issued + 1, who |-> who, device |-> device,
                    expires |-> clock + ChallengeTTL]
            j == [pc |-> "issuePersist", challenge |-> new, start |-> clock]
<1>1. /\ issued \in Nat /\ clock \in Nat /\ issued' = issued + 1 /\ issued' \in 0..MaxIssued
      /\ new \in Challenge /\ new.id = issued + 1
  BY SessionConsts DEF SessionsTypeOK, IssueChallenge, Challenge
<1>2. j \in Job /\ j.pc = "issuePersist" BY <1>1 DEF Job, SessionsTypeOK
<1>3. challenges' \subseteq challenges \cup {new} BY DEF IssueChallenge
<1>. HIDE DEF new
<1>4. /\ worker'[w] = j /\ \A v \in Workers \ {w} : worker'[v] = worker[v]
      /\ worker' \in [Workers -> Job]
  BY <1>2, ServeFacts DEF SessionsTypeOK, IssueChallenge, new
<1>. HIDE DEF j
<1>5. /\ UNCHANGED <<enrolled, enrolledFile, challengesFile, sessions, sessionsFile, clock>>
      /\ UNCHANGED <<adminCalls, sessionFaults, answered, granted, ended, denied>>
  BY DEF IssueChallenge
<1>6. SessionsTypeOK' BY <1>1, <1>3, <1>4, <1>5 DEF SessionsTypeOK
<1>7. NumberInv'
  <2>1. \A c \in challenges \cup challengesFile : c.id \in Nat /\ c.id < new.id
    BY <1>1 DEF NumberInv, SessionsTypeOK, Challenge
  <2>2. \A s \in answered : s.id \in Nat BY DEF SessionsTypeOK, Session
  <2>. QED BY <1>1, <1>3, <1>5, <2>1, <2>2 DEF NumberInv
<1>8. TakenInv' BY <1>1, <1>2, <1>3, <1>4, <1>5, OtherTakers
<1>9. InsertInv' BY <1>2, <1>4, <1>5, OtherInserts DEF InsertInv
<1>10. LockInv' /\ DeniedInv' BY <1>2, <1>4, <1>5, OtherLocks DEF LockPcs
<1>11. ChallengeAnsweredOnce'
  <2>1. \A s \in answered : s.id # new.id
    BY <1>1 DEF NumberInv, SessionsTypeOK, Session
  <2>. QED BY <1>3, <1>5, <2>1 DEF ChallengeAnsweredOnce
<1>12. GrantedSessionsDurable' BY <1>5 DEF GrantedSessionsDurable
<1>. QED BY <1>6, <1>7, <1>8, <1>9, <1>10, <1>11, <1>12

LEMMA IssuePersistPreserves ==
    ASSUME SessionsIInv, NEW w \in Workers, IssuePersist(w) PROVE SessionsIInv'
<1>. USE DEF SessionsIInv, IssuePersist
<1>1. /\ worker'[w] = Idle /\ \A v \in Workers \ {w} : worker'[v] = worker[v]
      /\ worker' \in [Workers -> Job]
  BY ServeFacts, IdleFacts DEF SessionsTypeOK, Done
<1>2. /\ challengesFile' \in {challengesFile, challenges} /\ challenges' \subseteq challenges
      /\ sessionFaults' \in 0..SessionFaults
  BY WriteFaults DEF Write, SessionsTypeOK
<1>3. SessionsTypeOK' BY <1>1, <1>2 DEF SessionsTypeOK
<1>4. NumberInv' BY <1>2 DEF NumberInv
<1>5. TakenInv' BY <1>1, <1>2, IdleFacts, SessionConsts, OtherTakers DEF SessionsTypeOK
<1>6. InsertInv' BY <1>1, IdleFacts, OtherInserts DEF InsertInv
<1>7. LockInv' /\ DeniedInv' BY <1>1, IdleFacts, OtherLocks DEF LockPcs
<1>8. ChallengeAnsweredOnce' BY <1>2 DEF ChallengeAnsweredOnce
<1>9. GrantedSessionsDurable' BY DEF GrantedSessionsDurable
<1>. QED BY <1>3, <1>4, <1>5, <1>6, <1>7, <1>8, <1>9

\* The challenge leaves the map, so no other request gets it.
LEMMA TakeChallengePreserves ==
    ASSUME SessionsIInv, NEW w \in Workers, NEW c \in challenges, TakeChallenge(w, c)
    PROVE  SessionsIInv'
<1>. USE DEF SessionsIInv, TakeChallenge
<1>. DEFINE j == [pc |-> "removePersist", challenge |-> c, start |-> clock]
<1>1. j \in Job /\ j.pc = "removePersist" /\ j.challenge = c /\ j.start = clock
  BY DEF Job, SessionsTypeOK
<1>. HIDE DEF j
<1>2. /\ worker'[w] = j /\ \A v \in Workers \ {w} : worker'[v] = worker[v]
      /\ worker' \in [Workers -> Job]
  BY <1>1, ServeFacts DEF SessionsTypeOK, j
<1>3. SessionsTypeOK' BY <1>2 DEF SessionsTypeOK
<1>4. NumberInv' BY DEF NumberInv
<1>5. TakenInv'
  <2>1. clock \in Nat BY SessionConsts DEF SessionsTypeOK
  <2>2. /\ c.id <= issued /\ \A d \in challenges' : d.id # c.id
        /\ \A v \in Workers : Taker(v) => worker[v].challenge.id # c.id
    BY DEF NumberInv, ChallengeAnsweredOnce, TakenInv
  <2>3. \A s \in answered : s.id # c.id BY DEF ChallengeAnsweredOnce
  <2>. QED BY <1>1, <1>2, <2>1, <2>2, <2>3 DEF TakenInv, Taker
<1>6. InsertInv' BY <1>1, <1>2, OtherInserts DEF InsertInv
<1>7. LockInv' /\ DeniedInv' BY <1>1, <1>2, OtherLocks DEF LockPcs
<1>8. ChallengeAnsweredOnce' BY DEF ChallengeAnsweredOnce
<1>9. GrantedSessionsDurable' BY DEF GrantedSessionsDurable
<1>. QED BY <1>3, <1>4, <1>5, <1>6, <1>7, <1>8, <1>9

\* Once the removal is on disk, no restart brings the challenge back.
LEMMA RemovePersistPreserves ==
    ASSUME SessionsIInv, NEW w \in Workers, RemovePersist(w) PROVE SessionsIInv'
<1>. USE DEF SessionsIInv, RemovePersist
<1>. DEFINE j == [worker[w] EXCEPT !.pc = "check"]
<1>1. /\ j \in Job /\ j.pc = "check" /\ j.challenge = worker[w].challenge /\ j.start = worker[w].start
  <2>1. worker[w] \in Job BY DEF SessionsTypeOK
  <2>2. worker[w] \in [pc : {"issuePersist", "removePersist", "check", "insert"},
                       challenge : Challenge, start : 0..MaxTime]
    BY <2>1, JobShape
  <2>. QED BY <2>2 DEF Job
<1>. HIDE DEF j
<1>2. /\ \A v \in Workers \ {w} : worker'[v] = worker[v]
      /\ \/ worker'[w] = Idle
         \/ worker'[w] = j /\ challengesFile' = challenges
  BY <1>1, ServeFacts, IdleFacts DEF SessionsTypeOK, Done, Write, j
<1>3. worker' \in [Workers -> Job] BY <1>1, ServeFacts, IdleFacts DEF SessionsTypeOK, Done, j
<1>4. challengesFile' \in {challengesFile, challenges} /\ sessionFaults' \in 0..SessionFaults
  BY WriteFaults DEF Write, SessionsTypeOK
<1>5. SessionsTypeOK' BY <1>3, <1>4 DEF SessionsTypeOK
<1>6. NumberInv' BY <1>4 DEF NumberInv
<1>7. TakenInv'
  <2>1. CASE worker'[w] = Idle
    BY <1>2, <1>4, <2>1, IdleFacts, SessionConsts, OtherTakers DEF SessionsTypeOK
  <2>2. CASE worker'[w] = j /\ challengesFile' = challenges
    BY <1>1, <1>2, <2>2 DEF TakenInv, Taker
  <2>. QED BY <1>2, <2>1, <2>2
<1>8. InsertInv' BY <1>1, <1>2, IdleFacts, OtherInserts DEF InsertInv
<1>9. LockInv' /\ DeniedInv' BY <1>1, <1>2, IdleFacts, OtherLocks DEF LockPcs
<1>10. ChallengeAnsweredOnce' BY <1>4 DEF ChallengeAnsweredOnce
<1>11. GrantedSessionsDurable' BY DEF GrantedSessionsDurable
<1>. QED BY <1>5, <1>6, <1>7, <1>8, <1>9, <1>10, <1>11

LEMMA CheckAnswerPreserves ==
    ASSUME SessionsIInv, NEW w \in Workers, CheckAnswer(w) PROVE SessionsIInv'
<1>. USE DEF SessionsIInv, CheckAnswer
<1>. DEFINE j == [worker[w] EXCEPT !.pc = "insert"]
<1>1. /\ j \in Job /\ j.pc = "insert" /\ j.challenge = worker[w].challenge /\ j.start = worker[w].start
  <2>1. worker[w] \in Job BY DEF SessionsTypeOK
  <2>2. worker[w] \in [pc : {"issuePersist", "removePersist", "check", "insert"},
                       challenge : Challenge, start : 0..MaxTime]
    BY <2>1, JobShape
  <2>. QED BY <2>2 DEF Job
<1>. HIDE DEF j
<1>2. /\ \A v \in Workers \ {w} : worker'[v] = worker[v]
      /\ worker'[w] \in {Idle, j}
  BY <1>1, ServeFacts, IdleFacts DEF SessionsTypeOK, Done, j
<1>3. worker' \in [Workers -> Job] BY <1>1, ServeFacts, IdleFacts DEF SessionsTypeOK, Done, j
<1>4. SessionsTypeOK' BY <1>3 DEF SessionsTypeOK
<1>5. NumberInv' BY DEF NumberInv
<1>6. TakenInv' BY <1>1, <1>2, IdleFacts DEF TakenInv, Taker
<1>7. InsertInv' BY <1>1, <1>2, IdleFacts, OtherInserts DEF InsertInv
<1>8. LockInv' /\ DeniedInv' BY <1>1, <1>2, IdleFacts, OtherLocks DEF LockPcs
<1>9. ChallengeAnsweredOnce' BY DEF ChallengeAnsweredOnce
<1>10. GrantedSessionsDurable' BY DEF GrantedSessionsDurable
<1>. QED BY <1>4, <1>5, <1>6, <1>7, <1>8, <1>9, <1>10

\* The new session's number was never answered; what leaves the map has expired or
\* is displaced.
LEMMA InsertSessionPreserves ==
    ASSUME SessionsIInv, NEW w \in Workers, InsertSession(w) PROVE SessionsIInv'
<1>. USE DEF SessionsIInv
<1>. DEFINE job == worker[w]
            new == [id |-> job.challenge.id, who |-> job.challenge.who,
                    device |-> job.challenge.device, expires |-> job.start + SessionTTL]
            j == [pc |-> "insertPersist", session |-> new]
<1>1. /\ job.pc = "insert" /\ job.challenge \in Challenge /\ job.start \in 0..MaxTime
      /\ job.start <= clock /\ clock \in Nat /\ issued \in Nat
  <2>1. worker[w] \in Job /\ worker[w].pc = "insert" BY DEF SessionsTypeOK, InsertSession
  <2>2. worker[w] \in [pc : {"issuePersist", "removePersist", "check", "insert"},
                       challenge : Challenge, start : 0..MaxTime]
    BY <2>1, JobShape
  <2>3. Taker(w) BY <2>1 DEF Taker
  <2>4. clock \in Nat /\ issued \in Nat BY SessionConsts DEF SessionsTypeOK
  <2>. QED BY <2>1, <2>2, <2>3, <2>4 DEF TakenInv
<1>2. new \in Session /\ new.id = job.challenge.id
  BY <1>1, SessionConsts DEF Session, Challenge
<1>3. j \in Job /\ j.pc = "insertPersist" /\ j.session = new BY <1>2 DEF Job
<1>4. /\ worker'[w] = j /\ \A v \in Workers \ {w} : worker'[v] = worker[v]
      /\ worker' \in [Workers -> Job]
  BY <1>3, ServeFacts DEF SessionsTypeOK, InsertSession
<1>5. /\ new \in sessions' /\ sessions' \subseteq sessions \cup {new}
      /\ ended \subseteq ended' /\ ended' \subseteq ended \cup sessions
      /\ \A s \in sessions : s \in sessions' \/ s \in ended' \/ ~(s.expires > job.start)
      /\ answered' = answered \cup {new}
  BY DEF InsertSession
<1>6. /\ UNCHANGED <<enrolled, enrolledFile, challenges, challengesFile, sessionsFile, clock>>
      /\ UNCHANGED <<issued, adminCalls, sessionFaults, granted, denied>>
  BY DEF InsertSession
<1>7. /\ \A s \in answered : s.id # new.id
      /\ \A c \in challenges \cup challengesFile : c.id # new.id
      /\ \A v \in Workers \ {w} : Taker(v) => worker[v].challenge.id # new.id
      /\ new.id <= issued
  BY <1>1, <1>2 DEF TakenInv, Taker
<1>8. new \notin answered BY <1>7
<1>9. \A s \in sessions : s.expires \in Nat BY SessionConsts DEF SessionsTypeOK, Session
<1>10. \A s \in sessions : s \in sessions' \/ s \in ended' \/ s.expires <= clock
  BY <1>1, <1>5, <1>9
<1>. HIDE DEF job, new, j
<1>11. SessionsTypeOK' BY <1>2, <1>4, <1>5, <1>6 DEF SessionsTypeOK
<1>12. NumberInv' BY <1>5, <1>6, <1>7 DEF NumberInv
<1>13. TakenInv'
  BY <1>3, <1>4, <1>5, <1>6, <1>7 DEF TakenInv, Taker
<1>14. InsertInv'
  <2>1. new \notin granted BY <1>8 DEF SessionsTypeOK
  <2>2. \A v \in Workers \ {w} : worker[v].pc = "insertPersist" =>
            /\ worker[v].session \in answered /\ worker[v].session # new
    BY <1>8 DEF InsertInv
  <2>3. \A v \in Workers \ {w} : worker[v].pc = "insertPersist" =>
            \/ worker[v].session \in sessions' \/ worker[v].session \in ended'
            \/ worker[v].session.expires <= clock
    BY <1>5, <1>10 DEF InsertInv
  <2>. QED BY <1>3, <1>4, <1>5, <1>6, <2>1, <2>2, <2>3 DEF InsertInv
<1>15. LockInv' /\ DeniedInv' BY <1>3, <1>4, <1>6, OtherLocks DEF LockPcs
<1>16. ChallengeAnsweredOnce' BY <1>5, <1>6, <1>7 DEF ChallengeAnsweredOnce
<1>17. GrantedSessionsDurable'
  <2>1. \A s \in granted : s.expires \in Nat BY SessionConsts DEF SessionsTypeOK, Session
  <2>. QED BY <1>1, <1>5, <1>6, <1>10, <2>1 DEF GrantedSessionsDurable
<1>. QED BY <1>11, <1>12, <1>13, <1>14, <1>15, <1>16, <1>17

\* A failed insert takes back its own session, which nobody was granted.
LEMMA InsertPersistPreserves ==
    ASSUME SessionsIInv, NEW w \in Workers, InsertPersist(w) PROVE SessionsIInv'
<1>. USE DEF SessionsIInv, InsertPersist
<1>. DEFINE new == worker[w].session
<1>1. /\ worker'[w] = Idle /\ \A v \in Workers \ {w} : worker'[v] = worker[v]
      /\ worker' \in [Workers -> Job]
  BY ServeFacts, IdleFacts DEF SessionsTypeOK, Done
<1>2. /\ new \in answered /\ new \notin granted
      /\ new \in sessions \/ new \in ended \/ new.expires <= clock
      /\ \A v \in Workers \ {w} : worker[v].pc = "insertPersist" => worker[v].session # new
  BY DEF InsertInv
<1>3. \/ /\ sessionsFile' = sessions /\ granted' = granted \cup {new} /\ sessions' = sessions
      \/ /\ sessionsFile' \in {sessionsFile, sessions}
         /\ sessions' = sessions \ {new} /\ granted' = granted
  BY DEF Write
<1>4. sessionFaults' \in 0..SessionFaults BY WriteFaults DEF Write, SessionsTypeOK
<1>. HIDE DEF new
<1>5. SessionsTypeOK' BY <1>1, <1>2, <1>3, <1>4 DEF SessionsTypeOK
<1>6. NumberInv' BY DEF NumberInv
<1>7. TakenInv' BY <1>1, IdleFacts, SessionConsts, OtherTakers DEF SessionsTypeOK
<1>8. InsertInv' BY <1>1, <1>2, <1>3, IdleFacts, OtherInserts DEF InsertInv
<1>9. LockInv' /\ DeniedInv' BY <1>1, IdleFacts, OtherLocks DEF LockPcs
<1>10. ChallengeAnsweredOnce' BY DEF ChallengeAnsweredOnce
<1>11. GrantedSessionsDurable'
  <2>1. clock \in Nat /\ \A s \in answered : s.expires \in Nat
    BY SessionConsts DEF SessionsTypeOK, Session
  <2>2. ~(new.expires <= clock /\ new.expires > clock) BY <1>2, <2>1
  <2>. QED BY <1>2, <1>3, <2>2 DEF GrantedSessionsDurable
<1>. QED BY <1>5, <1>6, <1>7, <1>8, <1>9, <1>10, <1>11

LEMMA RevokeSessionPreserves ==
    ASSUME SessionsIInv, NEW w \in Workers, NEW s \in sessions, RevokeSession(w, s)
    PROVE  SessionsIInv'
<1>. USE DEF SessionsIInv, RevokeSession
<1>. DEFINE j == [pc |-> "endPersist", who |-> s.who, removed |-> {s}]
<1>1. s \in Session /\ s.who \in Identities BY DEF SessionsTypeOK, Session
<1>2. j \in Job /\ j.pc = "endPersist" BY <1>1 DEF Job
<1>. HIDE DEF j
<1>3. /\ worker'[w] = j /\ \A v \in Workers \ {w} : worker'[v] = worker[v]
      /\ worker' \in [Workers -> Job]
  BY <1>2, ServeFacts DEF SessionsTypeOK, j
<1>4. SessionsTypeOK' BY <1>1, <1>3 DEF SessionsTypeOK
<1>5. NumberInv' BY DEF NumberInv
<1>6. TakenInv' BY <1>2, <1>3, SessionConsts, OtherTakers DEF SessionsTypeOK
<1>7. InsertInv' BY <1>2, <1>3, OtherInserts DEF InsertInv
<1>8. LockInv' /\ DeniedInv' BY <1>2, <1>3, OtherLocks DEF LockPcs
<1>9. ChallengeAnsweredOnce' BY DEF ChallengeAnsweredOnce
<1>10. GrantedSessionsDurable' BY DEF GrantedSessionsDurable
<1>. QED BY <1>4, <1>5, <1>6, <1>7, <1>8, <1>9, <1>10

\* A restart forgets the requests and loads what the files say.
LEMMA SessionsCrashPreserves ==
    ASSUME SessionsIInv, SessionsCrash PROVE SessionsIInv'
<1>. USE DEF SessionsIInv, SessionsCrash
<1>1. \A w \in Workers : worker'[w].pc = "idle" BY IdleFacts
<1>2. SessionsTypeOK'
  <2>1. worker' \in [Workers -> Job] BY IdleFacts
  <2>2. sessionFaults' \in 0..SessionFaults BY WriteFaults DEF SessionsTypeOK
  <2>. QED BY <2>1, <2>2 DEF SessionsTypeOK
<1>3. NumberInv' BY DEF NumberInv
<1>4. TakenInv' /\ InsertInv' /\ LockInv' BY <1>1 DEF TakenInv, Taker, InsertInv, LockInv, LockPcs
<1>5. DeniedInv' BY DEF DeniedInv
<1>6. ChallengeAnsweredOnce' BY DEF ChallengeAnsweredOnce
<1>7. GrantedSessionsDurable' BY DEF GrantedSessionsDurable
<1>. QED BY <1>2, <1>3, <1>4, <1>5, <1>6, <1>7

LEMMA SessionsTickPreserves ==
    ASSUME SessionsIInv, SessionsTick PROVE SessionsIInv'
<1>. USE DEF SessionsIInv, SessionsTick
<1>1. clock \in Nat /\ clock' = clock + 1 /\ clock' \in 0..MaxTime
  BY SessionConsts DEF SessionsTypeOK
<1>2. SessionsTypeOK' BY <1>1 DEF SessionsTypeOK
<1>3. NumberInv' BY DEF NumberInv
<1>4. TakenInv'
  <2>1. \A w \in Workers : Taker(w) => worker[w].start \in Nat
    BY JobShape, SessionConsts DEF SessionsTypeOK, Taker
  <2>. QED BY <1>1, <2>1 DEF TakenInv, Taker
<1>5. InsertInv'
  <2>1. \A s \in answered : s.expires \in Nat BY SessionConsts DEF SessionsTypeOK, Session
  <2>. QED BY <1>1, <2>1 DEF InsertInv
<1>6. LockInv' /\ DeniedInv' BY DEF LockInv, DeniedInv
<1>7. ChallengeAnsweredOnce' BY DEF ChallengeAnsweredOnce
<1>8. GrantedSessionsDurable'
  <2>1. \A s \in granted : s.expires \in Nat BY SessionConsts DEF SessionsTypeOK, Session
  <2>. QED BY <1>1, <2>1 DEF GrantedSessionsDurable
<1>. QED BY <1>2, <1>3, <1>4, <1>5, <1>6, <1>7, <1>8

-----------------------------------------------------------------------------
(* Sessions: the theorem *)

LEMMA SessionsInitIInv == ASSUME SessionsInit PROVE SessionsIInv
<1>. USE DEF SessionsInit
<1>1. \A w \in Workers : worker[w].pc = "idle" BY IdleFacts
<1>2. SessionsTypeOK
  <2>1. worker \in [Workers -> Job] BY IdleFacts
  <2>2. enrolled \in [Identities -> Identity] BY SessionConsts DEF Identity
  <2>3. clock \in 0..MaxTime /\ issued \in 0..MaxIssued /\ adminCalls \in 0..MaxAdmin
        /\ sessionFaults \in 0..SessionFaults
    BY SessionConsts
  <2>. QED BY <2>1, <2>2, <2>3 DEF SessionsTypeOK
<1>3. TakenInv /\ InsertInv /\ LockInv BY <1>1 DEF TakenInv, Taker, InsertInv, LockInv, LockPcs
<1>4. NumberInv /\ DeniedInv /\ ChallengeAnsweredOnce /\ GrantedSessionsDurable
  BY DEF NumberInv, DeniedInv, ChallengeAnsweredOnce, GrantedSessionsDurable
<1>. QED BY <1>2, <1>3, <1>4 DEF SessionsIInv

LEMMA SessionsNextPreserves ==
    ASSUME SessionsIInv, [SessionsNext]_sessionsVars PROVE SessionsIInv'
<1>1. CASE \E w \in Workers : SessionsStep(w)
  BY <1>1, EnrollIdentityPreserves, EnrollPersistPreserves, RevokeIdentityPreserves,
     RevokePersistPreserves, DropSessionsPreserves, PersistRemovalPreserves,
     IssueChallengePreserves, IssuePersistPreserves, TakeChallengePreserves,
     RemovePersistPreserves, CheckAnswerPreserves, InsertSessionPreserves,
     InsertPersistPreserves, RevokeSessionPreserves DEF SessionsStep
<1>2. CASE SessionsCrash BY <1>2, SessionsCrashPreserves
<1>3. CASE SessionsTick BY <1>3, SessionsTickPreserves
<1>4. CASE UNCHANGED sessionsVars
  <2>. USE <1>4 DEF sessionsVars, SessionsIInv
  <2>1. SessionsTypeOK' BY DEF SessionsTypeOK
  <2>2. NumberInv' /\ TakenInv' BY DEF NumberInv, TakenInv, Taker
  <2>3. InsertInv' /\ LockInv' /\ DeniedInv' BY DEF InsertInv, LockInv, DeniedInv
  <2>4. ChallengeAnsweredOnce' /\ GrantedSessionsDurable'
    BY DEF ChallengeAnsweredOnce, GrantedSessionsDurable
  <2>. QED BY <2>1, <2>2, <2>3, <2>4
<1>. QED BY <1>1, <1>2, <1>3, <1>4 DEF SessionsNext

\* However logins, logouts, enrolments, revocations, failed writes and restarts
\* overlap: a challenge is answered at most once, an acknowledged revocation shuts
\* out every session of the identity, and a token that reached its client stays.
THEOREM OperatorSessionsSafety == SessionsSpec => []SessionsSound
<1>1. SessionsInit => SessionsIInv BY SessionsInitIInv
<1>2. SessionsIInv /\ [SessionsNext]_sessionsVars => SessionsIInv' BY SessionsNextPreserves
<1>3. SessionsIInv => SessionsSound
  <2>1. SessionsIInv => RevocationHolds
    BY DEF SessionsIInv, DeniedInv, RevocationHolds, SessionAuthorized
  <2>. QED BY <2>1 DEF SessionsIInv, SessionsSound
<1>. QED BY <1>1, <1>2, <1>3, PTL DEF SessionsSpec

-----------------------------------------------------------------------------
(* Approvals: one lemma per operation *)

LEMMA RequestFacts ==
    ASSUME NEW r \in Receipt
    PROVE  /\ r.over \in Requests /\ r.over # NoRequest /\ r.over.id \in RequestIds
           /\ r.over.expires \in Nat
BY ApprovalsAssumption DEF Receipt, RequestIds

\* Dropping what expired keeps a page or empties it, and keeps a page that lasts.
LEMMA UnexpiredFacts ==
    ASSUME NEW pages \in [RequestIds -> ApprovalPage]
    PROVE  /\ Unexpired(pages) \in [RequestIds -> ApprovalPage]
           /\ \A i \in RequestIds :
                /\ Unexpired(pages)[i] \in {pages[i], NoPage}
                /\ (pages[i].about \in Requests /\ pages[i].about.expires > minute) =>
                       Unexpired(pages)[i] = pages[i]
<1>1. NoPage \in ApprovalPage BY DEF NoPage, ApprovalPage
<1>2. NoPage.about \notin Requests BY ApprovalsAssumption DEF NoPage
<1>. QED BY <1>1, <1>2 DEF Unexpired

LEMMA BookSaveFailsFacts ==
    ASSUME ApprovalsTypeOK, NEW h \in Hosts, NEW pages \in [RequestIds -> ApprovalPage],
           BookSaveFails(h, pages)
    PROVE  /\ bookFile' \in [Hosts -> [RequestIds -> ApprovalPage]] /\ approvalFaults' \in 0..ApprovalFaults
           /\ bookFile'[h] \in {bookFile[h], pages}
           /\ \A k \in Hosts \ {h} : bookFile'[k] = bookFile[k]
BY ApprovalsAssumption DEF ApprovalsTypeOK, BookSaveFails

LEMMA BookSavedFacts ==
    ASSUME ApprovalsTypeOK, NEW h \in Hosts, NEW pages \in [RequestIds -> ApprovalPage],
           BookSaved(h, pages)
    PROVE  /\ bookFile' \in [Hosts -> [RequestIds -> ApprovalPage]] /\ approvalFaults' \in 0..ApprovalFaults
           /\ bookFile'[h] = pages
           /\ \A k \in Hosts \ {h} : bookFile'[k] = bookFile[k]
BY DEF ApprovalsTypeOK, BookSaved

\* What a page of one operator may be.
PageOK(page, i) ==
    /\ page.about # NoRequest => page.about.id = i
    /\ \A r \in page.receipts : r.over = page.about

LEMMA NoPageOK == ASSUME NEW i PROVE PageOK(NoPage, i)
BY DEF PageOK, NoPage

LEMMA RegisterChallengePreserves ==
    ASSUME ApprovalsIInv, NEW h \in Hosts, NEW c \in Requests, RegisterChallenge(h, c)
    PROVE  ApprovalsIInv'
<1>. DEFINE fresh == Unexpired(book[h])
            new == [fresh EXCEPT ![c.id] = RegisteredPage(h, c)]
            none == [new EXCEPT ![c.id] = NoPage]
<1>1. ApprovalsTypeOK /\ PageInv(book) /\ PageInv(bookFile) /\ AcceptedInv BY DEF ApprovalsIInv
<1>2. c.id \in RequestIds /\ c # NoRequest BY ApprovalsAssumption DEF RequestIds
<1>3. book[h] \in [RequestIds -> ApprovalPage] BY <1>1 DEF ApprovalsTypeOK
<1>4. RegisteredPage(h, c) \in ApprovalPage /\ NoPage \in ApprovalPage
  BY DEF RegisteredPage, ApprovalPage, NoPage
<1>5. fresh \in [RequestIds -> ApprovalPage] BY <1>3, UnexpiredFacts
<1>6. new \in [RequestIds -> ApprovalPage] /\ none \in [RequestIds -> ApprovalPage]
  BY <1>4, <1>5
<1>7. /\ \A i \in RequestIds \ {c.id} : new[i] = fresh[i] /\ none[i] = fresh[i]
      /\ new[c.id] = RegisteredPage(h, c) /\ none[c.id] = NoPage
  BY <1>2, <1>5
<1>8. \A i \in RequestIds : fresh[i] \in {book[h][i], NoPage} BY <1>3, UnexpiredFacts
<1>9. PageOK(RegisteredPage(h, c), c.id) BY DEF PageOK, RegisteredPage
<1>10. \A i \in RequestIds : PageOK(book[h][i], i) BY <1>1 DEF PageInv, PageOK
<1>11. \A i \in RequestIds : PageOK(new[i], i) /\ PageOK(none[i], i)
  <2>. SUFFICES ASSUME NEW i \in RequestIds PROVE PageOK(new[i], i) /\ PageOK(none[i], i)
    OBVIOUS
  <2>1. PageOK(fresh[i], i)
    <3>. HIDE DEF fresh
    <3>. QED BY <1>8, <1>10, NoPageOK
  <2>. HIDE DEF new, none, fresh
  <2>. QED BY <1>7, <1>9, <2>1, NoPageOK
<1>12. /\ book' \in [Hosts -> [RequestIds -> ApprovalPage]] /\ book'[h] \in {new, none}
       /\ \A k \in Hosts \ {h} : book'[k] = book[k]
  <2>. HIDE DEF new
  <2>1. \/ book' = [book EXCEPT ![h] = new]
        \/ book' = [book EXCEPT ![h] = none]
    BY DEF RegisterChallenge, new, fresh
  <2>. HIDE DEF none
  <2>. QED BY <1>1, <1>6, <2>1 DEF ApprovalsTypeOK
<1>13. /\ bookFile' \in [Hosts -> [RequestIds -> ApprovalPage]] /\ approvalFaults' \in 0..ApprovalFaults
       /\ bookFile'[h] \in {bookFile[h], new}
       /\ \A k \in Hosts \ {h} : bookFile'[k] = bookFile[k]
  <2>. HIDE DEF new
  <2>1. BookSaved(h, new) \/ BookSaveFails(h, new) BY DEF RegisterChallenge, new, fresh
  <2>. QED BY <1>1, <1>6, <2>1, BookSavedFacts, BookSaveFailsFacts
<1>. HIDE DEF new, none, fresh
<1>14. /\ accepted' \in [Hosts -> SUBSET Receipt] /\ accepted'[h] = {r \in accepted[h] : r.over.id # c.id}
       /\ \A k \in Hosts \ {h} : accepted'[k] = accepted[k]
  BY <1>1 DEF ApprovalsTypeOK, RegisterChallenge
<1>15. ApprovalsTypeOK'
  <2>1. UNCHANGED <<submissions, minute, signed>> /\ registered' \in 0..MaxRegistered
    BY <1>1, ApprovalsAssumption DEF ApprovalsTypeOK, RegisterChallenge
  <2>. QED BY <1>1, <1>12, <1>13, <1>14, <2>1 DEF ApprovalsTypeOK
<1>16. PageInv(book)'
  <2>. SUFFICES ASSUME NEW k \in Hosts, NEW i \in RequestIds PROVE PageOK(book'[k][i], i)
    BY DEF PageInv, PageOK
  <2>1. PageOK(book[k][i], i) BY <1>1 DEF PageInv, PageOK
  <2>. QED BY <2>1, <1>11, <1>12
<1>17. PageInv(bookFile)'
  <2>. SUFFICES ASSUME NEW k \in Hosts, NEW i \in RequestIds PROVE PageOK(bookFile'[k][i], i)
    BY DEF PageInv, PageOK
  <2>1. PageOK(bookFile[k][i], i) BY <1>1 DEF PageInv, PageOK
  <2>. QED BY <2>1, <1>11, <1>13
<1>18. AcceptedInv'
  <2>0. minute' = minute BY DEF RegisterChallenge
  <2>. SUFFICES ASSUME NEW k \in Hosts, NEW r \in accepted'[k], r.over.expires > minute
               PROVE  /\ book'[k][r.over.id].about = r.over /\ bookFile'[k][r.over.id].about = r.over
                      /\ \E q \in book'[k][r.over.id].receipts \cap bookFile'[k][r.over.id].receipts : q.by = r.by
    BY <2>0 DEF AcceptedInv
  <2>. SUFFICES /\ book'[k][r.over.id] = book[k][r.over.id]
                /\ bookFile'[k][r.over.id] \in {bookFile[k][r.over.id], book[k][r.over.id]}
                /\ r \in accepted[k]
    <3>1. ASSUME r \in accepted[k]
          PROVE  /\ book[k][r.over.id].about = r.over /\ bookFile[k][r.over.id].about = r.over
                 /\ \E q \in book[k][r.over.id].receipts \cap bookFile[k][r.over.id].receipts : q.by = r.by
      BY <1>1, <3>1 DEF AcceptedInv
    <3>. QED BY <3>1
  <2>1. CASE k # h BY <2>1, <1>12, <1>13, <1>14
  <2>2. CASE k = h
    <3>1. r \in accepted[h] /\ r.over.id # c.id BY <2>2, <1>14
    <3>2. r \in Receipt BY <1>1, <3>1 DEF ApprovalsTypeOK
    <3>3. book[h][r.over.id].about = r.over /\ r.over \in Requests /\ r.over.id \in RequestIds
      BY <1>1, <3>1, <3>2, RequestFacts DEF AcceptedInv
    <3>4. fresh[r.over.id] = book[h][r.over.id] BY <1>3, <3>3, UnexpiredFacts DEF fresh
    <3>. QED BY <2>2, <3>1, <3>3, <3>4, <1>7, <1>12, <1>13
  <2>. QED BY <2>1, <2>2
<1>. QED BY <1>15, <1>16, <1>17, <1>18 DEF ApprovalsIInv

\* Steps that leave the pages and the acknowledgements alone.
LEMMA ApproveSignPreserves ==
    ASSUME ApprovalsIInv, NEW a \in Approvers, NEW h \in Hosts, NEW i \in RequestIds, ApproveSign(a, h, i)
    PROVE  ApprovalsIInv'
<1>. USE DEF ApprovalsIInv, ApproveSign
<1>1. ApprovalsTypeOK'
  <2>1. book[h][i].about \in Requests BY DEF ApprovalsTypeOK, ApprovalPage
  <2>2. submissions' \subseteq Submission
    <3>1. [over |-> book[h][i].about, by |-> a] \in Receipt BY <2>1 DEF Receipt
    <3>2. \A k \in Hosts :
             [host |-> k, receipt |-> [over |-> book[h][i].about, by |-> a], checked |-> FALSE] \in Submission
      BY <3>1 DEF Submission
    <3>. QED BY <3>2 DEF ApprovalsTypeOK
  <2>3. signed' \in 0..MaxSigned BY ApprovalsAssumption DEF ApprovalsTypeOK
  <2>. QED BY <2>2, <2>3 DEF ApprovalsTypeOK
<1>. QED BY <1>1 DEF PageInv, AcceptedInv

LEMMA CheckScopePreserves ==
    ASSUME ApprovalsIInv, NEW s \in submissions, CheckScope(s) PROVE ApprovalsIInv'
<1>. USE DEF ApprovalsIInv, CheckScope
<1>1. ApprovalsTypeOK'
  <2>1. submissions' \subseteq Submission BY DEF ApprovalsTypeOK, Submission
  <2>. QED BY <2>1 DEF ApprovalsTypeOK
<1>. QED BY <1>1 DEF PageInv, AcceptedInv

LEMMA SubmitRefusedPreserves ==
    ASSUME ApprovalsIInv, NEW s \in submissions, SubmitRefused(s) PROVE ApprovalsIInv'
<1>. USE DEF ApprovalsIInv, SubmitRefused
<1>1. ApprovalsTypeOK' BY DEF ApprovalsTypeOK
<1>. QED BY <1>1 DEF PageInv, AcceptedInv

LEMMA NextMinutePreserves ==
    ASSUME ApprovalsIInv, NextMinute PROVE ApprovalsIInv'
<1>. USE DEF ApprovalsIInv, NextMinute
<1>1. minute \in Nat /\ minute' = minute + 1 /\ minute' \in 0..MaxMinute
  BY ApprovalsAssumption DEF ApprovalsTypeOK
<1>2. ApprovalsTypeOK' BY <1>1 DEF ApprovalsTypeOK
<1>3. AcceptedInv'
  <2>1. \A h \in Hosts : \A r \in accepted[h] : r.over.expires \in Nat
    BY RequestFacts DEF ApprovalsTypeOK
  <2>. QED BY <1>1, <2>1 DEF AcceptedInv
<1>. QED BY <1>2, <1>3 DEF PageInv

\* A receipt joins the page it was signed for, and the file becomes the page.
LEMMA SubmitReceiptPreserves ==
    ASSUME ApprovalsIInv, NEW s \in submissions, SubmitReceipt(s) PROVE ApprovalsIInv'
<1>. DEFINE h == s.host
            r == s.receipt
            page == book[h][r.over.id]
            known == \E q \in page.receipts : q.by = r.by
            more == IF known THEN page.receipts ELSE page.receipts \cup {r}
            new == [book[h] EXCEPT ![r.over.id].receipts = IF known THEN @ ELSE @ \cup {r}]
<1>1. ApprovalsTypeOK /\ PageInv(book) /\ PageInv(bookFile) /\ AcceptedInv BY DEF ApprovalsIInv
<1>2. s \in Submission BY <1>1 DEF ApprovalsTypeOK
<1>3. h \in Hosts /\ r \in Receipt BY <1>2 DEF Submission
<1>4. r.over.id \in RequestIds /\ r.over \in Requests BY <1>3, RequestFacts
<1>5. book[h] \in [RequestIds -> ApprovalPage] /\ page \in ApprovalPage
  BY <1>1, <1>3, <1>4 DEF ApprovalsTypeOK
<1>6. page.about = r.over BY DEF SubmitReceipt, Verifies
<1>7. more \in SUBSET Receipt /\ page.receipts \subseteq more /\ more \subseteq page.receipts \cup {r}
  BY <1>3, <1>5 DEF ApprovalPage
<1>8. \E q \in more : q.by = r.by OBVIOUS
<1>9. new = [book[h] EXCEPT ![r.over.id] = [page EXCEPT !.receipts = more]] OBVIOUS
<1>. DEFINE grown == [page EXCEPT !.receipts = more]
<1>10. grown \in ApprovalPage /\ grown.about = r.over /\ grown.receipts = more
  <2>. HIDE DEF more
  <2>. QED BY <1>5, <1>6, <1>7 DEF ApprovalPage
<1>11. /\ new \in [RequestIds -> ApprovalPage] /\ new[r.over.id] = grown
       /\ \A i \in RequestIds \ {r.over.id} : new[i] = book[h][i]
  <2>1. new = [book[h] EXCEPT ![r.over.id] = grown] BY <1>9
  <2>. HIDE DEF grown, new
  <2>. QED BY <2>1, <1>4, <1>5, <1>10
<1>12. PageOK(grown, r.over.id)
  <2>1. \A q \in page.receipts : q.over = page.about BY <1>1, <1>3, <1>4 DEF PageInv
  <2>2. \A q \in more : q.over = r.over BY <2>1, <1>6, <1>7
  <2>. QED BY <2>2, <1>10 DEF PageOK
<1>13. \/ book' = [book EXCEPT ![h] = new] /\ BookSaved(h, new) /\ accepted' = [accepted EXCEPT ![h] = @ \cup {r}]
       \/ BookSaveFails(h, new) /\ UNCHANGED <<book, accepted>>
  BY DEF SubmitReceipt
<1>14. UNCHANGED <<minute, registered, signed>> /\ submissions' = submissions \ {s}
  BY DEF SubmitReceipt
<1>15. \A q \in accepted[h] : q.over.expires > minute =>
          /\ new[q.over.id].about = q.over /\ book[h][q.over.id].receipts \subseteq new[q.over.id].receipts
  <2>. SUFFICES ASSUME NEW q \in accepted[h], q.over.expires > minute
               PROVE  /\ new[q.over.id].about = q.over
                      /\ book[h][q.over.id].receipts \subseteq new[q.over.id].receipts
    OBVIOUS
  <2>1. q \in Receipt BY <1>1, <1>3 DEF ApprovalsTypeOK
  <2>2. q.over.id \in RequestIds /\ book[h][q.over.id].about = q.over
    BY <2>1, <1>1, <1>3, RequestFacts DEF AcceptedInv
  <2>3. CASE q.over.id = r.over.id
    <3>1. page = book[h][q.over.id] BY <2>3
    <3>2. new[q.over.id] = grown BY <2>3, <1>11
    <3>. HIDE DEF grown, new, page, more
    <3>. QED BY <3>1, <3>2, <2>2, <1>6, <1>7, <1>10
  <2>4. CASE q.over.id # r.over.id
    <3>. HIDE DEF grown, new
    <3>. QED BY <2>4, <2>2, <1>11
  <2>. QED BY <2>3, <2>4
<1>. HIDE DEF grown, new
<1>16. PageOK(grown, r.over.id) /\ \A i \in RequestIds : PageOK(new[i], i)
  <2>1. \A i \in RequestIds : PageOK(book[h][i], i) BY <1>1, <1>3 DEF PageInv, PageOK
  <2>. QED BY <2>1, <1>11, <1>12
<1>17. CASE book' = [book EXCEPT ![h] = new] /\ BookSaved(h, new) /\ accepted' = [accepted EXCEPT ![h] = @ \cup {r}]
  <2>1. /\ book' \in [Hosts -> [RequestIds -> ApprovalPage]] /\ book'[h] = new
        /\ \A k \in Hosts \ {h} : book'[k] = book[k]
    BY <1>17, <1>1, <1>3, <1>11 DEF ApprovalsTypeOK
  <2>2. /\ bookFile' \in [Hosts -> [RequestIds -> ApprovalPage]] /\ approvalFaults' \in 0..ApprovalFaults
        /\ bookFile'[h] = new /\ \A k \in Hosts \ {h} : bookFile'[k] = bookFile[k]
    BY <1>17, <1>1, <1>3, <1>11, BookSavedFacts
  <2>3. /\ accepted' \in [Hosts -> SUBSET Receipt] /\ accepted'[h] = accepted[h] \cup {r}
        /\ \A k \in Hosts \ {h} : accepted'[k] = accepted[k]
    BY <1>17, <1>1, <1>3 DEF ApprovalsTypeOK
  <2>4. ApprovalsTypeOK' BY <1>1, <1>14, <2>1, <2>2, <2>3 DEF ApprovalsTypeOK
  <2>5. PageInv(book)' /\ PageInv(bookFile)'
    <3>. HIDE DEF h
    <3>1. \A k \in Hosts, i \in RequestIds : PageOK(book[k][i], i) /\ PageOK(bookFile[k][i], i)
      BY <1>1 DEF PageInv, PageOK
    <3>2. \A k \in Hosts, i \in RequestIds : PageOK(book'[k][i], i) /\ PageOK(bookFile'[k][i], i)
      BY <3>1, <1>16, <2>1, <2>2
    <3>. QED BY <3>2 DEF PageInv, PageOK
  <2>6. AcceptedInv'
    <3>. SUFFICES ASSUME NEW k \in Hosts, NEW q \in accepted'[k], q.over.expires > minute
                 PROVE  /\ book'[k][q.over.id].about = q.over /\ bookFile'[k][q.over.id].about = q.over
                        /\ \E t \in book'[k][q.over.id].receipts \cap bookFile'[k][q.over.id].receipts : t.by = q.by
      BY <1>14 DEF AcceptedInv
    <3>1. CASE k # h
      <4>. HIDE DEF h
      <4>1. book'[k] = book[k] /\ bookFile'[k] = bookFile[k] /\ q \in accepted[k] BY <3>1, <2>1, <2>2, <2>3
      <4>. QED BY <4>1, <1>1 DEF AcceptedInv
    <3>2. CASE k = h /\ q = r
      <4>1. new[r.over.id].about = r.over /\ \E t \in new[r.over.id].receipts : t.by = r.by
        BY <1>8, <1>10, <1>11
      <4>. HIDE DEF h, r
      <4>. QED BY <3>2, <4>1, <2>1, <2>2
    <3>3. CASE k = h /\ q \in accepted[h]
      <4>. HIDE DEF h
      <4>1. \E t \in book[h][q.over.id].receipts : t.by = q.by BY <3>3, <1>1, <1>3 DEF AcceptedInv
      <4>2. /\ new[q.over.id].about = q.over
            /\ book[h][q.over.id].receipts \subseteq new[q.over.id].receipts
        BY <3>3, <1>15
      <4>. QED BY <3>3, <4>1, <4>2, <2>1, <2>2
    <3>. QED BY <3>1, <3>2, <3>3, <2>3
  <2>. QED BY <2>4, <2>5, <2>6 DEF ApprovalsIInv
<1>18. CASE BookSaveFails(h, new) /\ UNCHANGED <<book, accepted>>
  <2>1. /\ bookFile' \in [Hosts -> [RequestIds -> ApprovalPage]] /\ approvalFaults' \in 0..ApprovalFaults
        /\ bookFile'[h] \in {bookFile[h], new} /\ \A k \in Hosts \ {h} : bookFile'[k] = bookFile[k]
    BY <1>18, <1>1, <1>3, <1>11, BookSaveFailsFacts
  <2>2. ApprovalsTypeOK' BY <1>1, <1>14, <1>18, <2>1 DEF ApprovalsTypeOK
  <2>3. PageInv(book)' BY <1>1, <1>18 DEF PageInv
  <2>4. PageInv(bookFile)' BY <1>1, <1>16, <2>1 DEF PageInv, PageOK
  <2>5. AcceptedInv'
    <3>. SUFFICES ASSUME NEW k \in Hosts, NEW q \in accepted[k], q.over.expires > minute
                 PROVE  /\ bookFile'[k][q.over.id].about = q.over
                        /\ \E t \in book[k][q.over.id].receipts \cap bookFile'[k][q.over.id].receipts : t.by = q.by
      BY <1>1, <1>14, <1>18 DEF AcceptedInv
    <3>1. CASE k # h \/ bookFile'[h] = bookFile[h] BY <3>1, <1>1, <2>1 DEF AcceptedInv
    <3>2. CASE k = h /\ bookFile'[h] = new
      <4>. HIDE DEF h
      <4>1. \E t \in book[h][q.over.id].receipts : t.by = q.by BY <3>2, <1>1, <1>3 DEF AcceptedInv
      <4>2. /\ new[q.over.id].about = q.over
            /\ book[h][q.over.id].receipts \subseteq new[q.over.id].receipts
        BY <3>2, <1>15
      <4>. QED BY <3>2, <4>1, <4>2
    <3>. QED BY <3>1, <3>2, <2>1
  <2>. QED BY <2>2, <2>3, <2>4, <2>5 DEF ApprovalsIInv
<1>. QED BY <1>13, <1>17, <1>18

\* A restart loads the file; what it verifies again was verified before.
LEMMA ApprovalsCrashPreserves ==
    ASSUME ApprovalsIInv, NEW h \in Hosts, ApprovalsCrash(h) PROVE ApprovalsIInv'
<1>. DEFINE loaded == Unexpired(bookFile[h])
            kept(i) == {r \in loaded[i].receipts : Verifies(r, loaded[i].about)}
            new == [i \in RequestIds |-> [loaded[i] EXCEPT !.receipts = {r \in @ : Verifies(r, loaded[i].about)}]]
<1>1. ApprovalsTypeOK /\ PageInv(book) /\ PageInv(bookFile) /\ AcceptedInv BY DEF ApprovalsIInv
<1>2. bookFile[h] \in [RequestIds -> ApprovalPage] BY <1>1 DEF ApprovalsTypeOK
<1>3. loaded \in [RequestIds -> ApprovalPage] BY <1>2, UnexpiredFacts
<1>4. \A i \in RequestIds : loaded[i] \in {bookFile[h][i], NoPage} BY <1>2, UnexpiredFacts
<1>5. \A i \in RequestIds : PageOK(loaded[i], i)
  <2>1. \A i \in RequestIds : PageOK(bookFile[h][i], i) BY <1>1 DEF PageInv, PageOK
  <2>. HIDE DEF loaded
  <2>. QED BY <2>1, <1>4, NoPageOK
<1>6. ASSUME NEW i \in RequestIds
      PROVE  /\ new[i] \in ApprovalPage /\ new[i].about = loaded[i].about
             /\ new[i].receipts = kept(i)
  <2>1. loaded[i] \in ApprovalPage BY <1>3
  <2>2. new[i] = [loaded[i] EXCEPT !.receipts = kept(i)] OBVIOUS
  <2>3. kept(i) \subseteq Receipt BY <2>1 DEF ApprovalPage
  <2>. HIDE DEF new, loaded, kept
  <2>. QED BY <2>1, <2>2, <2>3 DEF ApprovalPage
<1>7. new \in [RequestIds -> ApprovalPage] BY <1>6
<1>8. book' = [book EXCEPT ![h] = new] BY DEF ApprovalsCrash
<1>. HIDE DEF new
<1>9. /\ book' \in [Hosts -> [RequestIds -> ApprovalPage]] /\ book'[h] = new
      /\ \A k \in Hosts \ {h} : book'[k] = book[k]
  BY <1>1, <1>7, <1>8 DEF ApprovalsTypeOK
<1>10. UNCHANGED <<bookFile, minute, registered, signed, accepted>> BY DEF ApprovalsCrash
<1>11. ApprovalsTypeOK'
  <2>1. submissions' \subseteq submissions /\ approvalFaults' \in 0..ApprovalFaults
    BY <1>1, ApprovalsAssumption DEF ApprovalsTypeOK, ApprovalsCrash
  <2>. QED BY <1>1, <1>9, <1>10, <2>1 DEF ApprovalsTypeOK
<1>12. PageInv(book)'
  <2>1. \A i \in RequestIds : PageOK(new[i], i)
    <3>. HIDE DEF loaded
    <3>. QED BY <1>5, <1>6 DEF PageOK
  <2>2. \A k \in Hosts, i \in RequestIds : PageOK(book[k][i], i) BY <1>1 DEF PageInv, PageOK
  <2>3. \A k \in Hosts, i \in RequestIds : PageOK(book'[k][i], i) BY <2>1, <2>2, <1>9
  <2>. QED BY <2>3 DEF PageInv, PageOK
<1>13. PageInv(bookFile)' BY <1>1, <1>10 DEF PageInv
<1>14. AcceptedInv'
  <2>. SUFFICES ASSUME NEW k \in Hosts, NEW q \in accepted[k], q.over.expires > minute
               PROVE  /\ book'[k][q.over.id].about = q.over /\ bookFile[k][q.over.id].about = q.over
                      /\ \E t \in book'[k][q.over.id].receipts \cap bookFile[k][q.over.id].receipts : t.by = q.by
    BY <1>10 DEF AcceptedInv
  <2>1. CASE k # h BY <2>1, <1>1, <1>9 DEF AcceptedInv
  <2>2. CASE k = h
    <3>1. q \in Receipt BY <1>1 DEF ApprovalsTypeOK
    <3>2. q.over \in Requests /\ q.over.id \in RequestIds /\ q.over.expires \in Nat BY <3>1, RequestFacts
    <3>3. bookFile[h][q.over.id].about = q.over BY <2>2, <1>1 DEF AcceptedInv
    <3>4. loaded[q.over.id] = bookFile[h][q.over.id] BY <3>2, <3>3, <1>2, UnexpiredFacts
    <3>5. PICK t \in bookFile[h][q.over.id].receipts : t.by = q.by BY <2>2, <1>1 DEF AcceptedInv
    <3>6. t.over = q.over BY <3>2, <3>3, <3>5, <1>1 DEF PageInv
    <3>7. minute \in Nat BY <1>1 DEF ApprovalsTypeOK
    <3>8. Verifies(t, q.over) BY <3>2, <3>6, <3>7 DEF Verifies, Expired
    <3>9. t \in kept(q.over.id) BY <3>3, <3>4, <3>5, <3>8
    <3>. HIDE DEF loaded, kept
    <3>10. new[q.over.id].about = q.over /\ t \in new[q.over.id].receipts
      BY <3>2, <3>3, <3>4, <3>9, <1>6
    <3>. QED BY <2>2, <3>3, <3>5, <3>10, <1>9
  <2>. QED BY <2>1, <2>2
<1>. QED BY <1>11, <1>12, <1>13, <1>14 DEF ApprovalsIInv

-----------------------------------------------------------------------------
(* Approvals: the theorem *)

LEMMA ApprovalsInitIInv == ASSUME ApprovalsInit PROVE ApprovalsIInv
<1>. USE DEF ApprovalsInit
<1>1. NoPage \in ApprovalPage BY DEF NoPage, ApprovalPage
<1>2. \A h \in Hosts, i \in RequestIds : book[h][i] = NoPage /\ bookFile[h][i] = NoPage OBVIOUS
<1>3. ApprovalsTypeOK
  <2>1. book \in [Hosts -> [RequestIds -> ApprovalPage]] BY <1>1
  <2>2. minute \in 0..MaxMinute /\ registered \in 0..MaxRegistered /\ signed \in 0..MaxSigned
        /\ approvalFaults \in 0..ApprovalFaults
    BY ApprovalsAssumption
  <2>. QED BY <2>1, <2>2 DEF ApprovalsTypeOK
<1>4. PageInv(book) /\ PageInv(bookFile) BY <1>2 DEF PageInv, NoPage
<1>5. AcceptedInv BY DEF AcceptedInv
<1>. QED BY <1>3, <1>4, <1>5 DEF ApprovalsIInv

LEMMA ApprovalsNextPreserves ==
    ASSUME ApprovalsIInv, [ApprovalsNext]_approvalsVars PROVE ApprovalsIInv'
<1>1. CASE \E h \in Hosts, c \in Requests : RegisterChallenge(h, c)
  BY <1>1, RegisterChallengePreserves
<1>2. CASE \E a \in Approvers, h \in Hosts, i \in RequestIds : ApproveSign(a, h, i)
  BY <1>2, ApproveSignPreserves
<1>3. CASE \E s \in submissions : CheckScope(s) \/ SubmitReceipt(s) \/ SubmitRefused(s)
  BY <1>3, CheckScopePreserves, SubmitReceiptPreserves, SubmitRefusedPreserves
<1>4. CASE \E h \in Hosts : ApprovalsCrash(h) BY <1>4, ApprovalsCrashPreserves
<1>5. CASE NextMinute BY <1>5, NextMinutePreserves
<1>6. CASE UNCHANGED approvalsVars
  BY <1>6 DEF approvalsVars, ApprovalsIInv, ApprovalsTypeOK, PageInv, AcceptedInv
<1>. QED BY <1>1, <1>2, <1>3, <1>4, <1>5, <1>6 DEF ApprovalsNext

\* Whatever is registered, signed, submitted, restarted or not written in between, a
\* challenge counts as approved only by signatures over its own content, and an
\* acknowledged receipt stays in memory and on disk while its challenge lasts.
THEOREM ApprovalsSafety == ApprovalsSpec => []ApprovalsSound
<1>1. ApprovalsInit => ApprovalsIInv BY ApprovalsInitIInv
<1>2. ApprovalsIInv /\ [ApprovalsNext]_approvalsVars => ApprovalsIInv' BY ApprovalsNextPreserves
<1>3. ApprovalsIInv => ApprovalsSound
  <2>1. ApprovalsIInv => ApprovedAsSigned
    BY DEF ApprovalsIInv, ApprovedAsSigned, Approved, PageInv, RequestIds
  <2>2. ApprovalsIInv => AcceptedKept BY DEF ApprovalsIInv, AcceptedInv, AcceptedKept
  <2>. QED BY <2>1, <2>2 DEF ApprovalsIInv, ApprovalsSound
<1>. QED BY <1>1, <1>2, <1>3, PTL DEF ApprovalsSpec

-----------------------------------------------------------------------------
(* Heartbeats: the inductive invariant *)

ViewTypeOK ==
    /\ running \subseteq Peers /\ due \subseteq running
    /\ heard \in [Peers -> [Peers -> Entry]]
    /\ steady \in [Peers -> Nat]

\* A node that is down has no view.
DownInv == \A n \in Peers \ running : \A p \in Peers : heard[n][p] = NoEntry

\* p was heard by n in this interval, or in the last one with its tick still to come.
Current(n, p) ==
    /\ heard[n][p] # NoEntry /\ heard[n][p].gap >= 0
    /\ heard[n][p].age <= IF p \in due THEN 1 ELSE 0

\* An entry that is as old as it may get goes with its holder's next tick.
OldInv == \A n \in running, p \in Peers : heard[n][p].age = Horizon => n \in due

\* An entry of a node whose heartbeats are turned down is older than the time since
\* that node restarted or was last lost.
AgeInv ==
    \A n, p \in running : n # p =>
        heard[n][p] = NoEntry \/ Current(n, p) \/ steady[p] <= heard[n][p].age

\* Who has no entry of a running node has pruned it or has itself just started.
PrunedInv ==
    \A n, p \in running : n # p /\ heard[n][p] = NoEntry =>
        IF p \in due THEN steady[p] <= Horizon + 1 \/ steady[n] <= 1
                     ELSE steady[p] <= Horizon \/ steady[n] = 0

HeartbeatsIInv == ViewTypeOK /\ DownInv /\ OldInv /\ AgeInv /\ PrunedInv

-----------------------------------------------------------------------------
(* Heartbeats: the steps *)

LEMMA HorizonLong == Horizon \in Nat /\ Horizon > 7 /\ Timeout \in Nat /\ Timeout > 1
BY HeartbeatsAssumption DEF Horizon

LEMMA EntryFields ==
    ASSUME NEW e \in Entry PROVE e = NoEntry \/ (e.gap \in Int /\ e.age \in 0..Horizon)
BY DEF Entry

LEMMA NoEntryAge == NoEntry \in Entry /\ NoEntry.age = -1 /\ NoEntry.gap = 0
BY DEF Entry, NoEntry

LEMMA NotedEntry == Noted \in Entry /\ Noted # NoEntry /\ Noted.age = 0 /\ Noted.gap = 0
BY HorizonLong DEF Entry, Noted, NoEntry

LEMMA MissedEntry ==
    ASSUME NEW e \in Entry
    PROVE  /\ Missed(e) \in Entry /\ Missed(e).age = e.age
           /\ Missed(e) = NoEntry <=> e = NoEntry
<1>1. CASE e = NoEntry BY <1>1 DEF Missed
<1>2. CASE e # NoEntry
  <2>1. e \in [gap : Int, age : 0..Horizon] BY <1>2 DEF Entry
  <2>2. PICK g \in Int : g = IF e.gap + 1 > 1 THEN 1 ELSE e.gap + 1 BY <2>1
  <2>3. Missed(e) = [gap |-> g, age |-> e.age] BY <1>2, <2>1, <2>2 DEF Missed
  <2>4. e.age # -1 BY <2>1, HorizonLong
  <2>. QED BY <1>2, <2>1, <2>3, <2>4, NoEntryAge DEF Entry
<1>. QED BY <1>1, <1>2

\* An entry after an interval.
Older(e) == IF e = NoEntry THEN e ELSE [e EXCEPT !.age = IF @ < Horizon THEN @ + 1 ELSE @]

LEMMA OlderEntry ==
    ASSUME NEW e \in Entry
    PROVE  /\ Older(e) \in Entry
           /\ Older(e) = NoEntry <=> e = NoEntry
           /\ e # NoEntry => Older(e).gap = e.gap /\ Older(e).age \in 0..Horizon
                             /\ Older(e).age = IF e.age < Horizon THEN e.age + 1 ELSE e.age
<1>1. CASE e = NoEntry BY <1>1 DEF Older
<1>2. CASE e # NoEntry
  <2>1. e \in [gap : Int, age : 0..Horizon] BY <1>2 DEF Entry
  <2>2. PICK a \in 0..Horizon : a = IF e.age < Horizon THEN e.age + 1 ELSE e.age
    BY <2>1, HorizonLong
  <2>3. Older(e) = [gap |-> e.gap, age |-> a] BY <1>2, <2>1, <2>2 DEF Older
  <2>4. a # -1 BY <2>2, HorizonLong
  <2>. QED BY <1>2, <2>1, <2>2, <2>3, <2>4, NoEntryAge DEF Entry
<1>. QED BY <1>1, <1>2

LEMMA HeartbeatsInitIInv == HeartbeatsInit => HeartbeatsIInv
BY HorizonLong, NoEntryAge
   DEF HeartbeatsInit, HeartbeatsIInv, ViewTypeOK, DownInv, OldInv, AgeInv, PrunedInv

LEMMA IntervalPassesPreserves == ASSUME HeartbeatsIInv, IntervalPasses PROVE HeartbeatsIInv'
<1>. USE HorizonLong, NoEntryAge
<1>1. /\ due = {} /\ due' = running /\ running' = running
      /\ heard' = [n \in Peers |-> [p \in Peers |-> Older(heard[n][p])]]
  BY DEF IntervalPasses, Older
<1>2. /\ running \subseteq Peers /\ heard \in [Peers -> [Peers -> Entry]]
      /\ steady \in [Peers -> Nat]
  BY DEF HeartbeatsIInv, ViewTypeOK
<1>3. \A n, p \in Peers :
         /\ heard[n][p] \in Entry /\ heard'[n][p] = Older(heard[n][p]) /\ heard'[n][p] \in Entry
         /\ heard'[n][p] = NoEntry <=> heard[n][p] = NoEntry
         /\ heard[n][p] # NoEntry =>
              /\ heard[n][p].gap \in Int /\ heard[n][p].age \in 0..Horizon
              /\ heard'[n][p].gap = heard[n][p].gap /\ heard'[n][p].age \in 0..Horizon
              /\ heard'[n][p].age = IF heard[n][p].age < Horizon THEN heard[n][p].age + 1
                                    ELSE heard[n][p].age
  BY <1>1, <1>2, OlderEntry, EntryFields
<1>4. steady' \in [Peers -> Nat] /\ \A n \in running : steady'[n] \in {steady[n], steady[n] + 1}
  BY <1>2 DEF IntervalPasses
<1>5. ViewTypeOK' BY <1>1, <1>2, <1>3, <1>4 DEF ViewTypeOK
<1>6. DownInv' BY <1>1, <1>2, <1>3 DEF HeartbeatsIInv, DownInv
<1>7. OldInv' BY <1>1 DEF OldInv
<1>8. AgeInv'
  <2>. SUFFICES ASSUME NEW n \in running, NEW p \in running, n # p, heard'[n][p] # NoEntry
                PROVE  Current(n, p)' \/ steady'[p] <= heard'[n][p].age
    BY <1>1 DEF AgeInv
  <2>0. heard[n][p] # NoEntry /\ heard[n][p].age \in 0..Horizon /\ n \in Peers /\ p \in Peers
    BY <1>2, <1>3
  <2>1. heard[n][p].age < Horizon
    <3>1. heard[n][p].age # Horizon BY <1>1, <2>0 DEF HeartbeatsIInv, OldInv
    <3>. QED BY <2>0, <3>1
  <2>2. heard'[n][p].age = heard[n][p].age + 1 BY <1>2, <1>3, <2>1
  <2>3. CASE Current(n, p)
    BY <1>1, <1>2, <1>3, <2>2, <2>3 DEF Current
  <2>4. CASE steady[p] <= heard[n][p].age BY <1>2, <1>3, <1>4, <2>2, <2>4
  <2>. QED BY <2>0, <2>3, <2>4 DEF HeartbeatsIInv, AgeInv
<1>9. PrunedInv'
  <2>. SUFFICES ASSUME NEW n \in running, NEW p \in running, n # p, heard[n][p] = NoEntry
                PROVE  steady'[p] <= Horizon + 1 \/ steady'[n] <= 1
    BY <1>1, <1>2, <1>3 DEF PrunedInv
  <2>1. steady[p] <= Horizon \/ steady[n] = 0 BY <1>1 DEF HeartbeatsIInv, PrunedInv
  <2>. QED BY <1>2, <1>4, <2>1
<1>. QED BY <1>5, <1>6, <1>7, <1>8, <1>9 DEF HeartbeatsIInv

LEMMA HeartbeatTickPreserves ==
    ASSUME HeartbeatsIInv, NEW t \in Peers, HeartbeatTick(t) PROVE HeartbeatsIInv'
<1>. USE HorizonLong, NoEntryAge
<1>1. PICK lost \in SUBSET (running \ {t}) :
         /\ heard' = [r \in Peers |-> [p \in Peers |->
               IF r = t THEN Prune(heard[t][p])
               ELSE IF p = t THEN Received(r, t, lost) ELSE heard[r][p]]]
         /\ steady' = [steady EXCEPT ![t] = IF lost = {} THEN @ ELSE 0]
  BY DEF HeartbeatTick
<1>2. t \in due /\ due' = due \ {t} /\ running' = running BY DEF HeartbeatTick
<1>3. /\ running \subseteq Peers /\ due \subseteq running
      /\ heard \in [Peers -> [Peers -> Entry]] /\ steady \in [Peers -> Nat]
  BY DEF HeartbeatsIInv, ViewTypeOK
<1>4. \A r, p \in Peers : heard[r][p] \in Entry BY <1>3
<1>5. ASSUME NEW p \in Peers
      PROVE  /\ heard'[t][p] \in {heard[t][p], NoEntry}
             /\ heard'[t][p].age # Horizon
             /\ heard'[t][p] # heard[t][p] => heard[t][p].age = Horizon
  <2>1. heard'[t][p] = Prune(heard[t][p]) BY <1>1
  <2>2. heard[t][p] = NoEntry \/ heard[t][p].age \in 0..Horizon BY <1>4, EntryFields
  <2>. QED BY <2>1, <2>2 DEF Prune
<1>6. \A r \in Peers \ {t} : /\ heard'[r][t] = Received(r, t, lost)
                             /\ \A p \in Peers \ {t} : heard'[r][p] = heard[r][p]
  BY <1>1
<1>7. \A r \in Peers \ {t} : heard'[r][t] \in Entry
  BY <1>4, <1>6, NotedEntry, MissedEntry DEF Received
<1>8. /\ steady' \in [Peers -> Nat] /\ \A p \in Peers : steady'[p] <= steady[p]
      /\ lost # {} => steady'[t] = 0
      /\ \A p \in Peers \ {t} : steady'[p] = steady[p]
  BY <1>1, <1>3
<1>9. ViewTypeOK'
  <2>1. \A r, p \in Peers : heard'[r][p] \in Entry BY <1>4, <1>5, <1>6, <1>7
  <2>2. heard' \in [Peers -> [Peers -> Entry]] BY <1>1, <2>1
  <2>. QED BY <1>2, <1>3, <1>8, <2>2 DEF ViewTypeOK
<1>10. DownInv'
  <2>1. \A r \in Peers \ running : r # t /\ Received(r, t, lost) = NoEntry
    BY <1>2, <1>3 DEF HeartbeatsIInv, DownInv, Received, Missed
  <2>. QED BY <1>2, <1>6, <2>1 DEF HeartbeatsIInv, DownInv
<1>11. OldInv'
  <2>. SUFFICES ASSUME NEW n \in running, NEW p \in Peers, heard'[n][p].age = Horizon
                PROVE  n \in due'
    BY <1>2 DEF OldInv
  <2>1. n # t BY <1>5
  <2>2. heard[n][p].age = Horizon
    BY <1>3, <1>4, <1>6, <2>1, NotedEntry, MissedEntry DEF Received
  <2>. QED BY <1>2, <2>1, <2>2 DEF HeartbeatsIInv, OldInv
<1>12. ASSUME NEW n \in running, n # t PROVE
         \/ lost # {} \/ Current(n, t)' \/ (heard'[n][t] # NoEntry /\ steady'[t] <= heard'[n][t].age)
  <2>. SUFFICES ASSUME lost = {}
                PROVE  Current(n, t)' \/ (heard'[n][t] # NoEntry /\ steady'[t] <= heard'[n][t].age)
    OBVIOUS
  <2>1. heard'[n][t] = IF Fresher(heard[n][t]) THEN Noted ELSE Missed(heard[n][t])
    BY <1>3, <1>6, <1>12 DEF Received
  <2>2. CASE Fresher(heard[n][t]) BY <1>2, <2>1, <2>2, NotedEntry DEF Current
  <2>3. CASE ~Fresher(heard[n][t])
    <3>1. heard[n][t] # NoEntry /\ heard[n][t].gap \in Int /\ heard[n][t].gap + 1 <= 0
      BY <1>3, <1>4, <2>3, EntryFields DEF Fresher
    <3>2. ~Current(n, t) BY <3>1 DEF Current
    <3>3. steady[t] <= heard[n][t].age
      BY <1>2, <1>3, <1>12, <3>1, <3>2 DEF HeartbeatsIInv, AgeInv
    <3>4. heard'[n][t] # NoEntry /\ heard'[n][t].age = heard[n][t].age
      BY <1>3, <1>4, <2>1, <2>3, <3>1, MissedEntry
    <3>5. heard[n][t].age \in Int BY <1>3, <1>4, <3>1, EntryFields
    <3>. QED BY <1>3, <1>8, <3>3, <3>4, <3>5
  <2>. QED BY <2>2, <2>3
<1>13. ASSUME NEW n \in running, n # t, lost # {}, heard'[n][t] # NoEntry
       PROVE  steady'[t] <= heard'[n][t].age
  BY <1>3, <1>7, <1>8, <1>13, EntryFields
<1>14. AgeInv'
  <2>. SUFFICES ASSUME NEW n \in running, NEW p \in running, n # p, heard'[n][p] # NoEntry
                PROVE  Current(n, p)' \/ steady'[p] <= heard'[n][p].age
    BY <1>2 DEF AgeInv
  <2>1. CASE p = t BY <1>12, <1>13, <2>1
  <2>2. CASE p # t
    <3>1. heard'[n][p] = heard[n][p] BY <1>3, <1>5, <1>6, <2>2
    <3>2. Current(n, p) \/ steady[p] <= heard[n][p].age BY <3>1 DEF HeartbeatsIInv, AgeInv
    <3>. QED BY <1>2, <1>3, <1>8, <2>2, <3>1, <3>2 DEF Current
  <2>. QED BY <2>1, <2>2
<1>15. PrunedInv'
  <2>. SUFFICES ASSUME NEW n \in running, NEW p \in running, n # p, heard'[n][p] = NoEntry
                PROVE  IF p \in due' THEN steady'[p] <= Horizon + 1 \/ steady'[n] <= 1
                                     ELSE steady'[p] <= Horizon \/ steady'[n] = 0
    BY <1>2 DEF PrunedInv
  <2>1. CASE p = t
    <3>1. lost # {} BY <1>12, <2>1 DEF Current
    <3>. QED BY <1>2, <1>8, <2>1, <3>1
  <2>2. CASE p # t /\ heard[n][p] = NoEntry
    <3>1. steady'[p] = steady[p] /\ steady'[n] <= steady[n] /\ steady[n] \in Nat /\ steady'[n] \in Nat
          /\ (p \in due' <=> p \in due)
      BY <1>2, <1>3, <1>8, <2>2
    <3>. QED BY <1>3, <2>2, <3>1 DEF HeartbeatsIInv, PrunedInv
  <2>3. CASE p # t /\ heard[n][p] # NoEntry
    <3>1. n = t /\ heard[n][p].age = Horizon BY <1>3, <1>5, <1>6, <2>3
    <3>2. ~Current(n, p) BY <3>1 DEF Current
    <3>3. steady[p] <= Horizon BY <2>3, <3>1, <3>2 DEF HeartbeatsIInv, AgeInv
    <3>. QED BY <1>3, <1>8, <2>3, <3>3
  <2>. QED BY <2>1, <2>2, <2>3
<1>. QED BY <1>9, <1>10, <1>11, <1>14, <1>15 DEF HeartbeatsIInv

LEMMA PeerStopsPreserves ==
    ASSUME HeartbeatsIInv, NEW t \in Peers, PeerStops(t) PROVE HeartbeatsIInv'
<1>1. /\ t \in running /\ running' = running \ {t} /\ due' = due \ {t} /\ steady' = steady
      /\ heard' = [heard EXCEPT ![t] = [p \in Peers |-> NoEntry]]
  BY DEF PeerStops
<1>2. /\ running \subseteq Peers /\ due \subseteq running
      /\ heard \in [Peers -> [Peers -> Entry]] /\ steady \in [Peers -> Nat]
  BY DEF HeartbeatsIInv, ViewTypeOK
<1>3. \A p \in Peers : heard'[t][p] = NoEntry BY <1>1, <1>2
<1>4. \A n \in Peers \ {t} : heard'[n] = heard[n] BY <1>1, <1>2
<1>5. ViewTypeOK' BY <1>1, <1>2, NoEntryAge DEF ViewTypeOK
<1>6. DownInv' BY <1>1, <1>2, <1>3, <1>4 DEF HeartbeatsIInv, DownInv
<1>7. OldInv' BY <1>1, <1>2, <1>4 DEF HeartbeatsIInv, OldInv
<1>8. AgeInv' BY <1>1, <1>2, <1>4 DEF HeartbeatsIInv, AgeInv, Current
<1>9. PrunedInv' BY <1>1, <1>2, <1>4 DEF HeartbeatsIInv, PrunedInv
<1>. QED BY <1>5, <1>6, <1>7, <1>8, <1>9 DEF HeartbeatsIInv

LEMMA PeerBootsPreserves ==
    ASSUME HeartbeatsIInv, NEW t \in Peers, PeerBoots(t) PROVE HeartbeatsIInv'
<1>. USE HorizonLong, NoEntryAge
<1>1. PICK old \in OldSeqs :
         heard' = [r \in Peers |-> [heard[r] EXCEPT ![t] =
                       IF @ = NoEntry THEN @ ELSE [@ EXCEPT !.gap = -old]]]
  BY DEF PeerBoots
<1>2. /\ t \notin running /\ running' = running \cup {t} /\ due' = due
      /\ steady' = [steady EXCEPT ![t] = 0]
  BY DEF PeerBoots
<1>3. /\ running \subseteq Peers /\ due \subseteq running
      /\ heard \in [Peers -> [Peers -> Entry]] /\ steady \in [Peers -> Nat]
  BY DEF HeartbeatsIInv, ViewTypeOK
<1>4. \A r, p \in Peers : p # t => heard'[r][p] = heard[r][p] BY <1>1, <1>3
<1>5. \A r \in Peers : /\ heard'[r][t] \in Entry
                       /\ heard'[r][t].age = heard[r][t].age
                       /\ heard'[r][t] = NoEntry <=> heard[r][t] = NoEntry
  <2>. SUFFICES ASSUME NEW r \in Peers
                PROVE  /\ heard'[r][t] \in Entry
                       /\ heard'[r][t].age = heard[r][t].age
                       /\ heard'[r][t] = NoEntry <=> heard[r][t] = NoEntry
    OBVIOUS
  <2>. DEFINE e == heard[r][t]
  <2>1. heard'[r][t] = IF e = NoEntry THEN e ELSE [e EXCEPT !.gap = -old] BY <1>1, <1>3
  <2>2. e \in Entry /\ -old \in Int BY <1>3, HeartbeatsAssumption
  <2>3. CASE e = NoEntry BY <2>1, <2>3
  <2>4. CASE e # NoEntry
    <3>1. e \in [gap : Int, age : 0..Horizon] BY <2>2, <2>4 DEF Entry
    <3>. HIDE DEF e
    <3>2. heard'[r][t] = [gap |-> -old, age |-> e.age] BY <2>1, <2>4, <3>1
    <3>3. heard'[r][t] \in [gap : Int, age : 0..Horizon] /\ heard'[r][t].age = e.age
      BY <2>2, <3>1, <3>2
    <3>4. heard'[r][t] # NoEntry BY <3>1, <3>3
    <3>. QED BY <2>4, <3>3, <3>4 DEF Entry, e
  <2>. QED BY <2>3, <2>4
<1>6. steady' \in [Peers -> Nat] /\ steady'[t] = 0 /\ \A p \in Peers \ {t} : steady'[p] = steady[p]
  BY <1>2, <1>3
<1>7. ViewTypeOK'
  <2>1. \A r, p \in Peers : heard'[r][p] \in Entry BY <1>3, <1>4, <1>5
  <2>2. \A r \in Peers : heard'[r] \in [Peers -> Entry] BY <1>1, <1>3, <2>1
  <2>3. heard' \in [Peers -> [Peers -> Entry]] BY <1>1, <2>2
  <2>. QED BY <1>2, <1>3, <1>6, <2>3 DEF ViewTypeOK
<1>8. DownInv' BY <1>2, <1>4, <1>5 DEF HeartbeatsIInv, DownInv
<1>9. \A p \in Peers : heard[t][p] = NoEntry BY <1>2 DEF HeartbeatsIInv, DownInv
<1>10. OldInv'
  <2>. SUFFICES ASSUME NEW n \in running', NEW p \in Peers, heard'[n][p].age = Horizon
                PROVE  n \in due'
    BY DEF OldInv
  <2>1. heard[n][p].age = Horizon BY <1>2, <1>3, <1>4, <1>5
  <2>2. n # t BY <1>9, <2>1
  <2>. QED BY <1>2, <2>1, <2>2 DEF HeartbeatsIInv, OldInv
<1>11. AgeInv'
  <2>. SUFFICES ASSUME NEW n \in running', NEW p \in running', n # p, heard'[n][p] # NoEntry
                PROVE  Current(n, p)' \/ steady'[p] <= heard'[n][p].age
    BY DEF AgeInv
  <2>1. n # t BY <1>2, <1>3, <1>4, <1>5, <1>9
  <2>2. CASE p = t BY <1>2, <1>3, <1>5, <1>6, <2>1, <2>2, EntryFields
  <2>3. CASE p # t
    <3>1. heard'[n][p] = heard[n][p] /\ steady'[p] = steady[p] BY <1>2, <1>3, <1>4, <1>6, <2>3
    <3>. QED BY <1>2, <2>1, <2>3, <3>1 DEF HeartbeatsIInv, AgeInv, Current
  <2>. QED BY <2>2, <2>3
<1>12. PrunedInv'
  <2>. SUFFICES ASSUME NEW n \in running', NEW p \in running', n # p, heard'[n][p] = NoEntry
                PROVE  IF p \in due' THEN steady'[p] <= Horizon + 1 \/ steady'[n] <= 1
                                     ELSE steady'[p] <= Horizon \/ steady'[n] = 0
    BY DEF PrunedInv
  <2>1. CASE p = t \/ n = t BY <1>6, <2>1
  <2>2. CASE p # t /\ n # t
    <3>1. heard[n][p] = NoEntry /\ steady'[p] = steady[p] /\ steady'[n] = steady[n]
      BY <1>2, <1>3, <1>4, <1>6, <2>2
    <3>. QED BY <1>2, <2>2, <3>1 DEF HeartbeatsIInv, PrunedInv
  <2>. QED BY <2>1, <2>2
<1>. QED BY <1>7, <1>8, <1>10, <1>11, <1>12 DEF HeartbeatsIInv

LEMMA HeartbeatsNextPreserves ==
    ASSUME HeartbeatsIInv, [HeartbeatsNext]_heartbeatsVars PROVE HeartbeatsIInv'
<1>1. CASE UNCHANGED heartbeatsVars
  BY <1>1 DEF heartbeatsVars, HeartbeatsIInv, ViewTypeOK, DownInv, OldInv, AgeInv, PrunedInv, Current
<1>. QED
  BY <1>1, IntervalPassesPreserves, HeartbeatTickPreserves, PeerStopsPreserves, PeerBootsPreserves
     DEF HeartbeatsNext

\* For any number of nodes, any timeout of more than one interval, old counters and lost
\* heartbeats: a node that has run and been heard for four timeouts is live in the view
\* of every other such node, because its old entry ages until prune drops it.
THEOREM RejoinersAreSeen == HeartbeatsSpec => []RejoinersSeen
<1>1. HeartbeatsInit => HeartbeatsIInv BY HeartbeatsInitIInv
<1>2. HeartbeatsIInv /\ [HeartbeatsNext]_heartbeatsVars => HeartbeatsIInv'
  BY HeartbeatsNextPreserves
<1>3. HeartbeatsIInv => RejoinersSeen
  <2>. SUFFICES ASSUME HeartbeatsIInv, NEW n \in running, NEW p \in running, n # p,
                       steady[n] > Horizon + 1, steady[p] > Horizon + 1
                PROVE  IsLive(n, p)
    BY DEF RejoinersSeen
  <2>1. /\ heard[n][p] \in Entry /\ steady[n] \in Nat /\ steady[p] \in Nat
    BY DEF HeartbeatsIInv, ViewTypeOK
  <2>2. heard[n][p] # NoEntry BY <2>1, HorizonLong DEF HeartbeatsIInv, PrunedInv
  <2>3. heard[n][p].age \in 0..Horizon BY <2>1, <2>2, EntryFields
  <2>4. Current(n, p) BY <2>1, <2>2, <2>3, HorizonLong DEF HeartbeatsIInv, AgeInv
  <2>. QED BY <2>2, <2>3, <2>4, HorizonLong DEF Current, IsLive
<1>. QED BY <1>1, <1>2, <1>3, PTL DEF HeartbeatsSpec

-----------------------------------------------------------------------------
(* Join tickets: the inductive invariant *)

PinsInv == pins \in PinConfigs

\* What was let through was signed by enough of the keys that were pinned.
WelcomeInv ==
    \A w \in welcomed :
        /\ \E hs \in SUBSET w.pinned :
              /\ Cardinality(hs) >= w.k
              /\ \A h \in hs : [signer |-> h, version |-> w.ticket.version,
                                body |-> w.ticket.body] \in signatures
        /\ w.at <= w.ticket.body.expires

\* A combined ticket lists approvals of its own body by distinct holders.
CombinedInv ==
    \A t \in combined :
        /\ t.version = 2 /\ t.by \in Seq(signatures)
        /\ Combinable(t.by) /\ t.body = t.by[1].body

InviteIInv ==
    InviteTypeOK /\ IsFiniteSet(signatures) /\ PinsInv /\ WelcomeInv /\ CombinedInv

-----------------------------------------------------------------------------
(* Join tickets: the steps *)

SignatureSet ==
    [signer : FleetHolders, version : {1, 2}, body :
        [node : TicketNodes, expires : 0..(MaxInviteTime + TicketTtl), nonce : Nonces]]

LEMMA PinsShape ==
    ASSUME NEW c \in PinConfigs
    PROVE  /\ ToSet(c.keys) \subseteq FleetHolders /\ c.k \in Nat \ {0}
           /\ c.mode = "legacy" => c.k = 1 /\ c.keys[1] \in ToSet(c.keys)
<1>1. CASE c \in {[mode |-> "legacy", keys |-> <<h>>, k |-> 1] : h \in FleetHolders}
  BY <1>1 DEF ToSet
<1>2. CASE c \in [mode : {"quorum"}, keys : SeqOf(FleetHolders, MaxPins), k : 1..MaxPins]
  <2>1. c.mode = "quorum" /\ c.k \in 1..MaxPins /\ c.keys \in SeqOf(FleetHolders, MaxPins) BY <1>2
  <2>2. PICK m \in 0..MaxPins : c.keys \in [1..m -> FleetHolders] BY <2>1 DEF SeqOf
  <2>3. ToSet(c.keys) \subseteq FleetHolders BY <2>2 DEF ToSet
  <2>. QED BY <2>1, <2>3, InviteAssumption
<1>. QED BY <1>1, <1>2 DEF PinConfigs

LEMMA SetToSeqShape ==
    ASSUME NEW S, IsFiniteSet(S)
    PROVE  SetToSeq(S) \in Seq(S)
<1>1. Cardinality(S) \in Nat /\ ExistsBijection(1..Cardinality(S), S) BY FS_CardinalityType
<1>2. \E f \in [1..Cardinality(S) -> S] : IsInjective(f)
  BY <1>1 DEF ExistsBijection, Bijection, Injection, IsInjective
<1>3. SetToSeq(S) \in [1..Cardinality(S) -> S] BY <1>2 DEF SetToSeq
<1>. QED BY <1>1, <1>3

\* As many signatures as holders, when the signers are distinct.
LEMMA SignersCount ==
    ASSUME NEW t, NEW S, t.by \in Seq(S), Combinable(t.by)
    PROVE  Cardinality(DistinctSigners(t)) = Len(t.by)
<1>. DEFINE n == Len(t.by)
            f == [i \in 1..n |-> t.by[i].signer]
<1>1. n \in Nat OBVIOUS
<1>2. \A i, j \in 1..n : i # j => t.by[i].signer # t.by[j].signer BY DEF Combinable
<1>3. f \in [1..n -> DistinctSigners(t)] BY DEF DistinctSigners
<1>4. \A i, j \in 1..n : f[i] = f[j] => i = j BY <1>2
<1>5. \A h \in DistinctSigners(t) : \E i \in 1..n : f[i] = h BY DEF DistinctSigners
<1>. HIDE DEF n, f
<1>6. f \in Bijection(1..n, DistinctSigners(t))
  BY <1>3, <1>4, <1>5 DEF Bijection, Injection, Surjection, IsInjective
<1>7. ExistsBijection(1..n, DistinctSigners(t)) BY <1>6 DEF ExistsBijection
<1>8. Cardinality(DistinctSigners(t)) = n BY <1>1, <1>7, FS_CountingElements
<1>. QED BY <1>8 DEF n

LEMMA InviteInitIInv == InviteInit => InviteIInv
<1>. SUFFICES ASSUME InviteInit PROVE InviteIInv OBVIOUS
<1>1. signatures = {} /\ combined = {} /\ welcomed = {} /\ pins \in PinConfigs /\ inviteClock = 0
  BY DEF InviteInit
<1>2. InviteTypeOK BY <1>1, PinsShape, InviteAssumption DEF InviteTypeOK
<1>3. IsFiniteSet(signatures) BY <1>1, FS_EmptySet
<1>. QED BY <1>1, <1>2, <1>3 DEF InviteIInv, PinsInv, WelcomeInv, CombinedInv

\* Signatures only come, one at a time.
LEMMA SignedPreserves ==
    ASSUME InviteIInv, NEW s \in SignatureSet, signatures' = signatures \cup {s},
           UNCHANGED <<combined, pins, welcomed, inviteClock, pinChanges>>
    PROVE  InviteIInv'
<1>. USE DEF InviteIInv
<1>1. InviteTypeOK' BY DEF InviteTypeOK, SignatureSet
<1>2. IsFiniteSet(signatures)' BY FS_AddElement
<1>3. PinsInv' BY DEF PinsInv
<1>4. WelcomeInv' BY DEF WelcomeInv
<1>5. CombinedInv'
  <2>. SUFFICES ASSUME NEW t \in combined
                PROVE  /\ t.version = 2 /\ t.by \in Seq(signatures')
                       /\ Combinable(t.by) /\ t.body = t.by[1].body
    BY DEF CombinedInv
  <2>1. t.version = 2 /\ t.by \in Seq(signatures) /\ Combinable(t.by) /\ t.body = t.by[1].body
    BY DEF CombinedInv
  <2>2. t.by \in Seq(signatures') BY <2>1
  <2>. QED BY <2>1, <2>2
<1>. QED BY <1>1, <1>2, <1>3, <1>4, <1>5

LEMMA SignaturesShape ==
    ASSUME InviteIInv
    PROVE  signatures \subseteq SignatureSet /\ inviteClock \in 0..MaxInviteTime
BY DEF InviteIInv, InviteTypeOK, SignatureSet

LEMMA NewBodyShape ==
    ASSUME InviteIInv, NEW v \in TicketNodes, NEW n \in Nonces
    PROVE  NewBody(v, n) \in [node : TicketNodes, expires : 0..(MaxInviteTime + TicketTtl), nonce : Nonces]
BY SignaturesShape, InviteAssumption DEF NewBody

LEMMA IssueTicketPreserves ==
    ASSUME InviteIInv, NEW k \in FleetHolders, IssueTicket(k) PROVE InviteIInv'
<1>1. PICK v \in TicketNodes, n \in Nonces :
         /\ signatures' = signatures \cup {[signer |-> k, version |-> 1, body |-> NewBody(v, n)]}
         /\ UNCHANGED <<combined, pins, welcomed, inviteClock, pinChanges>>
  BY DEF IssueTicket
<1>2. [signer |-> k, version |-> 1, body |-> NewBody(v, n)] \in SignatureSet
  BY NewBodyShape DEF SignatureSet
<1>. QED BY <1>1, <1>2, SignedPreserves

LEMMA ApproveRequestPreserves ==
    ASSUME InviteIInv, NEW k \in FleetHolders, ApproveRequest(k) PROVE InviteIInv'
<1>. DEFINE bodies == {NewBody(v, n) : v \in TicketNodes, n \in {n \in Nonces : Unused(n)}} \cup
                      {s.body : s \in {s \in signatures : s.version = 2}}
<1>1. PICK b \in bodies :
         /\ signatures' = signatures \cup {[signer |-> k, version |-> 2, body |-> b]}
         /\ UNCHANGED <<combined, pins, welcomed, inviteClock, pinChanges>>
  BY DEF ApproveRequest
<1>2. b \in [node : TicketNodes, expires : 0..(MaxInviteTime + TicketTtl), nonce : Nonces]
  BY NewBodyShape, SignaturesShape DEF SignatureSet
<1>. HIDE DEF bodies
<1>3. [signer |-> k, version |-> 2, body |-> b] \in SignatureSet BY <1>2 DEF SignatureSet
<1>. QED BY <1>1, <1>3, SignedPreserves

LEMMA CombinePreserves == ASSUME InviteIInv, Combine PROVE InviteIInv'
<1>1. PICK set \in SUBSET {s \in signatures : s.version = 2} :
         /\ Combinable(SetToSeq(set))
         /\ combined' = {Quorum2(SetToSeq(set)[1].body, SetToSeq(set))}
  BY DEF Combine
<1>2. UNCHANGED <<signatures, pins, welcomed, inviteClock, pinChanges>> BY DEF Combine
<1>3. IsFiniteSet(set) BY FS_Subset DEF InviteIInv
<1>4. SetToSeq(set) \in Seq(set) BY <1>3, SetToSeqShape
<1>5. SetToSeq(set) \in Seq(signatures) BY <1>4
<1>6. CombinedInv' BY <1>1, <1>2, <1>5 DEF CombinedInv, Quorum2
<1>. QED BY <1>2, <1>6 DEF InviteIInv, InviteTypeOK, PinsInv, WelcomeInv

LEMMA JoinPresentedPreserves == ASSUME InviteIInv, JoinPresented PROVE InviteIInv'
<1>1. PICK t \in PresentedTicket \cup combined :
         /\ TicketVerifies(t)
         /\ welcomed' = {[ticket |-> t, pinned |-> Pinned, k |-> pins.k, at |-> inviteClock]}
  BY DEF JoinPresented
<1>2. UNCHANGED <<signatures, combined, pins, inviteClock, pinChanges>> BY DEF JoinPresented
<1>3. signatures \subseteq SignatureSet /\ pins \in PinConfigs BY SignaturesShape DEF InviteIInv, PinsInv
<1>4. ASSUME NEW s, Signs(s, t)
      PROVE  [signer |-> s.signer, version |-> t.version, body |-> t.body] \in signatures
  <2>1. s \in SignatureSet /\ s \in signatures /\ s.version = t.version /\ s.body = t.body
    BY <1>3, <1>4 DEF Signs
  <2>2. s = [signer |-> s.signer, version |-> s.version, body |-> s.body] BY <2>1 DEF SignatureSet
  <2>. QED BY <2>1, <2>2
<1>5. /\ \E hs \in SUBSET Pinned :
            /\ Cardinality(hs) >= pins.k
            /\ \A h \in hs : [signer |-> h, version |-> t.version, body |-> t.body] \in signatures
      /\ inviteClock <= t.body.expires
  <2>1. CASE pins.mode = "legacy"
    <3>1. VerifyIssuer(t) BY <1>1, <2>1 DEF TicketVerifies
    <3>2. t.version = 1 /\ t.issuer = pins.keys[1] /\ Signs(t.by[1], t) /\ inviteClock <= t.body.expires
      BY <3>1 DEF VerifyIssuer
    <3>3. t \in {Issued(s.signer, s.body) : s \in signatures}
      BY <3>2 DEF PresentedTicket, Quorum2, InviteIInv, CombinedInv
    <3>4. t.by[1].signer = t.issuer BY <3>3 DEF Issued
    <3>5. pins.k = 1 /\ pins.keys[1] \in Pinned BY <1>3, <2>1, PinsShape DEF Pinned
    <3>6. Cardinality({pins.keys[1]}) = 1 BY FS_Singleton
    <3>7. [signer |-> pins.keys[1], version |-> t.version, body |-> t.body] \in signatures
      BY <1>4, <3>2, <3>4
    <3>. QED BY <3>2, <3>5, <3>6, <3>7
  <2>2. CASE pins.mode # "legacy"
    <3>1. VerifyQuorum(t) BY <1>1, <2>2 DEF TicketVerifies
    <3>2. \A h \in DistinctSigners(t) :
             h \in Pinned /\ [signer |-> h, version |-> t.version, body |-> t.body] \in signatures
      BY <1>4, <3>1 DEF VerifyQuorum, DistinctSigners
    <3>3. Cardinality(DistinctSigners(t)) >= pins.k /\ inviteClock <= t.body.expires
      BY <3>1 DEF VerifyQuorum
    <3>. QED BY <3>2, <3>3
  <2>. QED BY <2>1, <2>2
<1>6. WelcomeInv' BY <1>1, <1>2, <1>5 DEF WelcomeInv
<1>. QED BY <1>2, <1>6 DEF InviteIInv, InviteTypeOK, PinsInv, CombinedInv

LEMMA JoinAuthConfigPreserves == ASSUME InviteIInv, JoinAuthConfig PROVE InviteIInv'
<1>1. pins' \in PinConfigs /\ UNCHANGED <<signatures, combined, welcomed, inviteClock>>
  BY DEF JoinAuthConfig
<1>2. InviteTypeOK' BY <1>1, PinsShape DEF InviteIInv, InviteTypeOK
<1>. QED BY <1>1, <1>2 DEF InviteIInv, PinsInv, WelcomeInv, CombinedInv

LEMMA InviteNextPreserves == ASSUME InviteIInv, [InviteNext]_inviteVars PROVE InviteIInv'
<1>1. CASE InviteTick
  <2>1. inviteClock' \in 0..MaxInviteTime
    BY <1>1, InviteAssumption DEF InviteTick, InviteIInv, InviteTypeOK
  <2>. QED BY <1>1, <2>1 DEF InviteTick, InviteIInv, InviteTypeOK, PinsInv, WelcomeInv, CombinedInv
<1>2. CASE UNCHANGED inviteVars
  BY <1>2 DEF inviteVars, InviteIInv, InviteTypeOK, PinsInv, WelcomeInv, CombinedInv
<1>. QED
  BY <1>1, <1>2, JoinAuthConfigPreserves, CombinePreserves, JoinPresentedPreserves,
     IssueTicketPreserves, ApproveRequestPreserves DEF InviteNext

LEMMA InviteSafe == ASSUME InviteIInv PROVE InviteTypeOK /\ QuorumReal
<1>1. ASSUME NEW t \in combined, pins.mode = "quorum", Len(t.by) >= pins.k,
             \A i \in 1..Len(t.by) : t.by[i].signer \in Pinned, inviteClock <= t.body.expires
      PROVE  TicketVerifies(t)
  <2>1. t.version = 2 /\ t.by \in Seq(signatures) /\ Combinable(t.by) /\ t.body = t.by[1].body
    BY <1>1 DEF InviteIInv, CombinedInv
  <2>2. Cardinality(DistinctSigners(t)) = Len(t.by) BY <2>1, SignersCount
  <2>3. \A i \in 1..Len(t.by) : Signs(t.by[i], t) BY <2>1 DEF Signs, Combinable
  <2>4. VerifyQuorum(t) BY <1>1, <2>1, <2>2, <2>3 DEF VerifyQuorum, Combinable
  <2>. QED BY <1>1, <2>4 DEF TicketVerifies
<1>. QED BY <1>1 DEF InviteIInv, WelcomeInv, QuorumReal

-----------------------------------------------------------------------------
(* Membership: the inductive invariant *)

\* A record without a standing is none.
Standing == {r \in MemberRecord : r.status = "none" => r = NoRecord}
StandingInv == member \in [Ids -> Standing] /\ memberFile \in [Ids -> Standing]

\* Ids with a record in memory and on disk.
KeptIds == {i \in Ids : member[i] # NoRecord /\ memberFile[i] # NoRecord}

\* Requests in progress are about different ids.
UniqueInv ==
    \A j, k \in Joiners : j # k /\ joiner[j] # NoJoin /\ joiner[k] # NoJoin =>
        joiner[j].id # joiner[k].id

\* A rollback puts back the record of an admitted id, and an admission is logged for
\* an id that has its record.
JobOK(job, acknowledged, kept) ==
    /\ job \in WriteJob => job.oldMember \in Standing
    /\ job \in WriteJob /\ job.id \in acknowledged => job.oldMember # NoRecord
    /\ job.pc = "log" => job.id \in kept
JobInv == \A j \in Joiners : JobOK(joiner[j], admitted, KeptIds)

MembershipIInv == MembershipTypeOK /\ StandingInv /\ UniqueInv /\ JobInv /\ AdmittedStay

-----------------------------------------------------------------------------
(* Membership: the steps *)

LEMMA JoinJobShape ==
    ASSUME NEW job \in MemberJob
    PROVE  /\ job.pc \in {"spend", "read"} => job \in JoinJob
           /\ job.pc \in {"insert", "mark", "log", "undoRoute", "undoMember", "unspend"} => job \in WriteJob
           /\ job.pc \in {"announceMark", "announceUndo"} => job \in AnnounceJob
           /\ job.pc = "refreshNote" => job \in RefreshJob
           /\ job # NoJoin => job.id \in Ids /\ job.pc # "idle"
           /\ job \in WriteJob => job.pc \in {"insert", "mark", "log", "undoRoute", "undoMember", "unspend"}
BY DEF MemberJob, NoJoin, JoinJob, WriteJob, AnnounceJob, RefreshJob

LEMMA JoinJobStep ==
    ASSUME NEW job \in JoinJob
    PROVE  /\ [job EXCEPT !.pc = "read"] \in MemberJob \ WriteJob
           /\ [job EXCEPT !.pc = "read"].id = job.id /\ [job EXCEPT !.pc = "read"].pc = "read"
BY DEF JoinJob, MemberJob, WriteJob

LEMMA WriteJobStep ==
    ASSUME NEW job \in WriteJob,
           NEW pc \in {"insert", "mark", "log", "undoRoute", "undoMember", "unspend"},
           NEW next, next = [job EXCEPT !.pc = pc]
    PROVE  /\ next \in WriteJob /\ next \in MemberJob /\ next.pc = pc
           /\ next.id = job.id /\ next.oldMember = job.oldMember
BY DEF WriteJob, MemberJob

LEMMA NoJoinOK == \A a, k : NoJoin \in MemberJob /\ JobOK(NoJoin, a, k)
BY DEF NoJoin, MemberJob, JobOK, WriteJob

\* What one request does leaves the others as they should be.
LEMMA JobStep ==
    ASSUME MembershipIInv, NEW j \in Joiners, NEW job \in MemberJob,
           joiner' = [joiner EXCEPT ![j] = job],
           job # NoJoin => \/ joiner[j] # NoJoin /\ job.id = joiner[j].id
                           \/ ~InProgress(job.id),
           JobOK(job, admitted', KeptIds'),
           \A i \in Ids : joiner[j] = NoJoin \/ joiner[j].id # i =>
               (i \in admitted' => i \in admitted) /\ (i \in KeptIds => i \in KeptIds')
    PROVE  joiner' \in [Joiners -> MemberJob] /\ UniqueInv' /\ JobInv'
<1>1. joiner \in [Joiners -> MemberJob] BY DEF MembershipIInv, MembershipTypeOK
<1>2. joiner'[j] = job /\ \A k \in Joiners \ {j} : joiner'[k] = joiner[k] BY <1>1
<1>3. joiner' \in [Joiners -> MemberJob] BY <1>1
<1>4. \A k \in Joiners \ {j} : job # NoJoin /\ joiner[k] # NoJoin => joiner[k].id # job.id
  BY DEF MembershipIInv, UniqueInv, InProgress
<1>5. UniqueInv' BY <1>2, <1>4 DEF MembershipIInv, UniqueInv
<1>6. ASSUME NEW k \in Joiners \ {j} PROVE JobOK(joiner[k], admitted', KeptIds')
  <2>1. JobOK(joiner[k], admitted, KeptIds) BY DEF MembershipIInv, JobInv
  <2>2. CASE joiner[k] = NoJoin BY <2>2, NoJoinOK
  <2>3. CASE joiner[k] # NoJoin
    <3>1. joiner[k].id \in Ids BY <1>1, <2>3, JoinJobShape
    <3>2. joiner[j] = NoJoin \/ joiner[j].id # joiner[k].id
      BY <2>3 DEF MembershipIInv, UniqueInv
    <3>3. /\ joiner[k].id \in admitted' => joiner[k].id \in admitted
          /\ joiner[k].id \in KeptIds => joiner[k].id \in KeptIds'
      BY <3>1, <3>2
    <3>. QED BY <2>1, <3>3 DEF JobOK
  <2>. QED BY <2>2, <2>3
<1>7. JobInv' BY <1>2, <1>6 DEF JobInv
<1>. QED BY <1>3, <1>5, <1>7

LEMMA RouteShape ==
    ASSUME MembershipTypeOK
    PROVE  /\ NoRoute \in Route /\ LiveRoutes \in [Ids -> Route]
           /\ \A id \in Ids, key \in NodeKeys : Inserted(id, key) \in [Ids -> Route]
<1>1. NoRoute \in Route BY MembershipAssumption DEF NoRoute, Route, Hours
<1>2. LiveRoutes \in [Ids -> Route] BY <1>1 DEF LiveRoutes, MembershipTypeOK
<1>3. \A key \in NodeKeys : [key |-> key, at |-> hour] \in Route BY DEF MembershipTypeOK, Route
<1>. QED BY <1>1, <1>2, <1>3 DEF Inserted

LEMMA RecordShape ==
    ASSUME MembershipIInv
    PROVE  /\ NoRecord \in Standing /\ Standing \subseteq MemberRecord
           /\ \A id \in Ids : MarkedProbation(id) \in Standing \ {NoRecord}
           /\ \A id \in Ids : FullMember(id) \in Standing \ {NoRecord}
           /\ \A r \in Standing \ {NoRecord} :
                 /\ Alive(r) \in Standing \ {NoRecord}
                 /\ [r EXCEPT !.seen = hour] \in Standing \ {NoRecord}
                 /\ [r EXCEPT !.status = "full"] \in Standing \ {NoRecord}
<1>1. hour \in Hours /\ member \in [Ids -> Standing] BY DEF MembershipIInv, MembershipTypeOK, StandingInv
<1>2. NoRecord \in Standing BY MembershipAssumption DEF NoRecord, Standing, MemberRecord, Hours
<1>3. ASSUME NEW r \in Standing \ {NoRecord}
      PROVE  /\ Alive(r) \in Standing \ {NoRecord}
             /\ [r EXCEPT !.seen = hour] \in Standing \ {NoRecord}
             /\ [r EXCEPT !.status = "full"] \in Standing \ {NoRecord}
  <2>1. r \in MemberRecord /\ r.status # "none" BY DEF Standing
  <2>2. \A q \in MemberRecord : q.status # "none" => q \in Standing \ {NoRecord}
    BY DEF Standing, NoRecord
  <2>3. [r EXCEPT !.seen = hour] \in MemberRecord /\ [r EXCEPT !.seen = hour].status # "none"
    BY <1>1, <2>1 DEF MemberRecord
  <2>4. [r EXCEPT !.status = "full"] \in MemberRecord /\ [r EXCEPT !.status = "full"].status # "none"
    BY <2>1 DEF MemberRecord
  <2>5. Alive(r) \in MemberRecord /\ Alive(r).status # "none"
    <3>1. CASE Served(r) BY <1>1, <2>1, <3>1 DEF Alive, MemberRecord
    <3>2. CASE ~Served(r) BY <1>1, <2>1, <3>2 DEF Alive, MemberRecord
    <3>. QED BY <3>1, <3>2
  <2>. QED BY <2>2, <2>3, <2>4, <2>5
<1>4. ASSUME NEW id \in Ids PROVE MarkedProbation(id) \in Standing \ {NoRecord}
  <2>1. [status |-> "probation", joined |-> hour, seen |-> hour] \in Standing \ {NoRecord}
    BY <1>1 DEF Standing, MemberRecord, NoRecord
  <2>. QED BY <1>1, <1>3, <2>1 DEF MarkedProbation
<1>5. ASSUME NEW id \in Ids PROVE FullMember(id) \in Standing \ {NoRecord}
  <2>1. member[id] \in MemberRecord BY <1>1 DEF Standing
  <2>. QED BY <1>1, <2>1 DEF FullMember, Standing, MemberRecord, NoRecord
<1>. QED BY <1>2, <1>3, <1>4, <1>5 DEF Standing

\* The types of all that is not about members or requests.
PlainTypeOK ==
    /\ route \in [Ids -> Route] /\ routeFile \in [Ids -> Route]
    /\ spentT \subseteq Tickets /\ spentTFile \subseteq Tickets
    /\ memberLog \subseteq Admission /\ logFile \subseteq Admission
    /\ hour \in Hours /\ calls \in 0..MaxCalls /\ memberFaults \in 0..MemberFaults
    /\ admitted \subseteq Ids

LEMMA TypeParts ==
    MembershipTypeOK <=>
        /\ PlainTypeOK /\ joiner \in [Joiners -> MemberJob]
        /\ member \in [Ids -> MemberRecord] /\ memberFile \in [Ids -> MemberRecord]
BY DEF MembershipTypeOK, PlainTypeOK

LEMMA IInvParts ==
    ASSUME MembershipIInv
    PROVE  /\ PlainTypeOK /\ joiner \in [Joiners -> MemberJob]
           /\ member \in [Ids -> Standing] /\ memberFile \in [Ids -> Standing]
           /\ admitted \subseteq KeptIds
BY TypeParts DEF MembershipIInv, StandingInv, AdmittedStay, KeptIds, PlainTypeOK

\* A step that leaves records and admissions alone, and moves one request.
LEMMA PlainStep ==
    ASSUME MembershipIInv, NEW j \in Joiners, NEW job \in MemberJob,
           joiner' = [joiner EXCEPT ![j] = job],
           job # NoJoin => \/ joiner[j] # NoJoin /\ job.id = joiner[j].id
                           \/ ~InProgress(job.id),
           PlainTypeOK', UNCHANGED <<member, memberFile, admitted>>,
           JobOK(job, admitted, KeptIds)
    PROVE  MembershipIInv'
<1>1. KeptIds' = KeptIds BY DEF KeptIds
<1>2. joiner' \in [Joiners -> MemberJob] /\ UniqueInv' /\ JobInv' BY <1>1, JobStep
<1>3. MembershipTypeOK' BY <1>2, TypeParts DEF MembershipIInv, MembershipTypeOK, PlainTypeOK
<1>. QED BY <1>2, <1>3 DEF MembershipIInv, StandingInv, AdmittedStay

\* A step that writes records.
LEMMA RecordStep ==
    ASSUME MembershipIInv, NEW j \in Joiners, NEW job \in MemberJob,
           joiner' = [joiner EXCEPT ![j] = job],
           job # NoJoin => joiner[j] # NoJoin /\ job.id = joiner[j].id,
           PlainTypeOK', member' \in [Ids -> Standing], memberFile' \in [Ids -> Standing],
           admitted' \subseteq KeptIds',
           \A i \in Ids : joiner[j] = NoJoin \/ joiner[j].id # i =>
               (i \in admitted' => i \in admitted) /\ (i \in KeptIds => i \in KeptIds'),
           JobOK(job, admitted', KeptIds')
    PROVE  MembershipIInv'
<1>1. joiner' \in [Joiners -> MemberJob] /\ UniqueInv' /\ JobInv' BY JobStep
<1>2. StandingInv' /\ AdmittedStay' BY DEF StandingInv, AdmittedStay, KeptIds
<1>3. member' \in [Ids -> MemberRecord] /\ memberFile' \in [Ids -> MemberRecord] BY DEF Standing
<1>4. MembershipTypeOK' BY <1>1, <1>3 DEF MembershipTypeOK, PlainTypeOK
<1>. QED BY <1>1, <1>2, <1>4 DEF MembershipIInv

\* A step that writes records and moves no request.
LEMMA QuietRecordStep ==
    ASSUME MembershipIInv, UNCHANGED <<joiner, admitted>>,
           PlainTypeOK', member' \in [Ids -> Standing], memberFile' \in [Ids -> Standing],
           KeptIds \subseteq KeptIds'
    PROVE  MembershipIInv'
<1>1. UniqueInv' BY DEF MembershipIInv, UniqueInv
<1>2. JobInv' BY DEF MembershipIInv, JobInv, JobOK
<1>3. StandingInv' /\ AdmittedStay' BY IInvParts DEF StandingInv, AdmittedStay, KeptIds
<1>4. member' \in [Ids -> MemberRecord] /\ memberFile' \in [Ids -> MemberRecord] BY DEF Standing
<1>5. MembershipTypeOK' BY <1>4, IInvParts DEF MembershipTypeOK, PlainTypeOK
<1>. QED BY <1>1, <1>2, <1>3, <1>5 DEF MembershipIInv

LEMMA PlainJobOK ==
    ASSUME NEW job \in JoinJob \cup AnnounceJob \cup RefreshJob
    PROVE  /\ job \in MemberJob /\ job # NoJoin
           /\ \A a, k : JobOK(job, a, k)
BY DEF JoinJob, AnnounceJob, RefreshJob, WriteJob, MemberJob, NoJoin, JobOK

\* A write request goes on with the record it will put back.
LEMMA WriteJobOK ==
    ASSUME MembershipIInv, NEW j \in Joiners, joiner[j] \in WriteJob,
           NEW pc \in {"insert", "mark", "undoRoute", "undoMember", "unspend"},
           NEW next, next = [joiner[j] EXCEPT !.pc = pc]
    PROVE  /\ next \in MemberJob /\ joiner[j] # NoJoin /\ next.id = joiner[j].id
           /\ \A kept : JobOK(next, admitted, kept)
<1>1. next \in WriteJob /\ next \in MemberJob /\ next.pc = pc
      /\ next.id = joiner[j].id /\ next.oldMember = joiner[j].oldMember
  BY WriteJobStep
<1>2. JobOK(joiner[j], admitted, KeptIds) BY DEF MembershipIInv, JobInv
<1>3. joiner[j] # NoJoin BY DEF WriteJob, NoJoin
<1>. QED BY <1>1, <1>2, <1>3 DEF JobOK

LEMMA SaveCounts ==
    ASSUME PlainTypeOK, \/ UNCHANGED memberFaults
                        \/ memberFaults < MemberFaults /\ memberFaults' = memberFaults + 1
    PROVE  memberFaults' \in 0..MemberFaults
BY MembershipAssumption DEF PlainTypeOK

LEMMA BeginJoinPreserves ==
    ASSUME MembershipIInv, ~Overlap, NEW j \in Joiners, NEW id \in Ids, NEW t \in Tickets,
           BeginJoin(j, id, t)
    PROVE  MembershipIInv'
<1>. DEFINE job == [pc |-> "spend", id |-> id, ticket |-> t, known |-> member[id] # NoRecord]
<1>1. /\ joiner[j] = NoJoin /\ calls < MaxCalls /\ calls' = calls + 1 /\ ~InProgress(id)
      /\ joiner' = [joiner EXCEPT ![j] = job]
      /\ UNCHANGED <<route, routeFile, member, memberFile, spentT, spentTFile, memberLog, logFile, hour,
                     memberFaults, admitted>>
  BY DEF BeginJoin, Begin, Step
<1>2. job \in JoinJob /\ job.id = id BY DEF JoinJob
<1>3. PlainTypeOK' BY <1>1, IInvParts, MembershipAssumption DEF PlainTypeOK
<1>. HIDE DEF job
<1>. QED BY <1>1, <1>2, <1>3, PlainJobOK, PlainStep

LEMMA SpendInvitePreserves ==
    ASSUME MembershipIInv, NEW j \in Joiners, SpendInvite(j) PROVE MembershipIInv'
<1>. DEFINE next == [joiner[j] EXCEPT !.pc = "read"]
<1>1. /\ joiner[j].pc = "spend"
      /\ joiner' = [joiner EXCEPT ![j] = NoJoin] \/ joiner' = [joiner EXCEPT ![j] = next]
      /\ spentT' \subseteq UnexpiredTickets \cup {joiner[j].ticket}
      /\ spentTFile' \in {spentTFile, UnexpiredTickets \cup {joiner[j].ticket}}
      /\ UNCHANGED <<route, routeFile, member, memberFile, memberLog, logFile, hour, calls, admitted>>
  BY DEF SpendInvite, Goto, Finish, Step, Saved, SaveFails
<1>2. \/ UNCHANGED memberFaults
      \/ memberFaults < MemberFaults /\ memberFaults' = memberFaults + 1
  BY DEF SpendInvite, Saved, SaveFails
<1>3. joiner[j] \in JoinJob /\ joiner[j] # NoJoin BY <1>1, IInvParts, JoinJobShape DEF NoJoin
<1>4. UnexpiredTickets \cup {joiner[j].ticket} \subseteq Tickets
  BY <1>3, IInvParts DEF UnexpiredTickets, PlainTypeOK, JoinJob
<1>5. PlainTypeOK' BY <1>1, <1>2, <1>4, IInvParts, SaveCounts DEF PlainTypeOK
<1>6. next \in JoinJob /\ next.id = joiner[j].id BY <1>3 DEF JoinJob
<1>. HIDE DEF next
<1>7. CASE joiner' = [joiner EXCEPT ![j] = NoJoin] BY <1>1, <1>5, <1>7, NoJoinOK, PlainStep
<1>8. CASE joiner' = [joiner EXCEPT ![j] = next]
  BY <1>1, <1>3, <1>5, <1>6, <1>8, PlainJobOK, PlainStep
<1>. QED BY <1>1, <1>7, <1>8

LEMMA ReadPreviousPreserves ==
    ASSUME MembershipIInv, NEW j \in Joiners, ReadPrevious(j) PROVE MembershipIInv'
<1>. DEFINE job == [pc |-> "insert", id |-> joiner[j].id, ticket |-> joiner[j].ticket,
                    oldRoute |-> route[joiner[j].id], oldMember |-> member[joiner[j].id],
                    logged |-> FALSE]
<1>1. /\ joiner[j].pc = "read" /\ joiner' = [joiner EXCEPT ![j] = job]
      /\ UNCHANGED <<route, routeFile, member, memberFile, spentT, spentTFile, memberLog, logFile,
                     hour, calls, memberFaults, admitted>>
  BY DEF ReadPrevious, Step
<1>2. joiner[j] \in JoinJob /\ joiner[j] # NoJoin BY <1>1, IInvParts, JoinJobShape DEF NoJoin
<1>3. joiner[j].id \in Ids /\ joiner[j].ticket \in Tickets BY <1>2 DEF JoinJob
<1>4. route[joiner[j].id] \in Route /\ member[joiner[j].id] \in Standing
  BY <1>3, IInvParts DEF PlainTypeOK
<1>5. job \in WriteJob /\ job.id = joiner[j].id /\ job.pc = "insert" /\ job.oldMember = member[joiner[j].id]
  BY <1>3, <1>4 DEF WriteJob, Standing
<1>. HIDE DEF job
<1>6. JobOK(job, admitted, KeptIds) BY <1>4, <1>5, IInvParts DEF JobOK, KeptIds
<1>7. PlainTypeOK' BY <1>1, IInvParts DEF PlainTypeOK
<1>. QED BY <1>1, <1>2, <1>5, <1>6, <1>7, PlainStep DEF MemberJob

LEMMA InsertPeerPreserves ==
    ASSUME MembershipIInv, NEW j \in Joiners, InsertPeer(j) PROVE MembershipIInv'
<1>. DEFINE new == Inserted(joiner[j].id, joiner[j].ticket.key)
            kept == [new EXCEPT ![joiner[j].id] = LiveRoutes[joiner[j].id]]
<1>1. /\ joiner[j].pc = "insert"
      /\ Goto(j, "mark") \/ Goto(j, "unspend")
      /\ route' \in {new, kept, LiveRoutes} /\ routeFile' \in {routeFile, new}
      /\ UNCHANGED <<member, memberFile, spentT, spentTFile, memberLog, logFile, hour, calls, admitted>>
  BY DEF InsertPeer, Saved, SaveFails
<1>2. \/ UNCHANGED memberFaults
      \/ memberFaults < MemberFaults /\ memberFaults' = memberFaults + 1
  BY DEF InsertPeer, Saved, SaveFails
<1>3. joiner[j] \in WriteJob BY <1>1, IInvParts, JoinJobShape
<1>4. joiner[j].id \in Ids /\ joiner[j].ticket.key \in NodeKeys
  BY <1>3, MembershipAssumption DEF WriteJob
<1>5. new \in [Ids -> Route] /\ LiveRoutes \in [Ids -> Route]
  BY <1>4, RouteShape DEF MembershipIInv
<1>. HIDE DEF new
<1>6. kept \in [Ids -> Route] BY <1>4, <1>5
<1>. HIDE DEF kept
<1>7. PlainTypeOK' BY <1>1, <1>2, <1>5, <1>6, IInvParts, SaveCounts DEF PlainTypeOK
<1>8. PICK pc \in {"mark", "unspend"} : joiner' = [joiner EXCEPT ![j] = [joiner[j] EXCEPT !.pc = pc]]
  BY <1>1 DEF Goto
<1>. QED BY <1>1, <1>3, <1>7, <1>8, WriteJobOK, PlainStep

LEMMA UndoRoutePreserves ==
    ASSUME MembershipIInv, NEW j \in Joiners, UndoRoute(j) PROVE MembershipIInv'
<1>. DEFINE new == [route EXCEPT ![joiner[j].id] = joiner[j].oldRoute]
<1>1. /\ joiner[j].pc = "undoRoute" /\ route' = new /\ routeFile' \in {routeFile, new}
      /\ UNCHANGED <<member, memberFile, spentT, spentTFile, memberLog, logFile, hour, calls, admitted>>
  BY DEF UndoRoute, Saved, SaveFails
<1>2. \/ UNCHANGED memberFaults
      \/ memberFaults < MemberFaults /\ memberFaults' = memberFaults + 1
  BY DEF UndoRoute, Saved, SaveFails
<1>3. joiner[j] \in WriteJob BY <1>1, IInvParts, JoinJobShape
<1>4. new \in [Ids -> Route] BY <1>3, IInvParts DEF WriteJob, PlainTypeOK
<1>. HIDE DEF new
<1>5. PlainTypeOK' BY <1>1, <1>2, <1>4, IInvParts, SaveCounts DEF PlainTypeOK
<1>6. PICK pc \in {"undoMember", "unspend"} : joiner' = [joiner EXCEPT ![j] = [joiner[j] EXCEPT !.pc = pc]]
  BY DEF UndoRoute, Goto
<1>. QED BY <1>1, <1>3, <1>5, <1>6, WriteJobOK, PlainStep

LEMMA UnspendInvitePreserves ==
    ASSUME MembershipIInv, NEW j \in Joiners, UnspendInvite(j) PROVE MembershipIInv'
<1>1. /\ joiner' = [joiner EXCEPT ![j] = NoJoin]
      /\ spentT' \subseteq spentT /\ spentTFile' \in {spentTFile, spentT'}
      /\ UNCHANGED <<route, routeFile, member, memberFile, memberLog, logFile, hour, calls, admitted>>
  BY DEF UnspendInvite, Finish, Step, Saved, SaveFails
<1>2. \/ UNCHANGED memberFaults
      \/ memberFaults < MemberFaults /\ memberFaults' = memberFaults + 1
  BY DEF UnspendInvite, Saved, SaveFails
<1>3. PlainTypeOK' BY <1>1, <1>2, IInvParts, SaveCounts DEF PlainTypeOK
<1>. QED BY <1>1, <1>3, NoJoinOK, PlainStep

LEMMA AnnounceUndoPreserves ==
    ASSUME MembershipIInv, NEW j \in Joiners, AnnounceUndo(j) PROVE MembershipIInv'
<1>. DEFINE new == [route EXCEPT ![joiner[j].id] = joiner[j].oldRoute]
<1>1. /\ joiner[j].pc = "announceUndo" /\ route' = new /\ routeFile' \in {routeFile, new}
      /\ joiner' = [joiner EXCEPT ![j] = NoJoin]
      /\ UNCHANGED <<member, memberFile, spentT, spentTFile, memberLog, logFile, hour, calls, admitted>>
  BY DEF AnnounceUndo, Finish, Step, Saved, SaveFails
<1>2. \/ UNCHANGED memberFaults
      \/ memberFaults < MemberFaults /\ memberFaults' = memberFaults + 1
  BY DEF AnnounceUndo, Saved, SaveFails
<1>3. joiner[j] \in AnnounceJob BY <1>1, IInvParts, JoinJobShape
<1>4. new \in [Ids -> Route] BY <1>3, IInvParts DEF AnnounceJob, PlainTypeOK
<1>. HIDE DEF new
<1>5. PlainTypeOK' BY <1>1, <1>2, <1>4, IInvParts, SaveCounts DEF PlainTypeOK
<1>. QED BY <1>1, <1>5, NoJoinOK, PlainStep

\* BeginAnnounce and BeginRefresh: the routing table is written, and a request begins.
LEMMA InsertBegins ==
    ASSUME MembershipIInv, NEW j \in Joiners, NEW id \in Ids, NEW key \in NodeKeys,
           NEW new, NEW kept, new = Inserted(id, key),
           kept = [new EXCEPT ![id] = LiveRoutes[id]],
           calls < MaxCalls, calls' = calls + 1,
           route' \in {new, kept, LiveRoutes}, routeFile' \in {routeFile, new},
           \/ UNCHANGED memberFaults
           \/ memberFaults < MemberFaults /\ memberFaults' = memberFaults + 1,
           UNCHANGED <<member, memberFile, spentT, spentTFile, memberLog, logFile, hour, admitted>>
    PROVE  PlainTypeOK'
<1>1. new \in [Ids -> Route] /\ LiveRoutes \in [Ids -> Route] BY RouteShape DEF MembershipIInv
<1>2. kept \in [Ids -> Route] BY <1>1
<1>3. calls' \in 0..MaxCalls BY IInvParts, MembershipAssumption DEF PlainTypeOK
<1>4. memberFaults' \in 0..MemberFaults BY IInvParts, SaveCounts
<1>. QED BY <1>1, <1>2, <1>3, <1>4, IInvParts DEF PlainTypeOK

LEMMA QuietStep ==
    ASSUME MembershipIInv, UNCHANGED <<joiner, member, memberFile, admitted>>, PlainTypeOK'
    PROVE  MembershipIInv'
BY IInvParts, QuietRecordStep DEF KeptIds

LEMMA BeginAnnouncePreserves ==
    ASSUME MembershipIInv, ~Overlap, NEW j \in Joiners, NEW id \in Ids, NEW key \in NodeKeys,
           BeginAnnounce(j, id, key)
    PROVE  MembershipIInv'
<1>. DEFINE new == Inserted(id, key)
            kept == [new EXCEPT ![id] = LiveRoutes[id]]
            job == [pc |-> "announceMark", id |-> id, oldRoute |-> route[id]]
<1>1. /\ joiner[j] = NoJoin /\ calls < MaxCalls /\ calls' = calls + 1 /\ ~InProgress(id)
      /\ route' \in {new, kept, LiveRoutes} /\ routeFile' \in {routeFile, new}
      /\ joiner' = [joiner EXCEPT ![j] = job] \/ joiner' = joiner
      /\ UNCHANGED <<member, memberFile, spentT, spentTFile, memberLog, logFile, hour, admitted>>
  BY DEF BeginAnnounce, Begin, Step, Saved, SaveFails
<1>2. \/ UNCHANGED memberFaults
      \/ memberFaults < MemberFaults /\ memberFaults' = memberFaults + 1
  BY DEF BeginAnnounce, Saved, SaveFails
<1>3. PlainTypeOK' BY <1>1, <1>2, InsertBegins
<1>4. job \in AnnounceJob /\ job.id = id BY IInvParts DEF AnnounceJob, PlainTypeOK
<1>. HIDE DEF job, kept, new
<1>5. CASE joiner' = [joiner EXCEPT ![j] = job] BY <1>1, <1>3, <1>4, <1>5, PlainJobOK, PlainStep
<1>6. CASE joiner' = joiner BY <1>1, <1>3, <1>6, QuietStep
<1>. QED BY <1>1, <1>5, <1>6

LEMMA BeginRefreshPreserves ==
    ASSUME MembershipIInv, ~Overlap, NEW j \in Joiners, NEW id \in Ids, NEW key \in NodeKeys,
           BeginRefresh(j, id, key)
    PROVE  MembershipIInv'
<1>. DEFINE new == Inserted(id, key)
            kept == [new EXCEPT ![id] = LiveRoutes[id]]
            job == [pc |-> "refreshNote", id |-> id]
<1>1. /\ joiner[j] = NoJoin /\ calls < MaxCalls /\ calls' = calls + 1 /\ ~InProgress(id)
      /\ route' \in {new, kept, LiveRoutes} /\ routeFile' \in {routeFile, new}
      /\ joiner' = [joiner EXCEPT ![j] = job] \/ joiner' = joiner
      /\ UNCHANGED <<member, memberFile, spentT, spentTFile, memberLog, logFile, hour, admitted>>
  BY DEF BeginRefresh, Begin, Step, Saved, SaveFails
<1>2. \/ UNCHANGED memberFaults
      \/ memberFaults < MemberFaults /\ memberFaults' = memberFaults + 1
  BY DEF BeginRefresh, Saved, SaveFails
<1>3. PlainTypeOK' BY <1>1, <1>2, InsertBegins
<1>4. job \in RefreshJob /\ job.id = id BY DEF RefreshJob
<1>. HIDE DEF job, kept, new
<1>5. CASE joiner' = [joiner EXCEPT ![j] = job] BY <1>1, <1>3, <1>4, <1>5, PlainJobOK, PlainStep
<1>6. CASE joiner' = joiner BY <1>1, <1>3, <1>6, QuietStep
<1>. QED BY <1>1, <1>5, <1>6

LEMMA MarkProbationPreserves ==
    ASSUME MembershipIInv, NEW j \in Joiners, MarkProbation(j) PROVE MembershipIInv'
<1>. DEFINE id == joiner[j].id
            new == [member EXCEPT ![id] = MarkedProbation(id)]
<1>1. /\ joiner[j].pc = "mark"
      /\ \/ member' = new /\ memberFile' = new /\ UNCHANGED memberFaults /\ Goto(j, "log")
         \/ /\ member' = member /\ memberFile' \in {memberFile, new} /\ Goto(j, "undoRoute")
            /\ memberFaults < MemberFaults /\ memberFaults' = memberFaults + 1
      /\ UNCHANGED <<route, routeFile, spentT, spentTFile, memberLog, logFile, hour, calls, admitted>>
  BY DEF MarkProbation, Saved, SaveFails
<1>2. joiner[j] \in WriteJob /\ id \in Ids
  <2>1. joiner[j] \in WriteJob BY <1>1, IInvParts, JoinJobShape
  <2>. QED BY <2>1 DEF WriteJob
<1>3. PlainTypeOK' BY <1>1, IInvParts, SaveCounts DEF PlainTypeOK
<1>4. MarkedProbation(id) \in Standing \ {NoRecord} BY <1>2, RecordShape
<1>5. /\ new \in [Ids -> Standing] /\ new[id] # NoRecord
      /\ \A i \in Ids : member[i] # NoRecord => new[i] # NoRecord
  BY <1>2, <1>4, IInvParts
<1>. HIDE DEF id, new
<1>6. KeptIds \subseteq KeptIds' BY <1>1, <1>5 DEF KeptIds
<1>7. member' \in [Ids -> Standing] /\ memberFile' \in [Ids -> Standing] BY <1>1, <1>5, IInvParts
<1>8. admitted' \subseteq KeptIds' BY <1>1, <1>6, IInvParts
<1>9. CASE Goto(j, "undoRoute")
  <2>1. joiner' = [joiner EXCEPT ![j] = [joiner[j] EXCEPT !.pc = "undoRoute"]] BY <1>9 DEF Goto
  <2>. QED BY <1>1, <1>2, <1>3, <1>6, <1>7, <1>8, <2>1, WriteJobOK, RecordStep
<1>10. CASE member' = new /\ memberFile' = new /\ Goto(j, "log")
  <2>. DEFINE next == [joiner[j] EXCEPT !.pc = "log"]
  <2>1. joiner' = [joiner EXCEPT ![j] = next] BY <1>10 DEF Goto
  <2>2. next \in WriteJob /\ next \in MemberJob /\ next.id = id /\ next.oldMember = joiner[j].oldMember
    BY <1>2, WriteJobStep DEF id
  <2>. HIDE DEF next
  <2>3. id \in KeptIds' BY <1>2, <1>5, <1>10 DEF KeptIds
  <2>4. JobOK(joiner[j], admitted, KeptIds) BY DEF MembershipIInv, JobInv
  <2>5. JobOK(next, admitted', KeptIds') BY <1>1, <1>2, <2>2, <2>3, <2>4 DEF JobOK, id
  <2>6. joiner[j] # NoJoin BY <1>2 DEF WriteJob, NoJoin
  <2>. QED BY <1>1, <1>2, <1>3, <1>6, <1>7, <1>8, <2>1, <2>2, <2>5, <2>6, RecordStep DEF id
<1>. QED BY <1>1, <1>9, <1>10

LEMMA LogAdmissionPreserves ==
    ASSUME MembershipIInv, NEW j \in Joiners, LogAdmission(j) PROVE MembershipIInv'
<1>. DEFINE id == joiner[j].id
            new == memberLog \cup {[ticket |-> joiner[j].ticket, id |-> id]}
            job == [joiner[j] EXCEPT !.pc = "undoRoute", !.logged = TRUE]
<1>1. /\ joiner[j].pc = "log"
      /\ \/ /\ memberLog' = new /\ logFile' = new /\ UNCHANGED memberFaults
            /\ joiner' = [joiner EXCEPT ![j] = NoJoin] /\ admitted' = admitted \cup {id}
         \/ /\ memberLog' = memberLog /\ logFile' \in {logFile, new} /\ admitted' = admitted
            /\ memberFaults < MemberFaults /\ memberFaults' = memberFaults + 1
            /\ joiner' = [joiner EXCEPT ![j] = job]
      /\ UNCHANGED <<route, routeFile, member, memberFile, spentT, spentTFile, hour, calls>>
  BY DEF LogAdmission, Finish, Step, Saved, SaveFails
<1>2. joiner[j] \in WriteJob BY <1>1, IInvParts, JoinJobShape
<1>3. id \in Ids /\ joiner[j].ticket \in Tickets /\ joiner[j] # NoJoin BY <1>2 DEF WriteJob, NoJoin
<1>4. job \in WriteJob /\ job.id = id /\ job.pc = "undoRoute" /\ job.oldMember = joiner[j].oldMember
  BY <1>2 DEF WriteJob
<1>5. new \subseteq Admission BY <1>3, IInvParts DEF PlainTypeOK, Admission
<1>6. JobOK(joiner[j], admitted, KeptIds) BY DEF MembershipIInv, JobInv
<1>7. id \in KeptIds BY <1>1, <1>6 DEF JobOK
<1>8. KeptIds' = KeptIds BY <1>1 DEF KeptIds
<1>. HIDE DEF job, new
<1>9. PlainTypeOK' BY <1>1, <1>3, <1>5, IInvParts, SaveCounts DEF PlainTypeOK
<1>10. member' \in [Ids -> Standing] /\ memberFile' \in [Ids -> Standing] BY <1>1, IInvParts
<1>11. admitted' \subseteq KeptIds' BY <1>1, <1>7, <1>8, IInvParts
<1>12. CASE joiner' = [joiner EXCEPT ![j] = NoJoin] /\ admitted' = admitted \cup {id}
  <2>1. \A i \in Ids : joiner[j] = NoJoin \/ joiner[j].id # i =>
           (i \in admitted' => i \in admitted) /\ (i \in KeptIds => i \in KeptIds')
    BY <1>3, <1>8, <1>12
  <2>. QED BY <1>9, <1>10, <1>11, <1>12, <2>1, NoJoinOK, RecordStep
<1>13. CASE joiner' = [joiner EXCEPT ![j] = job] /\ admitted' = admitted
  <2>1. JobOK(job, admitted', KeptIds') BY <1>2, <1>4, <1>6, <1>13 DEF JobOK
  <2>. QED BY <1>3, <1>4, <1>8, <1>9, <1>10, <1>11, <1>13, <2>1, RecordStep DEF MemberJob
<1>. QED BY <1>1, <1>12, <1>13

LEMMA UndoMemberPreserves ==
    ASSUME MembershipIInv, NEW j \in Joiners, UndoMember(j) PROVE MembershipIInv'
<1>. DEFINE id == joiner[j].id
            new == [member EXCEPT ![id] = joiner[j].oldMember]
<1>1. /\ joiner[j].pc = "undoMember" /\ member' = new /\ memberFile' \in {memberFile, new}
      /\ joiner' = [joiner EXCEPT ![j] = [joiner[j] EXCEPT !.pc = "unspend"]]
      /\ UNCHANGED <<route, routeFile, spentT, spentTFile, memberLog, logFile, hour, calls, admitted>>
  BY DEF UndoMember, Goto, Saved, SaveFails
<1>2. \/ UNCHANGED memberFaults
      \/ memberFaults < MemberFaults /\ memberFaults' = memberFaults + 1
  BY DEF UndoMember, Saved, SaveFails
<1>3. joiner[j] \in WriteJob BY <1>1, IInvParts, JoinJobShape
<1>4. id \in Ids BY <1>3 DEF WriteJob
<1>5. /\ joiner[j].oldMember \in Standing
      /\ id \in admitted => joiner[j].oldMember # NoRecord
  BY <1>3 DEF MembershipIInv, JobInv, JobOK
<1>6. PlainTypeOK' BY <1>1, <1>2, IInvParts, SaveCounts DEF PlainTypeOK
<1>7. /\ new \in [Ids -> Standing] /\ new[id] = joiner[j].oldMember
      /\ \A i \in Ids \ {id} : new[i] = member[i]
  BY <1>4, <1>5, IInvParts
<1>. HIDE DEF new, id
<1>8. \A i \in Ids \ {id} : i \in KeptIds => i \in KeptIds' BY <1>1, <1>7 DEF KeptIds
<1>9. id \in admitted => id \in KeptIds'
  BY <1>1, <1>4, <1>5, <1>7, IInvParts DEF KeptIds
<1>10. admitted' \subseteq KeptIds' BY <1>1, <1>8, <1>9, IInvParts DEF PlainTypeOK
<1>11. member' \in [Ids -> Standing] /\ memberFile' \in [Ids -> Standing] BY <1>1, <1>7, IInvParts
<1>12. \A i \in Ids : joiner[j] = NoJoin \/ joiner[j].id # i =>
          (i \in admitted' => i \in admitted) /\ (i \in KeptIds => i \in KeptIds')
  BY <1>1, <1>3, <1>8 DEF id, WriteJob, NoJoin
<1>. QED BY <1>1, <1>3, <1>6, <1>10, <1>11, <1>12, WriteJobOK, RecordStep

LEMMA AnnounceMarkPreserves ==
    ASSUME MembershipIInv, NEW j \in Joiners, AnnounceMark(j) PROVE MembershipIInv'
<1>. DEFINE id == joiner[j].id
            new == [member EXCEPT ![id] = FullMember(id)]
            next == [joiner[j] EXCEPT !.pc = "announceUndo"]
<1>1. /\ joiner[j].pc = "announceMark"
      /\ \/ /\ member' = new /\ memberFile' = new /\ UNCHANGED memberFaults
            /\ joiner' = [joiner EXCEPT ![j] = NoJoin] /\ admitted' = admitted \cup {id}
         \/ /\ member' = member /\ memberFile' \in {memberFile, new} /\ admitted' = admitted
            /\ memberFaults < MemberFaults /\ memberFaults' = memberFaults + 1
            /\ joiner' = [joiner EXCEPT ![j] = next]
      /\ UNCHANGED <<route, routeFile, spentT, spentTFile, memberLog, logFile, hour, calls>>
  BY DEF AnnounceMark, Finish, Step, Goto, Saved, SaveFails
<1>2. joiner[j] \in AnnounceJob BY <1>1, IInvParts, JoinJobShape
<1>3. id \in Ids /\ joiner[j] # NoJoin BY <1>2 DEF AnnounceJob, NoJoin
<1>4. next \in AnnounceJob /\ next.id = id BY <1>2 DEF AnnounceJob
<1>5. FullMember(id) \in Standing \ {NoRecord} BY <1>3, RecordShape
<1>6. /\ new \in [Ids -> Standing] /\ new[id] # NoRecord
      /\ \A i \in Ids : member[i] # NoRecord => new[i] # NoRecord
  BY <1>3, <1>5, IInvParts
<1>. HIDE DEF new, next
<1>7. KeptIds \subseteq KeptIds' BY <1>1, <1>6 DEF KeptIds
<1>8. member' \in [Ids -> Standing] /\ memberFile' \in [Ids -> Standing] BY <1>1, <1>6, IInvParts
<1>9. PlainTypeOK' BY <1>1, <1>3, IInvParts, SaveCounts DEF PlainTypeOK
<1>10. CASE /\ member' = new /\ memberFile' = new
            /\ joiner' = [joiner EXCEPT ![j] = NoJoin] /\ admitted' = admitted \cup {id}
  <2>1. admitted' \subseteq KeptIds' BY <1>3, <1>6, <1>7, <1>10, IInvParts DEF KeptIds
  <2>2. \A i \in Ids : joiner[j] = NoJoin \/ joiner[j].id # i =>
           (i \in admitted' => i \in admitted) /\ (i \in KeptIds => i \in KeptIds')
    BY <1>3, <1>7, <1>10
  <2>. QED BY <1>8, <1>9, <1>10, <2>1, <2>2, NoJoinOK, RecordStep
<1>11. CASE joiner' = [joiner EXCEPT ![j] = next] /\ admitted' = admitted
  <2>1. admitted' \subseteq KeptIds' BY <1>7, <1>11, IInvParts
  <2>. QED BY <1>3, <1>4, <1>7, <1>8, <1>9, <1>11, <2>1, PlainJobOK, RecordStep
<1>. QED BY <1>1, <1>10, <1>11

LEMMA RefreshNotePreserves ==
    ASSUME MembershipIInv, NEW j \in Joiners, RefreshNote(j) PROVE MembershipIInv'
<1>. DEFINE id == joiner[j].id
            new == [member EXCEPT ![id] = Alive(@)]
<1>1. /\ joiner[j].pc = "refreshNote" /\ joiner' = [joiner EXCEPT ![j] = NoJoin]
      /\ \/ member' = member /\ memberFile' = memberFile
         \/ member[id] # NoRecord /\ member' \in {member, new} /\ memberFile' \in {memberFile, new}
      /\ UNCHANGED <<route, routeFile, spentT, spentTFile, memberLog, logFile, hour, calls, admitted>>
  BY DEF RefreshNote, Finish, Step, Saved, SaveFails
<1>2. \/ UNCHANGED memberFaults
      \/ memberFaults < MemberFaults /\ memberFaults' = memberFaults + 1
  BY DEF RefreshNote, Saved, SaveFails
<1>3. joiner[j] \in RefreshJob BY <1>1, IInvParts, JoinJobShape
<1>4. id \in Ids BY <1>3 DEF RefreshJob
<1>5. PlainTypeOK' BY <1>1, <1>2, IInvParts, SaveCounts DEF PlainTypeOK
<1>6. member[id] # NoRecord =>
        /\ new \in [Ids -> Standing]
        /\ \A i \in Ids : member[i] # NoRecord => new[i] # NoRecord
  <2>. SUFFICES ASSUME member[id] # NoRecord
                PROVE  /\ new \in [Ids -> Standing]
                       /\ \A i \in Ids : member[i] # NoRecord => new[i] # NoRecord
    OBVIOUS
  <2>1. Alive(member[id]) \in Standing \ {NoRecord} BY <1>4, IInvParts, RecordShape
  <2>2. new = [member EXCEPT ![id] = Alive(member[id])] OBVIOUS
  <2>. QED BY <1>4, <2>1, <2>2, IInvParts
<1>. HIDE DEF new, id
<1>7. KeptIds \subseteq KeptIds' BY <1>1, <1>6 DEF KeptIds
<1>8. member' \in [Ids -> Standing] /\ memberFile' \in [Ids -> Standing] BY <1>1, <1>6, IInvParts
<1>9. admitted' \subseteq KeptIds' BY <1>1, <1>7, IInvParts
<1>. QED BY <1>1, <1>5, <1>7, <1>8, <1>9, NoJoinOK, RecordStep

LEMMA HeartbeatPreserves ==
    ASSUME MembershipIInv, NEW id \in Ids, Heartbeat(id) PROVE MembershipIInv'
<1>. DEFINE new == [member EXCEPT ![id] = Alive(@)]
            seen == [member EXCEPT ![id].seen = hour]
<1>1. /\ member[id] # NoRecord /\ member' \in {new, seen} /\ memberFile' \in {memberFile, new}
      /\ UNCHANGED <<route, routeFile, spentT, spentTFile, memberLog, logFile, joiner, hour, calls,
                     admitted>>
  BY DEF Heartbeat, Saved, SaveFails
<1>2. \/ UNCHANGED memberFaults
      \/ memberFaults < MemberFaults /\ memberFaults' = memberFaults + 1
  BY DEF Heartbeat, Saved, SaveFails
<1>3. PlainTypeOK' BY <1>1, <1>2, IInvParts, SaveCounts DEF PlainTypeOK
<1>4. /\ Alive(member[id]) \in Standing \ {NoRecord}
      /\ [member[id] EXCEPT !.seen = hour] \in Standing \ {NoRecord}
  BY <1>1, IInvParts, RecordShape
<1>5. /\ new = [member EXCEPT ![id] = Alive(member[id])]
      /\ seen = [member EXCEPT ![id] = [member[id] EXCEPT !.seen = hour]]
  OBVIOUS
<1>. HIDE DEF new, seen
<1>6. /\ new \in [Ids -> Standing] /\ seen \in [Ids -> Standing]
      /\ \A i \in Ids : member[i] # NoRecord => new[i] # NoRecord /\ seen[i] # NoRecord
  BY <1>4, <1>5, IInvParts
<1>7. KeptIds \subseteq KeptIds' BY <1>1, <1>6 DEF KeptIds
<1>8. member' \in [Ids -> Standing] /\ memberFile' \in [Ids -> Standing] BY <1>1, <1>6, IInvParts
<1>. QED BY <1>1, <1>3, <1>7, <1>8, QuietRecordStep

LEMMA GraduatePeerPreserves ==
    ASSUME MembershipIInv, NEW id \in Ids, GraduatePeer(id) PROVE MembershipIInv'
<1>. DEFINE new == [member EXCEPT ![id] = FullMember(id)]
<1>1. /\ calls < MaxCalls /\ calls' = calls + 1
      /\ member' \in {member, new} /\ memberFile' \in {memberFile, new}
      /\ UNCHANGED <<route, routeFile, spentT, spentTFile, memberLog, logFile, joiner, hour, admitted>>
  BY DEF GraduatePeer, Saved, SaveFails
<1>2. \/ UNCHANGED memberFaults
      \/ memberFaults < MemberFaults /\ memberFaults' = memberFaults + 1
  BY DEF GraduatePeer, Saved, SaveFails
<1>3. PlainTypeOK' BY <1>1, <1>2, IInvParts, SaveCounts, MembershipAssumption DEF PlainTypeOK
<1>4. FullMember(id) \in Standing \ {NoRecord} BY RecordShape
<1>5. /\ new \in [Ids -> Standing]
      /\ \A i \in Ids : member[i] # NoRecord => new[i] # NoRecord
  BY <1>4, IInvParts
<1>. HIDE DEF new
<1>6. KeptIds \subseteq KeptIds' BY <1>1, <1>5 DEF KeptIds
<1>7. member' \in [Ids -> Standing] /\ memberFile' \in [Ids -> Standing] BY <1>1, <1>5, IInvParts
<1>. QED BY <1>1, <1>3, <1>6, <1>7, QuietRecordStep

LEMMA MembershipSnapshotPreserves ==
    ASSUME MembershipIInv, MembershipSnapshot PROVE MembershipIInv'
<1>. DEFINE ready == {i \in Ids : Served(member[i]) /\ hour - member[i].seen <= Grace}
            new == [i \in Ids |-> IF i \in ready THEN [member[i] EXCEPT !.status = "full"]
                                                 ELSE member[i]]
<1>1. /\ member' \in {member, new} /\ memberFile' \in {memberFile, new} /\ route' = LiveRoutes
      /\ UNCHANGED <<routeFile, spentT, spentTFile, memberLog, logFile, joiner, hour, calls, admitted>>
  BY DEF MembershipSnapshot, Saved, SaveFails
<1>2. \/ UNCHANGED memberFaults
      \/ memberFaults < MemberFaults /\ memberFaults' = memberFaults + 1
  BY DEF MembershipSnapshot, Saved, SaveFails
<1>3. LiveRoutes \in [Ids -> Route] BY RouteShape DEF MembershipIInv
<1>4. PlainTypeOK' BY <1>1, <1>2, <1>3, IInvParts, SaveCounts DEF PlainTypeOK
<1>5. ASSUME NEW i \in ready PROVE [member[i] EXCEPT !.status = "full"] \in Standing \ {NoRecord}
  <2>1. i \in Ids /\ member[i].status = "probation" BY <1>5 DEF Served
  <2>2. member[i] \in Standing \ {NoRecord} BY <2>1, IInvParts DEF NoRecord
  <2>. QED BY <2>2, RecordShape
<1>6. /\ new \in [Ids -> Standing]
      /\ \A i \in Ids : member[i] # NoRecord => new[i] # NoRecord
  BY <1>5, IInvParts
<1>. HIDE DEF new
<1>7. KeptIds \subseteq KeptIds' BY <1>1, <1>6 DEF KeptIds
<1>8. member' \in [Ids -> Standing] /\ memberFile' \in [Ids -> Standing] BY <1>1, <1>6, IInvParts
<1>. QED BY <1>1, <1>4, <1>7, <1>8, QuietRecordStep

LEMMA MembershipCrashPreserves ==
    ASSUME MembershipIInv, MembershipCrash PROVE MembershipIInv'
<1>1. /\ memberFaults < MemberFaults /\ memberFaults' = memberFaults + 1
      /\ route' = [i \in Ids |-> IF Fresh(routeFile[i]) THEN routeFile[i] ELSE NoRoute]
      /\ member' = memberFile /\ memberFile' = memberFile
      /\ spentT' \subseteq spentTFile /\ memberLog' = logFile
      /\ joiner' = [j \in Joiners |-> NoJoin]
      /\ UNCHANGED <<routeFile, spentTFile, logFile, hour, calls, admitted>>
  BY DEF MembershipCrash
<1>2. route' \in [Ids -> Route] BY <1>1, IInvParts, RouteShape DEF PlainTypeOK, MembershipIInv
<1>3. PlainTypeOK' BY <1>1, <1>2, IInvParts, SaveCounts DEF PlainTypeOK
<1>4. KeptIds \subseteq KeptIds' BY <1>1 DEF KeptIds
<1>5. StandingInv' /\ AdmittedStay' BY <1>1, <1>4, IInvParts DEF StandingInv, AdmittedStay, KeptIds
<1>6. joiner' \in [Joiners -> MemberJob] /\ UniqueInv' /\ JobInv'
  BY <1>1, NoJoinOK DEF UniqueInv, JobInv
<1>7. MembershipTypeOK'
  BY <1>1, <1>3, <1>6, IInvParts DEF MembershipTypeOK, PlainTypeOK, Standing
<1>. QED BY <1>5, <1>6, <1>7 DEF MembershipIInv

LEMMA NextHourPreserves == ASSUME MembershipIInv, NextHour PROVE MembershipIInv'
<1>1. /\ hour < MaxHour /\ hour' = hour + 1
      /\ UNCHANGED <<route, routeFile, member, memberFile, spentT, spentTFile, memberLog, logFile, joiner,
                     calls, memberFaults, admitted>>
  BY DEF NextHour
<1>2. PlainTypeOK' BY <1>1, IInvParts, MembershipAssumption DEF PlainTypeOK, Hours
<1>. QED BY <1>1, <1>2, QuietStep

LEMMA MembershipInitIInv == MembershipInit => MembershipIInv
<1>. SUFFICES ASSUME MembershipInit PROVE MembershipIInv OBVIOUS
<1>. USE DEF MembershipInit
<1>1. NoRecord \in Standing /\ NoRoute \in Route /\ 0 \in Hours
  BY MembershipAssumption DEF NoRecord, Standing, MemberRecord, NoRoute, Route, Hours
<1>2. StandingInv BY <1>1 DEF StandingInv
<1>3. UniqueInv /\ JobInv /\ AdmittedStay BY NoJoinOK DEF UniqueInv, JobInv, AdmittedStay
<1>4. MembershipTypeOK
  BY <1>1, NoJoinOK, MembershipAssumption DEF MembershipTypeOK, Standing
<1>. QED BY <1>2, <1>3, <1>4 DEF MembershipIInv

LEMMA MembershipNextPreserves ==
    ASSUME MembershipIInv, ~Overlap, [MembershipNext]_membershipVars PROVE MembershipIInv'
<1>1. CASE \E j \in Joiners :
          \/ \E id \in Ids, t \in Tickets : BeginJoin(j, id, t)
          \/ SpendInvite(j) \/ ReadPrevious(j) \/ InsertPeer(j) \/ MarkProbation(j)
          \/ LogAdmission(j) \/ UndoRoute(j) \/ UndoMember(j) \/ UnspendInvite(j)
  BY <1>1, BeginJoinPreserves, SpendInvitePreserves, ReadPreviousPreserves, InsertPeerPreserves,
     MarkProbationPreserves, LogAdmissionPreserves, UndoRoutePreserves, UndoMemberPreserves,
     UnspendInvitePreserves
<1>2. CASE \E j \in Joiners :
          \/ \E id \in Ids, k \in NodeKeys : BeginAnnounce(j, id, k) \/ BeginRefresh(j, id, k)
          \/ AnnounceMark(j) \/ AnnounceUndo(j) \/ RefreshNote(j)
  BY <1>2, BeginAnnouncePreserves, BeginRefreshPreserves, AnnounceMarkPreserves,
     AnnounceUndoPreserves, RefreshNotePreserves
<1>3. CASE \E id \in Ids : Heartbeat(id) \/ GraduatePeer(id)
  BY <1>3, HeartbeatPreserves, GraduatePeerPreserves
<1>4. CASE MembershipSnapshot \/ MembershipCrash \/ NextHour
  BY <1>4, MembershipSnapshotPreserves, MembershipCrashPreserves, NextHourPreserves
<1>5. CASE UNCHANGED membershipVars
  <2>1. PlainTypeOK' BY <1>5, IInvParts DEF membershipVars, PlainTypeOK
  <2>. QED BY <1>5, <2>1, QuietStep DEF membershipVars
<1>. QED BY <1>1, <1>2, <1>3, <1>4, <1>5 DEF MembershipNext

-----------------------------------------------------------------------------
(* Admission *)

\* Who is let in, for any fleets, tickets, clocks and faults: a join that the ticket
\* checks let through was signed by enough pinned holders, and, as long as the requests
\* about one operator id do not overlap, an acknowledged member keeps its record in
\* memory and on disk through every rollback and restart.
THEOREM AdmissionIsGuarded ==
    ASSUME ~Overlap
    PROVE  InviteSpec /\ MembershipSpec => []AdmissionSound
<1>1. InviteInit => InviteIInv BY InviteInitIInv
<1>2. InviteIInv /\ [InviteNext]_inviteVars => InviteIInv' BY InviteNextPreserves
<1>3. MembershipInit => MembershipIInv BY MembershipInitIInv
<1>4. MembershipIInv /\ [MembershipNext]_membershipVars => MembershipIInv'
  BY MembershipNextPreserves
<1>5. InviteIInv /\ MembershipIInv => AdmissionSound
  BY InviteSafe DEF MembershipIInv, AdmissionSound
<1>. QED BY <1>1, <1>2, <1>3, <1>4, <1>5, PTL DEF InviteSpec, MembershipSpec
-----------------------------------------------------------------------------
(* Membership: the standing of a member *)

\* A record that is full, or has the time on it that makes a member full.
Ripe(r, h) == r.status = "full" \/ h - r.joined >= Probation

\* A record that goes on: it stays, with the time it began, and what is full stays full.
Follows(r, s) ==
    r # NoRecord => /\ s # NoRecord /\ s.joined = r.joined
                    /\ r.status = "full" => s.status = "full"

\* A record that became full with its time served.
Earned(r, s) == r # NoRecord /\ s.status = "full" => Ripe(r, hour)

\* The file and the memory agree on when a member joined.
FileJoined ==
    \A i \in Ids : member[i] # NoRecord /\ memberFile[i] # NoRecord =>
        memberFile[i].joined = member[i].joined

\* The record a rollback will put back is as old as the one it replaces, and where that
\* one is full it is full too or has its time served.
JobServed(job) ==
    job \in WriteJob /\ job.oldMember # NoRecord =>
        /\ member[job.id] # NoRecord /\ member[job.id].joined = job.oldMember.joined
        /\ member[job.id].status = "full" => Ripe(job.oldMember, hour)

ServedInv == FileJoined /\ \A j \in Joiners : JobServed(joiner[j])

LEMMA RecordMoves ==
    ASSUME MembershipIInv
    PROVE  /\ \A id \in Ids : Follows(member[id], MarkedProbation(id))
                              /\ Earned(member[id], MarkedProbation(id))
           /\ \A id \in Ids : Follows(member[id], FullMember(id))
           /\ \A r \in Standing \ {NoRecord} :
                 /\ Follows(r, Alive(r)) /\ Earned(r, Alive(r))
                 /\ Follows(r, [r EXCEPT !.seen = hour]) /\ Earned(r, [r EXCEPT !.seen = hour])
                 /\ Follows(r, [r EXCEPT !.status = "full"])
                 /\ Served(r) => Earned(r, [r EXCEPT !.status = "full"])
           /\ \A r : Follows(r, r) /\ Earned(r, r)
<1>1. hour \in Hours /\ member \in [Ids -> Standing] BY DEF MembershipIInv, MembershipTypeOK, StandingInv
<1>2. ASSUME NEW r \in Standing \ {NoRecord}
      PROVE  /\ Follows(r, Alive(r)) /\ Earned(r, Alive(r))
             /\ Follows(r, [r EXCEPT !.seen = hour]) /\ Earned(r, [r EXCEPT !.seen = hour])
             /\ Follows(r, [r EXCEPT !.status = "full"])
             /\ Served(r) => Earned(r, [r EXCEPT !.status = "full"])
  <2>1. r \in MemberRecord BY DEF Standing
  <2>2. /\ Alive(r) # NoRecord /\ [r EXCEPT !.seen = hour] # NoRecord
        /\ [r EXCEPT !.status = "full"] # NoRecord
    BY RecordShape
  <2>3. /\ [r EXCEPT !.seen = hour].joined = r.joined /\ [r EXCEPT !.seen = hour].status = r.status
        /\ [r EXCEPT !.status = "full"].joined = r.joined
        /\ [r EXCEPT !.status = "full"].status = "full"
    BY <2>1 DEF MemberRecord
  <2>4. Alive(r).joined = r.joined /\ Alive(r).status = IF Served(r) THEN "full" ELSE r.status
    <3>1. CASE Served(r) BY <1>1, <2>1, <3>1 DEF Alive, MemberRecord
    <3>2. CASE ~Served(r) BY <1>1, <2>1, <3>2 DEF Alive, MemberRecord
    <3>. QED BY <3>1, <3>2
  <2>5. Served(r) => Ripe(r, hour) BY DEF Served, Ripe
  <2>6. r.status = "full" => Ripe(r, hour) BY DEF Ripe
  <2>7. Alive(r).status = "full" => Served(r) \/ r.status = "full" BY <2>4
  <2>8. r.status = "full" => Alive(r).status = "full" BY <2>4 DEF Served
  <2>. QED BY <2>2, <2>3, <2>4, <2>5, <2>6, <2>7, <2>8 DEF Follows, Earned
<1>3. \A r : Follows(r, r) /\ Earned(r, r) BY DEF Follows, Earned, Ripe
<1>4. ASSUME NEW id \in Ids
      PROVE  Follows(member[id], MarkedProbation(id)) /\ Earned(member[id], MarkedProbation(id))
  <2>1. CASE member[id] = NoRecord BY <2>1 DEF Follows, Earned
  <2>2. CASE member[id] # NoRecord
    <3>1. member[id] \in Standing \ {NoRecord} BY <1>1, <2>2
    <3>2. MarkedProbation(id) = [member[id] EXCEPT !.seen = hour] BY <2>2 DEF MarkedProbation
    <3>. QED BY <1>2, <3>1, <3>2
  <2>. QED BY <2>1, <2>2
<1>5. ASSUME NEW id \in Ids PROVE Follows(member[id], FullMember(id))
  <2>1. FullMember(id) # NoRecord BY RecordShape
  <2>2. /\ FullMember(id).status = "full"
        /\ member[id] # NoRecord => FullMember(id).joined = member[id].joined
    BY DEF FullMember
  <2>. QED BY <2>1, <2>2 DEF Follows
<1>. QED BY <1>2, <1>3, <1>4, <1>5

\* How the file may change in a step: it takes what is in memory, or it keeps a record
\* or takes one that goes on, of a member who is not new.
FileStep(i) ==
    \/ memberFile'[i] = member'[i]
    \/ /\ member[i] = NoRecord => member'[i] = NoRecord
       /\ memberFile'[i] = memberFile[i] \/ Follows(member[i], memberFile'[i])

\* A request goes on with the id and the old record it has, or has just read the record.
JobFrom(old, new) ==
    new \in WriteJob => \/ old \in WriteJob /\ new.id = old.id /\ new.oldMember = old.oldMember
                        \/ new.id \in Ids /\ new.oldMember = member[new.id]

\* A step in which every record goes on, and is earned where a join is in progress.
Continues ==
    /\ \A i \in Ids : Follows(member[i], member'[i]) /\ FileStep(i)
    /\ \A j \in Joiners : JobFrom(joiner[j], joiner'[j])
    /\ \A j \in Joiners : joiner'[j] \in WriteJob =>
          Earned(member[joiner'[j].id], member'[joiner'[j].id])
    /\ hour' = hour \/ hour' = hour + 1

LEMMA ContinuesKeeps ==
    ASSUME MembershipIInv, ServedInv, Continues
    PROVE  ServedInv' /\ KeptStep
<1>1. /\ hour \in Nat /\ hour' \in Nat /\ hour' >= hour /\ Probation \in Nat
  BY IInvParts, MembershipAssumption DEF PlainTypeOK, Hours, Continues
<1>2. admitted \subseteq Ids BY IInvParts DEF PlainTypeOK
<1>3. KeptStep BY <1>2 DEF Continues, Follows, KeptStep
<1>4. FileJoined'
  BY DEF FileJoined, ServedInv, Continues, FileStep, Follows
<1>5. ASSUME NEW j \in Joiners, joiner'[j] \in WriteJob, joiner'[j].oldMember # NoRecord
      PROVE  LET id == joiner'[j].id
                 old == joiner'[j].oldMember
             IN  /\ member'[id] # NoRecord /\ member'[id].joined = old.joined
                 /\ member'[id].status = "full" => Ripe(old, hour')
  <2>. DEFINE id == joiner'[j].id
              old == joiner'[j].oldMember
  <2>0. joiner[j] \in MemberJob BY IInvParts
  <2>1. id \in Ids BY <1>5 DEF WriteJob
  <2>2. /\ member[id] # NoRecord /\ member[id].joined = old.joined
        /\ member[id].status = "full" => Ripe(old, hour)
    <3>1. CASE joiner[j] \in WriteJob /\ id = joiner[j].id /\ old = joiner[j].oldMember
      BY <1>5, <3>1 DEF ServedInv, JobServed
    <3>2. CASE old = member[id] BY <1>5, <3>2 DEF Ripe
    <3>. QED BY <1>5, <3>1, <3>2 DEF Continues, JobFrom
  <2>3. Follows(member[id], member'[id]) /\ Earned(member[id], member'[id])
    BY <1>5, <2>1 DEF Continues
  <2>4. old \in MemberRecord BY <1>5 DEF WriteJob
  <2>5. old.joined \in Nat BY <2>4 DEF MemberRecord, Hours
  <2>. HIDE DEF id, old
  <2>6. Ripe(member[id], hour) => Ripe(old, hour) BY <2>2 DEF Ripe
  <2>7. Ripe(old, hour) => Ripe(old, hour') BY <1>1, <2>5 DEF Ripe
  <2>8. member'[id].status = "full" => Ripe(old, hour') BY <2>2, <2>3, <2>6, <2>7 DEF Earned
  <2>9. member'[id] # NoRecord /\ member'[id].joined = old.joined BY <2>2, <2>3 DEF Follows
  <2>. QED BY <2>8, <2>9 DEF id, old
<1>6. \A j \in Joiners : JobServed(joiner[j])' BY <1>5 DEF JobServed
<1>. QED BY <1>3, <1>4, <1>6 DEF ServedInv

\* One request moves.
LEMMA CarryOne ==
    ASSUME MembershipIInv, NEW j \in Joiners, NEW job, joiner' = [joiner EXCEPT ![j] = job],
           JobFrom(joiner[j], job)
    PROVE  \A k \in Joiners : JobFrom(joiner[k], joiner'[k])
<1>1. joiner \in [Joiners -> MemberJob] BY IInvParts
<1>2. joiner'[j] = job /\ \A k \in Joiners \ {j} : joiner'[k] = joiner[k] BY <1>1
<1>3. \A k \in Joiners : JobFrom(joiner[k], joiner[k]) BY DEF JobFrom
<1>. QED BY <1>2, <1>3

LEMMA SameJobs ==
    ASSUME UNCHANGED joiner
    PROVE  \A k \in Joiners : JobFrom(joiner[k], joiner'[k])
BY DEF JobFrom

\* A write request that goes on keeps what it read.
LEMMA CarryWrite ==
    ASSUME MembershipIInv, NEW j \in Joiners, joiner[j] \in WriteJob,
           NEW pc \in {"insert", "mark", "log", "undoRoute", "undoMember", "unspend"},
           Goto(j, pc)
    PROVE  \A k \in Joiners : JobFrom(joiner[k], joiner'[k])
<1>. DEFINE job == [joiner[j] EXCEPT !.pc = pc]
<1>1. joiner' = [joiner EXCEPT ![j] = job] BY DEF Goto
<1>2. job.id = joiner[j].id /\ job.oldMember = joiner[j].oldMember BY WriteJobStep
<1>. HIDE DEF job
<1>3. JobFrom(joiner[j], job) BY <1>2 DEF JobFrom
<1>. QED BY <1>1, <1>3, CarryOne

\* A request that is no join, or a join that is not yet writing, has no record to put back.
LEMMA CarryOther ==
    ASSUME MembershipIInv, NEW j \in Joiners, NEW job, job \notin WriteJob, Step(j, job)
    PROVE  \A k \in Joiners : JobFrom(joiner[k], joiner'[k])
BY CarryOne DEF JobFrom, Step

LEMMA CarryFinish ==
    ASSUME MembershipIInv, NEW j \in Joiners, Finish(j)
    PROVE  \A k \in Joiners : JobFrom(joiner[k], joiner'[k])
<1>1. NoJoin \notin WriteJob BY DEF NoJoin, WriteJob
<1>. QED BY <1>1, CarryOther DEF Finish

\* Who is not in a join has no record at stake: a step that does not touch records.
LEMMA QuietContinues ==
    ASSUME UNCHANGED <<member, memberFile>>, hour' = hour \/ hour' = hour + 1,
           \A k \in Joiners : JobFrom(joiner[k], joiner'[k])
    PROVE  Continues
<1>1. \A r : Follows(r, r) /\ Earned(r, r) BY DEF Follows, Earned, Ripe
<1>. QED BY <1>1 DEF Continues, FileStep

LEMMA JoinStepsContinue ==
    ASSUME MembershipIInv, NEW j \in Joiners,
           \/ \E id \in Ids, t \in Tickets : BeginJoin(j, id, t)
           \/ SpendInvite(j) \/ ReadPrevious(j) \/ InsertPeer(j)
           \/ LogAdmission(j) \/ UndoRoute(j) \/ UnspendInvite(j)
    PROVE  Continues
<1>1. joiner[j] \in MemberJob BY IInvParts
<1>2. CASE \E id \in Ids, t \in Tickets : BeginJoin(j, id, t)
  <2>1. PICK id \in Ids, t \in Tickets : BeginJoin(j, id, t) BY <1>2
  <2>. DEFINE job == [pc |-> "spend", id |-> id, ticket |-> t, known |-> member[id] # NoRecord]
  <2>2. job \notin WriteJob BY DEF WriteJob
  <2>3. Step(j, job) /\ UNCHANGED <<member, memberFile, hour>> BY <2>1 DEF BeginJoin
  <2>. QED BY <2>2, <2>3, CarryOther, QuietContinues
<1>3. CASE SpendInvite(j)
  <2>1. UNCHANGED <<member, memberFile, hour>> /\ (Finish(j) \/ Goto(j, "read")) BY <1>3 DEF SpendInvite
  <2>2. joiner[j] \in JoinJob BY <1>1, <1>3, JoinJobShape DEF SpendInvite
  <2>3. CASE Goto(j, "read")
    <3>1. [joiner[j] EXCEPT !.pc = "read"] \notin WriteJob BY <2>2, JoinJobStep
    <3>2. Step(j, [joiner[j] EXCEPT !.pc = "read"]) BY <2>3 DEF Goto, Step
    <3>. QED BY <2>1, <3>1, <3>2, CarryOther, QuietContinues
  <2>. QED BY <2>1, <2>3, CarryFinish, QuietContinues
<1>4. CASE ReadPrevious(j)
  <2>. DEFINE job == [pc |-> "insert", id |-> joiner[j].id, ticket |-> joiner[j].ticket,
                      oldRoute |-> route[joiner[j].id], oldMember |-> member[joiner[j].id], logged |-> FALSE]
  <2>1. joiner' = [joiner EXCEPT ![j] = job] /\ UNCHANGED <<member, memberFile, hour>>
    BY <1>4 DEF ReadPrevious, Step
  <2>2. joiner[j] \in JoinJob BY <1>1, <1>4, JoinJobShape DEF ReadPrevious
  <2>3. job.id \in Ids /\ job.oldMember = member[job.id] BY <2>2 DEF JoinJob
  <2>. HIDE DEF job
  <2>4. JobFrom(joiner[j], job) BY <2>3 DEF JobFrom
  <2>. QED BY <2>1, <2>4, CarryOne, QuietContinues
<1>5. CASE InsertPeer(j)
  <2>1. UNCHANGED <<member, memberFile, hour>> /\ (Goto(j, "mark") \/ Goto(j, "unspend"))
    BY <1>5 DEF InsertPeer
  <2>2. joiner[j] \in WriteJob BY <1>1, <1>5, JoinJobShape DEF InsertPeer
  <2>. QED BY <2>1, <2>2, CarryWrite, QuietContinues
<1>6. CASE LogAdmission(j)
  <2>. DEFINE job == [joiner[j] EXCEPT !.pc = "undoRoute", !.logged = TRUE]
  <2>1. UNCHANGED <<member, memberFile, hour>> /\ (Finish(j) \/ Step(j, job)) BY <1>6 DEF LogAdmission
  <2>2. joiner[j] \in WriteJob BY <1>1, <1>6, JoinJobShape DEF LogAdmission
  <2>3. job.id = joiner[j].id /\ job.oldMember = joiner[j].oldMember BY <2>2 DEF WriteJob
  <2>. HIDE DEF job
  <2>4. JobFrom(joiner[j], job) BY <2>2, <2>3 DEF JobFrom
  <2>5. CASE Step(j, job) BY <2>1, <2>4, <2>5, CarryOne, QuietContinues DEF Step
  <2>. QED BY <2>1, <2>5, CarryFinish, QuietContinues
<1>7. CASE UndoRoute(j)
  <2>1. UNCHANGED <<member, memberFile, hour>> /\ (Goto(j, "undoMember") \/ Goto(j, "unspend"))
    BY <1>7 DEF UndoRoute
  <2>2. joiner[j] \in WriteJob BY <1>1, <1>7, JoinJobShape DEF UndoRoute
  <2>. QED BY <2>1, <2>2, CarryWrite, QuietContinues
<1>8. CASE UnspendInvite(j)
  <2>1. UNCHANGED <<member, memberFile, hour>> /\ Finish(j) BY <1>8 DEF UnspendInvite
  <2>. QED BY <2>1, CarryFinish, QuietContinues
<1>. QED BY <1>2, <1>3, <1>4, <1>5, <1>6, <1>7, <1>8

LEMMA AnnounceStepsContinue ==
    ASSUME MembershipIInv, NEW j \in Joiners,
           \/ \E id \in Ids, k \in NodeKeys : BeginAnnounce(j, id, k) \/ BeginRefresh(j, id, k)
           \/ AnnounceUndo(j)
    PROVE  Continues
<1>1. CASE AnnounceUndo(j)
  <2>1. UNCHANGED <<member, memberFile, hour>> /\ Finish(j) BY <1>1 DEF AnnounceUndo
  <2>. QED BY <2>1, CarryFinish, QuietContinues
<1>2. ASSUME NEW id \in Ids, NEW k \in NodeKeys, BeginAnnounce(j, id, k) PROVE Continues
  <2>. DEFINE job == [pc |-> "announceMark", id |-> id, oldRoute |-> route[id]]
  <2>1. UNCHANGED <<member, memberFile, hour>> /\ (Step(j, job) \/ UNCHANGED joiner)
    BY <1>2 DEF BeginAnnounce
  <2>2. job \notin WriteJob BY DEF WriteJob
  <2>. QED BY <2>1, <2>2, CarryOther, SameJobs, QuietContinues
<1>3. ASSUME NEW id \in Ids, NEW k \in NodeKeys, BeginRefresh(j, id, k) PROVE Continues
  <2>. DEFINE job == [pc |-> "refreshNote", id |-> id]
  <2>1. UNCHANGED <<member, memberFile, hour>> /\ (Step(j, job) \/ UNCHANGED joiner)
    BY <1>3 DEF BeginRefresh
  <2>2. job \notin WriteJob BY DEF WriteJob
  <2>. QED BY <2>1, <2>2, CarryOther, SameJobs, QuietContinues
<1>. QED BY <1>1, <1>2, <1>3

LEMMA NextHourContinues == ASSUME NextHour PROVE Continues
<1>1. UNCHANGED <<member, memberFile, joiner>> /\ hour' = hour + 1 BY DEF NextHour
<1>. QED BY <1>1, SameJobs, QuietContinues

\* One record is written: in memory m, in the file f or nothing.
LEMMA OneRecord ==
    ASSUME MembershipIInv, NEW id \in Ids, NEW m, NEW f,
           member' = [member EXCEPT ![id] = m],
           memberFile' = memberFile \/ memberFile' = [member EXCEPT ![id] = f],
           Follows(member[id], m), Follows(member[id], f),
           member[id] = NoRecord => m = NoRecord \/ memberFile' = member',
           hour' = hour, \A k \in Joiners : JobFrom(joiner[k], joiner'[k]),
           Earned(member[id], m) \/ \A k \in Joiners : joiner'[k] \in WriteJob => joiner'[k].id # id
    PROVE  Continues
<1>1. member'[id] = m /\ \A i \in Ids \ {id} : member'[i] = member[i] BY IInvParts
<1>2. \/ memberFile' = memberFile
      \/ memberFile'[id] = f /\ \A i \in Ids \ {id} : memberFile'[i] = member[i]
  BY IInvParts
<1>3. \A r : Follows(r, r) /\ Earned(r, r) BY DEF Follows, Earned, Ripe
<1>4. ASSUME NEW i \in Ids PROVE Follows(member[i], member'[i]) /\ FileStep(i)
  <2>1. CASE i = id BY <1>1, <1>2, <2>1 DEF FileStep
  <2>2. CASE i # id BY <1>1, <1>2, <1>3, <2>2 DEF FileStep
  <2>. QED BY <2>1, <2>2
<1>5. ASSUME NEW j \in Joiners, joiner'[j] \in WriteJob
      PROVE  Earned(member[joiner'[j].id], member'[joiner'[j].id])
  <2>1. joiner'[j].id \in Ids BY <1>5 DEF WriteJob
  <2>2. CASE joiner'[j].id = id BY <1>1, <1>5, <2>2
  <2>3. CASE joiner'[j].id # id BY <1>1, <1>3, <2>1, <2>3
  <2>. QED BY <2>2, <2>3
<1>. QED BY <1>4, <1>5 DEF Continues

\* No join writes for the id of another request.
LEMMA AloneOnId ==
    ASSUME MembershipIInv, NEW j \in Joiners, joiner[j] # NoJoin, NEW job, job \notin WriteJob,
           joiner' = [joiner EXCEPT ![j] = job]
    PROVE  \A k \in Joiners : joiner'[k] \in WriteJob => joiner'[k].id # joiner[j].id
<1>1. joiner \in [Joiners -> MemberJob] BY IInvParts
<1>2. joiner'[j] = job /\ \A k \in Joiners \ {j} : joiner'[k] = joiner[k] BY <1>1
<1>3. NoJoin \notin WriteJob BY DEF NoJoin, WriteJob
<1>4. UniqueInv BY DEF MembershipIInv
<1>. QED BY <1>2, <1>3, <1>4 DEF UniqueInv

LEMMA MarkProbationContinues ==
    ASSUME MembershipIInv, NEW j \in Joiners, MarkProbation(j) PROVE Continues
<1>. DEFINE id == joiner[j].id
            new == [member EXCEPT ![id] = MarkedProbation(id)]
<1>1. /\ joiner[j].pc = "mark" /\ hour' = hour
      /\ \/ member' = new /\ memberFile' = new /\ Goto(j, "log")
         \/ member' = member /\ memberFile' \in {memberFile, new} /\ Goto(j, "undoRoute")
  BY DEF MarkProbation, Saved, SaveFails
<1>2. joiner[j] \in WriteJob BY <1>1, IInvParts, JoinJobShape
<1>3. id \in Ids BY <1>2 DEF WriteJob
<1>4. Follows(member[id], MarkedProbation(id)) /\ Earned(member[id], MarkedProbation(id))
      /\ Follows(member[id], member[id]) /\ Earned(member[id], member[id])
  BY <1>3, RecordMoves
<1>5. \A k \in Joiners : JobFrom(joiner[k], joiner'[k]) BY <1>1, <1>2, CarryWrite
<1>6. member = [member EXCEPT ![id] = member[id]] BY <1>3, IInvParts
<1>. HIDE DEF id
<1>7. CASE member' = new /\ memberFile' = new BY <1>1, <1>3, <1>4, <1>5, <1>7, OneRecord
<1>8. CASE member' = member /\ memberFile' \in {memberFile, new}
  BY <1>1, <1>3, <1>4, <1>5, <1>6, <1>8, OneRecord
<1>. QED BY <1>1, <1>7, <1>8

LEMMA AnnounceMarkContinues ==
    ASSUME MembershipIInv, NEW j \in Joiners, AnnounceMark(j) PROVE Continues
<1>. DEFINE id == joiner[j].id
            new == [member EXCEPT ![id] = FullMember(id)]
<1>1. /\ joiner[j].pc = "announceMark" /\ hour' = hour
      /\ \/ member' = new /\ memberFile' = new /\ Finish(j)
         \/ member' = member /\ memberFile' \in {memberFile, new} /\ Goto(j, "announceUndo")
  BY DEF AnnounceMark, Saved, SaveFails
<1>2. joiner[j] \in AnnounceJob BY <1>1, IInvParts, JoinJobShape
<1>3. id \in Ids /\ joiner[j] # NoJoin BY <1>2 DEF AnnounceJob, NoJoin
<1>4. Follows(member[id], FullMember(id)) /\ Follows(member[id], member[id]) BY <1>3, RecordMoves
<1>5. PICK job : job \notin WriteJob /\ joiner' = [joiner EXCEPT ![j] = job]
  <2>1. NoJoin \notin WriteJob BY DEF NoJoin, WriteJob
  <2>2. [joiner[j] EXCEPT !.pc = "announceUndo"] \notin WriteJob BY <1>2 DEF AnnounceJob, WriteJob
  <2>. QED BY <1>1, <2>1, <2>2 DEF Finish, Step, Goto
<1>6. \A k \in Joiners : JobFrom(joiner[k], joiner'[k]) BY <1>5, CarryOther DEF Step
<1>7. \A k \in Joiners : joiner'[k] \in WriteJob => joiner'[k].id # id BY <1>3, <1>5, AloneOnId
<1>8. member = [member EXCEPT ![id] = member[id]] BY <1>3, IInvParts
<1>. HIDE DEF id
<1>9. CASE member' = new /\ memberFile' = new BY <1>1, <1>3, <1>4, <1>6, <1>7, <1>9, OneRecord
<1>10. CASE member' = member /\ memberFile' \in {memberFile, new}
  BY <1>1, <1>3, <1>4, <1>6, <1>7, <1>8, <1>10, OneRecord
<1>. QED BY <1>1, <1>9, <1>10

LEMMA RefreshNoteContinues ==
    ASSUME MembershipIInv, NEW j \in Joiners, RefreshNote(j) PROVE Continues
<1>. DEFINE id == joiner[j].id
            new == [member EXCEPT ![id] = Alive(member[id])]
<1>1. /\ joiner[j].pc = "refreshNote" /\ hour' = hour /\ Finish(j)
      /\ \/ member' = member /\ memberFile' = memberFile
         \/ member[id] # NoRecord /\ member' \in {member, new} /\ memberFile' \in {memberFile, new}
  BY DEF RefreshNote, Saved, SaveFails
<1>2. joiner[j] \in RefreshJob BY <1>1, IInvParts, JoinJobShape
<1>3. id \in Ids BY <1>2 DEF RefreshJob
<1>4. \A k \in Joiners : JobFrom(joiner[k], joiner'[k]) BY <1>1, CarryFinish
<1>5. CASE member' = member /\ memberFile' = memberFile BY <1>1, <1>4, <1>5, QuietContinues
<1>6. CASE member[id] # NoRecord /\ member' \in {member, new} /\ memberFile' \in {memberFile, new}
  <2>1. /\ Follows(member[id], Alive(member[id])) /\ Earned(member[id], Alive(member[id]))
        /\ Follows(member[id], member[id]) /\ Earned(member[id], member[id])
    BY <1>3, <1>6, IInvParts, RecordMoves
  <2>2. member = [member EXCEPT ![id] = member[id]] BY <1>3, IInvParts
  <2>. HIDE DEF id
  <2>3. CASE member' = new BY <1>1, <1>3, <1>4, <1>6, <2>1, <2>3, OneRecord
  <2>4. CASE member' = member BY <1>1, <1>3, <1>4, <1>6, <2>1, <2>2, <2>4, OneRecord
  <2>. QED BY <1>6, <2>3, <2>4
<1>. QED BY <1>1, <1>5, <1>6

LEMMA HeartbeatContinues ==
    ASSUME MembershipIInv, NEW id \in Ids, Heartbeat(id) PROVE Continues
<1>. DEFINE new == [member EXCEPT ![id] = Alive(member[id])]
            seen == [member EXCEPT ![id] = [member[id] EXCEPT !.seen = hour]]
<1>1. /\ member[id] # NoRecord /\ member' \in {new, seen} /\ memberFile' \in {memberFile, new}
      /\ UNCHANGED <<joiner, hour>>
  BY DEF Heartbeat, Saved, SaveFails
<1>2. \A k \in Joiners : JobFrom(joiner[k], joiner'[k]) BY <1>1, SameJobs
<1>3. /\ Follows(member[id], Alive(member[id])) /\ Earned(member[id], Alive(member[id]))
      /\ Follows(member[id], [member[id] EXCEPT !.seen = hour])
      /\ Earned(member[id], [member[id] EXCEPT !.seen = hour])
  BY <1>1, IInvParts, RecordMoves
<1>4. CASE member' = new BY <1>1, <1>2, <1>3, <1>4, OneRecord
<1>5. CASE member' = seen BY <1>1, <1>2, <1>3, <1>5, OneRecord
<1>. QED BY <1>1, <1>4, <1>5

LEMMA GraduatePeerContinues ==
    ASSUME MembershipIInv, ~Overlap, NEW id \in Ids, GraduatePeer(id) PROVE Continues
<1>. DEFINE new == [member EXCEPT ![id] = FullMember(id)]
<1>1. /\ \/ member' = new /\ memberFile' = new
         \/ member' = member /\ memberFile' \in {memberFile, new}
      /\ UNCHANGED <<joiner, hour>> /\ ~InProgress(id)
  BY DEF GraduatePeer, Saved, SaveFails
<1>2. \A k \in Joiners : JobFrom(joiner[k], joiner'[k]) BY <1>1, SameJobs
<1>3. NoJoin \notin WriteJob BY DEF NoJoin, WriteJob
<1>4. \A k \in Joiners : joiner'[k] \in WriteJob => joiner'[k].id # id BY <1>1, <1>3 DEF InProgress
<1>5. Follows(member[id], FullMember(id)) /\ Follows(member[id], member[id]) BY RecordMoves
<1>6. member = [member EXCEPT ![id] = member[id]] BY IInvParts
<1>7. CASE member' = new /\ memberFile' = new BY <1>1, <1>2, <1>4, <1>5, <1>7, OneRecord
<1>8. CASE member' = member /\ memberFile' \in {memberFile, new}
  BY <1>1, <1>2, <1>4, <1>5, <1>6, <1>8, OneRecord
<1>. QED BY <1>1, <1>7, <1>8

LEMMA MembershipSnapshotContinues ==
    ASSUME MembershipIInv, MembershipSnapshot PROVE Continues
<1>. DEFINE ready == {i \in Ids : Served(member[i]) /\ hour - member[i].seen <= Grace}
            new == [i \in Ids |-> IF i \in ready THEN [member[i] EXCEPT !.status = "full"]
                                                 ELSE member[i]]
<1>1. /\ member' \in {member, new} /\ memberFile' \in {memberFile, new}
      /\ UNCHANGED <<joiner, hour>>
  BY DEF MembershipSnapshot, Saved, SaveFails
<1>2. \A k \in Joiners : JobFrom(joiner[k], joiner'[k]) BY <1>1, SameJobs
<1>3. ASSUME NEW i \in Ids
      PROVE  /\ Follows(member[i], new[i]) /\ Earned(member[i], new[i])
             /\ member[i] = NoRecord => new[i] = NoRecord
  <2>1. CASE i \in ready
    <3>1. Served(member[i]) BY <2>1
    <3>2. member[i] # NoRecord BY <3>1 DEF Served, NoRecord
    <3>3. member[i] \in Standing \ {NoRecord} BY <3>2, IInvParts
    <3>4. new[i] = [member[i] EXCEPT !.status = "full"] BY <2>1
    <3>. QED BY <3>1, <3>2, <3>3, <3>4, RecordMoves
  <2>2. CASE i \notin ready
    <3>1. new[i] = member[i] BY <2>2
    <3>. QED BY <3>1, RecordMoves
  <2>. QED BY <2>1, <2>2
<1>4. \A r : Follows(r, r) /\ Earned(r, r) BY RecordMoves
<1>. HIDE DEF new
<1>5. \A i \in Ids : /\ Follows(member[i], member'[i]) /\ Earned(member[i], member'[i])
                     /\ FileStep(i)
  BY <1>1, <1>3, <1>4 DEF FileStep
<1>6. \A k \in Joiners : joiner'[k] \in WriteJob => joiner'[k].id \in Ids BY DEF WriteJob
<1>. QED BY <1>1, <1>2, <1>5, <1>6 DEF Continues

\* A rollback: the record it puts back is as old as the one it replaces.
LEMMA UndoMemberKeeps ==
    ASSUME MembershipIInv, ServedInv, NEW j \in Joiners, UndoMember(j)
    PROVE  ServedInv' /\ KeptStep
<1>. DEFINE id == joiner[j].id
            old == joiner[j].oldMember
            new == [member EXCEPT ![id] = old]
<1>1. /\ joiner[j].pc = "undoMember" /\ member' = new /\ memberFile' \in {memberFile, new}
      /\ Goto(j, "unspend") /\ hour' = hour
  BY DEF UndoMember, Saved, SaveFails
<1>2. joiner[j] \in WriteJob BY <1>1, IInvParts, JoinJobShape
<1>3. id \in Ids BY <1>2 DEF WriteJob
<1>4. /\ old \in Standing
      /\ id \in admitted => old # NoRecord
  BY <1>2 DEF MembershipIInv, JobInv, JobOK
<1>5. old # NoRecord => /\ member[id] # NoRecord /\ member[id].joined = old.joined
                        /\ member[id].status = "full" => Ripe(old, hour)
  BY <1>2 DEF ServedInv, JobServed
<1>6. new[id] = old /\ \A i \in Ids \ {id} : new[i] = member[i] BY <1>3, IInvParts
<1>7. joiner' = [joiner EXCEPT ![j] = [joiner[j] EXCEPT !.pc = "unspend"]] BY <1>1 DEF Goto
<1>8. \A k \in Joiners : JobFrom(joiner[k], joiner'[k]) BY <1>1, <1>2, CarryWrite
<1>9. joiner'[j] \in WriteJob /\ joiner'[j].id = id /\ joiner'[j].oldMember = old
  BY <1>2, <1>7, IInvParts, WriteJobStep
<1>10. \A k \in Joiners \ {j} : joiner'[k] = joiner[k] BY <1>7, IInvParts
<1>11. \A k \in Joiners \ {j} : joiner[k] \in WriteJob => joiner[k].id # id /\ joiner[k].id \in Ids
  <2>1. NoJoin \notin WriteJob BY DEF NoJoin, WriteJob
  <2>2. UniqueInv BY DEF MembershipIInv
  <2>3. \A k \in Joiners : joiner[k] \in WriteJob => joiner[k].id \in Ids BY DEF WriteJob
  <2>. QED BY <1>2, <2>1, <2>2, <2>3 DEF UniqueInv
<1>12. old # NoRecord => old.status = "full" \/ old.status = "probation"
  BY <1>4 DEF Standing, MemberRecord
<1>. HIDE DEF id, old, new
<1>13. KeptStep
  <2>. SUFFICES ASSUME NEW i \in admitted, member[i] # NoRecord
                PROVE  /\ member'[i].joined = member[i].joined
                       /\ member[i].status = "full" /\ memberFile[i].status = "full" =>
                             member'[i].status = "full" \/ Served(member'[i])
    BY DEF KeptStep
  <2>1. i \in Ids BY IInvParts DEF PlainTypeOK
  <2>2. CASE i = id
    <3>1. member'[i] = old /\ old # NoRecord BY <1>1, <1>4, <1>6, <2>2
    <3>2. Ripe(old, hour) => old.status = "full" \/ Served(old) BY <1>12, <3>1 DEF Ripe, Served
    <3>. QED BY <1>5, <2>2, <3>1, <3>2
  <2>3. CASE i # id BY <1>1, <1>6, <2>1, <2>3
  <2>. QED BY <2>2, <2>3
<1>14. FileJoined'
  <2>. SUFFICES ASSUME NEW i \in Ids, member'[i] # NoRecord, memberFile'[i] # NoRecord
                PROVE  memberFile'[i].joined = member'[i].joined
    BY DEF FileJoined
  <2>1. CASE memberFile' = new BY <1>1, <2>1
  <2>2. CASE memberFile' = memberFile
    <3>1. CASE i = id BY <1>1, <1>5, <1>6, <2>2, <3>1 DEF ServedInv, FileJoined
    <3>2. CASE i # id BY <1>1, <1>6, <2>2, <3>2 DEF ServedInv, FileJoined
    <3>. QED BY <3>1, <3>2
  <2>. QED BY <1>1, <2>1, <2>2
<1>15. JobServed(joiner[j])'
  <2>1. member'[id] = old BY <1>1, <1>6
  <2>. QED BY <1>9, <2>1 DEF JobServed, Ripe
<1>16. ASSUME NEW k \in Joiners \ {j} PROVE JobServed(joiner[k])'
  <2>1. JobServed(joiner[k]) BY DEF ServedInv
  <2>2. joiner[k] \in WriteJob => member'[joiner[k].id] = member[joiner[k].id]
    BY <1>1, <1>6, <1>11
  <2>. QED BY <1>1, <1>10, <2>1, <2>2 DEF JobServed
<1>. QED BY <1>13, <1>14, <1>15, <1>16 DEF ServedInv

LEMMA MembershipCrashKeeps ==
    ASSUME MembershipIInv, ServedInv, MembershipCrash
    PROVE  ServedInv' /\ KeptStep
<1>1. member' = memberFile /\ memberFile' = memberFile /\ joiner' = [j \in Joiners |-> NoJoin]
  BY DEF MembershipCrash
<1>2. FileJoined' BY <1>1 DEF FileJoined
<1>3. NoJoin \notin WriteJob BY DEF NoJoin, WriteJob
<1>4. \A j \in Joiners : JobServed(joiner[j])' BY <1>1, <1>3 DEF JobServed
<1>5. KeptStep BY <1>1, IInvParts DEF KeptStep, ServedInv, FileJoined, KeptIds
<1>. QED BY <1>2, <1>4, <1>5 DEF ServedInv

LEMMA StandingNext ==
    ASSUME MembershipIInv, ServedInv, ~Overlap, MembershipNext
    PROVE  ServedInv' /\ KeptStep
<1>1. CASE \E j \in Joiners :
          \/ \E id \in Ids, t \in Tickets : BeginJoin(j, id, t)
          \/ SpendInvite(j) \/ ReadPrevious(j) \/ InsertPeer(j)
          \/ LogAdmission(j) \/ UndoRoute(j) \/ UnspendInvite(j)
  BY <1>1, JoinStepsContinue, ContinuesKeeps
<1>2. CASE \E j \in Joiners :
          \/ \E id \in Ids, k \in NodeKeys : BeginAnnounce(j, id, k) \/ BeginRefresh(j, id, k)
          \/ AnnounceUndo(j)
  BY <1>2, AnnounceStepsContinue, ContinuesKeeps
<1>3. CASE \E j \in Joiners : MarkProbation(j) \/ AnnounceMark(j) \/ RefreshNote(j)
  BY <1>3, MarkProbationContinues, AnnounceMarkContinues, RefreshNoteContinues, ContinuesKeeps
<1>4. CASE \E id \in Ids : Heartbeat(id) \/ GraduatePeer(id)
  BY <1>4, HeartbeatContinues, GraduatePeerContinues, ContinuesKeeps
<1>5. CASE MembershipSnapshot \/ NextHour
  BY <1>5, MembershipSnapshotContinues, NextHourContinues, ContinuesKeeps
<1>6. CASE \E j \in Joiners : UndoMember(j) BY <1>6, UndoMemberKeeps
<1>7. CASE MembershipCrash BY <1>7, MembershipCrashKeeps
<1>. QED BY <1>1, <1>2, <1>3, <1>4, <1>5, <1>6, <1>7 DEF MembershipNext

LEMMA ServedInit == MembershipInit => ServedInv
<1>. SUFFICES ASSUME MembershipInit PROVE ServedInv OBVIOUS
<1>1. FileJoined BY DEF MembershipInit, FileJoined
<1>2. NoJoin \notin WriteJob BY DEF NoJoin, WriteJob
<1>3. \A j \in Joiners : JobServed(joiner[j]) BY <1>2 DEF MembershipInit, JobServed
<1>. QED BY <1>1, <1>3 DEF ServedInv

\* The standing of a member, for any ids, tickets, hours and faults: as long as the
\* requests about one operator id do not overlap, an acknowledged member keeps the time
\* it joined through every join, announcement, refresh, rollback and restart, and where
\* its full standing had reached the disk it loses it only to a rollback that leaves it
\* with its probation served.
THEOREM MembersKeepTheirStanding ==
    ASSUME ~Overlap
    PROVE  MembershipSpec => StandingKept
<1>. DEFINE I == MembershipIInv /\ ServedInv
<1>1. MembershipInit => I BY MembershipInitIInv, ServedInit
<1>2. I /\ [MembershipNext]_membershipVars => I'
  <2>1. ASSUME I, MembershipNext PROVE I' BY <2>1, MembershipNextPreserves, StandingNext
  <2>2. ASSUME I, UNCHANGED membershipVars PROVE I'
    <3>1. MembershipIInv' BY <2>2, MembershipNextPreserves
    <3>2. ServedInv' BY <2>2 DEF membershipVars, ServedInv, FileJoined, JobServed
    <3>. QED BY <3>1, <3>2
  <2>. QED BY <2>1, <2>2
<1>3. I /\ [MembershipNext]_membershipVars => [KeptStep]_membershipVars
  BY StandingNext
<1>. QED BY <1>1, <1>2, <1>3, PTL DEF MembershipSpec, StandingKept

-----------------------------------------------------------------------------
(* Vouchers: sums *)

\* The bytes of one thing.
Row(size, x) == {x} \X (1..size[x])

LEMMA RowCount ==
    ASSUME NEW size, NEW x, size[x] \in Nat
    PROVE  IsFiniteSet(Row(size, x)) /\ Cardinality(Row(size, x)) = size[x]
<1>1. IsFiniteSet(1..size[x]) /\ Cardinality(1..size[x]) = size[x] BY FS_Interval
<1>2. IsFiniteSet({x}) /\ Cardinality({x}) = 1 BY FS_Singleton
<1>3. /\ IsFiniteSet({x} \X (1..size[x]))
      /\ Cardinality({x} \X (1..size[x])) = Cardinality({x}) * Cardinality(1..size[x])
  BY <1>1, <1>2, FS_Product
<1>. QED BY <1>1, <1>2, <1>3 DEF Row

Rows(size, S) == UNION {Row(size, x) : x \in S}

LEMMA BytesRows == \A size, S : Bytes(size, S) = Cardinality(Rows(size, S))
BY DEF Bytes, Rows, Row

LEMMA RowsFinite ==
    ASSUME NEW S, IsFiniteSet(S), NEW size, \A x \in S : size[x] \in Nat
    PROVE  IsFiniteSet(Rows(size, S)) /\ Bytes(size, S) \in Nat
<1>. DEFINE f == [x \in S |-> Row(size, x)]
            R == {Row(size, x) : x \in S}
<1>1. f \in Surjection(S, R) BY DEF Surjection
<1>2. IsFiniteSet(R) BY <1>1, FS_Surjection
<1>3. \A T \in R : IsFiniteSet(T) BY RowCount
<1>. HIDE DEF R
<1>4. IsFiniteSet(UNION R) BY <1>2, <1>3, FS_UNION
<1>5. IsFiniteSet(Rows(size, S)) BY <1>4 DEF Rows, R
<1>. QED BY <1>5, BytesRows, FS_CardinalityType

\* One more thing counts its size more.
LEMMA BytesAdd ==
    ASSUME NEW S, IsFiniteSet(S), NEW size, NEW e, e \notin S,
           \A x \in S \cup {e} : size[x] \in Nat
    PROVE  Bytes(size, S \cup {e}) = Bytes(size, S) + size[e]
<1>. DEFINE R == Rows(size, S)
            T == Row(size, e)
<1>1. IsFiniteSet(R) /\ Bytes(size, S) \in Nat BY RowsFinite
<1>2. IsFiniteSet(T) /\ Cardinality(T) = size[e] BY RowCount
<1>3. Rows(size, S \cup {e}) = R \cup T BY DEF Rows
<1>4. R \cap T = {} BY DEF Rows, Row
<1>5. Bytes(size, S \cup {e}) = Cardinality(R \cup T) /\ Bytes(size, S) = Cardinality(R)
  BY <1>3, BytesRows
<1>6. size[e] \in Nat OBVIOUS
<1>. HIDE DEF R, T
<1>7. Cardinality(R \cup T) = Cardinality(R) + Cardinality(T) - Cardinality(R \cap T)
  BY <1>1, <1>2, FS_Union
<1>8. Cardinality(R \cap T) = 0 BY <1>4, FS_EmptySet
<1>. QED BY <1>1, <1>2, <1>5, <1>6, <1>7, <1>8

LEMMA BytesRemove ==
    ASSUME NEW S, IsFiniteSet(S), NEW size, NEW e \in S,
           \A x \in S : size[x] \in Nat
    PROVE  Bytes(size, S \ {e}) = Bytes(size, S) - size[e] /\ Bytes(size, S) >= size[e]
<1>. DEFINE T == S \ {e}
<1>1. IsFiniteSet(T) BY FS_RemoveElement
<1>2. e \notin T /\ S = T \cup {e} OBVIOUS
<1>3. size[e] \in Nat /\ \A x \in T \cup {e} : size[x] \in Nat BY <1>2
<1>. HIDE DEF T
<1>4. Bytes(size, T \cup {e}) = Bytes(size, T) + size[e] BY <1>1, <1>2, <1>3, BytesAdd
<1>5. Bytes(size, T) \in Nat BY <1>1, <1>3, RowsFinite
<1>6. Bytes(size, S) = Bytes(size, T) + size[e] BY <1>2, <1>4
<1>7. Bytes(size, T) = Bytes(size, S) - size[e] /\ Bytes(size, S) >= size[e] BY <1>3, <1>5, <1>6
<1>. QED BY <1>7 DEF T

\* Only the sizes of what is counted matter.
LEMMA BytesSame ==
    ASSUME NEW S, NEW size, NEW other, \A x \in S : size[x] = other[x]
    PROVE  Bytes(size, S) = Bytes(other, S)
<1>1. {{x} \X (1..size[x]) : x \in S} = {{x} \X (1..other[x]) : x \in S} OBVIOUS
<1>. QED BY <1>1 DEF Bytes

LEMMA BytesNone == \A size : Bytes(size, {}) = 0
<1>1. ASSUME NEW size PROVE Rows(size, {}) = {} BY DEF Rows
<1>. QED BY <1>1, BytesRows, FS_EmptySet

-----------------------------------------------------------------------------
(* Vouchers: the inductive invariant *)

\* What a put has charged to a voucher of G and not yet stored or given back.
Share(put, G) == IF put.pc \in {"write", "release"} /\ put.grant \in G THEN put.bytes ELSE 0

Holding(all, G) == {p \in Putters : all[p].pc \in {"write", "release"} /\ all[p].grant \in G}
HeldUnder(all, G) == Bytes([p \in Putters |-> all[p].bytes], Holding(all, G))

\* What the vouchers of G have to pay for.
Due(G) == StoredUnder(G) + HeldUnder(putter, G)

OfHolder(h) == {g \in Grants : g.holder = h}

\* What is not there was paid by nobody.
PayerInv == \A o \in Objects \ objects : payer[o] = NoGrant

\* A put that pays nothing found its object; what is given back was charged.
PutInv ==
    \A p \in Putters :
        /\ putter[p] # NoPut => \/ putter[p].bytes = SizeOf[putter[p].object]
                                \/ putter[p].object \in objects
        /\ putter[p].pc = "release" => putter[p].grant # NoGrant

\* A voucher's quota covers what is due; its entry does too, in memory and on disk,
\* as long as it may be used; and without faults and expiries it says exactly that.
ChargeInv ==
    \A g \in Grants :
        /\ Due({g}) <= g.quota
        /\ day <= g.expires => spent[g] >= Due({g}) /\ spentFile[g] >= Due({g})
        /\ ~lapsed => spent[g] = Due({g})

\* So does the total of a holder, which is never pruned.
TotalInv ==
    \A h \in Holders :
        /\ total[h] >= Due(OfHolder(h)) /\ totalFile[h] >= Due(OfHolder(h))
        /\ UserQuota > 0 => Due(OfHolder(h)) <= UserQuota

VouchersIInv == VouchersTypeOK /\ PayerInv /\ PutInv /\ ChargeInv /\ TotalInv /\ LeasesKept

-----------------------------------------------------------------------------
(* Vouchers: what a step does to what is due *)

LEMMA PutShape ==
    ASSUME NEW put, put \in Put \cup {NoPut}
    PROVE  /\ put.pc # "idle" => put \in Put
           /\ put # NoPut => put \in Put /\ put.pc # "idle"
           /\ put = NoPut => put.pc = "idle"
           /\ put \in Put => /\ put # NoPut /\ put.pc \in {"authorize", "write", "release"}
                             /\ put.object \in Objects /\ put.grant \in Presented /\ put.bytes \in Nat
BY DEF Put, NoPut

PutTable == [Putters -> Put \cup {NoPut}]

LEMMA HeldFinite ==
    ASSUME NEW all \in PutTable, NEW G
    PROVE  /\ IsFiniteSet(Holding(all, G)) /\ HeldUnder(all, G) \in Nat
           /\ \A p \in Holding(all, G) : p \in Putters /\ all[p].bytes \in Nat
<1>1. Holding(all, G) \subseteq Putters BY DEF Holding
<1>2. IsFiniteSet(Holding(all, G)) BY <1>1, FS_Subset, VouchersAssumption
<1>3. ASSUME NEW p \in Holding(all, G) PROVE all[p].bytes \in Nat
  <2>1. p \in Putters /\ all[p].pc # "idle" BY DEF Holding
  <2>2. all[p] \in Put \cup {NoPut} BY <2>1 DEF PutTable
  <2>. QED BY <2>1, <2>2, PutShape
<1>4. \A p \in Holding(all, G) : [q \in Putters |-> all[q].bytes][p] \in Nat BY <1>1, <1>3
<1>5. HeldUnder(all, G) \in Nat BY <1>2, <1>4, RowsFinite DEF HeldUnder
<1>. QED BY <1>1, <1>2, <1>3, <1>5

\* The bytes held by the requests other than p.
LEMMA HeldSplit ==
    ASSUME NEW all \in PutTable, NEW G, NEW p \in Putters
    PROVE  /\ Share(all[p], G) \in Nat
           /\ Bytes([q \in Putters |-> all[q].bytes], Holding(all, G) \ {p}) \in Nat
           /\ HeldUnder(all, G) = Bytes([q \in Putters |-> all[q].bytes], Holding(all, G) \ {p})
                                  + Share(all[p], G)
<1>. DEFINE size == [q \in Putters |-> all[q].bytes]
            S == Holding(all, G)
<1>1. IsFiniteSet(S) /\ \A q \in S : size[q] \in Nat BY HeldFinite
<1>2. HeldUnder(all, G) = Bytes(size, S) BY DEF HeldUnder
<1>3. size[p] = all[p].bytes OBVIOUS
<1>4. p \in S => Share(all[p], G) = size[p] BY <1>3 DEF Share, Holding
<1>5. p \notin S => Share(all[p], G) = 0 BY DEF Share, Holding
<1>. HIDE DEF size, S
<1>6. Bytes(size, S) \in Nat BY <1>1, RowsFinite
<1>7. /\ Share(all[p], G) \in Nat /\ Bytes(size, S \ {p}) \in Nat
      /\ Bytes(size, S) = Bytes(size, S \ {p}) + Share(all[p], G)
  <2>1. CASE p \in S
    <3>1. Bytes(size, S \ {p}) = Bytes(size, S) - size[p] BY <1>1, <2>1, BytesRemove
    <3>2. IsFiniteSet(S \ {p}) BY <1>1, FS_RemoveElement
    <3>3. Bytes(size, S \ {p}) \in Nat BY <1>1, <3>2, RowsFinite
    <3>4. size[p] \in Nat BY <1>1, <2>1
    <3>. QED BY <1>4, <1>6, <2>1, <3>1, <3>3, <3>4
  <2>2. CASE p \notin S
    <3>1. S \ {p} = S BY <2>2
    <3>2. Bytes(size, S \ {p}) = Bytes(size, S) BY <3>1
    <3>. QED BY <1>5, <1>6, <2>2, <3>2
  <2>. QED BY <2>1, <2>2
<1>. QED BY <1>2, <1>7 DEF size, S

\* One put goes on.
LEMMA HeldMoves ==
    ASSUME NEW all \in PutTable, NEW p \in Putters, NEW put \in Put \cup {NoPut}, NEW G
    PROVE  LET next == [all EXCEPT ![p] = put]
           IN  /\ HeldUnder(all, G) \in Nat /\ HeldUnder(next, G) \in Nat
               /\ Share(all[p], G) \in Nat /\ Share(put, G) \in Nat
               /\ HeldUnder(all, G) >= Share(all[p], G)
               /\ HeldUnder(next, G) = HeldUnder(all, G) - Share(all[p], G) + Share(put, G)
<1>. DEFINE next == [all EXCEPT ![p] = put]
            b == [q \in Putters |-> all[q].bytes]
            c == [q \in Putters |-> next[q].bytes]
            rest == Holding(all, G) \ {p}
<1>1. next \in PutTable /\ next[p] = put /\ \A q \in Putters \ {p} : next[q] = all[q] BY DEF PutTable
<1>. HIDE DEF next
<1>2. Holding(next, G) \ {p} = rest BY <1>1 DEF Holding
<1>3. \A q \in rest : b[q] = c[q] BY <1>1 DEF Holding
<1>4. Bytes(b, rest) = Bytes(c, rest) BY <1>3, BytesSame
<1>5. /\ Share(all[p], G) \in Nat /\ Bytes(b, rest) \in Nat
      /\ HeldUnder(all, G) = Bytes(b, rest) + Share(all[p], G)
  BY HeldSplit
<1>6. /\ Share(next[p], G) \in Nat
      /\ HeldUnder(next, G) = Bytes(c, Holding(next, G) \ {p}) + Share(next[p], G)
  BY <1>1, HeldSplit
<1>. HIDE DEF b, c, rest
<1>7. Share(put, G) \in Nat /\ HeldUnder(next, G) = Bytes(b, rest) + Share(put, G)
  BY <1>1, <1>2, <1>4, <1>6
<1>8. /\ HeldUnder(all, G) \in Nat /\ HeldUnder(next, G) \in Nat
      /\ Share(all[p], G) \in Nat /\ Share(put, G) \in Nat
      /\ HeldUnder(all, G) >= Share(all[p], G)
      /\ HeldUnder(next, G) = HeldUnder(all, G) - Share(all[p], G) + Share(put, G)
  BY <1>5, <1>7
<1>. QED BY <1>8 DEF next

LEMMA StoredFinite ==
    ASSUME VouchersTypeOK, NEW G
    PROVE  /\ IsFiniteSet({o \in objects \ unsynced : payer[o] \in G})
           /\ \A o \in Objects : SizeOf[o] \in Nat
           /\ StoredUnder(G) \in Nat
<1>. DEFINE S == {o \in objects \ unsynced : payer[o] \in G}
<1>1. S \subseteq Objects BY DEF VouchersTypeOK
<1>2. IsFiniteSet(S) BY <1>1, FS_Subset, VouchersAssumption
<1>3. \A o \in Objects : SizeOf[o] \in Nat BY VouchersAssumption
<1>4. Bytes(SizeOf, S) \in Nat BY <1>1, <1>2, <1>3, RowsFinite
<1>. QED BY <1>2, <1>3, <1>4 DEF StoredUnder

LEMMA DueNat ==
    ASSUME VouchersTypeOK, NEW G
    PROVE  putter \in PutTable /\ StoredUnder(G) \in Nat /\ HeldUnder(putter, G) \in Nat /\ Due(G) \in Nat
<1>1. putter \in PutTable BY DEF VouchersTypeOK, PutTable
<1>2. HeldUnder(putter, G) \in Nat BY <1>1, HeldFinite
<1>3. StoredUnder(G) \in Nat BY StoredFinite
<1>. QED BY <1>1, <1>2, <1>3 DEF Due

\* An object comes in under the voucher g.
LEMMA StoresNew ==
    ASSUME VouchersTypeOK, NEW e \in Objects \ objects, NEW g, NEW G,
           objects' = objects \cup {e}, unsynced' = unsynced, payer' = [payer EXCEPT ![e] = g]
    PROVE  StoredUnder(G)' = StoredUnder(G) + IF g \in G THEN SizeOf[e] ELSE 0
<1>. DEFINE S == {o \in objects \ unsynced : payer[o] \in G}
            T == {o \in objects' \ unsynced' : payer'[o] \in G}
<1>1. payer'[e] = g /\ \A o \in Objects \ {e} : payer'[o] = payer[o] BY DEF VouchersTypeOK
<1>2. objects \subseteq Objects /\ unsynced \subseteq objects BY DEF VouchersTypeOK
<1>3. IsFiniteSet(S) /\ \A o \in Objects : SizeOf[o] \in Nat BY StoredFinite
<1>4. StoredUnder(G) = Bytes(SizeOf, S) /\ StoredUnder(G)' = Bytes(SizeOf, T) BY DEF StoredUnder
<1>5. StoredUnder(G) \in Nat BY StoredFinite
<1>6. e \notin S /\ S \subseteq Objects BY <1>2
<1>7. T = IF g \in G THEN S \cup {e} ELSE S BY <1>1, <1>2
<1>. HIDE DEF S, T
<1>8. Bytes(SizeOf, S \cup {e}) = Bytes(SizeOf, S) + SizeOf[e]
  <2>1. \A o \in S \cup {e} : SizeOf[o] \in Nat BY <1>3, <1>6
  <2>. QED BY <1>3, <1>6, <2>1, BytesAdd
<1>9. CASE g \in G BY <1>4, <1>7, <1>8, <1>9
<1>10. CASE g \notin G BY <1>4, <1>5, <1>7, <1>10
<1>. QED BY <1>9, <1>10

\* An object comes in that no voucher pays for.
LEMMA StoresUnpaid ==
    ASSUME VouchersTypeOK, NEW e \in Objects \ objects, NEW G \in SUBSET Grants,
           objects' = objects \cup {e},
           \/ unsynced' = unsynced /\ payer' = payer /\ payer[e] = NoGrant
           \/ unsynced' = unsynced \cup {e} /\ \E g : payer' = [payer EXCEPT ![e] = g]
    PROVE  StoredUnder(G)' = StoredUnder(G)
<1>. DEFINE S == {o \in objects \ unsynced : payer[o] \in G}
            T == {o \in objects' \ unsynced' : payer'[o] \in G}
<1>1. \A o \in Objects \ {e} : payer'[o] = payer[o] BY DEF VouchersTypeOK
<1>2. objects \subseteq Objects /\ unsynced \subseteq objects BY DEF VouchersTypeOK
<1>3. NoGrant \notin G BY VouchersAssumption
<1>4. S = T BY <1>1, <1>2, <1>3
<1>. QED BY <1>4 DEF StoredUnder

DueSame == \A G \in SUBSET Grants : Due(G)' = Due(G)

\* A put goes on: what it held is held, or stored now, or was nothing.
LEMMA DueMoves ==
    ASSUME VouchersTypeOK, NEW p \in Putters, NEW put \in Put \cup {NoPut},
           putter' = [putter EXCEPT ![p] = put], NEW G \in SUBSET Grants, NEW n \in Nat,
           StoredUnder(G)' = StoredUnder(G) + n
    PROVE  /\ Due(G)' = Due(G) + n - Share(putter[p], G) + Share(put, G)
           /\ Due(G) >= Share(putter[p], G)
           /\ Share(putter[p], G) \in Nat /\ Share(put, G) \in Nat
<1>1. putter \in PutTable /\ StoredUnder(G) \in Nat /\ Due(G) = StoredUnder(G) + HeldUnder(putter, G)
  BY DueNat DEF Due
<1>2. /\ HeldUnder(putter, G) \in Nat
      /\ Share(putter[p], G) \in Nat /\ Share(put, G) \in Nat
      /\ HeldUnder(putter, G) >= Share(putter[p], G)
      /\ HeldUnder(putter', G) = HeldUnder(putter, G) - Share(putter[p], G) + Share(put, G)
  BY <1>1, HeldMoves
<1>3. Due(G)' = StoredUnder(G)' + HeldUnder(putter', G) BY DEF Due
<1>. QED BY <1>1, <1>2, <1>3

LEMMA DueUnmoved ==
    ASSUME UNCHANGED <<objects, unsynced, payer, putter>> PROVE DueSame
BY DEF DueSame, Due, StoredUnder, HeldUnder, Holding

-----------------------------------------------------------------------------
(* Vouchers: the steps *)

LEMMA OfHolderGrants == \A h : OfHolder(h) \in SUBSET Grants BY DEF OfHolder

\* A step that leaves alone what is due.
LEMMA ChargesSame ==
    ASSUME VouchersIInv, VouchersTypeOK', DueSame, day' = day \/ day' = day + 1,
           \A g \in Grants : day <= g.expires =>
               spent'[g] = spent[g] /\ (spentFile'[g] = spentFile[g] \/ spentFile'[g] >= spent[g]),
           ~lapsed' => ~lapsed /\ spent' = spent,
           \A h \in Holders : total'[h] = total[h] /\ (totalFile'[h] = totalFile[h] \/ totalFile'[h] >= total[h])
    PROVE  ChargeInv' /\ TotalInv'
<1>1. \A G : Due(G) \in Nat BY DueNat DEF VouchersIInv
<1>2. ASSUME NEW g \in Grants
      PROVE  /\ Due({g})' <= g.quota
             /\ day' <= g.expires => spent'[g] >= Due({g})' /\ spentFile'[g] >= Due({g})'
             /\ ~lapsed' => spent'[g] = Due({g})'
  <2>1. Due({g})' = Due({g}) BY DEF DueSame
  <2>2. g.expires \in Nat /\ g.quota \in Nat BY VouchersAssumption
  <2>3. day \in Nat /\ spent[g] \in Nat /\ spentFile[g] \in Nat /\ spentFile'[g] \in Nat
    BY DEF VouchersIInv, VouchersTypeOK
  <2>4. /\ Due({g}) <= g.quota
        /\ day <= g.expires => spent[g] >= Due({g}) /\ spentFile[g] >= Due({g})
        /\ ~lapsed => spent[g] = Due({g})
    BY DEF VouchersIInv, ChargeInv
  <2>5. day' <= g.expires => day <= g.expires BY <2>2, <2>3
  <2>6. Due({g}) \in Nat BY <1>1
  <2>7. day <= g.expires => spentFile'[g] >= Due({g}) BY <2>3, <2>4, <2>6
  <2>. QED BY <2>1, <2>4, <2>5, <2>7
<1>3. ASSUME NEW h \in Holders
      PROVE  /\ total'[h] >= Due(OfHolder(h))' /\ totalFile'[h] >= Due(OfHolder(h))'
             /\ UserQuota > 0 => Due(OfHolder(h))' <= UserQuota
  <2>1. Due(OfHolder(h))' = Due(OfHolder(h)) BY OfHolderGrants DEF DueSame, OfHolder
  <2>2. /\ total[h] >= Due(OfHolder(h)) /\ totalFile[h] >= Due(OfHolder(h))
        /\ UserQuota > 0 => Due(OfHolder(h)) <= UserQuota
    BY DEF VouchersIInv, TotalInv
  <2>3. total[h] \in Nat /\ totalFile'[h] \in Nat BY DEF VouchersIInv, VouchersTypeOK
  <2>4. Due(OfHolder(h)) \in Nat BY <1>1
  <2>. QED BY <2>1, <2>2, <2>3, <2>4
<1>. QED BY <1>2, <1>3 DEF ChargeInv, TotalInv

PutOK(put, stored) ==
    /\ put # NoPut => put.bytes = SizeOf[put.object] \/ put.object \in stored
    /\ put.pc = "release" => put.grant # NoGrant

LEMMA PutStep ==
    ASSUME VouchersIInv, NEW p \in Putters, NEW put \in Put \cup {NoPut},
           putter' = [putter EXCEPT ![p] = put], objects \subseteq objects', PutOK(put, objects')
    PROVE  PutInv' /\ putter' \in [Putters -> Put \cup {NoPut}]
<1>1. putter \in [Putters -> Put \cup {NoPut}] BY DEF VouchersIInv, VouchersTypeOK
<1>2. putter'[p] = put /\ \A q \in Putters \ {p} : putter'[q] = putter[q] BY <1>1
<1>3. \A q \in Putters : PutOK(putter[q], objects) BY DEF VouchersIInv, PutInv, PutOK
<1>4. \A q \in Putters : PutOK(putter[q], objects') BY <1>3 DEF PutOK
<1>5. \A q \in Putters : PutOK(putter'[q], objects') BY <1>2, <1>4
<1>. QED BY <1>1, <1>5 DEF PutInv, PutOK

LEMMA NoPutOK == NoPut \in Put \cup {NoPut} /\ (\A G : Share(NoPut, G) = 0) /\ \A S : PutOK(NoPut, S)
BY DEF NoPut, Share, PutOK

LEMMA BeginPutPreserves ==
    ASSUME VouchersIInv, NEW p \in Putters, NEW o \in Objects, NEW g \in Presented, BeginPut(p, o, g)
    PROVE  VouchersIInv'
<1>. DEFINE put == [pc |-> "authorize", object |-> o, grant |-> g,
                    bytes |-> IF o \in objects THEN 0 ELSE SizeOf[o], ok |-> TRUE]
<1>1. /\ putter[p] = NoPut /\ puts < MaxPuts /\ puts' = puts + 1
      /\ putter' = [putter EXCEPT ![p] = put]
      /\ UNCHANGED <<ledgerVars, leaseVars, objects, day, voucherFaults, payer, unsynced, lapsed>>
  BY DEF BeginPut
<1>2. SizeOf[o] \in Nat BY VouchersAssumption
<1>3. /\ put \in Put /\ put.pc = "authorize" /\ put.object = o
      /\ put.bytes = IF o \in objects THEN 0 ELSE SizeOf[o]
  BY <1>2 DEF Put
<1>. HIDE DEF put
<1>4. PutOK(put, objects') BY <1>1, <1>3 DEF PutOK
<1>5. PutInv' /\ putter' \in [Putters -> Put \cup {NoPut}] BY <1>1, <1>3, <1>4, PutStep
<1>6. VouchersTypeOK'
  BY <1>1, <1>5, VouchersAssumption DEF VouchersIInv, VouchersTypeOK, ledgerVars, leaseVars
<1>7. ASSUME NEW G \in SUBSET Grants PROVE Due(G)' = Due(G)
  <2>1. StoredUnder(G)' = StoredUnder(G) + 0
    <3>1. StoredUnder(G) \in Nat BY DueNat DEF VouchersIInv
    <3>. QED BY <1>1, <3>1 DEF StoredUnder
  <2>2. Share(put, G) = 0 /\ Share(putter[p], G) = 0 BY <1>1, <1>3, NoPutOK DEF Share
  <2>0. VouchersTypeOK /\ put \in Put \cup {NoPut} BY <1>3 DEF VouchersIInv
  <2>3. Due(G)' = Due(G) + 0 - Share(putter[p], G) + Share(put, G)
    BY <1>1, <2>0, <2>1, DueMoves
  <2>4. Due(G) \in Nat BY DueNat DEF VouchersIInv
  <2>. QED BY <2>2, <2>3, <2>4
<1>8. ChargeInv' /\ TotalInv'
  BY <1>1, <1>6, <1>7, ChargesSame DEF DueSame, ledgerVars
<1>9. PayerInv' /\ LeasesKept' BY <1>1 DEF VouchersIInv, PayerInv, LeasesKept, leaseVars
<1>. QED BY <1>5, <1>6, <1>8, <1>9 DEF VouchersIInv

LEMMA WriteObjectPreserves ==
    ASSUME VouchersIInv, NEW p \in Putters, WriteObject(p) PROVE VouchersIInv'
<1>. DEFINE put == putter[p]
            next == IF put.object \notin objects \/ put.grant = NoGrant THEN NoPut
                                                 ELSE [put EXCEPT !.pc = "release"]
<1>1. /\ put.pc = "write" /\ putter' = [putter EXCEPT ![p] = next]
      /\ \/ /\ put.object \notin objects
            /\ objects' = objects \cup {put.object}
            /\ payer' = [payer EXCEPT ![put.object] = put.grant]
         \/ put.object \in objects /\ UNCHANGED <<objects, payer>>
      /\ UNCHANGED <<ledgerVars, leaseVars, day, puts, voucherFaults, unsynced, lapsed>>
  BY DEF WriteObject
<1>2. put \in Put \cup {NoPut} BY DEF VouchersIInv, VouchersTypeOK
<1>3. /\ put \in Put /\ put # NoPut /\ put.object \in Objects /\ put.grant \in Presented
      /\ put.bytes \in Nat
  BY <1>1, <1>2, PutShape
<1>4. PutOK(put, objects) BY DEF VouchersIInv, PutInv, PutOK
<1>5. next # NoPut => /\ next \in Put /\ next.pc = "release" /\ next.object = put.object
                      /\ next.grant = put.grant /\ next.bytes = put.bytes /\ put.grant # NoGrant
  BY <1>3 DEF Put
<1>6. next = NoPut => put.object \notin objects \/ put.grant = NoGrant
  BY <1>3 DEF Put, NoPut
<1>7. next # NoPut => put.object \in objects BY <1>3
<1>8. next \in Put \cup {NoPut} BY <1>5
<1>. HIDE DEF next
<1>9. PutOK(next, objects')
  <2>1. CASE next = NoPut BY <2>1, NoPutOK
  <2>2. CASE next # NoPut BY <1>1, <1>5, <1>7, <2>2 DEF PutOK
  <2>. QED BY <2>1, <2>2
<1>10. objects \subseteq objects' BY <1>1
<1>11. PutInv' /\ putter' \in [Putters -> Put \cup {NoPut}] BY <1>1, <1>8, <1>9, <1>10, PutStep
<1>12. VouchersTypeOK'
  BY <1>1, <1>3, <1>11 DEF VouchersIInv, VouchersTypeOK, ledgerVars, leaseVars
<1>13. ASSUME NEW G \in SUBSET Grants PROVE Due(G)' = Due(G)
  <2>0. NoGrant \notin G BY VouchersAssumption
  <2>1. Due(G) \in Nat /\ StoredUnder(G) \in Nat BY DueNat DEF VouchersIInv
  <2>2. VouchersTypeOK BY DEF VouchersIInv
  <2>3. Share(put, G) = IF put.grant \in G THEN put.bytes ELSE 0 BY <1>1 DEF Share
  <2>4. CASE put.object \notin objects
    <3>1. put.bytes = SizeOf[put.object] BY <1>3, <1>4, <2>4 DEF PutOK
    <3>2. next = NoPut BY <1>7, <2>4
    <3>. DEFINE n == IF put.grant \in G THEN SizeOf[put.object] ELSE 0
    <3>3. StoredUnder(G)' = StoredUnder(G) + n BY <1>1, <1>3, <2>2, <2>4, StoresNew DEF ledgerVars
    <3>4. n \in Nat /\ n = Share(put, G) BY <1>3, <2>3, <3>1
    <3>5. Share(next, G) = 0 BY <3>2, NoPutOK
    <3>. HIDE DEF n
    <3>6. Due(G)' = Due(G) + n - Share(put, G) + Share(next, G)
      BY <1>1, <1>8, <2>2, <3>3, <3>4, DueMoves
    <3>. QED BY <2>1, <3>4, <3>5, <3>6
  <2>5. CASE put.object \in objects
    <3>0. StoredUnder(G)' = StoredUnder(G) BY <1>1, <2>5 DEF StoredUnder
    <3>1. StoredUnder(G)' = StoredUnder(G) + 0 BY <2>1, <3>0
    <3>2. Share(next, G) = Share(put, G)
      <4>1. CASE next = NoPut
        <5>1. put.grant = NoGrant BY <1>6, <2>5, <4>1
        <5>. QED BY <2>0, <2>3, <4>1, <5>1, NoPutOK
      <4>2. CASE next # NoPut BY <1>5, <2>3, <4>2 DEF Share
      <4>. QED BY <4>1, <4>2
    <3>3. Due(G)' = Due(G) + 0 - Share(put, G) + Share(next, G) /\ Share(put, G) \in Nat
      BY <1>1, <1>8, <2>2, <3>1, DueMoves
    <3>. QED BY <2>1, <3>2, <3>3
  <2>. QED BY <2>4, <2>5
<1>14. ChargeInv' /\ TotalInv' BY <1>1, <1>12, <1>13, ChargesSame DEF DueSame, ledgerVars
<1>15. LeasesKept' BY <1>1 DEF VouchersIInv, LeasesKept, leaseVars
<1>16. PayerInv' BY <1>1, <1>3 DEF VouchersIInv, VouchersTypeOK, PayerInv
<1>. QED BY <1>11, <1>12, <1>14, <1>15, <1>16 DEF VouchersIInv

LEMMA DueKept ==
    ASSUME VouchersTypeOK, NEW p \in Putters, NEW put \in Put \cup {NoPut},
           putter' = [putter EXCEPT ![p] = put], NEW G \in SUBSET Grants,
           StoredUnder(G)' = StoredUnder(G), Share(put, G) = Share(putter[p], G)
    PROVE  Due(G)' = Due(G)
<1>1. Due(G) \in Nat /\ StoredUnder(G) \in Nat BY DueNat
<1>2. StoredUnder(G)' = StoredUnder(G) + 0 BY <1>1
<1>3. Due(G)' = Due(G) + 0 - Share(putter[p], G) + Share(put, G) /\ Share(putter[p], G) \in Nat
  BY <1>2, DueMoves
<1>. QED BY <1>1, <1>3

LEMMA WriteObjectFailsPreserves ==
    ASSUME VouchersIInv, NEW p \in Putters, WriteObjectFails(p) PROVE VouchersIInv'
<1>. DEFINE put == putter[p]
            next == IF put.grant = NoGrant THEN NoPut ELSE [put EXCEPT !.pc = "release", !.ok = FALSE]
<1>1. /\ put.pc = "write" /\ putter' = [putter EXCEPT ![p] = next]
      /\ \/ UNCHANGED <<objects, unsynced, payer, voucherFaults, lapsed>>
         \/ /\ put.object \notin objects
            /\ voucherFaults < VoucherFaults /\ voucherFaults' = voucherFaults + 1 /\ lapsed' = TRUE
            /\ objects' = objects \cup {put.object}
            /\ unsynced' = unsynced \cup {put.object}
            /\ payer' = [payer EXCEPT ![put.object] = put.grant]
      /\ UNCHANGED <<ledgerVars, leaseVars, day, puts>>
  BY DEF WriteObjectFails, VoucherFault
<1>2. put \in Put \cup {NoPut} BY DEF VouchersIInv, VouchersTypeOK
<1>3. /\ put \in Put /\ put # NoPut /\ put.object \in Objects /\ put.grant \in Presented
      /\ put.bytes \in Nat
  BY <1>1, <1>2, PutShape
<1>4. PutOK(put, objects) BY DEF VouchersIInv, PutInv, PutOK
<1>5. put.grant # NoGrant => /\ next \in Put /\ next.pc = "release" /\ next.object = put.object
                             /\ next.grant = put.grant /\ next.bytes = put.bytes
  BY <1>3 DEF Put
<1>6. put.grant = NoGrant => next = NoPut OBVIOUS
<1>8. next \in Put \cup {NoPut} BY <1>5
<1>. HIDE DEF next
<1>10. objects \subseteq objects' BY <1>1
<1>9. PutOK(next, objects')
  <2>1. CASE put.grant = NoGrant BY <1>6, <2>1, NoPutOK
  <2>2. CASE put.grant # NoGrant BY <1>3, <1>4, <1>5, <1>10, <2>2 DEF PutOK
  <2>. QED BY <2>1, <2>2
<1>11. PutInv' /\ putter' \in [Putters -> Put \cup {NoPut}] BY <1>1, <1>8, <1>9, <1>10, PutStep
<1>12. VouchersTypeOK'
  <2>1. VouchersTypeOK BY DEF VouchersIInv
  <2>2. objects' \subseteq Objects /\ unsynced' \subseteq objects' BY <1>1, <1>3, <2>1 DEF VouchersTypeOK
  <2>3. payer' \in [Objects -> Presented] BY <1>1, <1>3, <2>1 DEF VouchersTypeOK
  <2>4. voucherFaults' \in 0..VoucherFaults /\ lapsed' \in BOOLEAN
    <3>1. voucherFaults \in 0..VoucherFaults /\ VoucherFaults \in Nat /\ lapsed \in BOOLEAN
      BY <2>1, VouchersAssumption DEF VouchersTypeOK
    <3>2. \/ voucherFaults' = voucherFaults
          \/ voucherFaults < VoucherFaults /\ voucherFaults' = voucherFaults + 1
      BY <1>1
    <3>3. lapsed' = lapsed \/ lapsed' = TRUE BY <1>1
    <3>4. voucherFaults' \in 0..VoucherFaults BY <3>1, <3>2
    <3>5. lapsed' \in BOOLEAN BY <3>1, <3>3
    <3>. QED BY <3>4, <3>5
  <2>. QED BY <1>1, <1>11, <2>1, <2>2, <2>3, <2>4 DEF VouchersTypeOK, ledgerVars, leaseVars
<1>13. ASSUME NEW G \in SUBSET Grants PROVE Due(G)' = Due(G)
  <2>0. NoGrant \notin G BY VouchersAssumption
  <2>2. VouchersTypeOK BY DEF VouchersIInv
  <2>3. Share(put, G) = IF put.grant \in G THEN put.bytes ELSE 0 BY <1>1 DEF Share
  <2>4. StoredUnder(G)' = StoredUnder(G)
    <3>1. CASE UNCHANGED <<objects, unsynced, payer>> BY <3>1 DEF StoredUnder
    <3>2. CASE /\ put.object \notin objects /\ objects' = objects \cup {put.object}
               /\ unsynced' = unsynced \cup {put.object}
               /\ payer' = [payer EXCEPT ![put.object] = put.grant]
      BY <1>3, <2>2, <3>2, StoresUnpaid
    <3>. QED BY <1>1, <3>1, <3>2
  <2>5. Share(next, G) = Share(put, G)
    <3>1. CASE put.grant = NoGrant BY <1>6, <2>0, <2>3, <3>1, NoPutOK
    <3>2. CASE put.grant # NoGrant BY <1>5, <2>3, <3>2 DEF Share
    <3>. QED BY <3>1, <3>2
  <2>. QED BY <1>1, <1>8, <2>2, <2>4, <2>5, DueKept
<1>14. ChargeInv' /\ TotalInv' BY <1>1, <1>12, <1>13, ChargesSame DEF DueSame, ledgerVars
<1>15. LeasesKept' BY <1>1 DEF VouchersIInv, LeasesKept, leaseVars
<1>16. PayerInv' BY <1>1, <1>3 DEF VouchersIInv, VouchersTypeOK, PayerInv
<1>. QED BY <1>11, <1>12, <1>14, <1>15, <1>16 DEF VouchersIInv

LEMMA PrunedFacts ==
    ASSUME VouchersTypeOK
    PROVE  /\ Pruned \in [Grants -> Nat]
           /\ \A g \in Grants : day <= g.expires => Pruned[g] = spent[g]
<1>1. \A g \in Grants : day \in Nat /\ g.expires \in Nat BY VouchersAssumption DEF VouchersTypeOK
<1>. QED BY <1>1 DEF Pruned, VouchersTypeOK

LEMMA UnauthorizedPreserves ==
    ASSUME VouchersIInv, NEW p \in Putters, Unauthorized(p) PROVE VouchersIInv'
<1>. DEFINE put == putter[p]
            open == IF MustPay THEN NoPut ELSE [put EXCEPT !.pc = "write"]
<1>1. /\ put.pc = "authorize"
      /\ \/ /\ put.grant = NoGrant /\ putter' = [putter EXCEPT ![p] = open]
            /\ UNCHANGED <<spent, lapsed>>
         \/ /\ putter' = [putter EXCEPT ![p] = NoPut]
            /\ spent' = Pruned /\ lapsed' = (lapsed \/ Pruned # spent)
      /\ UNCHANGED <<spentFile, total, totalFile, leaseVars, objects, day, puts,
                     voucherFaults, payer, unsynced>>
  BY DEF Unauthorized
<1>2. put \in Put \cup {NoPut} /\ lapsed \in BOOLEAN BY DEF VouchersIInv, VouchersTypeOK
<1>3. put \in Put BY <1>1, <1>2, PutShape
<1>4. PutOK(put, objects) BY DEF VouchersIInv, PutInv, PutOK
<1>5. PICK next \in Put \cup {NoPut} :
          /\ putter' = [putter EXCEPT ![p] = next] /\ PutOK(next, objects)
          /\ next # NoPut => next.grant = NoGrant
  <2>1. [put EXCEPT !.pc = "write"] \in Put /\ [put EXCEPT !.pc = "write"].pc = "write"
        /\ [put EXCEPT !.pc = "write"].object = put.object
        /\ [put EXCEPT !.pc = "write"].bytes = put.bytes
        /\ [put EXCEPT !.pc = "write"].grant = put.grant
    BY <1>3 DEF Put
  <2>2. put # NoPut BY <1>3 DEF Put, NoPut
  <2>3. PutOK([put EXCEPT !.pc = "write"], objects) BY <1>4, <2>1, <2>2 DEF PutOK
  <2>4. CASE putter' = [putter EXCEPT ![p] = NoPut] BY <2>4, NoPutOK
  <2>5. CASE putter' = [putter EXCEPT ![p] = open] /\ put.grant = NoGrant
    <3>1. open = NoPut \/ open = [put EXCEPT !.pc = "write"] OBVIOUS
    <3>. HIDE DEF open
    <3>. QED BY <2>1, <2>3, <2>5, <3>1, NoPutOK
  <2>. QED BY <1>1, <2>4, <2>5
<1>6. PutInv' /\ putter' \in [Putters -> Put \cup {NoPut}] BY <1>1, <1>5, PutStep
<1>7. /\ spent' \in [Grants -> Nat] /\ \A g \in Grants : day <= g.expires => spent'[g] = spent[g]
  BY <1>1, PrunedFacts DEF VouchersIInv, VouchersTypeOK
<1>8. lapsed' \in BOOLEAN /\ (~lapsed' => ~lapsed /\ spent' = spent) BY <1>1, <1>2
<1>9. VouchersTypeOK'
  BY <1>1, <1>6, <1>7, <1>8 DEF VouchersIInv, VouchersTypeOK, leaseVars
<1>10. ASSUME NEW G \in SUBSET Grants PROVE Due(G)' = Due(G)
  <2>1. NoGrant \notin G BY VouchersAssumption
  <2>2. Share(next, G) = 0 BY <1>5, <2>1, NoPutOK DEF Share
  <2>3. Share(put, G) = 0 BY <1>1 DEF Share
  <2>4. StoredUnder(G)' = StoredUnder(G) BY <1>1 DEF StoredUnder
  <2>5. VouchersTypeOK BY DEF VouchersIInv
  <2>. QED BY <1>5, <2>2, <2>3, <2>4, <2>5, DueKept
<1>11. ChargeInv' /\ TotalInv' BY <1>1, <1>7, <1>8, <1>9, <1>10, ChargesSame DEF DueSame
<1>12. LeasesKept' /\ PayerInv' BY <1>1 DEF VouchersIInv, LeasesKept, PayerInv, leaseVars
<1>. QED BY <1>6, <1>9, <1>11, <1>12 DEF VouchersIInv

\* A fault is counted and noted.
LEMMA FaultTypes ==
    ASSUME VouchersTypeOK,
           \/ UNCHANGED <<voucherFaults, lapsed>>
           \/ VoucherFault
    PROVE  voucherFaults' \in 0..VoucherFaults /\ lapsed' \in BOOLEAN /\ (~lapsed' => ~lapsed)
<1>1. voucherFaults \in 0..VoucherFaults /\ VoucherFaults \in Nat /\ lapsed \in BOOLEAN
  BY VouchersAssumption DEF VouchersTypeOK
<1>2. voucherFaults' \in 0..VoucherFaults BY <1>1 DEF VoucherFault
<1>3. lapsed' = lapsed \/ lapsed' = TRUE BY DEF VoucherFault
<1>. QED BY <1>1, <1>2, <1>3

LEMMA PutRepairObjectPreserves ==
    ASSUME VouchersIInv, NEW o \in Objects, PutRepairObject(o) PROVE VouchersIInv'
<1>1. /\ o \notin objects /\ puts < MaxPuts /\ puts' = puts + 1 /\ objects' = objects \cup {o}
      /\ UNCHANGED <<ledgerVars, leaseVars, putter, day, voucherFaults, payer, unsynced, lapsed>>
  BY DEF PutRepairObject
<1>2. VouchersTypeOK BY DEF VouchersIInv
<1>3. VouchersTypeOK' BY <1>1, <1>2, VouchersAssumption DEF VouchersTypeOK, ledgerVars, leaseVars
<1>4. payer[o] = NoGrant BY <1>1 DEF VouchersIInv, PayerInv
<1>5. ASSUME NEW G \in SUBSET Grants PROVE Due(G)' = Due(G)
  <2>1. StoredUnder(G)' = StoredUnder(G) BY <1>1, <1>2, <1>4, StoresUnpaid
  <2>. QED BY <1>1, <2>1 DEF Due
<1>6. ChargeInv' /\ TotalInv' BY <1>1, <1>3, <1>5, ChargesSame DEF DueSame, ledgerVars
<1>7. PutInv' BY <1>1 DEF VouchersIInv, PutInv
<1>8. LeasesKept' /\ PayerInv' BY <1>1 DEF VouchersIInv, LeasesKept, PayerInv, leaseVars
<1>. QED BY <1>3, <1>6, <1>7, <1>8 DEF VouchersIInv

\* A step that does not touch puts, objects or the ledger.
LEMMA LedgerQuiet ==
    ASSUME VouchersIInv, VouchersTypeOK', LeasesKept',
           UNCHANGED <<ledgerVars, objects, putter, payer, unsynced>>,
           day' = day \/ day' = day + 1, ~lapsed' => ~lapsed
    PROVE  VouchersIInv'
<1>1. DueSame BY DueUnmoved
<1>2. ChargeInv' /\ TotalInv' BY <1>1, ChargesSame DEF ledgerVars
<1>3. PutInv' /\ PayerInv' BY DEF VouchersIInv, PutInv, PayerInv
<1>. QED BY <1>2, <1>3 DEF VouchersIInv

LEMMA CreateLeasePreserves ==
    ASSUME VouchersIInv, NEW l \in LeaseIds, NEW v \in Vaults, NEW n \in 1..MaxTerm, CreateLease(l, v, n)
    PROVE  VouchersIInv'
<1>1. /\ lease[l] = 0 /\ n > 0 /\ day + n <= MaxTerm
      /\ lease' = [lease EXCEPT ![l] = day + n]
      /\ \/ owner' = [owner EXCEPT ![l] = v] /\ promised' = [promised EXCEPT ![l] = day + n]
         \/ UNCHANGED <<owner, promised>>
      /\ UNCHANGED <<ledgerVars, objects, putter, day, puts, payer, unsynced>>
  BY DEF CreateLease
<1>2. UNCHANGED <<voucherFaults, lapsed>> \/ VoucherFault BY DEF CreateLease
<1>3. VouchersTypeOK BY DEF VouchersIInv
<1>4. day + n \in 0..MaxTerm /\ MaxTerm \in Nat
  BY <1>1, <1>3, VouchersAssumption DEF VouchersTypeOK
<1>5. lease' \in [LeaseIds -> 0..MaxTerm] BY <1>1, <1>3, <1>4 DEF VouchersTypeOK
<1>6. promised' \in [LeaseIds -> 0..MaxTerm] BY <1>1, <1>3, <1>4 DEF VouchersTypeOK
<1>7. owner' \in [LeaseIds -> Vaults \cup {NoVault}] BY <1>1, <1>3 DEF VouchersTypeOK
<1>8. voucherFaults' \in 0..VoucherFaults /\ lapsed' \in BOOLEAN /\ (~lapsed' => ~lapsed)
  BY <1>2, <1>3, FaultTypes
<1>9. VouchersTypeOK' BY <1>1, <1>3, <1>5, <1>6, <1>7, <1>8 DEF VouchersTypeOK, ledgerVars
<1>10. LeasesKept'
  <2>. SUFFICES ASSUME NEW k \in LeaseIds, promised'[k] > 0
                PROVE  lease'[k] >= promised'[k] /\ owner'[k] # NoVault
    BY DEF LeasesKept
  <2>1. promised[k] > 0 => lease[k] >= promised[k] /\ owner[k] # NoVault BY DEF VouchersIInv, LeasesKept
  <2>2. promised[k] \in Nat /\ lease[k] \in Nat BY <1>3 DEF VouchersTypeOK
  <2>3. v # NoVault BY VouchersAssumption
  <2>4. CASE k # l BY <1>1, <1>3, <2>1, <2>4 DEF VouchersTypeOK
  <2>5. CASE k = l
    <3>1. promised[l] = 0 BY <1>1, <2>1, <2>2, <2>5
    <3>2. lease'[l] = day + n BY <1>1, <1>3 DEF VouchersTypeOK
    <3>3. promised'[l] # promised[l] => promised'[l] = day + n /\ owner'[l] = v
      BY <1>1, <1>3 DEF VouchersTypeOK
    <3>. QED BY <1>4, <2>3, <2>5, <3>1, <3>2, <3>3
  <2>. QED BY <2>4, <2>5
<1>. QED BY <1>1, <1>8, <1>9, <1>10, LedgerQuiet

LEMMA LargerOfTwo ==
    ASSUME NEW a \in Nat, NEW b \in Nat
    PROVE  Max({a, b}) \in {a, b} /\ Max({a, b}) >= a /\ Max({a, b}) >= b
<1>1. \E x \in {a, b} : \A y \in {a, b} : x >= y
  <2>1. CASE a >= b BY <2>1
  <2>2. CASE b >= a BY <2>2
  <2>. QED BY <2>1, <2>2
<1>2. Max({a, b}) \in {a, b} /\ \A y \in {a, b} : Max({a, b}) >= y BY <1>1 DEF Max
<1>. QED BY <1>2

LEMMA SmallerOfTwo ==
    ASSUME NEW a \in Nat, NEW b \in Nat
    PROVE  Min({a, b}) \in {a, b} /\ Min({a, b}) <= a /\ Min({a, b}) <= b
<1>1. \E x \in {a, b} : \A y \in {a, b} : x =< y
  <2>1. CASE a <= b BY <2>1
  <2>2. CASE b <= a BY <2>2
  <2>. QED BY <2>1, <2>2
<1>2. Min({a, b}) \in {a, b} /\ \A y \in {a, b} : Min({a, b}) =< y BY <1>1 DEF Min
<1>. QED BY <1>2

LEMMA RenewLeasePreserves ==
    ASSUME VouchersIInv, NEW l \in LeaseIds, NEW v \in Vaults, NEW n \in 1..MaxTerm, RenewLease(l, v, n)
    PROVE  VouchersIInv'
<1>. DEFINE until == Max({lease[l], day}) + n
<1>1. /\ lease[l] > 0 /\ owner[l] = v /\ until <= MaxTerm
      /\ lease' = [lease EXCEPT ![l] = until]
      /\ promised' = [promised EXCEPT ![l] = until] \/ UNCHANGED promised
      /\ UNCHANGED <<ledgerVars, owner, objects, putter, day, puts, payer, unsynced>>
  BY DEF RenewLease
<1>2. UNCHANGED <<voucherFaults, lapsed>> \/ VoucherFault BY DEF RenewLease
<1>3. VouchersTypeOK BY DEF VouchersIInv
<1>4. lease[l] \in Nat /\ day \in Nat /\ promised[l] \in Nat BY <1>3 DEF VouchersTypeOK
<1>5. until \in Nat /\ until >= lease[l]
  <2>1. Max({lease[l], day}) \in Nat /\ Max({lease[l], day}) >= lease[l] BY <1>4, LargerOfTwo
  <2>. QED BY <1>4, <2>1
<1>. HIDE DEF until
<1>6. until \in 0..MaxTerm BY <1>1, <1>5, VouchersAssumption
<1>7. lease' \in [LeaseIds -> 0..MaxTerm] BY <1>1, <1>3, <1>6 DEF VouchersTypeOK
<1>8. promised' \in [LeaseIds -> 0..MaxTerm] BY <1>1, <1>3, <1>6 DEF VouchersTypeOK
<1>9. voucherFaults' \in 0..VoucherFaults /\ lapsed' \in BOOLEAN /\ (~lapsed' => ~lapsed)
  BY <1>2, <1>3, FaultTypes
<1>10. VouchersTypeOK' BY <1>1, <1>3, <1>7, <1>8, <1>9 DEF VouchersTypeOK, ledgerVars
<1>11. LeasesKept'
  <2>. SUFFICES ASSUME NEW k \in LeaseIds, promised'[k] > 0
                PROVE  lease'[k] >= promised'[k] /\ owner'[k] # NoVault
    BY DEF LeasesKept
  <2>1. promised[k] > 0 => lease[k] >= promised[k] /\ owner[k] # NoVault BY DEF VouchersIInv, LeasesKept
  <2>2. v # NoVault BY VouchersAssumption
  <2>3. CASE k # l BY <1>1, <1>3, <2>1, <2>3 DEF VouchersTypeOK
  <2>4. CASE k = l
    <3>1. lease'[l] = until /\ promised'[l] \in {until, promised[l]} BY <1>1, <1>3 DEF VouchersTypeOK
    <3>2. promised[l] > 0 => until >= promised[l] BY <1>4, <1>5, <2>1, <2>4
    <3>. QED BY <1>1, <1>4, <1>5, <2>2, <2>4, <3>1, <3>2
  <2>. QED BY <2>3, <2>4
<1>. QED BY <1>1, <1>9, <1>10, <1>11, LedgerQuiet

LEMMA NextDayPreserves == ASSUME VouchersIInv, NextDay PROVE VouchersIInv'
<1>1. /\ day < MaxDay /\ day' = day + 1
      /\ UNCHANGED <<ledgerVars, leaseVars, objects, putter, puts, voucherFaults, payer, unsynced,
                     lapsed>>
  BY DEF NextDay
<1>2. VouchersTypeOK' BY <1>1, VouchersAssumption DEF VouchersIInv, VouchersTypeOK, ledgerVars, leaseVars
<1>3. LeasesKept' BY <1>1 DEF VouchersIInv, LeasesKept, leaseVars
<1>. QED BY <1>1, <1>2, <1>3, LedgerQuiet

\* What a charge puts into the ledger.
LEMMA ConsumedFacts ==
    ASSUME VouchersTypeOK, NEW g \in Grants, NEW b \in Nat
    PROVE  /\ Consumed(g, b) \in [Grants -> Nat] /\ Consumed(g, b)[g] = spent[g] + b
           /\ \A k \in Grants \ {g} : day <= k.expires => Consumed(g, b)[k] = spent[k]
           /\ Pruned = spent => \A k \in Grants \ {g} : Consumed(g, b)[k] = spent[k]
           /\ [total EXCEPT ![g.holder] = @ + b] \in [Holders -> Nat]
           /\ [total EXCEPT ![g.holder] = @ + b][g.holder] = total[g.holder] + b
           /\ \A h \in Holders \ {g.holder} : [total EXCEPT ![g.holder] = @ + b][h] = total[h]
<1>1. g.holder \in Holders BY VouchersAssumption
<1>2. spent \in [Grants -> Nat] /\ total \in [Holders -> Nat] BY DEF VouchersTypeOK
<1>3. /\ Pruned \in [Grants -> Nat]
      /\ \A k \in Grants : day <= k.expires => Pruned[k] = spent[k]
  BY PrunedFacts
<1>4. spent[g] + b \in Nat /\ total[g.holder] + b \in Nat BY <1>1, <1>2
<1>. QED BY <1>1, <1>2, <1>3, <1>4 DEF Consumed

LEMMA AuthorizePreserves ==
    ASSUME VouchersIInv, NEW p \in Putters, Authorize(p) PROVE VouchersIInv'
<1>. DEFINE put == putter[p]
            g == put.grant
            b == put.bytes
            next == [put EXCEPT !.pc = "write"]
<1>1. /\ put.pc = "authorize" /\ g # NoGrant
      /\ MayConsume(g, b)
      /\ spent' = Consumed(g, b) /\ total' = [total EXCEPT ![g.holder] = @ + b]
      /\ spentFile' = spent' /\ totalFile' = total'
      /\ putter' = [putter EXCEPT ![p] = next]
      /\ lapsed' = (lapsed \/ Pruned # spent)
      /\ UNCHANGED <<leaseVars, objects, day, puts, voucherFaults, payer, unsynced>>
  BY DEF Authorize, LedgerWritten
<1>2. VouchersTypeOK BY DEF VouchersIInv
<1>3. put \in Put \cup {NoPut} /\ lapsed \in BOOLEAN BY <1>2 DEF VouchersTypeOK
<1>4. put \in Put /\ b \in Nat /\ g \in Grants BY <1>1, <1>3, PutShape DEF Presented
<1>5. /\ next \in Put /\ next.pc = "write" /\ next.grant = g /\ next.bytes = b
      /\ next.object = put.object
  BY <1>4 DEF Put
<1>6. PutOK(put, objects) /\ put # NoPut BY <1>4 DEF VouchersIInv, PutInv, PutOK, Put, NoPut
<1>7. PutOK(next, objects) BY <1>5, <1>6 DEF PutOK
<1>8. /\ day <= g.expires /\ spent[g] + b <= g.quota
      /\ UserQuota > 0 => total[g.holder] + b <= UserQuota
  BY <1>1 DEF MayConsume
<1>9. /\ spent' \in [Grants -> Nat] /\ spent'[g] = spent[g] + b
      /\ \A k \in Grants \ {g} : day <= k.expires => spent'[k] = spent[k]
      /\ Pruned = spent => \A k \in Grants \ {g} : spent'[k] = spent[k]
      /\ total' \in [Holders -> Nat] /\ total'[g.holder] = total[g.holder] + b
      /\ \A h \in Holders \ {g.holder} : total'[h] = total[h]
  BY <1>1, <1>2, <1>4, ConsumedFacts
<1>10. lapsed' \in BOOLEAN /\ (~lapsed' => ~lapsed /\ Pruned = spent) BY <1>1, <1>3
<1>11. \A G : Share(put, G) = 0 /\ Share(next, G) = IF g \in G THEN b ELSE 0 BY <1>1, <1>5 DEF Share
<1>12. next \in Put \cup {NoPut} BY <1>5
<1>. HIDE DEF next, g, b, put
<1>13. PutInv' /\ putter' \in [Putters -> Put \cup {NoPut}] BY <1>1, <1>7, <1>12, PutStep
<1>14. VouchersTypeOK' BY <1>1, <1>2, <1>9, <1>10, <1>13 DEF VouchersTypeOK, leaseVars
<1>15. ASSUME NEW G \in SUBSET Grants
       PROVE  Due(G) \in Nat /\ Due(G)' = Due(G) + IF g \in G THEN b ELSE 0
  <2>1. Due(G) \in Nat /\ StoredUnder(G) \in Nat BY <1>2, DueNat
  <2>2. StoredUnder(G)' = StoredUnder(G) BY <1>1 DEF StoredUnder
  <2>3. StoredUnder(G)' = StoredUnder(G) + 0 BY <2>1, <2>2
  <2>4. Due(G)' = Due(G) + 0 - Share(putter[p], G) + Share(next, G)
    BY <1>1, <1>2, <1>12, <2>3, DueMoves
  <2>. QED BY <1>4, <1>11, <2>1, <2>4 DEF put
<1>16. ASSUME NEW k \in Grants
       PROVE  /\ Due({k})' <= k.quota
              /\ day' <= k.expires => spent'[k] >= Due({k})' /\ spentFile'[k] >= Due({k})'
              /\ ~lapsed' => spent'[k] = Due({k})'
  <2>1. /\ Due({k}) <= k.quota
        /\ day <= k.expires => spent[k] >= Due({k})
        /\ ~lapsed => spent[k] = Due({k})
    BY DEF VouchersIInv, ChargeInv
  <2>2. k.quota \in Nat /\ spent[k] \in Nat BY <1>2, VouchersAssumption DEF VouchersTypeOK
  <2>3. Due({k}) \in Nat /\ Due({k})' = Due({k}) + IF g \in {k} THEN b ELSE 0 BY <1>15
  <2>4. CASE k = g
    <3>1. Due({k})' = Due({k}) + b BY <2>3, <2>4
    <3>. QED BY <1>1, <1>4, <1>8, <1>9, <1>10, <2>1, <2>2, <2>3, <2>4, <3>1
  <2>5. CASE k # g
    <3>1. Due({k})' = Due({k}) BY <2>3, <2>5
    <3>. QED BY <1>1, <1>9, <1>10, <2>1, <2>5, <3>1
  <2>. QED BY <2>4, <2>5
<1>17. ASSUME NEW h \in Holders
       PROVE  /\ total'[h] >= Due(OfHolder(h))' /\ totalFile'[h] >= Due(OfHolder(h))'
              /\ UserQuota > 0 => Due(OfHolder(h))' <= UserQuota
  <2>1. /\ total[h] >= Due(OfHolder(h))
        /\ UserQuota > 0 => Due(OfHolder(h)) <= UserQuota
    BY DEF VouchersIInv, TotalInv
  <2>2. total[h] \in Nat /\ UserQuota \in Nat BY <1>2, VouchersAssumption DEF VouchersTypeOK
  <2>3. /\ Due(OfHolder(h)) \in Nat
        /\ Due(OfHolder(h))' = Due(OfHolder(h)) + IF g \in OfHolder(h) THEN b ELSE 0
    <3>. DEFINE G == OfHolder(h)
    <3>1. G \in SUBSET Grants BY OfHolderGrants
    <3>2. Due(G) \in Nat /\ Due(OfHolder(h))' = Due(G) + IF g \in G THEN b ELSE 0
      BY <1>15, <3>1 DEF OfHolder
    <3>. QED BY <3>2
  <2>4. g \in OfHolder(h) <=> h = g.holder BY <1>4 DEF OfHolder
  <2>5. CASE h = g.holder
    <3>1. Due(OfHolder(h))' = Due(OfHolder(h)) + b BY <2>3, <2>4, <2>5
    <3>. QED BY <1>1, <1>4, <1>8, <1>9, <2>1, <2>2, <2>3, <2>5, <3>1
  <2>6. CASE h # g.holder
    <3>1. Due(OfHolder(h))' = Due(OfHolder(h)) BY <2>3, <2>4, <2>6
    <3>. QED BY <1>1, <1>9, <2>1, <2>6, <3>1
  <2>. QED BY <2>5, <2>6
<1>18. LeasesKept' /\ PayerInv' BY <1>1 DEF VouchersIInv, LeasesKept, PayerInv, leaseVars
<1>19. ChargeInv' /\ TotalInv' BY <1>16, <1>17 DEF ChargeInv, TotalInv
<1>. QED BY <1>13, <1>14, <1>18, <1>19 DEF VouchersIInv

LEMMA AuthorizeFailsPreserves ==
    ASSUME VouchersIInv, NEW p \in Putters, AuthorizeFails(p) PROVE VouchersIInv'
<1>. DEFINE put == putter[p]
            g == put.grant
            b == put.bytes
            s == Consumed(g, b)
            t == [total EXCEPT ![g.holder] = @ + b]
<1>1. /\ put.pc = "authorize" /\ g # NoGrant /\ MayConsume(g, b)
      /\ VoucherFault /\ spentFile' \in {spentFile, s} /\ totalFile' \in {totalFile, t}
      /\ spent' = [s EXCEPT ![g] = @ - b] /\ total' = total
      /\ putter' = [putter EXCEPT ![p] = NoPut]
      /\ UNCHANGED <<leaseVars, objects, day, puts, payer, unsynced>>
  BY DEF AuthorizeFails, LedgerWriteFails, LedgerWritten
<1>2. VouchersTypeOK BY DEF VouchersIInv
<1>3. put \in Put \cup {NoPut} BY <1>2 DEF VouchersTypeOK
<1>4. put \in Put /\ b \in Nat /\ g \in Grants BY <1>1, <1>3, PutShape DEF Presented
<1>6. \A G : Share(put, G) = 0 BY <1>1 DEF Share
<1>. HIDE DEF g, b, put
<1>5. /\ s \in [Grants -> Nat] /\ s[g] = spent[g] + b
      /\ \A k \in Grants \ {g} : day <= k.expires => s[k] = spent[k]
      /\ t \in [Holders -> Nat] /\ t[g.holder] = total[g.holder] + b
      /\ \A h \in Holders \ {g.holder} : t[h] = total[h]
  BY <1>2, <1>4, ConsumedFacts
<1>. HIDE DEF s, t
<1>7. /\ spent \in [Grants -> Nat] /\ total \in [Holders -> Nat]
      /\ spentFile \in [Grants -> Nat] /\ totalFile \in [Holders -> Nat]
  BY <1>2 DEF VouchersTypeOK
<1>8. /\ spent' \in [Grants -> Nat] /\ spent'[g] = spent[g]
      /\ \A k \in Grants \ {g} : spent'[k] = s[k]
  <2>1. s[g] - b = spent[g] /\ spent[g] \in Nat BY <1>4, <1>5, <1>7
  <2>2. spent' = [s EXCEPT ![g] = spent[g]] BY <1>1, <2>1
  <2>. QED BY <1>4, <1>5, <2>1, <2>2
<1>9. voucherFaults' \in 0..VoucherFaults /\ lapsed' \in BOOLEAN BY <1>1, <1>2, FaultTypes
<1>10. PutInv' /\ putter' \in [Putters -> Put \cup {NoPut}] BY <1>1, NoPutOK, PutStep
<1>11. VouchersTypeOK' BY <1>1, <1>2, <1>5, <1>7, <1>8, <1>9, <1>10 DEF VouchersTypeOK, leaseVars
<1>12. ASSUME NEW G \in SUBSET Grants PROVE Due(G)' = Due(G)
  <2>1. StoredUnder(G)' = StoredUnder(G) BY <1>1 DEF StoredUnder
  <2>2. Share(NoPut, G) = Share(putter[p], G) BY <1>6, NoPutOK DEF put
  <2>. QED BY <1>1, <1>2, <2>1, <2>2, NoPutOK, DueKept
<1>13. ASSUME NEW k \in Grants, day <= k.expires
       PROVE  spent'[k] = spent[k] /\ (spentFile'[k] = spentFile[k] \/ spentFile'[k] >= spent[k])
  <2>1. spent'[k] = spent[k] BY <1>5, <1>8, <1>13
  <2>2. s[k] >= spent[k] BY <1>4, <1>5, <1>7, <1>13
  <2>. QED BY <1>1, <2>1, <2>2
<1>14. \A h \in Holders : t[h] >= total[h] BY <1>4, <1>5, <1>7
<1>15. lapsed' = TRUE BY <1>1 DEF VoucherFault
<1>16. ChargeInv' /\ TotalInv' BY <1>1, <1>11, <1>12, <1>13, <1>14, <1>15, ChargesSame DEF DueSame
<1>17. LeasesKept' /\ PayerInv' BY <1>1 DEF VouchersIInv, LeasesKept, PayerInv, leaseVars
<1>. QED BY <1>10, <1>11, <1>16, <1>17 DEF VouchersIInv

\* What giving back takes out of the ledger.
LEMMA ReleasedFacts ==
    ASSUME VouchersTypeOK, NEW g \in Grants, NEW b \in Nat, NEW back, back = Min({b, spent[g]})
    PROVE  /\ back \in Nat /\ back <= b /\ back <= spent[g] /\ back \in {b, spent[g]}
           /\ Released(g, b).spent \in [Grants -> Nat] /\ Released(g, b).spent[g] = spent[g] - back
           /\ \A k \in Grants \ {g} : Released(g, b).spent[k] = spent[k]
           /\ Released(g, b).total \in [Holders -> Nat]
           /\ total[g.holder] > back => Released(g, b).total[g.holder] = total[g.holder] - back
           /\ ~(total[g.holder] > back) => Released(g, b).total[g.holder] = 0
           /\ \A h \in Holders \ {g.holder} : Released(g, b).total[h] = total[h]
<1>1. g.holder \in Holders BY VouchersAssumption
<1>2. spent \in [Grants -> Nat] /\ total \in [Holders -> Nat] BY DEF VouchersTypeOK
<1>3. back \in Nat /\ back <= b /\ back <= spent[g] /\ back \in {b, spent[g]} BY <1>2, SmallerOfTwo
<1>4. /\ Released(g, b).spent = [spent EXCEPT ![g] = spent[g] - back]
      /\ Released(g, b).total = [total EXCEPT ![g.holder] = IF total[g.holder] > back
                                                            THEN total[g.holder] - back ELSE 0]
  BY DEF Released
<1>5. spent[g] - back \in Nat BY <1>2, <1>3
<1>6. (IF total[g.holder] > back THEN total[g.holder] - back ELSE 0) \in Nat BY <1>1, <1>2, <1>3
<1>. QED BY <1>1, <1>2, <1>3, <1>4, <1>5, <1>6

LEMMA ReleaseWritePreserves ==
    ASSUME VouchersIInv, NEW p \in Putters, ReleaseWrite(p) PROVE VouchersIInv'
<1>. DEFINE put == putter[p]
            g == put.grant
            b == put.bytes
            back == Min({b, spent[g]})
<1>1. /\ put.pc = "release"
      /\ spent' = Released(g, b).spent /\ total' = Released(g, b).total
      /\ putter' = [putter EXCEPT ![p] = NoPut]
      /\ spentFile' \in {spentFile, spent'} /\ totalFile' \in {totalFile, total'}
      /\ UNCHANGED <<voucherFaults, lapsed>> \/ VoucherFault
      /\ UNCHANGED <<leaseVars, objects, day, puts, payer, unsynced>>
  BY DEF ReleaseWrite, LedgerWriteFails, LedgerWritten
<1>2. VouchersTypeOK BY DEF VouchersIInv
<1>3. put \in Put \cup {NoPut} BY <1>2 DEF VouchersTypeOK
<1>4. put \in Put /\ b \in Nat /\ g \in Presented BY <1>1, <1>3, PutShape
<1>5. g \in Grants BY <1>1, <1>4 DEF VouchersIInv, PutInv, Presented
<1>6. \A G : Share(put, G) = IF g \in G THEN b ELSE 0 BY <1>1 DEF Share
<1>. HIDE DEF g, b, put
<1>7. /\ back \in Nat /\ back <= b /\ back <= spent[g] /\ back \in {b, spent[g]}
      /\ spent' \in [Grants -> Nat] /\ spent'[g] = spent[g] - back
      /\ \A k \in Grants \ {g} : spent'[k] = spent[k]
      /\ total' \in [Holders -> Nat]
      /\ total[g.holder] > back => total'[g.holder] = total[g.holder] - back
      /\ ~(total[g.holder] > back) => total'[g.holder] = 0
      /\ \A h \in Holders \ {g.holder} : total'[h] = total[h]
  BY <1>1, <1>2, <1>4, <1>5, ReleasedFacts
<1>. HIDE DEF back
<1>8. voucherFaults' \in 0..VoucherFaults /\ lapsed' \in BOOLEAN /\ (~lapsed' => ~lapsed)
  BY <1>1, <1>2, FaultTypes
<1>9. PutInv' /\ putter' \in [Putters -> Put \cup {NoPut}] BY <1>1, NoPutOK, PutStep
<1>10. VouchersTypeOK' BY <1>1, <1>2, <1>7, <1>8, <1>9 DEF VouchersTypeOK, leaseVars
<1>11. ASSUME NEW G \in SUBSET Grants
       PROVE  /\ Due(G) \in Nat /\ Due(G)' = Due(G) - IF g \in G THEN b ELSE 0
              /\ g \in G => Due(G) >= b
  <2>1. Due(G) \in Nat /\ StoredUnder(G) \in Nat BY <1>2, DueNat
  <2>2. StoredUnder(G)' = StoredUnder(G) BY <1>1 DEF StoredUnder
  <2>3. StoredUnder(G)' = StoredUnder(G) + 0 BY <2>1, <2>2
  <2>4. /\ Due(G)' = Due(G) + 0 - Share(putter[p], G) + Share(NoPut, G)
        /\ Due(G) >= Share(putter[p], G)
    BY <1>1, <1>2, <2>3, NoPutOK, DueMoves
  <2>5. Share(putter[p], G) = (IF g \in G THEN b ELSE 0) /\ Share(NoPut, G) = 0
    BY <1>6, NoPutOK DEF put
  <2>. QED BY <1>4, <2>1, <2>4, <2>5
<1>12. ASSUME NEW k \in Grants
       PROVE  /\ Due({k})' <= k.quota
              /\ day' <= k.expires => spent'[k] >= Due({k})' /\ spentFile'[k] >= Due({k})'
              /\ ~lapsed' => spent'[k] = Due({k})'
  <2>1. /\ Due({k}) <= k.quota
        /\ day <= k.expires => spent[k] >= Due({k}) /\ spentFile[k] >= Due({k})
        /\ ~lapsed => spent[k] = Due({k})
    BY DEF VouchersIInv, ChargeInv
  <2>2. k.quota \in Nat /\ spent[k] \in Nat /\ spentFile[k] \in Nat
    BY <1>2, VouchersAssumption DEF VouchersTypeOK
  <2>3. /\ Due({k}) \in Nat /\ Due({k})' = Due({k}) - IF g \in {k} THEN b ELSE 0
        /\ g \in {k} => Due({k}) >= b
    BY <1>11
  <2>4. CASE k = g
    <3>1. Due({k})' = Due({k}) - b /\ Due({k}) >= b BY <2>3, <2>4
    <3>2. spent[k] >= Due({k}) => back = b BY <1>4, <1>7, <2>2, <2>3, <2>4, <3>1
    <3>3. spent[k] >= Due({k}) => spent'[k] = spent[k] - b BY <1>7, <2>4, <3>2
    <3>4. day <= k.expires => spent'[k] >= Due({k})' BY <1>4, <2>1, <2>2, <2>3, <3>1, <3>3
    <3>5. day <= k.expires => spentFile[k] >= Due({k})' BY <1>4, <2>1, <2>2, <2>3, <3>1
    <3>6. ~lapsed => spent'[k] = Due({k})' BY <1>4, <2>1, <2>2, <2>3, <3>1, <3>3
    <3>7. Due({k})' <= k.quota BY <1>4, <2>1, <2>2, <2>3, <3>1
    <3>8. spentFile'[k] = spentFile[k] \/ spentFile'[k] = spent'[k] BY <1>1
    <3>. QED BY <1>1, <1>8, <3>4, <3>5, <3>6, <3>7, <3>8
  <2>5. CASE k # g
    <3>1. Due({k})' = Due({k}) BY <2>3, <2>5
    <3>2. spentFile'[k] = spentFile[k] \/ spentFile'[k] = spent'[k] BY <1>1
    <3>. QED BY <1>1, <1>7, <1>8, <2>1, <2>5, <3>1, <3>2
  <2>. QED BY <2>4, <2>5
<1>13. ASSUME NEW h \in Holders
       PROVE  /\ total'[h] >= Due(OfHolder(h))' /\ totalFile'[h] >= Due(OfHolder(h))'
              /\ UserQuota > 0 => Due(OfHolder(h))' <= UserQuota
  <2>1. /\ total[h] >= Due(OfHolder(h)) /\ totalFile[h] >= Due(OfHolder(h))
        /\ UserQuota > 0 => Due(OfHolder(h)) <= UserQuota
    BY DEF VouchersIInv, TotalInv
  <2>2. total[h] \in Nat /\ totalFile[h] \in Nat /\ UserQuota \in Nat
    BY <1>2, VouchersAssumption DEF VouchersTypeOK
  <2>3. /\ Due(OfHolder(h)) \in Nat
        /\ Due(OfHolder(h))' = Due(OfHolder(h)) - IF g \in OfHolder(h) THEN b ELSE 0
        /\ g \in OfHolder(h) => Due(OfHolder(h)) >= b
    <3>. DEFINE G == OfHolder(h)
    <3>1. G \in SUBSET Grants BY OfHolderGrants
    <3>2. /\ Due(G) \in Nat /\ Due(OfHolder(h))' = Due(G) - IF g \in G THEN b ELSE 0
          /\ g \in G => Due(G) >= b
      BY <1>11, <3>1 DEF OfHolder
    <3>. QED BY <3>2
  <2>4. g \in OfHolder(h) <=> h = g.holder BY <1>5 DEF OfHolder
  <2>5. totalFile'[h] = totalFile[h] \/ totalFile'[h] = total'[h] BY <1>1
  <2>6. CASE h = g.holder
    <3>1. Due(OfHolder(h))' = Due(OfHolder(h)) - b /\ Due(OfHolder(h)) >= b BY <2>3, <2>4, <2>6
    <3>2. total'[h] >= Due(OfHolder(h))'
      <4>1. CASE total[h] > back BY <1>4, <1>7, <2>1, <2>2, <2>3, <2>6, <3>1, <4>1
      <4>2. CASE ~(total[h] > back)
        <5>1. Due(OfHolder(h))' = 0 BY <1>4, <1>7, <2>1, <2>2, <2>3, <3>1, <4>2
        <5>. QED BY <1>7, <2>6, <4>2, <5>1
      <4>. QED BY <4>1, <4>2
    <3>3. totalFile[h] >= Due(OfHolder(h))' BY <1>4, <2>1, <2>2, <2>3, <3>1
    <3>4. UserQuota > 0 => Due(OfHolder(h))' <= UserQuota BY <1>4, <2>1, <2>2, <2>3, <3>1
    <3>. QED BY <2>5, <3>2, <3>3, <3>4
  <2>7. CASE h # g.holder
    <3>1. Due(OfHolder(h))' = Due(OfHolder(h)) BY <2>3, <2>4, <2>7
    <3>. QED BY <1>7, <2>1, <2>5, <2>7, <3>1
  <2>. QED BY <2>6, <2>7
<1>14. LeasesKept' /\ PayerInv' BY <1>1 DEF VouchersIInv, LeasesKept, PayerInv, leaseVars
<1>15. ChargeInv' /\ TotalInv' BY <1>12, <1>13 DEF ChargeInv, TotalInv
<1>. QED BY <1>9, <1>10, <1>14, <1>15 DEF VouchersIInv

LEMMA VouchersCrashPreserves == ASSUME VouchersIInv, VouchersCrash PROVE VouchersIInv'
<1>1. /\ VoucherFault /\ spent' = spentFile /\ total' = [h \in Holders |-> LoadedTotal(h)]
      /\ putter' = [p \in Putters |-> NoPut]
      /\ UNCHANGED <<spentFile, totalFile, leaseVars, objects, day, puts, payer, unsynced>>
  BY DEF VouchersCrash
<1>2. VouchersTypeOK BY DEF VouchersIInv
<1>3. spentFile \in [Grants -> Nat] /\ totalFile \in [Holders -> Nat] BY <1>2 DEF VouchersTypeOK
<1>4. ASSUME NEW h \in Holders PROVE LoadedTotal(h) \in Nat /\ LoadedTotal(h) >= totalFile[h]
  <2>. DEFINE G == {g \in Grants : g.holder = h}
  <2>1. IsFiniteSet(G) BY FS_Subset, VouchersAssumption
  <2>2. Bytes(spentFile, G) \in Nat BY <1>3, <2>1, RowsFinite
  <2>3. totalFile[h] \in Nat BY <1>3
  <2>. HIDE DEF G
  <2>4. /\ Max({totalFile[h], Bytes(spentFile, G)}) \in {totalFile[h], Bytes(spentFile, G)}
        /\ Max({totalFile[h], Bytes(spentFile, G)}) >= totalFile[h]
    BY <2>2, <2>3, LargerOfTwo
  <2>5. LoadedTotal(h) = Max({totalFile[h], Bytes(spentFile, G)}) BY DEF LoadedTotal, G
  <2>. QED BY <2>2, <2>3, <2>4, <2>5
<1>5. total' \in [Holders -> Nat] /\ \A h \in Holders : total'[h] >= totalFile[h] BY <1>1, <1>4
<1>6. voucherFaults' \in 0..VoucherFaults /\ lapsed' \in BOOLEAN /\ lapsed'
  BY <1>1, <1>2, FaultTypes DEF VoucherFault
<1>7. putter' \in [Putters -> Put \cup {NoPut}] /\ PutInv' BY <1>1, NoPutOK DEF PutInv, PutOK
<1>8. VouchersTypeOK' BY <1>1, <1>2, <1>3, <1>5, <1>6, <1>7 DEF VouchersTypeOK, leaseVars
<1>9. ASSUME NEW G \in SUBSET Grants PROVE Due(G) \in Nat /\ Due(G)' \in Nat /\ Due(G)' <= Due(G)
  <2>1. Due(G) \in Nat /\ StoredUnder(G) \in Nat /\ HeldUnder(putter, G) \in Nat BY <1>2, DueNat
  <2>2. StoredUnder(G)' = StoredUnder(G) BY <1>1 DEF StoredUnder
  <2>3. Holding(putter', G) = {} BY <1>1 DEF Holding, NoPut
  <2>4. HeldUnder(putter', G) = 0 BY <2>3, BytesNone DEF HeldUnder
  <2>5. Due(G)' = StoredUnder(G)' + HeldUnder(putter', G) BY DEF Due
  <2>6. Due(G) = StoredUnder(G) + HeldUnder(putter, G) BY DEF Due
  <2>. QED BY <2>1, <2>2, <2>4, <2>5, <2>6
<1>10. ASSUME NEW k \in Grants
       PROVE  /\ Due({k})' <= k.quota
              /\ day' <= k.expires => spent'[k] >= Due({k})' /\ spentFile'[k] >= Due({k})'
              /\ ~lapsed' => spent'[k] = Due({k})'
  <2>1. /\ Due({k}) <= k.quota
        /\ day <= k.expires => spentFile[k] >= Due({k})
    BY DEF VouchersIInv, ChargeInv
  <2>2. k.quota \in Nat /\ spentFile[k] \in Nat BY <1>3, VouchersAssumption
  <2>3. Due({k}) \in Nat /\ Due({k})' \in Nat /\ Due({k})' <= Due({k}) BY <1>9
  <2>. QED BY <1>1, <1>6, <2>1, <2>2, <2>3
<1>11. ASSUME NEW h \in Holders
       PROVE  /\ total'[h] >= Due(OfHolder(h))' /\ totalFile'[h] >= Due(OfHolder(h))'
              /\ UserQuota > 0 => Due(OfHolder(h))' <= UserQuota
  <2>1. /\ totalFile[h] >= Due(OfHolder(h))
        /\ UserQuota > 0 => Due(OfHolder(h)) <= UserQuota
    BY DEF VouchersIInv, TotalInv
  <2>2. total'[h] \in Nat /\ totalFile[h] \in Nat /\ UserQuota \in Nat BY <1>3, <1>5, VouchersAssumption
  <2>3. /\ Due(OfHolder(h)) \in Nat /\ Due(OfHolder(h))' \in Nat
        /\ Due(OfHolder(h))' <= Due(OfHolder(h))
    <3>. DEFINE G == OfHolder(h)
    <3>1. G \in SUBSET Grants BY OfHolderGrants
    <3>2. Due(G) \in Nat /\ Due(OfHolder(h))' \in Nat /\ Due(OfHolder(h))' <= Due(G)
      BY <1>9, <3>1 DEF OfHolder
    <3>. QED BY <3>2
  <2>4. total'[h] >= totalFile[h] BY <1>5
  <2>. QED BY <1>1, <2>1, <2>2, <2>3, <2>4
<1>12. LeasesKept' /\ PayerInv' BY <1>1 DEF VouchersIInv, LeasesKept, PayerInv, leaseVars
<1>13. ChargeInv' /\ TotalInv' BY <1>10, <1>11 DEF ChargeInv, TotalInv
<1>. QED BY <1>7, <1>8, <1>12, <1>13 DEF VouchersIInv

LEMMA VouchersInitIInv == VouchersInit => VouchersIInv
<1>. SUFFICES ASSUME VouchersInit PROVE VouchersIInv OBVIOUS
<1>1. VouchersTypeOK
  <2>1. MaxTerm \in Nat /\ MaxDay \in Nat /\ MaxPuts \in Nat /\ VoucherFaults \in Nat
    BY VouchersAssumption
  <2>2. lapsed \in BOOLEAN BY DEF VouchersInit
  <2>3. /\ spent \in [Grants -> Nat] /\ spentFile \in [Grants -> Nat]
        /\ total \in [Holders -> Nat] /\ totalFile \in [Holders -> Nat]
    BY DEF VouchersInit
  <2>4. /\ lease \in [LeaseIds -> 0..MaxTerm] /\ promised \in [LeaseIds -> 0..MaxTerm]
        /\ owner \in [LeaseIds -> Vaults \cup {NoVault}]
    BY <2>1 DEF VouchersInit
  <2>5. /\ payer \in [Objects -> Presented] /\ objects \subseteq Objects /\ unsynced \subseteq objects
        /\ putter \in [Putters -> Put \cup {NoPut}]
    BY DEF VouchersInit, Presented
  <2>6. day \in 0..MaxDay /\ puts \in 0..MaxPuts /\ voucherFaults \in 0..VoucherFaults
    BY <2>1 DEF VouchersInit
  <2>. QED BY <2>2, <2>3, <2>4, <2>5, <2>6 DEF VouchersTypeOK
<1>2. PayerInv /\ LeasesKept BY DEF VouchersInit, PayerInv, LeasesKept
<1>3. PutInv BY NoPutOK DEF VouchersInit, PutInv, PutOK
<1>4. ASSUME NEW G PROVE Due(G) = 0
  <2>1. Holding(putter, G) = {} BY DEF VouchersInit, Holding, NoPut
  <2>2. {o \in objects \ unsynced : payer[o] \in G} = {} BY DEF VouchersInit
  <2>3. HeldUnder(putter, G) = 0 BY <2>1, BytesNone DEF HeldUnder
  <2>4. StoredUnder(G) = 0 BY <2>2, BytesNone DEF StoredUnder
  <2>. QED BY <2>3, <2>4 DEF Due
<1>5. ChargeInv BY <1>4, VouchersAssumption DEF VouchersInit, ChargeInv
<1>6. TotalInv BY <1>4, VouchersAssumption DEF VouchersInit, TotalInv
<1>. QED BY <1>1, <1>2, <1>3, <1>5, <1>6 DEF VouchersIInv

LEMMA VouchersNextPreserves ==
    ASSUME VouchersIInv, [VouchersNext]_vouchersVars PROVE VouchersIInv'
<1>1. CASE \E p \in Putters :
          \/ \E o \in Objects, g \in Presented : BeginPut(p, o, g)
          \/ Authorize(p) \/ AuthorizeFails(p) \/ Unauthorized(p)
          \/ WriteObject(p) \/ WriteObjectFails(p) \/ ReleaseWrite(p)
  BY <1>1, BeginPutPreserves, AuthorizePreserves, AuthorizeFailsPreserves, UnauthorizedPreserves,
     WriteObjectPreserves, WriteObjectFailsPreserves, ReleaseWritePreserves
<1>2. CASE \E o \in Objects : PutRepairObject(o) BY <1>2, PutRepairObjectPreserves
<1>3. CASE \E l \in LeaseIds, v \in Vaults, n \in 1..MaxTerm : CreateLease(l, v, n) \/ RenewLease(l, v, n)
  BY <1>3, CreateLeasePreserves, RenewLeasePreserves
<1>4. CASE VouchersCrash \/ NextDay BY <1>4, VouchersCrashPreserves, NextDayPreserves
<1>5. CASE UNCHANGED vouchersVars
  <2>1. VouchersTypeOK' BY <1>5 DEF vouchersVars, VouchersIInv, VouchersTypeOK
  <2>2. LeasesKept' BY <1>5 DEF vouchersVars, VouchersIInv, LeasesKept
  <2>. QED BY <1>5, <2>1, <2>2, LedgerQuiet DEF vouchersVars, ledgerVars
<1>. QED BY <1>1, <1>2, <1>3, <1>4, <1>5 DEF VouchersNext

LEMMA VouchersSafe == ASSUME VouchersIInv PROVE VouchersSound
<1>1. VouchersTypeOK BY DEF VouchersIInv
<1>2. \A G : /\ StoredUnder(G) \in Nat /\ HeldUnder(putter, G) \in Nat
             /\ Due(G) = StoredUnder(G) + HeldUnder(putter, G)
  BY <1>1, DueNat DEF Due
<1>3. ASSUME NEW g \in Grants PROVE StoredUnder({g}) <= g.quota
  <2>1. Due({g}) <= g.quota BY DEF VouchersIInv, ChargeInv
  <2>2. g.quota \in Nat BY VouchersAssumption
  <2>3. /\ StoredUnder({g}) \in Nat /\ HeldUnder(putter, {g}) \in Nat
        /\ Due({g}) = StoredUnder({g}) + HeldUnder(putter, {g})
    BY <1>2
  <2>. QED BY <2>1, <2>2, <2>3
<1>4. ASSUME UserQuota > 0, NEW h \in Holders
      PROVE  StoredUnder({g \in Grants : g.holder = h}) <= UserQuota
  <2>. DEFINE G == {g \in Grants : g.holder = h}
  <2>1. Due(G) <= UserQuota BY <1>4 DEF VouchersIInv, TotalInv, OfHolder
  <2>2. UserQuota \in Nat BY VouchersAssumption
  <2>. HIDE DEF G
  <2>3. StoredUnder(G) \in Nat /\ HeldUnder(putter, G) \in Nat /\ Due(G) = StoredUnder(G) + HeldUnder(putter, G)
    BY <1>2
  <2>4. StoredUnder(G) <= UserQuota BY <2>1, <2>2, <2>3
  <2>. QED BY <2>4 DEF G
<1>5. ASSUME ~lapsed, \A p \in Putters : putter[p] = NoPut, NEW g \in Grants
      PROVE  spent[g] = StoredUnder({g})
  <2>1. spent[g] = Due({g}) BY <1>5 DEF VouchersIInv, ChargeInv
  <2>2. Holding(putter, {g}) = {} BY <1>5 DEF Holding, NoPut
  <2>3. HeldUnder(putter, {g}) = 0 BY <2>2, BytesNone DEF HeldUnder
  <2>4. Due({g}) = StoredUnder({g}) + HeldUnder(putter, {g}) /\ StoredUnder({g}) \in Nat BY <1>2
  <2>. QED BY <2>1, <2>3, <2>4
<1>. QED BY <1>1, <1>3, <1>4, <1>5 DEF VouchersIInv, VouchersSound, QuotaRespected, ChargesExact

\* Object puts of an operator, for any requests, objects, sizes, vouchers, days and
\* faults: what is stored under a voucher stays within its quota and what is stored
\* under a holder within the holder's cap, a voucher is charged exactly what it stored
\* when nothing failed or expired, and no answered lease term is shortened.
THEOREM VouchersStayWithinQuota == VouchersSpec => []VouchersSound
<1>1. VouchersInit => VouchersIInv BY VouchersInitIInv
<1>2. VouchersIInv /\ [VouchersNext]_vouchersVars => VouchersIInv' BY VouchersNextPreserves
<1>3. VouchersIInv => VouchersSound BY VouchersSafe
<1>. QED BY <1>1, <1>2, <1>3, PTL DEF VouchersSpec
=============================================================================
