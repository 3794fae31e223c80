----------------------------- MODULE LogReader -----------------------------
(***************************************************************************)
(* One operator's recovery logs under arbitrary callers: any offered       *)
(* record may be appended by any caller, an append may be interrupted, and *)
(* a client fetches a log page by page (get_recovery_records of            *)
(* crates/storage/src/transport.rs) while others append.                   *)
(***************************************************************************)
EXTENDS RecoveryLog

CONSTANTS
    Offered,        \* records that callers try to append
    PageSize,       \* records that fit into one page
    MaxFaults       \* bound on interrupted appends

ASSUME ReaderAssumption ==
    Offered \subseteq Record /\ PageSize \in Nat \ {0} /\ MaxFaults \in Nat

VARIABLES
    acked,      \* the <<sequence number, record>> pairs append returned
    reading,    \* whether a client is fetching the log
    got,        \* what it has fetched; the cursor is behind its last record
    floor,      \* what was acknowledged when it began
    faults

vars == <<log, torn, acked, reading, got, floor, faults>>

Init ==
    /\ LogInit
    /\ acked = [s \in Server |-> {}]
    /\ reading = [s \in Server |-> FALSE]
    /\ got = [s \in Server |-> << >>]
    /\ floor = [s \in Server |-> {}]
    /\ faults = 0

\* append returns the sequence number of the new record.
AppendRecord(s, r, c) ==
    /\ Accepts(log[s], r, c)
    /\ WriteFrame(s, r)
    /\ acked' = [acked EXCEPT ![s] = @ \cup {<<Len(log[s]) + 1, r>>}]
    /\ UNCHANGED <<reading, got, floor, faults>>

AppendInterrupted(s, r, c) ==
    /\ Accepts(log[s], r, c) /\ faults < MaxFaults
    /\ WriteInterrupted(s, r)
    /\ faults' = faults + 1
    /\ UNCHANGED <<acked, reading, got, floor>>

BeginRead(s) ==
    /\ ~reading[s]
    /\ reading' = [reading EXCEPT ![s] = TRUE]
    /\ got' = [got EXCEPT ![s] = << >>]
    /\ floor' = [floor EXCEPT ![s] = acked[s]]
    /\ UNCHANGED <<log, torn, acked, faults>>

\* Mutant: the cursor counts records of the page, not of the log.
ReadPageRestarts(s) ==
    /\ reading[s] /\ ~PageFails(s, 0, PageSize)
    /\ got' = [got EXCEPT ![s] = @ \o Page(s, 0, PageSize)]
    /\ reading' = [reading EXCEPT ![s] = PageSize < Len(log[s])]
    /\ UNCHANGED <<log, torn, acked, floor, faults>>

\* The page behind the cursor; the read is over when no frame follows it.
ReadPage(s) ==
    /\ reading[s] /\ ~PageFails(s, Len(got[s]), PageSize)
    /\ got' = [got EXCEPT ![s] = @ \o Page(s, Len(got[s]), PageSize)]
    /\ reading' = [reading EXCEPT ![s] = Len(got[s]) + PageSize < Len(log[s])]
    /\ UNCHANGED <<log, torn, acked, floor, faults>>

\* The server answers with an error: the client has no records at all.
ReadFails(s) ==
    /\ reading[s] /\ PageFails(s, Len(got[s]), PageSize)
    /\ reading' = [reading EXCEPT ![s] = FALSE]
    /\ got' = [got EXCEPT ![s] = << >>]
    /\ floor' = [floor EXCEPT ![s] = {}]
    /\ UNCHANGED <<log, torn, acked, faults>>

Next ==
    \E s \in Server :
        \/ \E r \in Offered, c \in Key : AppendRecord(s, r, c) \/ AppendInterrupted(s, r, c)
        \/ BeginRead(s) \/ ReadPage(s) \/ ReadFails(s)

Spec == Init /\ [][Next]_vars

-----------------------------------------------------------------------------
(* Properties *)

TypeOK ==
    /\ LogTypeOK
    /\ acked \in [Server -> SUBSET (Nat \X Record)]
    /\ reading \in [Server -> BOOLEAN]
    /\ got \in [Server -> Seq(Record)]
    /\ floor \in [Server -> SUBSET (Nat \X Record)]
    /\ faults \in 0..MaxFaults

\* An acknowledged record keeps its sequence number for ever: no crash, failed
\* write or discarded tail takes it back, and none hides it from a scan.
AckedStays ==
    \A s \in Server : \A a \in acked[s] : a[1] \in 1..Len(log[s]) /\ log[s][a[1]] = a[2]

\* Pages fetched one by one are a prefix of the log although it grows between
\* them, and a finished read has everything acknowledged before it began.
ReadsConsistent ==
    \A s \in Server :
        /\ Len(got[s]) <= Len(log[s])
        /\ \A n \in 1..Len(got[s]) : got[s][n] = log[s][n]
        /\ ~reading[s] => \A a \in floor[s] : a[1] <= Len(got[s])

\* What a recovery log promises its readers: every record is authenticated by
\* earlier ones of one authority, the log never outgrows what a scan accepts, and
\* paged reads return a state of it.
LogSound == SelfCertifying /\ OneAuthority /\ WithinCapacity /\ ReadsConsistent
=============================================================================
