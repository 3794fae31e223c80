---------------------------- MODULE RecoveryLog ----------------------------
(***************************************************************************)
(* The recovery log an operator keeps for one locator:                     *)
(* append_authorized_recovery_record_inner, scan_recovery_log and          *)
(* get_recovery_page of services/operator/src/state.rs.                    *)
(*                                                                         *)
(* A log is the sequence of its complete frames; torn says that an         *)
(* incomplete frame follows them.  A record is what authorization looks    *)
(* at: its kind, the key that signed it, and what it is about.  Heads,     *)
(* epoch envelopes and snapshot records follow one rule and are "item"s.   *)
(* The locator's stripe lock makes an append or a page read one step; the  *)
(* operator may crash, or its disk fail, inside an append.                 *)
(***************************************************************************)
EXTENDS Naturals, Sequences

CONSTANTS
    Server,         \* operators
    Key,            \* signing keys: recovery authorities and devices
    Item,           \* what heads, envelopes and snapshot records are about
    MaxRecords      \* MAX_RECORDS_PER_LOCATOR

ASSUME LogAssumption == MaxRecords \in Nat \ {0}

VARIABLES log, torn

Record == [kind : {"genesis", "cert", "item"}, by : Key, of : Key \cup Item]

LogInit == log = [s \in Server |-> << >>] /\ torn = [s \in Server |-> FALSE]

InLog(r, l) == \E n \in 1..Len(l) : l[n] = r

\* The recovery authorities registered by the genesis records among the first k
\* records of a log, and the devices the certificates among them authorize.
RegisteredUpTo(l, k) == {l[n].by : n \in {m \in 1..k : l[m].kind = "genesis"}}
DevicesUpTo(l, k) ==
    {l[n].of : n \in {m \in 1..k : l[m].kind = "cert" /\ l[m].by \in RegisteredUpTo(l, k)}}
Registered(l) == RegisteredUpTo(l, Len(l))
Devices(l) == DevicesUpTo(l, Len(l))

\* Mutant: a second authority may register.
AuthorizedAnyGenesis(l, r) ==
    CASE r.kind = "genesis" -> TRUE
      [] r.kind = "cert"    -> r.by \in Registered(l)
      [] r.kind = "item"    -> r.by \in Devices(l) \cup Registered(l)

\* Mutant: the certificate of a device is not looked for.
AuthorizedUncertified(l, r) ==
    CASE r.kind = "genesis" -> Registered(l) \subseteq {r.by}
      [] r.kind = "cert"    -> r.by \in Registered(l)
      [] r.kind = "item"    -> Registered(l) # {}

\* The signature rule: the first genesis registers the authority, which signs
\* the certificates; certified devices and the authority sign the rest.
Authorized(l, r) ==
    CASE r.kind = "genesis" -> Registered(l) \subseteq {r.by}
      [] r.kind = "cert"    -> r.by \in Registered(l)
      [] r.kind = "item"    -> r.by \in Devices(l) \cup Registered(l)

\* The caller's session key, once an authority is registered.
TrustedCaller(l, r, c) ==
    \/ Registered(l) = {}
    \/ c \in Registered(l) \cup Devices(l)
    \/ r.kind = "cert" /\ r.by \in Registered(l) /\ c = r.of

\* Mutant: the capacity check admits one record too many.
HasCapacityOffByOne(l) == Len(l) <= MaxRecords

HasCapacity(l) == Len(l) < MaxRecords

Accepts(l, r, c) == HasCapacity(l) /\ Authorized(l, r) /\ TrustedCaller(l, r, c)

\* Mutant: the new frame is written behind the incomplete one, which hides it.
WriteFrameBehindTail(s, r) ==
    IF torn[s] THEN UNCHANGED <<log, torn>>
    ELSE log' = [log EXCEPT ![s] = Append(@, r)] /\ UNCHANGED torn

\* The append of an accepted record discards the incomplete tail and returns
\* once the new frame is synced.
WriteFrame(s, r) ==
    /\ log' = [log EXCEPT ![s] = Append(@, r)]
    /\ torn' = [torn EXCEPT ![s] = FALSE]

\* An append that does not return Ok: the tail may have been discarded, and the
\* new frame may be absent, incomplete or complete.
WriteInterrupted(s, r) ==
    \/ UNCHANGED log /\ torn' \in {torn, [torn EXCEPT ![s] = FALSE], [torn EXCEPT ![s] = TRUE]}
    \/ WriteFrame(s, r)

\* get_recovery_page: the frames from cursor on, at most n of them, and whether
\* more follow.  A page that reaches an incomplete tail is an error.
PageFails(s, cursor, n) == torn[s] /\ cursor + n >= Len(log[s])
Page(s, cursor, n) ==
    SubSeq(log[s], cursor + 1, IF cursor + n < Len(log[s]) THEN cursor + n ELSE Len(log[s]))

LogTypeOK == log \in [Server -> Seq(Record)] /\ torn \in [Server -> BOOLEAN]

-----------------------------------------------------------------------------
(* Properties of every log *)

\* A reader authenticates each record with the records before it: certificates
\* follow the genesis of their authority, items follow the certificate of
\* their device.
SelfCertifying ==
    \A s \in Server : \A n \in 1..Len(log[s]) :
        LET l == log[s]
        IN  /\ l[n].kind = "cert" => l[n].by \in RegisteredUpTo(l, n - 1)
            /\ l[n].kind = "item" =>
                   l[n].by \in DevicesUpTo(l, n - 1) \cup RegisteredUpTo(l, n - 1)

\* Whoever registers first, a log never has two authorities.
OneAuthority == \A s \in Server : \A a, b \in Registered(log[s]) : a = b

\* scan_recovery_log refuses a log of more than MaxRecords records: append never
\* produces one, and an incomplete tail is never left behind a full log, where no
\* later append could discard it.
WithinCapacity ==
    \A s \in Server : Len(log[s]) <= MaxRecords /\ (torn[s] => Len(log[s]) < MaxRecords)
=============================================================================
