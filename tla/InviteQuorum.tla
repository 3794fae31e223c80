---------------------------- MODULE InviteQuorum ----------------------------
(***************************************************************************)
(* Join tickets: who may admit a node to the fleet (crates/storage         *)
(* invites.rs, the invite commands of apps/cli recover.rs, join_auth_config *)
(* of the operator).  A v1 ticket has one issuer's signature; a v2 ticket  *)
(* is made in three offline steps, request, approve and combine, whose     *)
(* files pass through untrusted hands: the joiner and the coordinator may  *)
(* put together any ticket out of the signatures they have seen.           *)
(***************************************************************************)
EXTENDS Naturals, FiniteSets, SequencesExt

CONSTANTS
    FleetHolders,        \* fleet keys
    TicketNodes,        \* node keys
    Nonces,         \* drawn at random: a nonce belongs to one request or issue
    TicketTtl,
    MaxPins,        \* length of CIPHERVAULT_FLEET_KEYS
    MaxInviteTime, MaxPinChanges

ASSUME InviteAssumption ==
    /\ TicketTtl \in Nat \ {0} /\ MaxPins \in Nat
    /\ MaxInviteTime \in Nat /\ MaxPinChanges \in Nat

VARIABLES
    signatures,     \* signatures that exist: signer, version and signed body
    combined,       \* the v2 ticket `invite combine` made last, in a set
    pins,           \* the operator's fleet keys (a list), its threshold and its mode
    welcomed,       \* the last join that was let through, in a set
    inviteClock, pinChanges
inviteVars == <<signatures, combined, pins, welcomed, inviteClock, pinChanges>>

Body == [node : TicketNodes, expires : Nat, nonce : Nonces]
Signature == [signer : FleetHolders, version : {1, 2}, body : Body]
NoIssuer == "none"
(* A ticket: v1 names its issuer, v2 carries a list of signatures.         *)
Issued(k, b) == [version |-> 1, body |-> b, issuer |-> k,
                 by |-> <<[signer |-> k, version |-> 1, body |-> b]>>]
Quorum2(b, sigs) == [version |-> 2, body |-> b, issuer |-> NoIssuer, by |-> sigs]

(* join_auth_config: FLEET_KEY alone is the legacy mode; with FLEET_KEYS   *)
(* the threshold is given, at most the length of the list, or its          *)
(* majority.  The list may name a key twice.                               *)
PinConfigs ==
    {[mode |-> "legacy", keys |-> <<h>>, k |-> 1] : h \in FleetHolders} \cup
    {c \in [mode : {"quorum"}, keys : SeqOf(FleetHolders, MaxPins), k : 1..MaxPins] :
        Len(c.keys) > 0 /\ c.k <= Len(c.keys)}

InviteInit ==
    /\ signatures = {} /\ combined = {} /\ welcomed = {}
    /\ pins \in PinConfigs
    /\ inviteClock = 0 /\ pinChanges = 0

Unused(n) == \A s \in signatures : s.body.nonce # n
NewBody(v, n) == [node |-> v, expires |-> inviteClock + TicketTtl, nonce |-> n]

-----------------------------------------------------------------------------
(* `invite issue`: one ticket per node key, each with its own nonce.       *)
IssueTicket(k) ==
    \E v \in TicketNodes, n \in Nonces :
        /\ Unused(n)
        /\ signatures' = signatures \cup {[signer |-> k, version |-> 1, body |-> NewBody(v, n)]}
        /\ UNCHANGED <<combined, pins, welcomed, inviteClock, pinChanges>>

(* `invite request` and `invite approve`: a holder signs a request it is   *)
(* shown, fresh or one another holder has signed, until it expires.        *)
ApproveRequest(k) ==
    \E b \in {NewBody(v, n) : v \in TicketNodes, n \in {n \in Nonces : Unused(n)}} \cup
             {s.body : s \in {s \in signatures : s.version = 2}} :
        /\ inviteClock <= b.expires
        /\ signatures' = signatures \cup {[signer |-> k, version |-> 2, body |-> b]}
        /\ UNCHANGED <<combined, pins, welcomed, inviteClock, pinChanges>>

(* issue_quorum: approvals of exactly this request, by distinct signers.   *)
Combinable(sigs) ==
    /\ Len(sigs) > 0
    /\ \A i, j \in 1..Len(sigs) : i # j => sigs[i].signer # sigs[j].signer
    /\ \A i \in 1..Len(sigs) : sigs[i].version = 2 /\ sigs[i].body = sigs[1].body
Combine ==
    \E set \in SUBSET {s \in signatures : s.version = 2} :
        LET sigs == SetToSeq(set) IN
        /\ Combinable(sigs) /\ inviteClock <= sigs[1].body.expires
        /\ combined' = {Quorum2(sigs[1].body, sigs)}
        /\ UNCHANGED <<signatures, pins, welcomed, inviteClock, pinChanges>>

(* What can be presented: v1 tickets, and v2 tickets over any list of the  *)
(* signatures seen, repeated or taken from other bodies and versions.      *)
PresentedTicket ==
    {Issued(s.signer, s.body) : s \in signatures} \cup
    {Quorum2(b, sigs) : b \in {s.body : s \in signatures}, sigs \in SeqOf(signatures, 2)}

-----------------------------------------------------------------------------
(* verify_quorum: every signature must be over this ticket's body, in its  *)
(* version, by a pinned key; distinct signers count.                       *)
Pinned == ToSet(pins.keys)
Signs(s, t) == s \in signatures /\ s.version = t.version /\ s.body = t.body
\* Mutant: every signature counts.
DistinctSignersAll(t) == 1..Len(t.by)

DistinctSigners(t) == {t.by[i].signer : i \in 1..Len(t.by)}
VerifyQuorum(t) ==
    /\ Len(t.by) > 0
    /\ \A i \in 1..Len(t.by) : t.by[i].signer \in Pinned /\ Signs(t.by[i], t)
    /\ Cardinality(DistinctSigners(t)) >= pins.k
    /\ inviteClock <= t.body.expires

(* verify, the legacy mode: a v1 ticket of the one pinned issuer.          *)
VerifyIssuer(t) ==
    /\ t.version = 1 /\ t.issuer = pins.keys[1] /\ Signs(t.by[1], t)
    /\ inviteClock <= t.body.expires
TicketVerifies(t) == IF pins.mode = "legacy" THEN VerifyIssuer(t) ELSE VerifyQuorum(t)

(* The join route checks the ticket; spending it is Membership's.          *)
JoinPresented ==
    \E t \in PresentedTicket \cup combined :
        /\ TicketVerifies(t)
        /\ welcomed' = {[ticket |-> t, pinned |-> Pinned, k |-> pins.k,
                          at |-> inviteClock]}
        /\ UNCHANGED <<signatures, combined, pins, inviteClock, pinChanges>>

(* The operator restarts with another configuration. *)
JoinAuthConfig ==
    /\ pinChanges < MaxPinChanges /\ pins' \in PinConfigs \ {pins}
    /\ pinChanges' = pinChanges + 1
    /\ UNCHANGED <<signatures, combined, welcomed, inviteClock>>

InviteTick ==
    /\ inviteClock < MaxInviteTime /\ inviteClock' = inviteClock + 1
    /\ UNCHANGED <<signatures, combined, pins, welcomed, pinChanges>>

InviteNext ==
    \/ InviteTick \/ JoinAuthConfig \/ Combine \/ JoinPresented
    \/ \E k \in FleetHolders : IssueTicket(k) \/ ApproveRequest(k)

InviteSpec == InviteInit /\ [][InviteNext]_inviteVars

-----------------------------------------------------------------------------
InviteTypeOK ==
    /\ signatures \subseteq [signer : FleetHolders, version : {1, 2}, body :
          [node : TicketNodes, expires : 0..(MaxInviteTime + TicketTtl), nonce : Nonces]]
    /\ ToSet(pins.keys) \subseteq FleetHolders /\ pins.k \in Nat \ {0}
    /\ inviteClock \in 0..MaxInviteTime

(* A join is let through only if as many pinned holders as the threshold   *)
(* have each signed that very node, expiry and nonce, before it expired:   *)
(* neither a repeated signature nor one over another body or in the other  *)
(* format counts.  And a ticket combined from enough pinned holders alone  *)
(* is accepted until it expires.                                           *)
QuorumReal ==
    /\ \A w \in welcomed :
          /\ \E hs \in SUBSET w.pinned :
                /\ Cardinality(hs) >= w.k
                /\ \A h \in hs : [signer |-> h, version |-> w.ticket.version,
                                  body |-> w.ticket.body] \in signatures
          /\ w.at <= w.ticket.body.expires
    /\ \A t \in combined :
          /\ pins.mode = "quorum" /\ Len(t.by) >= pins.k
          /\ \A i \in 1..Len(t.by) : t.by[i].signer \in Pinned
          /\ inviteClock <= t.body.expires
          => TicketVerifies(t)
=============================================================================
