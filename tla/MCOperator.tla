----------------------------- MODULE MCOperator -----------------------------
(***************************************************************************)
(* The operator's stores for TLC: recovery log, sessions, vouchers and     *)
(* leases, membership, recovery approvals, invite tickets and the          *)
(* heartbeat view.  They share no state, so a behaviour exercises one of   *)
(* them, the one its initial state focuses on, and the state space is the  *)
(* sum of theirs.                                                          *)
(***************************************************************************)
EXTENDS LogReader, Sessions, Vouchers, Membership, Approvals, InviteQuorum, Heartbeats, TLC

CONSTANTS A, B, devA, devB, head, o1, o2, holderA

VARIABLE focus

(* Two recovery authorities race for one locator; each certifies a device. *)
MCKey == {A, B, devA, devB}
Genesis(k) == [kind |-> "genesis", by |-> k, of |-> k]
Cert(k, x) == [kind |-> "cert", by |-> k, of |-> x]
HeadOf(x) == [kind |-> "item", by |-> x, of |-> head]
MCOffered == {Genesis(A), Genesis(B), Cert(A, devA), Cert(B, devB), HeadOf(devA), HeadOf(devB)}

MCIdentities == {[vault |-> "a", key |-> "k"]}

(* Two objects of different sizes; one voucher is still valid tomorrow. *)
MCSizeOf == (o1 :> 1) @@ (o2 :> 2)
MCGrants == {[holder |-> holderA, quota |-> 2, expires |-> 1], [holder |-> holderA, quota |-> 2, expires |-> 0]}

MCTickets == {[key |-> "k", expires |-> 2]}

(* Two challenges that use one id. *)
MCRequests == {[id |-> "i", details |-> "x", expires |-> 1], [id |-> "i", details |-> "y", expires |-> 2]}

MCInit ==
    /\ focus \in {"log", "sessions", "vouchers", "membership", "approvals", "invites", "heartbeats"}
    /\ Init /\ SessionsInit /\ VouchersInit /\ MembershipInit /\ ApprovalsInit
    /\ InviteInit /\ HeartbeatsInit
    /\ focus = "invites" \/ pins = CHOOSE c \in PinConfigs : TRUE

MCNext ==
    /\ UNCHANGED focus
    /\ \/ /\ focus = "log" /\ Next
          /\ UNCHANGED <<sessionsVars, vouchersVars, membershipVars, approvalsVars, inviteVars, heartbeatsVars>>
       \/ /\ focus = "sessions" /\ SessionsNext
          /\ UNCHANGED <<vars, vouchersVars, membershipVars, approvalsVars, inviteVars, heartbeatsVars>>
       \/ /\ focus = "vouchers" /\ VouchersNext
          /\ UNCHANGED <<vars, sessionsVars, membershipVars, approvalsVars, inviteVars, heartbeatsVars>>
       \/ /\ focus = "membership" /\ MembershipNext
          /\ UNCHANGED <<vars, sessionsVars, vouchersVars, approvalsVars, inviteVars, heartbeatsVars>>
       \/ /\ focus = "approvals" /\ ApprovalsNext
          /\ UNCHANGED <<vars, sessionsVars, vouchersVars, membershipVars, inviteVars, heartbeatsVars>>
       \/ /\ focus = "invites" /\ InviteNext
          /\ UNCHANGED <<vars, sessionsVars, vouchersVars, membershipVars, approvalsVars, heartbeatsVars>>
       \/ /\ focus = "heartbeats" /\ HeartbeatsNext
          /\ UNCHANGED <<vars, sessionsVars, vouchersVars, membershipVars, approvalsVars, inviteVars>>

(***************************************************************************)
(* Who is let in (JoinPresented, JoinPeer): only nodes that enough pinned   *)
(* holders signed for, and an admitted one keeps its record.                *)
(***************************************************************************)
AdmissionSound == InviteTypeOK /\ QuorumReal /\ MembershipTypeOK /\ AdmittedStay
=============================================================================
