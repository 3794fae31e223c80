--------------------------- MODULE AccountMembers ---------------------------
(***************************************************************************)
(* Delegated access to an account of the account service: invitations, the *)
(* memberships they turn into, their revocation, and the vaults an owner   *)
(* links (services/account/src/memberships.rs, vaults.rs, guards.rs).      *)
(* Every handler holds the one database connection from authentication to  *)
(* its last statement, so each is one step; what interleaves is who sends  *)
(* them, with which role, and how long an invitation has been lying about. *)
(***************************************************************************)
EXTENDS Naturals

CONSTANTS Owner,            \* the account the memberships belong to
          Invitees,         \* the other accounts
          Invitations,      \* identifiers of invitations
          Vaults, Locators, \* vaults that are linked and locators of key backups
          InvitationTtl,    \* expires_in_seconds, in units of time
          MaxMemberSteps    \* bound on the requests of a behaviour

\* The locator of a link without a key backup.
NoLocator == "none"

ASSUME MembersAssumption ==
  Owner \notin Invitees /\ NoLocator \notin Locators /\ InvitationTtl \in Nat \ {0}
  /\ MaxMemberSteps \in Nat

VARIABLES
  members,      \* memberships of Owner: member -> row, absent while never accepted
  invitations,  \* invitation -> row
  strong,       \* accounts whose session has proved a second factor recently
  links,        \* vault_links of Owner
  memberSteps   \* requests so far

membersVars == <<members, invitations, strong, links, memberSteps>>

NoRow == [status |-> "absent"]
MemberRoles == {"owner", "admin", "editor", "viewer", "recovery"}

\* role_rank.
RoleRank(role) == CASE role = "owner"  -> 4 [] role = "admin"    -> 3
                    [] role = "editor" -> 2 [] role = "viewer"   -> 1
                    [] role = "recovery" -> 0 [] role = "none" -> 0

ActiveMembershipRoleRevoked(a) ==
  IF a = Owner THEN "owner"
  ELSE IF members[a].status /= "absent" THEN members[a].role ELSE "none"

\* The role with which an account acts on Owner's account; "none" if it is no
\* member. A revoked row keeps its role and does not count.
ActiveMembershipRole(a) ==
  IF a = Owner THEN "owner"
  ELSE IF members[a].status = "active" THEN members[a].role ELSE "none"

\* require_recent_account_role_with_db: session, policy and role are read under
\* the connection the mutation uses.
RequireRecentRole(a, minimum) ==
  /\ a \in strong
  /\ ActiveMembershipRole(a) /= "none"
  /\ RoleRank(ActiveMembershipRole(a)) >= RoleRank(minimum)

MembersInit ==
  /\ members = [a \in Invitees |-> NoRow]
  /\ invitations = [i \in Invitations |-> NoRow]
  /\ strong = {}
  /\ links = [v \in Vaults |-> NoRow]
  /\ memberSteps = 0

\* A session proves its factor again, or its proof grows old.
ProveFactor(a) ==
  /\ strong' = IF a \in strong THEN strong \ {a} ELSE strong \cup {a}
  /\ UNCHANGED <<members, invitations, links>>

MayGrantAdmin(actor, role) == role /= "owner"

\* Which roles an actor may hand out.
MayGrant(actor, role) ==
  role /= "owner" /\ (role = "admin" => ActiveMembershipRole(actor) = "owner")

PostInvitation(actor, i, invitee, role) ==
  /\ RequireRecentRole(actor, "admin")
  /\ MayGrant(actor, role)
  /\ invitations[i] = NoRow
  /\ invitations' = [invitations EXCEPT ![i] =
       [status |-> "open", invitee |-> invitee, role |-> role,
        by |-> ActiveMembershipRole(actor), left |-> InvitationTtl]]
  /\ UNCHANGED <<members, strong, links>>

AcceptableAgain(i) == invitations[i] /= NoRow /\ invitations[i].left > 0

\* Only an invitation that is still open is accepted.
Acceptable(i) == invitations[i].status = "open" /\ invitations[i].left > 0

\* The conditional update of the invitation and the upsert of the membership,
\* in one transaction.
PostInvitationAccept(a, i) ==
  /\ a \in strong
  /\ Acceptable(i)
  /\ invitations[i].invitee = a
  /\ invitations' = [invitations EXCEPT ![i].status = "accepted"]
  /\ members' = [members EXCEPT ![a] =
       [status |-> "active", role |-> invitations[i].role, via |-> i,
        spent |-> IF members[a] = NoRow THEN {} ELSE members[a].spent \cup {members[a].via}]]
  /\ UNCHANGED <<strong, links>>

\* An owner revokes anybody, an admin only members below itself.
MayRevokeMember(actor, member) ==
  /\ actor /= member
  /\ \/ ActiveMembershipRole(actor) = "owner"
     \/ RoleRank(members[member].role) < RoleRank(ActiveMembershipRole(actor))

PostMembershipRevoke(actor, member) ==
  /\ RequireRecentRole(actor, "admin")
  /\ members[member].status = "active"
  /\ MayRevokeMember(actor, member)
  /\ members' = [members EXCEPT ![member].status = "revoked"]
  /\ UNCHANGED <<invitations, strong, links>>

\* post_vault_link: a link sent without a locator keeps the one stored before.
PostVaultLink(actor, v, locator) ==
  /\ RequireRecentRole(actor, "owner")
  /\ links' = [links EXCEPT ![v] =
       [status |-> "linked",
        locator |-> IF locator = NoLocator /\ links[v] /= NoRow
                    THEN links[v].locator ELSE locator]]
  /\ UNCHANGED <<members, invitations, strong>>

InvitationsAge ==
  /\ \E i \in Invitations : invitations[i] /= NoRow /\ invitations[i].left > 0
  /\ invitations' = [i \in Invitations |->
       IF invitations[i] = NoRow \/ invitations[i].left = 0 THEN invitations[i]
       ELSE [invitations[i] EXCEPT !.left = @ - 1]]
  /\ UNCHANGED <<members, strong, links>>

MembersNext ==
  /\ memberSteps < MaxMemberSteps
  /\ memberSteps' = memberSteps + 1
  /\ \/ \E a \in Invitees \cup {Owner} : ProveFactor(a)
     \/ \E a \in Invitees \cup {Owner}, i \in Invitations, to \in Invitees, r \in MemberRoles :
          PostInvitation(a, i, to, r)
     \/ \E a \in Invitees, i \in Invitations : PostInvitationAccept(a, i)
     \/ \E a \in Invitees \cup {Owner}, m \in Invitees : PostMembershipRevoke(a, m)
     \/ \E a \in Invitees \cup {Owner}, v \in Vaults, l \in Locators \cup {NoLocator} :
          PostVaultLink(a, v, l)
     \/ InvitationsAge

MembersSpec == MembersInit /\ [][MembersNext]_membersVars

-----------------------------------------------------------------------------
\* Every row has the shape the schema gives it; a membership names the
\* invitation it came from.
Member ==
  [status : {"active", "revoked"}, role : MemberRoles \ {"owner"},
   via : Invitations, spent : SUBSET Invitations]
Invitation ==
  [status : {"open", "accepted"}, invitee : Invitees, role : MemberRoles \ {"owner"},
   by : {"owner", "admin"}, left : 0..InvitationTtl]
Link == [status : {"linked"}, locator : Locators \cup {NoLocator}]
MembersTypeOK ==
  /\ members \in [Invitees -> Member \cup {NoRow}]
  /\ invitations \in [Invitations -> Invitation \cup {NoRow}]
  /\ strong \subseteq Invitees \cup {Owner}
  /\ links \in [Vaults -> Link \cup {NoRow}]
  /\ memberSteps \in 0..MaxMemberSteps

\* Delegation never widens itself (post_invitation, post_invitation_accept): the
\* role an active member acts with is the one an invitation gave it, addressed
\* to it and used for this membership alone - a membership that was revoked does
\* not come back by the invitation it came from - and an administrator's
\* invitation was written by the owner.
RolesDelegated ==
  \A a \in Invitees : ActiveMembershipRole(a) /= "none" =>
    LET i == members[a].via IN
    /\ members[a].status = "active"
    /\ invitations[i].status = "accepted" /\ invitations[i].invitee = a
    /\ invitations[i].role = ActiveMembershipRole(a)
    /\ i \notin members[a].spent
    /\ invitations[i].role = "admin" => invitations[i].by = "owner"
=============================================================================
