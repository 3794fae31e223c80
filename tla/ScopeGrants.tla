---------------------------- MODULE ScopeGrants -----------------------------
(***************************************************************************)
(* Who may act on one project (services/account): project roles, admin     *)
(* grants that two admins must make, invites, scope tokens with their      *)
(* denylist and key-bound proofs, and the policy every operation asks.  A  *)
(* request authenticates under one lock and acts under a later one; in     *)
(* between roles, sessions and tokens may change.  grants is the database, *)
(* opened the requests between the two locks.  The sessions tokens come    *)
(* from are those of AccountAuth, of which only their end and their change *)
(* of second factor matter here.                                           *)
(***************************************************************************)
EXTENDS Integers, FiniteSets

CONSTANTS
    Principals, Founders,   \* accounts; those made admin when the project was set up
    MaxScopeTime,           \* bound on the clock
    MaxScopeTokens,         \* bound on the tokens ever minted
    MaxInvites,             \* bound on pending invites
    MaxOpened,              \* bound on requests between their two locks
    MaxActs,                \* bound on the steps of a behaviour
    GrantTtl, InviteTtl,
    TokenTtl, DenyTtl,      \* the longest token; how long a denial is kept
    Elevation,              \* how long a session counts as recent
    ProofWindow, ProofRetention

ASSUME ScopeGrantsAssumption ==
    /\ Founders \subseteq Principals
    /\ {MaxScopeTime, MaxScopeTokens, MaxInvites, MaxOpened, MaxActs, Elevation} \subseteq Nat
    /\ {GrantTtl, InviteTtl, TokenTtl, ProofWindow} \subseteq Nat \ {0}
    /\ DenyTtl \in Nat /\ DenyTtl > TokenTtl
    /\ ProofRetention \in Nat /\ ProofRetention > ProofWindow

VARIABLES grants, opened, scopeTime, acts

grantVars == <<grants, opened, scopeTime, acts>>

Roles == {"admin", "developer", "auditor"}
Scopes == {"project", "dev", "prod"}    \* no environment, or one; prod is of tier 2
NoToken == [who |-> "none"]
NoProofSent == -1
ScopeTime == 0..MaxScopeTime
(* A token carries its session's MFA proof, here the factor's generation.  *)
ScopeToken == [who : Principals, factor : Nat, scope : Scopes, ends : Nat,
               elevated : Nat, bound : BOOLEAN]
Request == [who : Principals, token : 0..MaxScopeTokens, factor : Nat, scope : Scopes,
            human : BOOLEAN, strong : BOOLEAN]

Grants ==
    [roles : [Principals -> Roles \cup {"none"}],
     makers : [Principals -> SUBSET Principals],
     pending : SUBSET [for : Principals, by : Principals, ends : Nat],
     invites : SUBSET [role : Roles, by : Principals, ends : Nat],
     sessions : [Principals -> [live : BOOLEAN, at : ScopeTime, factor : Nat]],
     tokens : [1..MaxScopeTokens -> ScopeToken \cup {NoToken}],
     denied : SUBSET [token : 1..MaxScopeTokens, ends : Nat],
     proofs : SUBSET [token : 1..MaxScopeTokens, stamp : ScopeTime, ends : Nat],
     everDenied : SUBSET (1..MaxScopeTokens),
     shown : SUBSET ((1..MaxScopeTokens) \X ScopeTime)]

GrantsTypeOK ==
    /\ grants \in Grants
    /\ opened \subseteq Request /\ scopeTime \in ScopeTime /\ acts \in 0..MaxActs

GrantsInit ==
    /\ grants = [roles |-> [p \in Principals |-> IF p \in Founders THEN "admin" ELSE "none"],
                 makers |-> [p \in Principals |-> {}], pending |-> {}, invites |-> {},
                 sessions |-> [p \in Principals |-> [live |-> TRUE, at |-> 0, factor |-> 0]],
                 tokens |-> [t \in 1..MaxScopeTokens |-> NoToken], denied |-> {}, proofs |-> {},
                 everDenied |-> {}, shown |-> {}]
    /\ opened = {} /\ scopeTime = 0 /\ acts = 0

-----------------------------------------------------------------------------
(* Sessions and the clock (AccountAuth). *)
Logout(p) ==
    /\ grants.sessions[p].live /\ grants' = [grants EXCEPT !.sessions[p].live = FALSE]
    /\ UNCHANGED <<opened, scopeTime>>
ChangeFactor(p) ==
    /\ grants.sessions[p].factor = 0 /\ grants' = [grants EXCEPT !.sessions[p].factor = 1]
    /\ UNCHANGED <<opened, scopeTime>>
ScopeTick == scopeTime < MaxScopeTime /\ scopeTime' = scopeTime + 1 /\ UNCHANGED <<grants, opened>>

(* require_recent_strong_session. *)
Recent(p) == grants.sessions[p].live /\ scopeTime - grants.sessions[p].at <= Elevation

(* scope_origin_active: the session a token or request goes back to lives, *)
(* and its second factor is the one it was made with.                      *)
OriginActive(p, factor) == grants.sessions[p].live /\ grants.sessions[p].factor = factor

-----------------------------------------------------------------------------
(* post_scope_token: from a recent session of a member; a token ends with  *)
(* its term, and one for prod needs the elevation, which ends with the     *)
(* session's recency.                                                      *)
PostScopeToken(p, scope, elevated, bound) ==
    LET free == {t \in 1..MaxScopeTokens : grants.tokens[t] = NoToken}
        until == grants.sessions[p].at + Elevation
        ends == scopeTime + TokenTtl
        elevatedUntil == IF until < ends THEN until ELSE ends
    IN
    /\ Recent(p) /\ grants.roles[p] # "none"
    /\ elevated => scopeTime < until
    /\ scope = "prod" => elevated
    /\ free # {}
    /\ grants' = [grants EXCEPT !.tokens[CHOOSE t \in free : TRUE] =
            [who |-> p, factor |-> grants.sessions[p].factor, scope |-> scope, ends |-> ends,
             elevated |-> IF elevated THEN elevatedUntil ELSE 0, bound |-> bound]]
    /\ UNCHANGED <<opened, scopeTime>>

(* delete_scope_token, by any recent session; deny_scope_token.            *)
DeleteScopeToken(t) ==
    /\ grants.tokens[t] # NoToken /\ \E p \in Principals : Recent(p)
    /\ grants' = [grants EXCEPT
            !.denied = {d \in @ : d.token # t} \cup {[token |-> t, ends |-> scopeTime + DenyTtl]},
            !.everDenied = @ \cup {t}]
    /\ UNCHANGED <<opened, scopeTime>>

(* verify_scope_token, scope_token_denied and scope_origin_active. *)
TokenStands(t) ==
    /\ grants.tokens[t] # NoToken /\ scopeTime < grants.tokens[t].ends
    /\ ~ \E d \in grants.denied : d.token = t
    /\ OriginActive(grants.tokens[t].who, grants.tokens[t].factor)

(* prune_scope_denylist, which every token use runs. *)
Kept(denied) == {d \in denied : d.ends > scopeTime}

(* verify_dpop: a key-bound token needs a proof with a stamp near the      *)
(* clock that is not among those remembered.                               *)
Remembered(proofs) == {q \in proofs : q.ends > scopeTime}
ProofHolds(t, stamp) ==
    IF ~grants.tokens[t].bound THEN stamp = NoProofSent
    ELSE /\ stamp \in ScopeTime
         /\ scopeTime - stamp <= ProofWindow /\ stamp - scopeTime <= ProofWindow
         /\ ~ \E q \in Remembered(grants.proofs) : q.token = t /\ q.stamp = stamp

(* authenticate_token: the first lock of a token's request.                *)
AuthenticateToken(t, stamp) ==
    LET token == grants.tokens[t] IN
    /\ Cardinality(opened) < MaxOpened
    /\ TokenStands(t) /\ ProofHolds(t, stamp)
    /\ grants.roles[token.who] # "none"
    /\ grants' = [grants EXCEPT
            !.denied = Kept(@),
            !.proofs = IF token.bound
                       THEN Remembered(@) \cup {[token |-> t, stamp |-> stamp,
                                                 ends |-> stamp + ProofRetention]}
                       ELSE @,
            !.shown = IF token.bound THEN @ \cup {<<t, stamp>>} ELSE @]
    /\ opened' = opened \cup {[who |-> token.who, token |-> t, factor |-> token.factor,
                               scope |-> token.scope, human |-> FALSE,
                               strong |-> scopeTime < token.elevated]}
    /\ UNCHANGED scopeTime

(* authenticate_session: the first lock of a person's request.             *)
AuthenticateSession(p) ==
    /\ Cardinality(opened) < MaxOpened
    /\ grants.sessions[p].live /\ grants.roles[p] # "none"
    /\ opened' = opened \cup {[who |-> p, token |-> 0, factor |-> grants.sessions[p].factor,
                               scope |-> "project", human |-> TRUE, strong |-> Recent(p)]}
    /\ UNCHANGED <<grants, scopeTime>>

-----------------------------------------------------------------------------
(* role_allows, for the actions told apart here. *)
RoleAllows(role, action) ==
    CASE action = "readValue" -> role \in {"admin", "developer"}
      [] action = "viewAudit" -> role \in {"admin", "auditor"}
      [] action = "manageMembers" -> role = "admin"

\* Mutant: the session is looked at only on the way in.
AuthorizeByRole(r, action, scope) ==
    /\ ~r.human => r.scope = scope
    /\ r.human => r.strong
    /\ RoleAllows(grants.roles[r.who], action)
    /\ scope = "prod" => r.strong

(* authorize, asked again under the lock of the operation itself.          *)
Authorize(r, action, scope) ==
    /\ OriginActive(r.who, r.factor)
    /\ ~r.human => r.scope = scope
    /\ r.human => r.strong
    /\ RoleAllows(grants.roles[r.who], action)
    /\ scope = "prod" => r.strong

(* The operations of ScopedSecrets, and get_audit_export: the export needs *)
(* the token of a second principal who may view the audit.                 *)
Operate(r, scope) ==
    /\ scope # "project" /\ Authorize(r, "readValue", scope)
    /\ opened' = opened \ {r} /\ UNCHANGED <<grants, scopeTime>>
GetAuditExport(r, t) ==
    /\ Authorize(r, "viewAudit", "project")
    /\ TokenStands(t) /\ ~grants.tokens[t].bound
    /\ grants.tokens[t].who # r.who
    /\ RoleAllows(grants.roles[grants.tokens[t].who], "viewAudit")
    /\ opened' = opened \ {r} /\ grants' = [grants EXCEPT !.denied = Kept(@)]
    /\ UNCHANGED scopeTime

(* grant_project_role; made and makers record who made an admin.           *)
Granted(d, p, role, made) == [d EXCEPT !.roles[p] = role, !.makers[p] = made]

Managed(r, d) ==
    /\ Authorize(r, "manageMembers", "project")
    /\ grants' = d /\ opened' = opened \ {r} /\ UNCHANGED scopeTime

(* A decision is late from the second after the term on, a listing from    *)
(* its last second on.                                                     *)
Expired(q) == scopeTime > q.ends

(* request_admin_grant, which returns a pending request there already is,  *)
(* and post_project_member: an admin is only asked for.                    *)
RequestAdminGrant(r, p) ==
    IF \E q \in grants.pending : q.for = p /\ q.ends > scopeTime THEN grants
    ELSE [grants EXCEPT !.pending = @ \cup
             {[for |-> p, by |-> r.who, ends |-> scopeTime + GrantTtl]}]
PostProjectMember(r, p, role) ==
    Managed(r, IF role = "admin" THEN RequestAdminGrant(r, p) ELSE Granted(grants, p, role, {}))
DeleteProjectMember(r, p) ==
    /\ grants.roles[p] # "none" /\ Managed(r, Granted(grants, p, "none", {}))

\* Mutant: any admin may decide.
SelfApprovalAllowed(r, q) == FALSE

(* decide_grant_request: by an admin other than the one who asked.  The    *)
(* request is marked first and the role granted after it, each in its own  *)
(* transaction: a crash between the two leaves the request decided and the *)
(* role as it was.                                                         *)
SelfApproval(r, q) == r.who = q.by
DecideGrantRequest(r, q, approve, crash) ==
    LET decided == [grants EXCEPT !.pending = @ \ {q}] IN
    /\ q \in grants.pending
    /\ crash => approve
    /\ ~Expired(q) => ~SelfApproval(r, q)
    /\ Managed(r, IF Expired(q) \/ ~approve \/ crash THEN decided
                  ELSE Granted(decided, q.for, "admin", {q.by, r.who}))

(* list_grant_requests and list_invites mark what has run out.             *)
ListPending(r) ==
    Managed(r, [grants EXCEPT !.pending = {q \in @ : q.ends > scopeTime},
                              !.invites = {i \in @ : i.ends > scopeTime}])

CreateInvite(r, role) ==
    /\ role # "admin" /\ Cardinality(grants.invites) < MaxInvites
    /\ Managed(r, [grants EXCEPT !.invites = @ \cup
            {[role |-> role, by |-> r.who, ends |-> scopeTime + InviteTtl]}])
RevokeInvite(r, i) == i \in grants.invites /\ Managed(r, [grants EXCEPT !.invites = @ \ {i}])

(* accept_invite: the code is the capability, for any recent session, and  *)
(* the invited role replaces the one the account has.                      *)
AcceptInvite(p, i, crash) ==
    LET used == [grants EXCEPT !.invites = @ \ {i}] IN
    /\ i \in grants.invites /\ Recent(p)
    /\ crash => ~Expired(i)
    /\ grants' = IF Expired(i) \/ crash THEN used ELSE Granted(used, p, i.role, {})
    /\ UNCHANGED <<opened, scopeTime>>

-----------------------------------------------------------------------------
(* The routes, for every body. *)
DecideGrantRequestRoute(r) ==
    \E q \in grants.pending, approve \in BOOLEAN, crash \in BOOLEAN :
        DecideGrantRequest(r, q, approve, crash)
CreateInviteRoute(r) == \E role \in Roles : CreateInvite(r, role)
RevokeInviteRoute(r) == \E i \in grants.invites : RevokeInvite(r, i)
AcceptInviteRoute(p) == \E i \in grants.invites, crash \in BOOLEAN : AcceptInvite(p, i, crash)

Act ==
    \/ ScopeTick
    \/ \E p \in Principals :
          \/ Logout(p) \/ ChangeFactor(p) \/ AuthenticateSession(p) \/ AcceptInviteRoute(p)
          \/ \E scope \in Scopes, elevated \in BOOLEAN, bound \in BOOLEAN :
                PostScopeToken(p, scope, elevated, bound)
    \/ \E t \in 1..MaxScopeTokens :
          \/ DeleteScopeToken(t)
          \/ \E stamp \in ScopeTime \cup {NoProofSent} : AuthenticateToken(t, stamp)
    \/ \E r \in opened :
          \/ \E scope \in Scopes : Operate(r, scope)
          \/ \E t \in 1..MaxScopeTokens : GetAuditExport(r, t)
          \/ \E p \in Principals :
                \/ \E role \in Roles : PostProjectMember(r, p, role)
                \/ DeleteProjectMember(r, p)
          \/ DecideGrantRequestRoute(r) \/ ListPending(r)
          \/ CreateInviteRoute(r) \/ RevokeInviteRoute(r)
GrantsNext == acts < MaxActs /\ acts' = acts + 1 /\ Act

GrantsSpec == GrantsInit /\ [][GrantsNext]_grantVars

-----------------------------------------------------------------------------
(* PROPERTY (dual control: services/account/src/scoped.rs:218, "Admin-role *)
(* grants need a second distinct admin's approval").  An admin who did not *)
(* found the project was made one by two principals other than each other, *)
(* whatever was revoked, invited, asked again or crashed in between.       *)
AdminNeedsTwo ==
    \A p \in Principals : grants.roles[p] = "admin" =>
        p \in Founders \/ Cardinality(grants.makers[p]) = 2

(* A step that ends a request, or lets one in, does so for who is entitled. *)
EntitledStep ==
    /\ \A r \in opened \ opened' :
          /\ grants.sessions[r.who].live /\ grants.sessions[r.who].factor = r.factor
          /\ grants.roles[r.who] # "none"
    /\ \A r \in opened' \ opened : r.token # 0 => r.token \notin grants.everDenied
    /\ \A t \in 1..MaxScopeTokens, stamp \in ScopeTime :
          [token |-> t, stamp |-> stamp, ends |-> stamp + ProofRetention]
              \in grants'.proofs \ grants.proofs => <<t, stamp>> \notin grants.shown

(* PROPERTY (services/account/src/scope_tokens.rs:262, "closes the gap     *)
(* between HTTP authentication and an operation").  When a request acts,   *)
(* the session it goes back to still lives, with the second factor it was  *)
(* made with, and the caller is still a member; when a token is let in, it *)
(* was never denied, and its proof was never shown before.                 *)
UsedWhileEntitled == [][EntitledStep]_grantVars
=============================================================================
