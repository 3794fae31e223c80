---------------------------- MODULE Repositories ----------------------------
(***************************************************************************)
(* Bindings of projects to one provider repository (services/account vcs   *)
(* and reconcile): bound suspended, activated by an ownership proof,       *)
(* suspended and revoked by the provider's webhooks, by the reconcile      *)
(* probe and by admins.  Every handler holds the database for its whole    *)
(* length.  hooks holds the provider's undelivered and repeatable          *)
(* deliveries, each signed with the key of the binding whose project       *)
(* configured it.  The provider is external: ProviderClient.               *)
(***************************************************************************)
EXTENDS Naturals, FiniteSets, Sequences

CONSTANTS
    BoundProjects,          \* projects that bind the repository
    RepoNames,
    MaxHooks,               \* bound on deliveries waiting
    MaxRepoSteps            \* bound on the steps of a behaviour

ASSUME RepositoriesAssumption == {MaxHooks, MaxRepoSteps} \subseteq Nat /\ RepoNames # {}

VARIABLES bindings, order, provider, hooks, repoSteps

repoVars == <<bindings, order, provider, hooks, repoSteps>>

Statuses == {"active", "suspended", "revoked"}
Unbound == [status |-> "none"]
(* proven: an ownership proof came after the last suspension (history).    *)
(* told: the events its own webhook has delivered (history).               *)
Binding == [status : Statuses, name : RepoNames, proven : BOOLEAN,
            told : SUBSET {"renamed", "transferred", "deleted"}]
Events == {"renamed", "transferred", "deleted"}

ReposTypeOK ==
    /\ bindings \in [BoundProjects -> Binding \cup {Unbound}]
    /\ order \in Seq(BoundProjects)
    /\ provider \in [name : RepoNames, archived : BOOLEAN, deleted : BOOLEAN]
    /\ hooks \subseteq [event : Events, name : RepoNames, by : BoundProjects]
    /\ repoSteps \in 0..MaxRepoSteps

ReposInit ==
    /\ bindings = [p \in BoundProjects |-> Unbound] /\ order = <<>> /\ hooks = {}
    /\ provider \in [name : RepoNames, archived : {FALSE}, deleted : {FALSE}]
    /\ repoSteps = 0

\* Mutant: an admin's reactivation needs no proof.
TransitionReactivates(status, event) ==
    CASE event \in {"deleted", "adminRevoke"} -> "revoked"
      [] event \in {"ownershipProved", "adminReactivate"} -> "active"
      [] event \in {"transferred", "archived", "adminSuspend"} -> "suspended"
      [] event = "renamed" -> status

(* transition; "none" is Terminal. *)
Transition(status, event) ==
    CASE status = "revoked" ->
            IF event = "adminRevoke" THEN "revoked"
            ELSE IF event = "adminReactivate" THEN "suspended" ELSE "none"
      [] event \in {"deleted", "adminRevoke"} -> "revoked"
      [] event = "ownershipProved" -> "active"
      [] event \in {"transferred", "archived", "adminSuspend"} -> "suspended"
      [] event \in {"renamed", "adminReactivate"} -> status

Bound(p) == bindings[p] # Unbound
BindingBecomes(b, status) ==
    [b EXCEPT !.status = status, !.proven = @ /\ status = "active"]

(* bind_repository: suspended until proven.  The row is the last of the    *)
(* repository's; the projects that configure the hook do so from here on.  *)
BindRepository(p) ==
    /\ ~Bound(p)
    /\ bindings' = [bindings EXCEPT ![p] =
            [status |-> "suspended", name |-> provider.name, proven |-> FALSE, told |-> {}]]
    /\ order' = Append(order, p)
    /\ UNCHANGED <<provider, hooks>>

(* prove_ownership: the provider vouches for the installation while the    *)
(* repository is there; a revoked binding is terminal.                     *)
ProveOwnership(p) ==
    /\ Bound(p) /\ Transition(bindings[p].status, "ownershipProved") # "none"
    /\ ~provider.deleted
    /\ bindings' = [bindings EXCEPT ![p] = [@ EXCEPT !.status = "active", !.proven = TRUE]]
    /\ UNCHANGED <<order, provider, hooks>>

(* suspend_binding, revoke_binding and reactivate_binding.                 *)
MutateBinding(p, event) ==
    LET next == Transition(bindings[p].status, event) IN
    /\ Bound(p) /\ next # "none"
    /\ bindings' = [bindings EXCEPT ![p] = BindingBecomes(@, next)]
    /\ UNCHANGED <<order, provider, hooks>>

(* The provider's side: the repository changes, and every binding's hook   *)
(* is sent the event; deliveries may be late, repeated, lost or reordered. *)
ProviderChanges(event, name) ==
    /\ ~provider.deleted /\ (event = "renamed") = (name # provider.name)
    /\ provider' = [name |-> name, archived |-> provider.archived \/ event = "transferred",
                    deleted |-> event = "deleted"]
    /\ hooks' = hooks \cup {[event |-> event, name |-> name, by |-> p] :
                                p \in {p \in BoundProjects : Bound(p)}}
    /\ Cardinality(hooks') <= MaxHooks
    /\ UNCHANGED <<bindings, order>>
LoseHook(h) == hooks' = hooks \ {h} /\ UNCHANGED <<bindings, order, provider>>

(* post_vcs_webhook finds the binding by repository, the first one if      *)
(* several projects bind it, and verifies the delivery with its key.       *)
Addressed(h) == order[1]
\* Mutant: a deletion is left to the probe.
AppliedWhileActive(b, h) ==
    IF b.status # "active" \/ h.event = "deleted" THEN b ELSE BindingBecomes(b, "suspended")

(* apply_webhook_event: a revoked binding absorbs everything, a rename is  *)
(* for display only.                                                       *)
Applied(b, h) ==
    IF b.status = "revoked" THEN b
    ELSE IF h.event = "renamed" THEN [b EXCEPT !.name = h.name]
    ELSE BindingBecomes(b, Transition(b.status, h.event))
Told(h) == [bindings EXCEPT ![h.by].told = @ \cup {h.event}]
PostVcsWebhook(h, again) ==
    /\ bindings' = IF Addressed(h) = h.by THEN [Told(h) EXCEPT ![h.by] = Applied(@, h)]
                   ELSE Told(h)
    /\ hooks' = IF again THEN hooks ELSE hooks \ {h}
    /\ UNCHANGED <<order, provider>>

(* reconcile_binding: what the provider shows now; visible is FALSE when   *)
(* the probe's token no longer sees the repository.                        *)
Reconciled(b, visible) ==
    IF b.status = "revoked" THEN b
    ELSE IF ~visible THEN BindingBecomes(b, Transition(b.status, "transferred"))
    ELSE IF provider.deleted THEN BindingBecomes(b, "revoked")
    ELSE LET named == [b EXCEPT !.name = provider.name] IN
         IF provider.archived THEN BindingBecomes(named, Transition(b.status, "archived")) ELSE named
(* reconcile_project goes through the bindings one by one and stops at the *)
(* first the provider does not answer for.                                 *)
ReconcileProject(p, visible, dryRun) ==
    /\ Bound(p)
    /\ bindings' = IF dryRun THEN bindings
                   ELSE [bindings EXCEPT ![p] = Reconciled(@, visible)]
    /\ UNCHANGED <<order, provider, hooks>>

(* require_active_binding gates new secrets and rebinds (ScopedSecrets).   *)
RequireActive(p) == Bound(p) /\ bindings[p].status = "active"

-----------------------------------------------------------------------------
(* The routes. *)
PostRepository == \E p \in BoundProjects : BindRepository(p)
PostRepositoryProve == \E p \in BoundProjects : ProveOwnership(p)
DeleteRepository ==
    \E p \in BoundProjects, event \in {"adminSuspend", "adminRevoke"} : MutateBinding(p, event)
PostRepositoryReactivate == \E p \in BoundProjects : MutateBinding(p, "adminReactivate")

ReposStep ==
    \/ PostRepository \/ PostRepositoryProve \/ DeleteRepository \/ PostRepositoryReactivate
    \/ \E event \in Events, name \in RepoNames : ProviderChanges(event, name)
    \/ \E h \in hooks : LoseHook(h) \/ \E again \in BOOLEAN : PostVcsWebhook(h, again)
    \/ \E p \in BoundProjects, visible \in BOOLEAN, dryRun \in BOOLEAN :
          ReconcileProject(p, visible, dryRun)
ReposNext == repoSteps < MaxRepoSteps /\ repoSteps' = repoSteps + 1 /\ ReposStep

ReposSpec == ReposInit /\ [][ReposNext]_repoVars

-----------------------------------------------------------------------------
(* PROPERTY (vcs.rs:172, "only a fresh ownership proof activates a         *)
(* suspended binding").  A binding that admits new secrets was proven      *)
(* after everything that suspended or revoked it, in whatever order        *)
(* webhooks, probes and admins came.                                       *)
ActiveIsProven == \A p \in BoundProjects : RequireActive(p) => bindings[p].proven

(* PROPERTY (vcs.rs:382, "a binding that cannot receive verified webhooks  *)
(* cannot detect transfer/delete").  A binding whose hook has delivered    *)
(* the deletion of its repository no longer admits new secrets.            *)
DeletionNoticed ==
    \A p \in BoundProjects :
        Bound(p) /\ "deleted" \in bindings[p].told => ~RequireActive(p)

(* What a repository binding promises (vcs.rs, post_vcs_webhook).          *)
RepositoriesSound == ReposTypeOK /\ ActiveIsProven /\ DeletionNoticed
=============================================================================
