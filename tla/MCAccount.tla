----------------------------- MODULE MCAccount ------------------------------
(***************************************************************************)
(* The account service for TLC: authentication, memberships, scoped        *)
(* secrets, grants and scope tokens, repository bindings, the audit chain  *)
(* and the migration of a vault into scoped secrets.  A behaviour          *)
(* exercises the part its initial state focuses on.                        *)
(***************************************************************************)
EXTENDS AccountAuth, AccountMembers, ScopedSecrets, ScopeGrants, Repositories, AuditChain, Migration

VARIABLE focus

(* Two lines that define one name; the second snapshot changes both. *)
MCSourceNames == [l \in Lines |-> "n1"]
MCContents ==
    [h \in Heads |-> [l \in Lines |-> IF h = "h2" THEN "v3" ELSE IF l = 1 THEN "v1" ELSE "v2"]]

MCInit ==
    /\ focus \in {"auth", "members", "secrets", "grants", "repositories", "audit", "migration"}
    /\ AuthInit /\ MembersInit /\ SecretsInit /\ GrantsInit /\ ReposInit /\ AuditInit /\ MigrationInit
    /\ focus = "auth" \/ db = NewAccount
    /\ focus = "secrets" \/ keyfile.file.active = CHOOSE l \in Labels : TRUE
    /\ focus = "secrets" \/ keyfile.file.keys[keyfile.file.active] = CHOOSE m \in Materials : TRUE
    /\ focus = "repositories" \/ provider.name = CHOOSE n \in RepoNames : TRUE

(* Behaviours of the migration alone. *)
MCInitMigration == MCInit /\ focus = "migration"

MCNext ==
    /\ UNCHANGED focus
    /\ \/ /\ focus = "auth" /\ AuthNext
          /\ UNCHANGED <<membersVars, secretVars, grantVars, repoVars, auditVars, migrationVars>>
       \/ /\ focus = "members" /\ MembersNext
          /\ UNCHANGED <<authVars, secretVars, grantVars, repoVars, auditVars, migrationVars>>
       \/ /\ focus = "secrets" /\ SecretsNext
          /\ UNCHANGED <<authVars, membersVars, grantVars, repoVars, auditVars, migrationVars>>
       \/ /\ focus = "grants" /\ GrantsNext
          /\ UNCHANGED <<authVars, membersVars, secretVars, repoVars, auditVars, migrationVars>>
       \/ /\ focus = "repositories" /\ ReposNext
          /\ UNCHANGED <<authVars, membersVars, secretVars, grantVars, auditVars, migrationVars>>
       \/ /\ focus = "audit" /\ AuditNext
          /\ UNCHANGED <<authVars, membersVars, secretVars, grantVars, repoVars, migrationVars>>
       \/ /\ focus = "migration" /\ MigrationNext
          /\ UNCHANGED <<authVars, membersVars, secretVars, grantVars, repoVars, auditVars>>

(***************************************************************************)
(* Nobody widens a role alone: an account's members have the role that was  *)
(* delegated to them (memberships.rs), a project's admins were made by two  *)
(* principals (grants.rs).                                                  *)
(***************************************************************************)
RolesSound == MembersTypeOK /\ RolesDelegated /\ GrantsTypeOK /\ AdminNeedsTwo
=============================================================================
