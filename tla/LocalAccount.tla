---------------------------- MODULE LocalAccount ----------------------------
(***************************************************************************)
(* The local account registry (crates/local-store/src/account.rs) and the  *)
(* commands on it (apps/cli/src/commands/auth.rs): three files beside each *)
(* other (record, key, session), each replaced atomically, none locked     *)
(* except while an account is created. A command reads the record when it  *)
(* starts and writes its whole copy back, so commands of two processes may *)
(* overlap; a process may die between any two files. A workspace has one   *)
(* vault and one device of its own and stands for both.                    *)
(***************************************************************************)
EXTENDS Naturals

CONSTANTS Workspaces, AccountProcs,
          AccountTtl,        \* lifetime of a session
          MaxAccountTime, MaxAccountCommands, MaxAccountCrashes

ASSUME LocalAccountAssumption == AccountTtl \in Nat \ {0} /\ MaxAccountTime \in Nat

VARIABLES
  account,    \* the three files: record, key, session
  acctCmd,    \* process -> the command it runs
  acctClock,
  acctPast    \* history: commands, crashes, revoked devices, overlapping writes

accountVars == <<account, acctCmd, acctClock, acctPast>>

NoRecord == [key |-> 0]
NoSignIn == [until |-> 0]
AnyDevice == "any device"
NoCommand == [op |-> "none", at |-> "idle"]
AccountOps == {"init", "link", "unlink", "revoke", "connect", "login", "logout", "status"}

LocalAccountInit ==
  /\ account = [record |-> NoRecord, key |-> 0, session |-> NoSignIn]
  /\ acctCmd = [p \in AccountProcs |-> NoCommand]
  /\ acctClock = 0
  /\ acctPast = [commands |-> 0, crashes |-> 0, revoked |-> {}, overlapped |-> FALSE, keys |-> 0]

HasAccount == account.record # NoRecord
Linked(record, w) == w \in record.vaults
DeviceActive(record, w) == record.devices[w] = "active"

\* session_status on a given record: alive, and its device not revoked since.
SignedIn(record, s) ==
  /\ s # NoSignIn /\ s.key = record.key /\ acctClock < s.until
  /\ s.device = AnyDevice \/ DeviceActive(record, s.device)

\* is_authenticated_for_device.
AuthenticatedFor(w) ==
  /\ HasAccount
  /\ Linked(account.record, w) /\ DeviceActive(account.record, w)
  /\ SignedIn(account.record, account.session) /\ account.session.device = w

\* login: a fresh session, over whatever session there is.
Session(record, device) ==
  [key |-> record.key, device |-> device, until |-> acctClock + AccountTtl]

-----------------------------------------------------------------------------
(* Commands *)

Running(p, op, at) == acctCmd[p].op = op /\ acctCmd[p].at = at
Goto(p, at) == acctCmd' = [acctCmd EXCEPT ![p].at = at]
Done(p) == acctCmd' = [acctCmd EXCEPT ![p] = NoCommand]

\* persist_record: the copy the command read, with its change. Another command may
\* have replaced the record meanwhile.
Persist(p, record) ==
  /\ account' = [account EXCEPT !.record = record]
  /\ acctPast' = [acctPast EXCEPT !.overlapped = @ \/ acctCmd[p].seen # account.record]

\* AccountStore::open: every command but init reads the record first.
OpenAccount(p, op, w) ==
  /\ acctCmd[p] = NoCommand /\ op # "init" /\ HasAccount
  /\ acctPast.commands < MaxAccountCommands
  /\ acctCmd' = [acctCmd EXCEPT ![p] = [op |-> op, ws |-> w, at |-> "opened",
                                        seen |-> account.record]]
  /\ acctPast' = [acctPast EXCEPT !.commands = @ + 1]
  /\ UNCHANGED <<account, acctClock>>

\* create: without an account there is the initialization lock, and a look again
\* under it; key first, then the record that names it.
Locked == \E p \in AccountProcs : acctCmd[p].op = "init" /\ acctCmd[p].at # "started"

CreateStart(p) ==
  /\ acctCmd[p] = NoCommand /\ ~HasAccount /\ acctPast.commands < MaxAccountCommands
  /\ acctCmd' = [acctCmd EXCEPT ![p] = [op |-> "init", at |-> "started"]]
  /\ acctPast' = [acctPast EXCEPT !.commands = @ + 1]
  /\ UNCHANGED <<account, acctClock>>

MayCreateUnchecked == TRUE

MayCreate == ~HasAccount /\ account.key = 0

CreateKey(p) ==
  /\ Running(p, "init", "started") /\ ~Locked
  /\ IF MayCreate
     THEN /\ acctPast' = [acctPast EXCEPT !.keys = @ + 1]
          /\ account' = [account EXCEPT !.key = acctPast'.keys]
          /\ acctCmd' = [acctCmd EXCEPT ![p] = [op |-> "init", at |-> "key", own |-> acctPast'.keys]]
     ELSE Done(p) /\ UNCHANGED <<account, acctPast>>
  /\ UNCHANGED acctClock

CreateRecord(p) ==
  /\ Running(p, "init", "key")
  /\ account' = [account EXCEPT !.record =
       [key |-> acctCmd[p].own, devices |-> [w \in Workspaces |-> "new"], vaults |-> {},
        hosted |-> FALSE]]
  /\ Done(p)
  /\ UNCHANGED <<acctClock, acctPast>>

Enrolled(record, w) == [record EXCEPT !.devices[w] = "active"]

\* cmd_vault_link: the device registered, the vault linked, a session for it.
LinkDevice(p) ==
  /\ Running(p, "link", "opened")
  /\ LET record == Enrolled(acctCmd[p].seen, acctCmd[p].ws) IN
     /\ account' = [account EXCEPT !.record = record]
     /\ acctPast' = [acctPast EXCEPT !.overlapped = @ \/ acctCmd[p].seen # account.record,
                                     !.revoked = @ \ {acctCmd[p].ws}]
     /\ acctCmd' = [acctCmd EXCEPT ![p].at = "registered", ![p].seen = record]
  /\ UNCHANGED acctClock

LinkVault(p) ==
  /\ Running(p, "link", "registered")
  /\ LET record == [acctCmd[p].seen EXCEPT !.vaults = @ \cup {acctCmd[p].ws}] IN
     /\ Persist(p, record)
     /\ acctCmd' = [acctCmd EXCEPT ![p].at = "linked", ![p].seen = record]
  /\ UNCHANGED acctClock

SignsIn(p, device) ==
  /\ account' = [account EXCEPT !.session = Session(acctCmd[p].seen, device)]
  /\ Done(p)
  /\ UNCHANGED <<acctClock, acctPast>>

LinkSignsIn(p) == Running(p, "link", "linked") /\ SignsIn(p, acctCmd[p].ws)

\* cmd_auth_login: bound to the device when it is enrolled for a linked vault.
Login(p) ==
  /\ Running(p, "login", "opened")
  /\ LET seen == acctCmd[p].seen
         w == acctCmd[p].ws IN
     SignsIn(p, IF Linked(seen, w) /\ DeviceActive(seen, w) THEN w ELSE AnyDevice)

\* cmd_auth_logout, and the end of cmd_vault_unlink.
Logout(p) ==
  /\ Running(p, "logout", "opened") \/ Running(p, "unlink", "unlinked")
  /\ account' = [account EXCEPT !.session = NoSignIn]
  /\ Done(p)
  /\ UNCHANGED <<acctClock, acctPast>>

\* cmd_vault_unlink.
Unlink(p) ==
  /\ Running(p, "unlink", "opened")
  /\ IF Linked(acctCmd[p].seen, acctCmd[p].ws)
     THEN Persist(p, [acctCmd[p].seen EXCEPT !.vaults = @ \ {acctCmd[p].ws}]) /\ Goto(p, "unlinked")
     ELSE Done(p) /\ UNCHANGED <<account, acctPast>>
  /\ UNCHANGED acctClock

RevokedInMemory(record, w) == record

\* revoke_device on the copy read.
Revoked(record, w) == [record EXCEPT !.devices[w] = "revoked"]

\* cmd_device_revoke: the record, then the session if it is the device's own.
RevokeDevice(p) ==
  /\ Running(p, "revoke", "opened")
  /\ IF DeviceActive(acctCmd[p].seen, acctCmd[p].ws)
     THEN /\ account' = [account EXCEPT !.record = Revoked(acctCmd[p].seen, acctCmd[p].ws)]
          /\ acctPast' = [acctPast EXCEPT !.overlapped = @ \/ acctCmd[p].seen # account.record,
                                          !.revoked = @ \cup {acctCmd[p].ws}]
          /\ Goto(p, "revoked")
     ELSE Done(p) /\ UNCHANGED <<account, acctPast>>
  /\ UNCHANGED acctClock

LogoutForDevice(p) ==
  /\ Running(p, "revoke", "revoked")
  /\ LET s == account.session IN
     account' = [account EXCEPT !.session =
       IF s # NoSignIn /\ s.device = acctCmd[p].ws THEN NoSignIn ELSE s]
  /\ Goto(p, "hosted")
  /\ UNCHANGED <<acctClock, acctPast>>

\* sync_hosted_device_revocation changes nothing here, whatever it answers.
SyncHosted(p) ==
  /\ Running(p, "revoke", "hosted") /\ Done(p)
  /\ UNCHANGED <<account, acctClock, acctPast>>

\* cmd_auth_connect: the hosted service registers the account and enrolls the
\* device, which may fail and takes as long as it takes; then the endpoint is
\* saved with the record read at the start. The hosted login, the vault's link
\* and the handoff that follow change nothing here.
ConnectAnswered(p, ok) ==
  /\ Running(p, "connect", "opened")
  /\ IF ok THEN Goto(p, "enrolled") ELSE Done(p)
  /\ UNCHANGED <<account, acctClock, acctPast>>

SaveEndpoint(p) ==
  /\ Running(p, "connect", "enrolled")
  /\ Persist(p, [acctCmd[p].seen EXCEPT !.hosted = TRUE])
  /\ Done(p)
  /\ UNCHANGED acctClock

\* session_status: the session file is read, judged, and removed if it is dead.
StatusRead(p) ==
  /\ Running(p, "status", "opened")
  /\ IF account.session = NoSignIn \/ SignedIn(acctCmd[p].seen, account.session)
     THEN Done(p) ELSE Goto(p, "dead")
  /\ UNCHANGED <<account, acctClock, acctPast>>

StatusRemoves(p) ==
  /\ Running(p, "status", "dead")
  /\ account' = [account EXCEPT !.session = NoSignIn]
  /\ Done(p)
  /\ UNCHANGED <<acctClock, acctPast>>

\* A process dies; its lock goes with it.
AccountCrash(p) ==
  /\ acctCmd[p] # NoCommand /\ acctPast.crashes < MaxAccountCrashes
  /\ Done(p) /\ acctPast' = [acctPast EXCEPT !.crashes = @ + 1]
  /\ UNCHANGED <<account, acctClock>>

AccountTick ==
  /\ acctClock < MaxAccountTime /\ acctClock' = acctClock + 1
  /\ UNCHANGED <<account, acctCmd, acctPast>>

LocalAccountNext ==
  \/ \E p \in AccountProcs :
       \/ \E op \in AccountOps, w \in Workspaces : OpenAccount(p, op, w)
       \/ CreateStart(p) \/ CreateKey(p) \/ CreateRecord(p)
       \/ LinkDevice(p) \/ LinkVault(p) \/ LinkSignsIn(p)
       \/ Login(p) \/ Logout(p) \/ Unlink(p)
       \/ RevokeDevice(p) \/ LogoutForDevice(p) \/ SyncHosted(p)
       \/ \E ok \in BOOLEAN : ConnectAnswered(p, ok)
       \/ SaveEndpoint(p) \/ StatusRead(p) \/ StatusRemoves(p) \/ AccountCrash(p)
  \/ AccountTick

-----------------------------------------------------------------------------
\* The record names its key and a state for every device; a session is for one of
\* the devices or for any.
LocalAccountTypeOK ==
  /\ account.key \in 0..acctPast.keys
  /\ HasAccount => /\ account.record.devices \in [Workspaces -> {"new", "active", "revoked"}]
                   /\ account.record.vaults \subseteq Workspaces
  /\ account.session # NoSignIn => account.session.device \in Workspaces \cup {AnyDevice}
  /\ acctPast.revoked \subseteq Workspaces

\* Whatever processes create, link, revoke and connect, and wherever one dies
\* (AccountStore::create, cmd_device_revoke, cmd_vault_link): a record always
\* names the key beside it, so the account can be unlocked; and a revoked device
\* is authenticated again only by linking its vault again. Two commands that
\* overlap may lose the revocation, because each writes the record it read.
AccountSound ==
  /\ HasAccount => account.record.key = account.key
  /\ acctPast.overlapped \/ \A w \in acctPast.revoked : ~AuthenticatedFor(w)
=============================================================================
