----------------------------- MODULE Dashboard -----------------------------
(***************************************************************************)
(* The private dashboard server (apps/cli/src/dashboard: server.rs,        *)
(* session.rs, handlers.rs, files_api.rs) beside the account commands of   *)
(* LocalAccount: the browser session in memory, the guard in front of      *)
(* every request, which fixes the workspace the request acts on, and the   *)
(* telemetry stream, which outlives its request. Browser tabs choose their *)
(* workspaces independently. Requests come from the dashboard's own        *)
(* origin; the account proxy is left to AccountAuth.                       *)
(***************************************************************************)
EXTENDS LocalAccount

CONSTANTS Tabs, UiTtl, MaxUiRequests,
          HomeWorkspace   \* where the server was started

ASSUME DashboardAssumption ==
  UiTtl \in Nat \ {0} /\ MaxUiRequests \in Nat /\ HomeWorkspace \in Workspaces

VARIABLES ui,       \* the private session: token, when it was issued
          tabs,     \* tab -> cookie and selected workspace
          uiReq,    \* tab -> its request
          uiPast    \* history: requests, tokens issued and ended, admissions, acts

dashboardVars == <<account, acctCmd, acctClock, acctPast, ui, tabs, uiReq, uiPast>>
uiVars == <<ui, tabs, uiReq, uiPast>>

NoUiReq == [at |-> "idle"]
UiOps == {"context", "act", "switch", "login", "logout", "revoke", "stream"}

\* Paths the guard lets pass without a session.
Bootstrap == {"context", "login", "logout"}

\* private_account_session_valid in the context of workspace w.
AccountValid(w) ==
  ~HasAccount \/ ~Linked(account.record, w) \/ AuthenticatedFor(w)

\* session_status on the way removes a dead session.
Swept(w) ==
  IF /\ HasAccount /\ Linked(account.record, w) /\ DeviceActive(account.record, w)
     /\ ~SignedIn(account.record, account.session)
  THEN [account EXCEPT !.session = NoSignIn] ELSE account

\* new_private_ui_session, private_ui_session_snapshot: rotated when it is old.
Fresh == [token |-> uiPast.tokens + 1, issued |-> acctClock]
Snapshot == IF acctClock >= ui.issued + UiTtl THEN Fresh ELSE ui
Noted(s) == IF s = ui THEN uiPast
            ELSE [uiPast EXCEPT !.tokens = s.token, !.ended = @ \cup {ui.token}]
Keeps(s) == ui' = s /\ uiPast' = Noted(s)

\* ensure_local_account_session, once at startup.
Started ==
  IF /\ HasAccount /\ Linked(account.record, HomeWorkspace) /\ ~AccountValid(HomeWorkspace)
     /\ DeviceActive(account.record, HomeWorkspace)
  THEN [account EXCEPT !.session = Session(account.record, HomeWorkspace)] ELSE account

DashboardInit ==
  /\ LocalAccountInit
  /\ ui = [token |-> 1, issued |-> 0]
  /\ tabs = [t \in Tabs |-> [cookie |-> 0, ws |-> HomeWorkspace]]
  /\ uiReq = [t \in Tabs |-> NoUiReq]
  /\ uiPast = [requests |-> 0, tokens |-> 1, ended |-> {}, passed |-> {}, acted |-> {}, late |-> FALSE]

\* cmd_ui: the server starts again and signs in if it must.
ServerRestart ==
  /\ uiPast.requests < MaxUiRequests
  /\ account' = Started
  /\ ui' = Fresh
  /\ uiReq' = [t \in Tabs |-> NoUiReq]
  /\ uiPast' = [uiPast EXCEPT !.tokens = @ + 1, !.ended = @ \cup {ui.token}, !.requests = @ + 1]
  /\ UNCHANGED <<acctCmd, acctClock, acctPast, tabs>>

SendUi(t, op, w) ==
  /\ uiReq[t] = NoUiReq /\ uiPast.requests < MaxUiRequests
  /\ op # "switch" => w = tabs[t].ws
  /\ uiReq' = [uiReq EXCEPT ![t] = [at |-> "sent", op |-> op, ws |-> tabs[t].ws, to |-> w,
                                    cookie |-> tabs[t].cookie]]
  /\ uiPast' = [uiPast EXCEPT !.requests = @ + 1]
  /\ UNCHANGED <<account, acctCmd, acctClock, acctPast, ui, tabs>>

EndUi(t) == uiReq' = [uiReq EXCEPT ![t] = NoUiReq]

\* The history of an admission: late, if its token had been ended, by a logout, a
\* revocation, its age or a restart, or its device revoked by any process since.
Barred(w) ==
  HasAccount /\ Linked(account.record, w) /\ w \in acctPast.revoked /\ ~acctPast.overlapped
Late(t, past) == uiReq[t].cookie \in past.ended \/ Barred(uiReq[t].ws)
Admitted(t) == [cookie |-> uiReq[t].cookie, ws |-> uiReq[t].ws]

\* private_ui_request_guard: the selected workspace is resolved once, and the
\* request is authorized in it.
Guard(t) ==
  LET r == uiReq[t]
      mine == r.cookie = Snapshot.token IN
  /\ r.at = "sent"
  /\ \/ /\ r.op \in Bootstrap
        /\ uiReq' = [uiReq EXCEPT ![t].at = "run"]
        /\ UNCHANGED <<ui, uiPast, account>>
     \/ /\ r.op \notin Bootstrap
        /\ ui' = Snapshot /\ account' = IF mine THEN Swept(r.ws) ELSE account
        /\ IF mine /\ AccountValid(r.ws)
           THEN /\ uiReq' = [uiReq EXCEPT ![t].at = "run"]
                /\ uiPast' = [Noted(Snapshot) EXCEPT !.passed = @ \cup {Admitted(t)},
                                                    !.late = @ \/ Late(t, Noted(Snapshot))]
           ELSE EndUi(t) /\ uiPast' = Noted(Snapshot)
  /\ UNCHANGED <<acctCmd, acctClock, acctPast, tabs>>

RunsUi(t, op) == uiReq[t].at = "run" /\ uiReq[t].op = op

\* api_private_context_handler: the cookie, and the account's status, which removes
\* a dead session whatever workspace is selected.
Context(t) ==
  /\ RunsUi(t, "context") /\ Keeps(Snapshot) /\ EndUi(t)
  /\ tabs' = [tabs EXCEPT ![t].cookie = Snapshot.token]
  /\ account' = IF HasAccount /\ ~SignedIn(account.record, account.session)
                THEN [account EXCEPT !.session = NoSignIn] ELSE account
  /\ UNCHANGED <<acctCmd, acctClock, acctPast>>

\* get_active_vault_path within the request's context.
ActiveVault(t) == uiReq[t].ws

\* The handlers that read or change a vault (snapshots, files, restores, anchors).
Act(t) ==
  /\ RunsUi(t, "act")
  /\ uiPast' = [uiPast EXCEPT !.acted = @ \cup {[cookie |-> uiReq[t].cookie, ws |-> ActiveVault(t)]}]
  /\ EndUi(t)
  /\ UNCHANGED <<account, acctCmd, acctClock, acctPast, ui, tabs>>

\* api_workspaces_switch_handler: allowed if the target's own session is valid; the
\* tab then sends the new selection. A tab may also follow a link to a workspace.
Switch(t) ==
  /\ RunsUi(t, "switch") /\ EndUi(t)
  /\ account' = Swept(uiReq[t].to)
  /\ tabs' = IF AccountValid(uiReq[t].to) THEN [tabs EXCEPT ![t].ws = uiReq[t].to] ELSE tabs
  /\ UNCHANGED <<acctCmd, acctClock, acctPast, ui, uiPast>>

Navigate(t, w) ==
  /\ uiReq[t] # NoUiReq /\ tabs[t].ws # w
  /\ tabs' = [tabs EXCEPT ![t].ws = w]
  /\ UNCHANGED <<account, acctCmd, acctClock, acctPast, ui, uiReq, uiPast>>

\* api_account_login_handler.
LoginUi(t) ==
  LET w == uiReq[t].ws IN
  /\ RunsUi(t, "login") /\ EndUi(t)
  /\ account' = IF HasAccount /\ Linked(account.record, w) /\ DeviceActive(account.record, w)
                THEN [account EXCEPT !.session = Session(account.record, w)] ELSE account
  /\ UNCHANGED <<acctCmd, acctClock, acctPast, ui, tabs, uiPast>>

\* api_account_logout_handler: the account's session, then the browser's.
LogoutUi(t) ==
  /\ RunsUi(t, "logout") /\ EndUi(t)
  /\ IF HasAccount THEN account' = [account EXCEPT !.session = NoSignIn] /\ Keeps(Fresh)
     ELSE UNCHANGED <<account, ui, uiPast>>
  /\ UNCHANGED <<acctCmd, acctClock, acctPast, tabs>>

\* api_private_session_revoke_handler, which also clears the tab's cookie.
RevokeUi(t) ==
  /\ RunsUi(t, "revoke") /\ EndUi(t) /\ Keeps(Fresh)
  /\ tabs' = [tabs EXCEPT ![t].cookie = 0]
  /\ UNCHANGED accountVars

\* api_stream_handler: the sessions are checked before each wait for a sample and
\* again before the sample is released.
StreamValid(t) == uiReq[t].cookie = Snapshot.token /\ AccountValid(uiReq[t].ws)

StreamRecheckSkipped(t) == TRUE

StreamRecheck(t) == StreamValid(t)

StreamWait(t) ==
  /\ RunsUi(t, "stream")
  /\ Keeps(Snapshot) /\ account' = Swept(uiReq[t].ws)
  /\ IF StreamValid(t) THEN uiReq' = [uiReq EXCEPT ![t].at = "waiting"] ELSE EndUi(t)
  /\ UNCHANGED <<acctCmd, acctClock, acctPast, tabs>>

StreamSample(t) ==
  /\ uiReq[t].at = "waiting"
  /\ ui' = Snapshot /\ account' = Swept(uiReq[t].ws)
  /\ uiPast' = [Noted(Snapshot) EXCEPT !.late = @ \/ (StreamRecheck(t) /\ Late(t, Noted(Snapshot)))]
  /\ IF StreamRecheck(t) THEN uiReq' = [uiReq EXCEPT ![t].at = "run"] ELSE EndUi(t)
  /\ UNCHANGED <<acctCmd, acctClock, acctPast, tabs>>

DashboardNext ==
  \/ LocalAccountNext /\ UNCHANGED uiVars
  \/ ServerRestart
  \/ \E t \in Tabs :
       \/ \E op \in UiOps, w \in Workspaces : SendUi(t, op, w)
       \/ \E w \in Workspaces : Navigate(t, w)
       \/ Guard(t) \/ Context(t) \/ Act(t) \/ Switch(t)
       \/ LoginUi(t) \/ LogoutUi(t) \/ RevokeUi(t) \/ StreamWait(t) \/ StreamSample(t)

-----------------------------------------------------------------------------
\* Tokens are numbered as issued; a cookie is some token once issued.
DashboardTypeOK ==
  /\ LocalAccountTypeOK
  /\ ui.token = uiPast.tokens /\ \A t \in Tabs : tabs[t].cookie \in 0..uiPast.tokens
  /\ \A t \in Tabs : uiReq[t].at \in {"idle", "sent", "run", "waiting"}

\* Every handler acts on a workspace its own request was admitted to by the guard,
\* wherever its tab went meanwhile (VaultContext: "an immutable workspace selection
\* shared by all operations in one request"); and nothing is admitted, and no
\* sample of an open stream released, on a token that a logout, a revocation, its
\* age or a restart has ended, or for a linked workspace whose device any process
\* has revoked since (private_ui_request_guard, api_stream_handler) - unless two
\* commands wrote the account's record over each other.
PrivateServed == uiPast.acted \subseteq uiPast.passed /\ ~uiPast.late
=============================================================================
