------------------------------ MODULE MCClient ------------------------------
(***************************************************************************)
(* The client's commands for TLC: updates and the managed node, recovery   *)
(* of a vault on new devices, anchoring and the finality view, the         *)
(* workbench, the local account with the private dashboard, runs with      *)
(* secrets, the key file and the backup of the recovery kit.  They share   *)
(* no state, so a behaviour exercises the part its initial state focuses   *)
(* on.                                                                     *)
(***************************************************************************)
EXTENDS NodeInstall, VaultRecovery, Anchoring, Workbench, Dashboard, ScopedRun, Keystore, KeyBackup

VARIABLE focus

(* Two of the three endpoints lead to one operator. *)
MCBackupOperatorOf == [e \in BackupEndpoints |-> IF e = "e3" THEN "s2" ELSE "s1"]

(* Every transaction publishes the one commitment. *)
MCTxPublishes == [t \in Txs |-> <<"h1", 1>>]

(* A relayer claims the second one, in the second block. *)
MCRelayClaims == {<<"t2", 2>>}

(* One snapshot has an overlay beside its .env, the other has only .env. *)
MCFilesOf ==
    [h \in VaultHeads |->
        IF h = "h1" THEN <<[base |-> FALSE, defines |-> {1}], [base |-> TRUE, defines |-> {1}]>>
        ELSE <<[base |-> TRUE, defines |-> {1}]>>]

(* The kit is split before the first capture: a split meets nothing else but the  *)
(* recoveries, which come later.                                                  *)
SplitsFirst ==
    snapshots' # <<>> => \A s \in Splits : Shares(s) \subseteq sheets'

(* Refreshers, processes on the account and processes on the key file have no     *)
(* state while at rest: the second starts only beside the first.                  *)
RefreshersAlike ==
    LET one == CHOOSE r \in Refreshers : TRUE
    IN  refreshes[one] = NoRefresh =>
            \A r \in Refreshers \ {one} : refreshes[r] = NoRefresh => refreshes'[r] = NoRefresh
ProcessesAlike ==
    LET one == CHOOSE p \in AccountProcs : TRUE
    IN  acctCmd[one] = NoCommand =>
            \A p \in AccountProcs \ {one} : acctCmd[p] = NoCommand => acctCmd'[p] = NoCommand
SealersAlike ==
    LET one == CHOOSE p \in KeyProcs : TRUE
    IN  sealers[one] = IdleSealer =>
            \A p \in KeyProcs \ {one} : sealers[p] = IdleSealer => sealers'[p] = IdleSealer

(* The dashboard is explored against one other process, which does not die and   *)
(* whose last command revokes a device, and a second tab, which only logs out.   *)
OneProcess ==
    LET one == CHOOSE p \in AccountProcs : TRUE
        tab == CHOOSE t \in Tabs : TRUE
    IN  /\ \A p \in AccountProcs \ {one} : acctCmd'[p] = NoCommand
        /\ acctPast'.commands < MaxAccountCommands /\ acctPast'.crashes = 0
        /\ acctPast'.commands = MaxAccountCommands - 1 => acctCmd'[one].op \in {"revoke", "none"}
        /\ \A t \in Tabs \ {tab} :
               /\ tabs'[t].ws = HomeWorkspace
               /\ uiReq'[t].at # "idle" => uiReq'[t].op = "logout"

(* One shell starts the runs (shells are alike); a second scoped run is pinned to *)
(* the revision of the first, sets nothing and starts with no command under way.  *)
PinnedAfterFirst ==
    LET one == CHOOSE c \in RunShells : TRUE IN
    /\ \A c \in RunShells \ {one} : shell'[c].op \notin {"list", "materialize"}
    /\ runPast.runs = 1 /\ runPast'.runs = 2 =>
           /\ \A c \in RunShells : shell[c] = Resting
           /\ shell'[one].pin # NoneRun /\ shell'[one].set = {}

MCInit ==
    /\ focus \in {"install", "recovery", "anchoring", "workbench", "account", "dashboard",
                  "run", "snapshot", "keystore", "backup"}
    /\ InstallInit /\ RecoveryInit /\ AnchoringInit /\ WorkbenchInit /\ DashboardInit
    /\ RunInit /\ KeystoreInit /\ KeyBackupInit
    /\ focus = "workbench" \/ disk.tracked = {}
    /\ focus = "run" \/ context = NoneRun
    /\ focus = "snapshot" \/ vault.head = CHOOSE h \in VaultHeads : TRUE
    /\ focus = "keystore" \/ (blobs = {} /\ keyEnv.path = CHOOSE p \in KeyPaths : TRUE)

MCNext ==
    /\ UNCHANGED focus
    /\ \/ /\ focus = "install" /\ InstallNext
          /\ UNCHANGED <<recoveryVars, anchoringVars, workbenchVars, dashboardVars, runVars, keystoreVars, keyBackupVars>>
       \/ /\ focus = "recovery" /\ RecoveryNext /\ SplitsFirst
          /\ UNCHANGED <<nodeVars, anchoringVars, workbenchVars, dashboardVars, runVars, keystoreVars, keyBackupVars>>
       \/ /\ focus = "anchoring" /\ AnchoringNext /\ RefreshersAlike
          /\ UNCHANGED <<nodeVars, recoveryVars, workbenchVars, dashboardVars, runVars, keystoreVars, keyBackupVars>>
       \/ /\ focus = "workbench" /\ WorkbenchNext
          /\ UNCHANGED <<nodeVars, recoveryVars, anchoringVars, dashboardVars, runVars, keystoreVars, keyBackupVars>>
       \/ /\ focus = "account" /\ LocalAccountNext /\ ProcessesAlike
          /\ UNCHANGED <<uiVars, nodeVars, recoveryVars, anchoringVars, workbenchVars, runVars, keystoreVars, keyBackupVars>>
       \/ /\ focus = "dashboard" /\ DashboardNext /\ OneProcess
          /\ UNCHANGED <<nodeVars, recoveryVars, anchoringVars, workbenchVars, runVars, keystoreVars, keyBackupVars>>
       \/ /\ focus = "run" /\ ScopedNext /\ PinnedAfterFirst
          /\ UNCHANGED <<nodeVars, recoveryVars, anchoringVars, workbenchVars, dashboardVars, keystoreVars, keyBackupVars>>
       \/ /\ focus = "snapshot" /\ SnapshotNext
          /\ UNCHANGED <<nodeVars, recoveryVars, anchoringVars, workbenchVars, dashboardVars, keystoreVars, keyBackupVars>>
       \/ /\ focus = "keystore" /\ KeystoreNext /\ SealersAlike
          /\ UNCHANGED <<nodeVars, recoveryVars, anchoringVars, workbenchVars, dashboardVars, runVars, keyBackupVars>>
       \/ /\ focus = "backup" /\ KeyBackupNext
          /\ UNCHANGED <<nodeVars, recoveryVars, anchoringVars, workbenchVars, dashboardVars, runVars, keystoreVars>>

(***************************************************************************)
(* An installation and its node stay as the update engine and the node     *)
(* commands leave them (NodeInstall).                                      *)
(***************************************************************************)
NodeSound == InstallTypeOK /\ NodeManageable

(***************************************************************************)
(* A recovery restores the vault's newest state and its history goes on    *)
(* from there (VaultRecovery), and a recorded backup of the kit can be     *)
(* restored (KeyBackup).                                                   *)
(***************************************************************************)
RecoverySound ==
    /\ RecoveryTypeOK /\ RecoveryFaithful /\ HistoryContinues
    /\ KeyBackupTypeOK /\ RecordedRestores

(***************************************************************************)
(* What is shown as anchored has a receipt, and a receipt that goes away   *)
(* raises an alarm that stays (Anchoring).                                 *)
(***************************************************************************)
AnchorsSound == AnchoringTypeOK /\ AnchorsBacked /\ AlarmSticky

(***************************************************************************)
(* The workbench runs one task of a kind and shows what is selected,       *)
(* whatever lands when (Workbench).                                        *)
(***************************************************************************)
WorkbenchSound == WorkbenchTypeOK /\ GuardsHold /\ InspectorFollows

(***************************************************************************)
(* The local account can be unlocked and its revocations stand, and the    *)
(* private dashboard serves nobody else (LocalAccount, Dashboard).         *)
(***************************************************************************)
DashboardSound == DashboardTypeOK /\ PrivateServed /\ AccountSound

(***************************************************************************)
(* A child runs with one source of variables (ScopedRun).                  *)
(***************************************************************************)
RunsSound == RunTypeOK /\ RunsOneSource

(***************************************************************************)
(* A sealed secret stays openable (Keystore).                              *)
(***************************************************************************)
KeystoreSound == KeystoreTypeOK /\ SealedStaysOpenable
=============================================================================
