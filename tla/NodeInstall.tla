---------------------------- MODULE NodeInstall ----------------------------
(***************************************************************************)
(* One machine: `ciphervault update`, which replaces the CLI and its       *)
(* companion binaries by those of a signed release, and `ciphervault node`,*)
(* which sets up, starts and stops the operator daemon                     *)
(* (apps/cli/src/commands/update.rs, node.rs; the Unix variants).          *)
(* Commands run one at a time; each may be interrupted between two         *)
(* of its steps, a download may be damaged or belong to another release,   *)
(* and the daemon boots, dies and competes for its port on its own.        *)
(* Signatures of the historical format, which need two environment         *)
(* variables, are left out.                                                *)
(***************************************************************************)
EXTENDS Naturals, Sequences

CONSTANTS Versions,       \* releases, numbered in the order of is_newer_than
          FirstVersion,   \* the version installed at first
          Pids,           \* process numbers
          MaxCommands,    \* bound on commands
          MaxNodeFaults   \* bound on interruptions, deaths, reuses and port losses

ASSUME InstallAssumption ==
  Versions \subseteq Nat \ {0} /\ FirstVersion \in Versions /\ Pids \subseteq Nat \ {0}

VARIABLES
  bin,        \* installed binaries: name -> version of its content, 0 if damaged
  up,         \* the update command
  files,      \* the node folder, a backup of it, and its pid file (0: absent)
  procs,      \* process table
  port,       \* the process that holds the node's port, 0 if none
  cmd,        \* the node command
  commands, nodeFaults  \* counters

updateVars == <<bin, up>>
daemonVars == <<files, procs, port, cmd>>
nodeVars == <<bin, up, files, procs, port, cmd, commands, nodeFaults>>

\* COMPANION_BINARY_STEMS, in the order in which they are replaced.
Companions == <<"operator", "agent", "maintenance">>
Binaries == <<"cli">> \o Companions

\* The update command ends and says how.
Ended(said) == [stage |-> "idle", base |-> FirstVersion, tag |-> FirstVersion,
                got |-> <<>>, done |-> 0, said |-> said]

InstallInit ==
  /\ bin = [b \in {"cli", "operator", "agent", "maintenance"} |-> FirstVersion]
  /\ up = Ended("nothing")
  /\ files = [present |-> {}, backup |-> {}, pid |-> 0]
  /\ procs = [p \in Pids |-> "none"]
  /\ port = 0
  /\ cmd = [stage |-> "idle", pid |-> 0, said |-> "nothing", sure |-> TRUE]
  /\ commands = 0 /\ nodeFaults = 0

\* No command of the update or node family is under way.
Idle(c) == c.stage = "idle" /\ up.stage = "idle"
Command == commands < MaxCommands /\ commands' = commands + 1
NodeFault == nodeFaults < MaxNodeFaults /\ nodeFaults' = nodeFaults + 1

-----------------------------------------------------------------------------
(* ciphervault update *)

\* is_newer_than: a release is newer than another.
IsNewerThan(v, w) == v > w

\* check_for_updates and the choice of cmd_update: the feed names a release (the
\* latest, or the one selected); without a newer one only --reinstall goes on.
CheckForUpdates(tag, reinstall) ==
  /\ Idle(cmd)
  /\ Command
  /\ up' = IF IsNewerThan(tag, bin["cli"]) \/ reinstall
           THEN [Ended("nothing") EXCEPT !.stage = "apply", !.base = bin["cli"], !.tag = tag]
           ELSE Ended("latest")
  /\ UNCHANGED <<bin, nodeFaults>> /\ UNCHANGED daemonVars

MayApplyAny(u) == TRUE

\* apply_update refuses a release older than the running binary.
MayApply(u) == ~IsNewerThan(u.base, u.tag)

\* Archive, checksums and signature are three downloads; each may turn out
\* damaged (0) or be the asset of another release.
Download(asset) ==
  /\ up.stage = "apply" /\ MayApply(up) /\ Len(up.got) < 3
  /\ up' = [up EXCEPT !.got = Append(@, asset)]
  /\ UNCHANGED <<bin, commands, nodeFaults>> /\ UNCHANGED daemonVars

\* The signature covers the tag and the checksum file it was made for.
SignatureHolds(u) == u.got[3] = u.tag /\ u.got[2] = u.got[3]

ChecksumListed(u) == u.got[2] = u.tag

\* The checksum file lists an archive under a name with the tag in it; the
\* archive must have the listed digest.
ChecksumHolds(u) == u.got[2] = u.tag /\ u.got[1] = u.got[2]

VerifyRelease ==
  /\ up.stage = "apply" /\ Len(up.got) = 3
  /\ SignatureHolds(up) /\ ChecksumHolds(up)
  /\ up' = [up EXCEPT !.stage = "install"]
  /\ UNCHANGED <<bin, commands, nodeFaults>> /\ UNCHANGED daemonVars

\* A refused downgrade, a failed download or a failed check ends the command.
UpdateFails ==
  /\ up.stage = "apply"
  /\ \/ ~MayApply(up)
     \/ Len(up.got) = 3 /\ ~(SignatureHolds(up) /\ ChecksumHolds(up))
  /\ up' = Ended("failed")
  /\ UNCHANGED <<bin, commands, nodeFaults>> /\ UNCHANGED daemonVars

\* Each binary is copied beside the installed one and renamed over it, the CLI
\* first.
InstallOne ==
  /\ up.stage = "install" /\ up.done < Len(Binaries)
  /\ bin' = [bin EXCEPT ![Binaries[up.done + 1]] = up.got[1]]
  /\ up' = [up EXCEPT !.done = @ + 1]
  /\ UNCHANGED <<commands, nodeFaults>> /\ UNCHANGED daemonVars

UpdateInstalled ==
  /\ up.stage = "install" /\ up.done = Len(Binaries)
  /\ up' = Ended("installed")
  /\ UNCHANGED <<bin, commands, nodeFaults>> /\ UNCHANGED daemonVars

\* A copy or rename fails, or the command is killed, between two binaries.
UpdateInterrupted ==
  /\ up.stage /= "idle"
  /\ NodeFault
  /\ up' = Ended("failed")
  /\ UNCHANGED <<bin, commands>> /\ UNCHANGED daemonVars

-----------------------------------------------------------------------------
(* ciphervault node *)

Ready == port /= 0
Own(p) == procs[p] \in {"booting", "serving"}

\* cmd_node_setup: token file, then node.json, then the identity; refused in a
\* folder that has a node.json.
NodeSetup ==
  /\ \/ /\ Idle(cmd) /\ "config" \notin files.present /\ ~Ready /\ Command
        /\ cmd' = [cmd EXCEPT !.stage = "token", !.said = "nothing"]
        /\ UNCHANGED files
     \/ /\ cmd.stage = "token"
        /\ files' = [files EXCEPT !.present = @ \cup {"token"}]
        /\ cmd' = [cmd EXCEPT !.stage = "config"]
        /\ UNCHANGED commands
     \/ /\ cmd.stage = "config"
        /\ files' = [files EXCEPT !.present = @ \cup {"config"}]
        /\ cmd' = [cmd EXCEPT !.stage = "identity"]
        /\ UNCHANGED commands
     \/ /\ cmd.stage = "identity"
        /\ files' = [files EXCEPT !.present = @ \cup {"key"}]
        /\ cmd' = [cmd EXCEPT !.stage = "idle", !.said = "set up"]
        /\ UNCHANGED commands
  /\ UNCHANGED <<procs, port, nodeFaults>> /\ UNCHANGED updateVars

\* cmd_node_backup copies the identity files that are there.
NodeBackup ==
  /\ Idle(cmd) /\ "config" \in files.present /\ files.backup /= files.present
  /\ Command
  /\ files' = [files EXCEPT !.backup = files.present]
  /\ UNCHANGED <<procs, port, cmd, nodeFaults>> /\ UNCHANGED updateVars

\* start_node up to the spawn: a node that answers on the port is left alone if
\* it is this one, or too old to say, and refused if it is another; otherwise the
\* operator binary is run.
NodeStart ==
  /\ Idle(cmd) /\ "config" \in files.present /\ Command
  /\ IF Ready
     THEN /\ \E named \in BOOLEAN : cmd' = [cmd EXCEPT !.said =
               IF named /\ procs[port] = "other" THEN "other node" ELSE "running"]
          /\ UNCHANGED procs
     ELSE \E p \in Pids :
            /\ "token" \in files.present
            /\ procs[p] = "none"
            /\ procs' = [procs EXCEPT ![p] = "booting"]
            /\ cmd' = [cmd EXCEPT !.stage = "spawned", !.pid = p, !.said = "nothing"]
  /\ UNCHANGED <<files, port, nodeFaults>> /\ UNCHANGED updateVars

RecordPidSkipped ==
  /\ cmd.stage = "spawned"
  /\ cmd' = [cmd EXCEPT !.stage = "waiting"]
  /\ UNCHANGED <<files, procs, port, commands, nodeFaults>> /\ UNCHANGED updateVars

RecordPid ==
  /\ cmd.stage = "spawned"
  /\ files' = [files EXCEPT !.pid = cmd.pid]
  /\ cmd' = [cmd EXCEPT !.stage = "waiting"]
  /\ UNCHANGED <<procs, port, commands, nodeFaults>> /\ UNCHANGED updateVars

\* wait_for_ready: whoever answers on the port; or the wait times out, and the
\* daemon may still come up later.
WaitForReady ==
  /\ cmd.stage = "waiting"
  /\ \/ /\ Ready
        /\ cmd' = [cmd EXCEPT !.stage = "idle", !.said = "running",
                              !.sure = @ /\ port = cmd.pid]
        /\ UNCHANGED nodeFaults
     \/ /\ ~Ready /\ NodeFault
        /\ cmd' = [cmd EXCEPT !.stage = "idle", !.said = "timed out",
                              !.sure = FALSE]
  /\ UNCHANGED <<files, procs, port, commands>> /\ UNCHANGED updateVars

\* pid_is_our_operator: the recorded process runs an operator binary.
PidIsOurOperator(p) == p \in Pids /\ procs[p] \notin {"none", "foreign"}

\* cmd_node_stop: the recorded process is killed if it is an operator; then the
\* pid file goes, and the node counts as stopped if the port is silent.
NodeStop ==
  /\ \/ /\ Idle(cmd) /\ "config" \in files.present /\ Command
        /\ IF PidIsOurOperator(files.pid)
           THEN procs' = [procs EXCEPT ![files.pid] = "dying"]
           ELSE UNCHANGED procs
        /\ cmd' = [cmd EXCEPT !.stage = "stopping", !.said = "nothing"]
        /\ UNCHANGED files
     \/ /\ cmd.stage = "stopping"
        /\ files' = [files EXCEPT !.pid = 0]
        /\ cmd' = [cmd EXCEPT !.stage = "idle",
                              !.said = IF Ready THEN "still responding" ELSE "stopped"]
        /\ UNCHANGED <<procs, commands>>
  /\ UNCHANGED <<port, nodeFaults>> /\ UNCHANGED updateVars

\* The command is killed; a daemon it spawned lives on.
NodeInterrupted ==
  /\ cmd.stage /= "idle"
  /\ NodeFault
  /\ cmd' = [cmd EXCEPT !.stage = "idle", !.said = "nothing", 
                        !.sure = @ /\ cmd.stage \notin {"spawned", "waiting"}]
  /\ UNCHANGED <<files, procs, port, commands>> /\ UNCHANGED updateVars

\* The daemon binds its port, or finds it taken and exits.
DaemonBoots(p) ==
  /\ procs[p] = "booting"
  /\ IF port = 0
     THEN port' = p /\ procs' = [procs EXCEPT ![p] = "serving"]
     ELSE procs' = [procs EXCEPT ![p] = "none"] /\ UNCHANGED port
  /\ UNCHANGED <<files, cmd, commands, nodeFaults>> /\ UNCHANGED updateVars

\* A killed daemon exits in its own time; any daemon may die.
ProcessExits(p) ==
  /\ procs[p] /= "none"
  /\ IF procs[p] = "dying" THEN UNCHANGED nodeFaults ELSE NodeFault
  /\ procs' = [procs EXCEPT ![p] = "none"]
  /\ port' = IF port = p THEN 0 ELSE port
  /\ UNCHANGED <<files, cmd, commands>> /\ UNCHANGED updateVars

\* A process number is taken by something else: any program, or the daemon of
\* another node folder, which may also take the port.
NumberReused(p, what, binds) ==
  /\ procs[p] = "none" /\ NodeFault
  /\ binds => what = "other" /\ port = 0
  /\ procs' = [procs EXCEPT ![p] = what]
  /\ port' = IF binds THEN p ELSE port
  /\ UNCHANGED <<files, cmd, commands>> /\ UNCHANGED updateVars

InstallNext ==
  \/ \E v \in Versions, r \in BOOLEAN : CheckForUpdates(v, r)
  \/ \E a \in Versions \cup {0} : Download(a)
  \/ VerifyRelease \/ UpdateFails \/ InstallOne \/ UpdateInstalled \/ UpdateInterrupted
  \/ NodeSetup \/ NodeBackup \/ NodeStart \/ RecordPid \/ WaitForReady \/ NodeStop
  \/ NodeInterrupted
  \/ \E p \in Pids : DaemonBoots(p) \/ ProcessExits(p)
  \/ \E p \in Pids, what \in {"foreign", "other"}, binds \in BOOLEAN :
       NumberReused(p, what, binds)

-----------------------------------------------------------------------------
\* Types of the installation, the node folder and the process table.
InstallTypeOK ==
  /\ \A b \in DOMAIN bin : bin[b] \in Versions
  /\ up.stage \in {"idle", "apply", "install"} /\ up.done \in 0..Len(Binaries)
  /\ files.present \subseteq {"token", "config", "key"} /\ files.backup \subseteq files.present
  /\ \A p \in Pids : procs[p] \in {"none", "booting", "serving", "dying", "foreign", "other"}
  /\ port \in Pids \cup {0} /\ (port /= 0 => procs[port] \notin {"none", "foreign", "booting"})

\* However an update is interrupted and whatever the feed serves (apply_update):
\* a binary is only ever replaced by the verified content of a release that is
\* not older, and no companion gets ahead of the CLI.
InstallAdvances ==
  [][\A b \in DOMAIN bin : bin'[b] >= bin[b] /\ bin'[b] <= bin'["cli"]]_bin

\* A node folder stays manageable (cmd_node_setup, start_node, cmd_node_stop): a
\* folder that counts as set up has the token a start needs, and as long as every
\* start was answered by the daemon it had spawned, the daemon that runs is the
\* recorded one and a node reported as stopped is stopped.
NodeManageable ==
  /\ "config" \in files.present => "token" \in files.present
  /\ (cmd.sure /\ Idle(cmd)) => \A p \in Pids : Own(p) => files.pid = p /\ cmd.said /= "stopped"
=============================================================================
