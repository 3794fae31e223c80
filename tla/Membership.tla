----------------------------- MODULE Membership -----------------------------
(***************************************************************************)
(* The peers of one operator: ticket joins, announcements by the control   *)
(* plane, refreshes, heartbeats and graduation (services/operator/src/     *)
(* state.rs).  Four files are written one after the other by a join; a     *)
(* failing write undoes the ones before it.  A routing entry is the key    *)
(* that announced it and when.                                             *)
(***************************************************************************)
EXTENDS Naturals, FiniteSets

CONSTANTS
    Joiners,            \* requests served at the same time
    Ids, NodeKeys,      \* operator ids and node keys
    Tickets,            \* invites of the fleet: node key and expiry
    NoKey,
    MaxPeers,           \* MAX_ACTIVE_PEERS
    RouteTTL, Probation, Grace,
    Overlap,            \* whether requests for one operator id overlap
    MaxHour,            \* bound on the clock
    MaxCalls,           \* bound on requests
    MemberFaults        \* bound on failed writes and crashes

ASSUME MembershipAssumption ==
    /\ \A t \in Tickets : t.key \in NodeKeys /\ t.expires \in Nat
    /\ NoKey \notin NodeKeys
    /\ Overlap \in BOOLEAN
    /\ MaxPeers \in Nat /\ RouteTTL \in Nat /\ Probation \in Nat /\ Grace \in Nat
    /\ MaxHour \in Nat /\ MaxCalls \in Nat /\ MemberFaults \in Nat

VARIABLES
    route, routeFile,       \* peer_routing_table, peers.json
    member, memberFile,     \* peer_membership, peer-membership.json
    spentT, spentTFile,     \* spent_invites, join-invites.json
    memberLog, logFile,           \* admissions, join-admissions.json (as a set)
    joiner,                 \* the request each worker is in
    hour, calls, memberFaults,
    admitted                \* history: ids whose join or announcement was acknowledged

membershipVars == <<route, routeFile, member, memberFile, spentT, spentTFile, memberLog, logFile,
                    joiner, hour, calls, memberFaults, admitted>>

Hours == 0..MaxHour
Route == [key : NodeKeys \cup {NoKey}, at : Hours]
NoRoute == [key |-> NoKey, at |-> 0]
MemberRecord == [status : {"none", "probation", "full"}, joined : Hours, seen : Hours]
NoRecord == [status |-> "none", joined |-> 0, seen |-> 0]
Admission == [ticket : Tickets, id : Ids]
NoJoin == [pc |-> "idle"]
JoinJob == [pc : {"spend", "read"}, id : Ids, ticket : Tickets, known : BOOLEAN]
WriteJob == [pc : {"insert", "mark", "log", "undoRoute", "undoMember", "unspend"},
             id : Ids, ticket : Tickets, oldRoute : Route, oldMember : MemberRecord, logged : BOOLEAN]
AnnounceJob == [pc : {"announceMark", "announceUndo"}, id : Ids, oldRoute : Route]
RefreshJob == [pc : {"refreshNote"}, id : Ids]
MemberJob == {NoJoin} \cup JoinJob \cup WriteJob \cup AnnounceJob \cup RefreshJob

MembershipTypeOK ==
    /\ route \in [Ids -> Route] /\ routeFile \in [Ids -> Route]
    /\ member \in [Ids -> MemberRecord] /\ memberFile \in [Ids -> MemberRecord]
    /\ spentT \subseteq Tickets /\ spentTFile \subseteq Tickets
    /\ memberLog \subseteq Admission /\ logFile \subseteq Admission
    /\ joiner \in [Joiners -> MemberJob]
    /\ hour \in Hours /\ calls \in 0..MaxCalls /\ memberFaults \in 0..MemberFaults
    /\ admitted \subseteq Ids

MembershipInit ==
    /\ route = [i \in Ids |-> NoRoute] /\ routeFile = route
    /\ member = [i \in Ids |-> NoRecord] /\ memberFile = member
    /\ spentT = {} /\ spentTFile = {} /\ memberLog = {} /\ logFile = {}
    /\ joiner = [j \in Joiners |-> NoJoin]
    /\ hour = 0 /\ calls = 0 /\ memberFaults = 0 /\ admitted = {}

Step(j, job) == joiner' = [joiner EXCEPT ![j] = job]
Goto(j, pc) == joiner' = [joiner EXCEPT ![j].pc = pc]
Finish(j) == Step(j, NoJoin)

InProgress(id) == \E k \in Joiners : joiner[k] # NoJoin /\ joiner[k].id = id

Begin(j, id) ==
    /\ joiner[j] = NoJoin /\ calls < MaxCalls /\ calls' = calls + 1
    /\ Overlap \/ ~InProgress(id)

\* A file is written, or the write fails, before or behind its rename.
Saved(file, new) == file' = new /\ UNCHANGED memberFaults
SaveFails(file, new) ==
    /\ memberFaults < MemberFaults /\ memberFaults' = memberFaults + 1
    /\ file' \in {file, new}

Fresh(r) == r.key # NoKey /\ hour - r.at < RouteTTL
LiveRoutes == [i \in Ids |-> IF Fresh(route[i]) THEN route[i] ELSE NoRoute]
HasRoom(id) == Fresh(route[id]) \/ Cardinality({i \in Ids : Fresh(route[i])}) < MaxPeers

\* insert_peer, up to its write: stale entries go, then the new one comes in.
Inserted(id, key) == [LiveRoutes EXCEPT ![id] = [key |-> key, at |-> hour]]

-----------------------------------------------------------------------------
(* join_with_invite *)

\* The ticket is valid for the key of the descriptor.  Whether the id has a record is
\* read before the ledger of tickets is locked.
BeginJoin(j, id, t) ==
    /\ Begin(j, id) /\ hour <= t.expires
    /\ Step(j, [pc |-> "spend", id |-> id, ticket |-> t, known |-> member[id] # NoRecord])
    /\ UNCHANGED <<route, routeFile, member, memberFile, spentT, spentTFile, memberLog, logFile, hour,
                   memberFaults, admitted>>

UnexpiredTickets == {t \in spentT : t.expires > hour}

\* spend_invite: a spent ticket works again only for an id with a record.
SpendInvite(j) ==
    LET job == joiner[j]
    IN  /\ job.pc = "spend"
        /\ \/ /\ job.ticket \in UnexpiredTickets
              /\ spentT' = UnexpiredTickets
              /\ IF job.known THEN Goto(j, "read") ELSE Finish(j)
              /\ UNCHANGED <<spentTFile, memberFaults>>
           \/ /\ job.ticket \notin UnexpiredTickets
              /\ \/ /\ spentT' = UnexpiredTickets \cup {job.ticket}
                    /\ Saved(spentTFile, spentT') /\ Goto(j, "read")
                 \/ /\ SaveFails(spentTFile, UnexpiredTickets \cup {job.ticket})
                    /\ spentT' = UnexpiredTickets /\ Finish(j)
        /\ UNCHANGED <<route, routeFile, member, memberFile, memberLog, logFile, hour, calls, admitted>>

\* What a rollback will put back.
ReadPrevious(j) ==
    LET job == joiner[j]
    IN  /\ job.pc = "read"
        /\ Step(j, [pc |-> "insert", id |-> job.id, ticket |-> job.ticket,
                    oldRoute |-> route[job.id], oldMember |-> member[job.id], logged |-> FALSE])
        /\ UNCHANGED <<route, routeFile, member, memberFile, spentT, spentTFile, memberLog, logFile,
                       hour, calls, memberFaults, admitted>>

InsertPeer(j) ==
    LET job == joiner[j]
        new == Inserted(job.id, job.ticket.key)
    IN  /\ job.pc = "insert"
        /\ \/ /\ HasRoom(job.id) /\ route' = new /\ Saved(routeFile, new) /\ Goto(j, "mark")
           \/ /\ HasRoom(job.id) /\ SaveFails(routeFile, new)
              /\ route' = [new EXCEPT ![job.id] = LiveRoutes[job.id]] /\ Goto(j, "unspend")
           \/ /\ ~HasRoom(job.id) /\ route' = LiveRoutes /\ Goto(j, "unspend")
              /\ UNCHANGED <<routeFile, memberFaults>>
        /\ UNCHANGED <<member, memberFile, spentT, spentTFile, memberLog, logFile, hour, calls, admitted>>

\* Mutant: a known member starts its probation again.
MarkedProbationResets(id) == [status |-> "probation", joined |-> hour, seen |-> hour]

\* mark_probation_member: standing and time served of a known member are kept.
MarkedProbation(id) ==
    IF member[id] = NoRecord THEN [status |-> "probation", joined |-> hour, seen |-> hour]
                             ELSE [member[id] EXCEPT !.seen = hour]

MarkProbation(j) ==
    LET job == joiner[j]
        new == [member EXCEPT ![job.id] = MarkedProbation(job.id)]
    IN  /\ job.pc = "mark"
        /\ \/ member' = new /\ Saved(memberFile, new) /\ Goto(j, "log")
           \/ SaveFails(memberFile, new) /\ Goto(j, "undoRoute") /\ UNCHANGED member
        /\ UNCHANGED <<route, routeFile, spentT, spentTFile, memberLog, logFile, hour, calls, admitted>>

\* log_admission: without its evidence the admission is void.
LogAdmission(j) ==
    LET job == joiner[j]
        new == memberLog \cup {[ticket |-> job.ticket, id |-> job.id]}
    IN  /\ job.pc = "log"
        /\ \/ /\ memberLog' = new /\ Saved(logFile, new) /\ Finish(j)
              /\ admitted' = admitted \cup {job.id}
           \/ /\ SaveFails(logFile, new) /\ UNCHANGED <<memberLog, admitted>>
              /\ Step(j, [job EXCEPT !.pc = "undoRoute", !.logged = TRUE])
        /\ UNCHANGED <<route, routeFile, member, memberFile, spentT, spentTFile, hour, calls>>

\* rollback_peer_insert: the write is best effort.
UndoRoute(j) ==
    LET job == joiner[j]
        new == [route EXCEPT ![job.id] = job.oldRoute]
    IN  /\ job.pc = "undoRoute"
        /\ route' = new
        /\ Saved(routeFile, new) \/ SaveFails(routeFile, new)
        /\ Goto(j, IF job.logged THEN "undoMember" ELSE "unspend")
        /\ UNCHANGED <<member, memberFile, spentT, spentTFile, memberLog, logFile, hour, calls, admitted>>

\* Mutant: restore_membership forgets the record the joiner had before.
UndoMemberForgets(j) ==
    LET new == [member EXCEPT ![joiner[j].id] = NoRecord]
    IN  /\ joiner[j].pc = "undoMember"
        /\ member' = new
        /\ Saved(memberFile, new)
        /\ Goto(j, "unspend")
        /\ UNCHANGED <<route, routeFile, spentT, spentTFile, memberLog, logFile, hour, calls, admitted>>

\* restore_membership
UndoMember(j) ==
    LET job == joiner[j]
        new == [member EXCEPT ![job.id] = job.oldMember]
    IN  /\ job.pc = "undoMember"
        /\ member' = new
        /\ Saved(memberFile, new) \/ SaveFails(memberFile, new)
        /\ Goto(j, "unspend")
        /\ UNCHANGED <<route, routeFile, spentT, spentTFile, memberLog, logFile, hour, calls, admitted>>

UnspendInvite(j) ==
    LET new == spentT \ {joiner[j].ticket}
    IN  /\ joiner[j].pc = "unspend"
        /\ spentT' = new
        /\ Saved(spentTFile, new) \/ SaveFails(spentTFile, new)
        /\ Finish(j)
        /\ UNCHANGED <<route, routeFile, member, memberFile, memberLog, logFile, hour, calls, admitted>>

-----------------------------------------------------------------------------
(* register_peer, refresh_peer_join, heartbeats and graduation *)

BeginAnnounce(j, id, key) ==
    LET new == Inserted(id, key)
    IN  /\ Begin(j, id)
        /\ \/ /\ HasRoom(id) /\ route' = new /\ Saved(routeFile, new)
              /\ Step(j, [pc |-> "announceMark", id |-> id, oldRoute |-> route[id]])
           \/ /\ HasRoom(id) /\ SaveFails(routeFile, new)
              /\ route' = [new EXCEPT ![id] = LiveRoutes[id]] /\ UNCHANGED joiner
           \/ /\ ~HasRoom(id) /\ route' = LiveRoutes /\ UNCHANGED <<routeFile, memberFaults, joiner>>
        /\ UNCHANGED <<member, memberFile, spentT, spentTFile, memberLog, logFile, hour, admitted>>

\* mark_full_member keeps the time a member joined.
FullMember(id) ==
    [status |-> "full", seen |-> hour,
     joined |-> IF member[id] = NoRecord THEN hour ELSE member[id].joined]

AnnounceMark(j) ==
    LET id == joiner[j].id
        new == [member EXCEPT ![id] = FullMember(id)]
    IN  /\ joiner[j].pc = "announceMark"
        /\ \/ /\ member' = new /\ Saved(memberFile, new) /\ Finish(j)
              /\ admitted' = admitted \cup {id}
           \/ SaveFails(memberFile, new) /\ Goto(j, "announceUndo") /\ UNCHANGED <<member, admitted>>
        /\ UNCHANGED <<route, routeFile, spentT, spentTFile, memberLog, logFile, hour, calls>>

AnnounceUndo(j) ==
    LET new == [route EXCEPT ![joiner[j].id] = joiner[j].oldRoute]
    IN  /\ joiner[j].pc = "announceUndo"
        /\ route' = new
        /\ Saved(routeFile, new) \/ SaveFails(routeFile, new)
        /\ Finish(j)
        /\ UNCHANGED <<member, memberFile, spentT, spentTFile, memberLog, logFile, hour, calls, admitted>>

\* A refresh extends the entry of its own key only.
BeginRefresh(j, id, key) ==
    LET new == Inserted(id, key)
    IN  /\ Begin(j, id)
        /\ route[id].key = key
        /\ \/ /\ HasRoom(id) /\ route' = new /\ Saved(routeFile, new)
              /\ Step(j, [pc |-> "refreshNote", id |-> id])
           \/ /\ HasRoom(id) /\ SaveFails(routeFile, new)
              /\ route' = [new EXCEPT ![id] = LiveRoutes[id]] /\ UNCHANGED joiner
           \/ /\ ~HasRoom(id) /\ route' = LiveRoutes /\ UNCHANGED <<routeFile, memberFaults, joiner>>
        /\ UNCHANGED <<member, memberFile, spentT, spentTFile, memberLog, logFile, hour, admitted>>

\* Mutant: time served counts from the last proof of life.
ServedSinceSeen(r) == r.status = "probation" /\ hour - r.seen >= Probation

Served(r) == r.status = "probation" /\ hour - r.joined >= Probation
Alive(r) == [r EXCEPT !.seen = hour, !.status = IF Served(r) THEN "full" ELSE @]

\* note_peer_liveness
RefreshNote(j) ==
    LET id == joiner[j].id
        new == [member EXCEPT ![id] = Alive(@)]
    IN  /\ joiner[j].pc = "refreshNote"
        /\ Finish(j)
        /\ \/ member[id] = NoRecord /\ UNCHANGED <<member, memberFile, memberFaults>>
           \/ member[id] # NoRecord /\ member' = new /\ Saved(memberFile, new)
           \/ member[id] # NoRecord /\ SaveFails(memberFile, new) /\ UNCHANGED member
        /\ UNCHANGED <<route, routeFile, spentT, spentTFile, memberLog, logFile, hour, calls, admitted>>

\* note_peer_heartbeat writes the file only when the peer graduates.
Heartbeat(id) ==
    LET new == [member EXCEPT ![id] = Alive(@)]
    IN  /\ member[id] # NoRecord /\ member[id].seen # hour
        /\ \/ ~Served(member[id]) /\ member' = new /\ UNCHANGED <<memberFile, memberFaults>>
           \/ Served(member[id]) /\ member' = new /\ Saved(memberFile, new)
           \/ /\ Served(member[id]) /\ SaveFails(memberFile, new)
              /\ member' = [member EXCEPT ![id].seen = hour]
        /\ UNCHANGED <<route, routeFile, spentT, spentTFile, memberLog, logFile, joiner, hour, calls,
                       admitted>>

\* graduate_peer, the administrator's override.
GraduatePeer(id) ==
    LET new == [member EXCEPT ![id] = FullMember(id)]
    IN  /\ calls < MaxCalls /\ calls' = calls + 1
        /\ Overlap \/ ~InProgress(id)
        /\ route[id] # NoRoute \/ member[id] # NoRecord
        /\ \/ member' = new /\ Saved(memberFile, new)
           \/ SaveFails(memberFile, new) /\ UNCHANGED member
        /\ UNCHANGED <<route, routeFile, spentT, spentTFile, memberLog, logFile, joiner, hour, admitted>>

\* membership_snapshot graduates who has served and was seen lately, then drops stale routes.
MembershipSnapshot ==
    LET ready == {i \in Ids : Served(member[i]) /\ hour - member[i].seen <= Grace}
        new == [i \in Ids |-> IF i \in ready THEN [member[i] EXCEPT !.status = "full"] ELSE member[i]]
    IN  /\ ready # {} \/ LiveRoutes # route
        /\ \/ member' = new /\ (IF ready = {} THEN UNCHANGED <<memberFile, memberFaults>>
                                              ELSE Saved(memberFile, new))
           \/ ready # {} /\ SaveFails(memberFile, new) /\ UNCHANGED member
        /\ route' = LiveRoutes
        /\ UNCHANGED <<routeFile, spentT, spentTFile, memberLog, logFile, joiner, hour, calls, admitted>>

-----------------------------------------------------------------------------
(* The environment *)

\* Restart: stale routes and expired tickets are not loaded.
MembershipCrash ==
    /\ memberFaults < MemberFaults /\ memberFaults' = memberFaults + 1
    /\ route' = [i \in Ids |-> IF Fresh(routeFile[i]) THEN routeFile[i] ELSE NoRoute]
    /\ member' = memberFile
    /\ spentT' = {t \in spentTFile : t.expires > hour}
    /\ memberLog' = logFile
    /\ joiner' = [j \in Joiners |-> NoJoin]
    /\ UNCHANGED <<routeFile, memberFile, spentTFile, logFile, hour, calls, admitted>>

NextHour ==
    /\ hour < MaxHour /\ hour' = hour + 1
    /\ UNCHANGED <<route, routeFile, member, memberFile, spentT, spentTFile, memberLog, logFile, joiner,
                   calls, memberFaults, admitted>>

MembershipNext ==
    \/ \E j \in Joiners :
          \/ \E id \in Ids, t \in Tickets : BeginJoin(j, id, t)
          \/ SpendInvite(j) \/ ReadPrevious(j) \/ InsertPeer(j) \/ MarkProbation(j)
          \/ LogAdmission(j) \/ UndoRoute(j) \/ UndoMember(j) \/ UnspendInvite(j)
          \/ \E id \in Ids, k \in NodeKeys : BeginAnnounce(j, id, k) \/ BeginRefresh(j, id, k)
          \/ AnnounceMark(j) \/ AnnounceUndo(j) \/ RefreshNote(j)
    \/ \E id \in Ids : Heartbeat(id) \/ GraduatePeer(id)
    \/ MembershipSnapshot \/ MembershipCrash \/ NextHour

MembershipSpec == MembershipInit /\ [][MembershipNext]_membershipVars

-----------------------------------------------------------------------------
(* Properties *)

\* An acknowledged member keeps its record, in memory and on disk, through the failed
\* joins, announcements and refreshes of itself and of others and through restarts.
AdmittedStay == \A i \in admitted : member[i] # NoRecord /\ memberFile[i] # NoRecord

\* What a step leaves an acknowledged member of its standing.
KeptStep ==
    \A i \in admitted : member[i] # NoRecord =>
        /\ member'[i].joined = member[i].joined
        /\ member[i].status = "full" /\ memberFile[i].status = "full" =>
              member'[i].status = "full" \/ Served(member'[i])

\* The time a member has served is not lost or gained by joining again, by a rollback or
\* by a restart; and a full member on disk falls back to probation (by the rollback of a
\* join during which it graduated) only with its time served, so that the next
\* heartbeat makes it a full member again.
StandingKept == [][KeptStep]_membershipVars
=============================================================================
