------------------------------ MODULE Sessions ------------------------------
(***************************************************************************)
(* Identities, login challenges and sessions of one operator               *)
(* (services/operator/src/state.rs): concurrent requests, each a sequence  *)
(* of critical sections, over maps in memory and their files.  A file is   *)
(* written under the locks of its maps, so it is one step; a write fails   *)
(* before the rename or after it, when only the directory sync failed.     *)
(***************************************************************************)
EXTENDS Naturals, FiniteSets

CONSTANTS
    Workers,            \* requests served at the same time
    Identities,         \* pairs of a vault and a device key
    SessionDevices,            \* account devices an identity may be bound to
    NoDevice,           \* no binding
    Strict,             \* security.require_enrollment
    MaxChallenges,      \* MAX_ACTIVE_CHALLENGES
    MaxSessions,        \* MAX_ACTIVE_SESSIONS
    ChallengeTTL, SessionTTL,
    MaxTime,            \* bound on the clock
    MaxIssued,          \* bound on challenges issued
    MaxAdmin,           \* bound on enrolments and revocations
    SessionFaults       \* bound on failed writes and crashes

ASSUME SessionsAssumption ==
    /\ NoDevice \notin SessionDevices
    /\ Strict \in BOOLEAN
    /\ MaxChallenges \in Nat \ {0} /\ MaxSessions \in Nat \ {0}
    /\ ChallengeTTL \in Nat \ {0} /\ SessionTTL \in Nat \ {0}
    /\ MaxTime \in Nat /\ MaxIssued \in Nat /\ MaxAdmin \in Nat
    /\ SessionFaults \in Nat

VARIABLES
    enrolled, enrolledFile,         \* enrolled_identities and identities.json
    challenges, challengesFile,     \* challenges and challenges.json
    sessions, sessionsFile,         \* the four session maps and sessions.json
    worker,                         \* the request each worker is serving
    clock, issued, adminCalls, sessionFaults,
    answered,   \* history: sessions created, with their challenge
    granted,    \* history: sessions whose token reached the client
    ended,      \* history: sessions somebody tried to revoke, or evicted
    denied      \* history: identities whose last acknowledged change is a revocation

sessionsVars == <<enrolled, enrolledFile, challenges, challengesFile, sessions,
                  sessionsFile, worker, clock, issued, adminCalls, sessionFaults,
                  answered, granted, ended, denied>>

Bindings == SessionDevices \cup {NoDevice}
Identity == [status : {"absent", "active", "revoked"}, write : BOOLEAN, device : Bindings]
Challenge == [id : 1..MaxIssued, who : Identities, device : Bindings,
              expires : 0..(MaxTime + ChallengeTTL)]
Session == [id : 1..MaxIssued, who : Identities, device : Bindings,
            expires : 0..(MaxTime + SessionTTL)]
Idle == [pc |-> "idle"]
Job == {Idle}
       \cup [pc : {"enrollPersist"}, who : Identities]
       \cup [pc : {"revokePersist", "dropSessions"}, who : Identities]
       \cup [pc : {"dropPersist", "endPersist"}, who : Identities, removed : SUBSET Session]
       \cup [pc : {"issuePersist", "removePersist", "check", "insert"},
             challenge : Challenge, start : 0..MaxTime]
       \cup [pc : {"insertPersist"}, session : Session]

SessionsTypeOK ==
    /\ enrolled \in [Identities -> Identity]
    /\ enrolledFile \in [Identities -> Identity]
    /\ challenges \subseteq Challenge /\ challengesFile \subseteq Challenge
    /\ sessions \subseteq Session /\ sessionsFile \subseteq Session
    /\ worker \in [Workers -> Job]
    /\ clock \in 0..MaxTime /\ issued \in 0..MaxIssued
    /\ adminCalls \in 0..MaxAdmin /\ sessionFaults \in 0..SessionFaults
    /\ answered \subseteq Session /\ granted \subseteq answered
    /\ ended \subseteq Session /\ denied \subseteq Identities

SessionsInit ==
    /\ enrolled = [i \in Identities |-> [status |-> "absent", write |-> FALSE, device |-> NoDevice]]
    /\ enrolledFile = enrolled
    /\ challenges = {} /\ challengesFile = {} /\ sessions = {} /\ sessionsFile = {}
    /\ worker = [w \in Workers |-> Idle]
    /\ clock = 0 /\ issued = 0 /\ adminCalls = 0 /\ sessionFaults = 0
    /\ answered = {} /\ granted = {} /\ ended = {} /\ denied = {}

Serve(w, job) == worker' = [worker EXCEPT ![w] = job]
Done(w) == Serve(w, Idle)

\* A write of a file: it succeeds, fails before the rename, or fails behind it.
Write(file, new, ok) ==
    \/ ok /\ file' = new /\ UNCHANGED sessionFaults
    \/ /\ ~ok /\ sessionFaults < SessionFaults
       /\ sessionFaults' = sessionFaults + 1
       /\ file' \in {file, new}

\* identity_lock is held from the update of enrolled_identities to the end of the call.
IdentityLockFree ==
    \A w \in Workers : worker[w].pc \notin
        {"enrollPersist", "revokePersist", "dropSessions", "dropPersist"}

\* An enrolment with a binding needs the same binding from the caller.
IsEnrolled(who, device) ==
    /\ enrolled[who].status = "active"
    /\ enrolled[who].device \in {NoDevice, device}

-----------------------------------------------------------------------------
(* Administration *)

\* Enrolment revives a revoked identity; without a binding it keeps the old one.
EnrollIdentity(w, who, write, device) ==
    /\ worker[w] = Idle /\ IdentityLockFree /\ adminCalls < MaxAdmin
    /\ enrolled' = [enrolled EXCEPT ![who] =
            [status |-> "active", write |-> write,
             device |-> IF device = NoDevice THEN @.device ELSE device]]
    /\ Serve(w, [pc |-> "enrollPersist", who |-> who])
    /\ adminCalls' = adminCalls + 1
    /\ denied' = denied \ {who}
    /\ UNCHANGED <<enrolledFile, challenges, challengesFile, sessions, sessionsFile, clock,
                   issued, sessionFaults, answered, granted, ended>>

\* A failed write is reported, and the enrolment stays in memory.
EnrollPersist(w) ==
    /\ worker[w].pc = "enrollPersist"
    /\ \E ok \in BOOLEAN : Write(enrolledFile, enrolled, ok)
    /\ Done(w)
    /\ UNCHANGED <<enrolled, challenges, challengesFile, sessions, sessionsFile, clock,
                   issued, adminCalls, answered, granted, ended, denied>>

\* Ok(false) when there is no active enrolment: no step.
RevokeIdentity(w, who) ==
    /\ worker[w] = Idle /\ IdentityLockFree /\ adminCalls < MaxAdmin
    /\ enrolled[who].status = "active"
    /\ enrolled' = [enrolled EXCEPT ![who].status = "revoked"]
    /\ Serve(w, [pc |-> "revokePersist", who |-> who])
    /\ adminCalls' = adminCalls + 1
    /\ UNCHANGED <<enrolledFile, challenges, challengesFile, sessions, sessionsFile, clock,
                   issued, sessionFaults, answered, granted, ended, denied>>

\* Mutant: the revocation is not written.
RevokePersistSkipped(w) ==
    /\ worker[w].pc = "revokePersist"
    /\ Serve(w, [worker[w] EXCEPT !.pc = "dropSessions"])
    /\ UNCHANGED <<enrolled, enrolledFile, sessionFaults, challenges, challengesFile, sessions,
                   sessionsFile, clock, issued, adminCalls, answered, granted, ended, denied>>

RevokePersist(w) ==
    /\ worker[w].pc = "revokePersist"
    /\ \/ /\ Write(enrolledFile, enrolled, TRUE)
          /\ Serve(w, [worker[w] EXCEPT !.pc = "dropSessions"])
          /\ UNCHANGED enrolled
       \/ /\ Write(enrolledFile, enrolled, FALSE)
          /\ enrolled' = [enrolled EXCEPT ![worker[w].who].status = "active"]
          /\ Done(w)
    /\ UNCHANGED <<challenges, challengesFile, sessions, sessionsFile, clock, issued,
                   adminCalls, answered, granted, ended, denied>>

\* All sessions of the device key go, whatever their vault.
DropSessions(w) ==
    LET gone == {s \in sessions : s.who.key = worker[w].who.key}
    IN  /\ worker[w].pc = "dropSessions"
        /\ sessions' = sessions \ gone
        /\ ended' = ended \cup gone
        /\ IF gone = {}
             THEN Done(w) /\ denied' = denied \cup {worker[w].who}
             ELSE /\ Serve(w, [pc |-> "dropPersist", who |-> worker[w].who, removed |-> gone])
                  /\ UNCHANGED denied
        /\ UNCHANGED <<enrolled, enrolledFile, challenges, challengesFile, sessionsFile, clock,
                       issued, adminCalls, sessionFaults, answered, granted>>

\* persist_sessions behind revoke_identity and revoke_session: a failure puts the
\* removed sessions back.
PersistRemoval(w) ==
    /\ worker[w].pc \in {"dropPersist", "endPersist"}
    /\ \/ /\ Write(sessionsFile, sessions, TRUE)
          /\ UNCHANGED sessions
          /\ denied' = IF worker[w].pc = "dropPersist" THEN denied \cup {worker[w].who} ELSE denied
       \/ /\ Write(sessionsFile, sessions, FALSE)
          /\ sessions' = sessions \cup worker[w].removed
          /\ UNCHANGED denied
    /\ Done(w)
    /\ UNCHANGED <<enrolled, enrolledFile, challenges, challengesFile, clock, issued,
                   adminCalls, answered, granted, ended>>

-----------------------------------------------------------------------------
(* Login *)

\* Expired challenges go first, then the oldest one if the map is full.
IssueChallenge(w, who, device) ==
    LET live == {c \in challenges : c.expires > clock}
        new == [id |-> issued + 1, who |-> who, device |-> device,
                expires |-> clock + ChallengeTTL]
    IN  /\ worker[w] = Idle /\ issued < MaxIssued
        /\ Strict => IsEnrolled(who, device)
        /\ \/ Cardinality(live) < MaxChallenges /\ challenges' = live \cup {new}
           \/ /\ Cardinality(live) >= MaxChallenges
              /\ \E old \in live : /\ \A c \in live : old.expires <= c.expires
                                   /\ challenges' = (live \ {old}) \cup {new}
        /\ issued' = issued + 1
        /\ Serve(w, [pc |-> "issuePersist", challenge |-> new, start |-> clock])
        /\ UNCHANGED <<enrolled, enrolledFile, challengesFile, sessions, sessionsFile, clock,
                       adminCalls, sessionFaults, answered, granted, ended, denied>>

IssuePersist(w) ==
    /\ worker[w].pc = "issuePersist"
    /\ \/ Write(challengesFile, challenges, TRUE) /\ UNCHANGED challenges
       \/ /\ Write(challengesFile, challenges, FALSE)
          /\ challenges' = challenges \ {worker[w].challenge}
    /\ Done(w)
    /\ UNCHANGED <<enrolled, enrolledFile, sessions, sessionsFile, clock, issued, adminCalls,
                   answered, granted, ended, denied>>

\* Mutant: the challenge is read, not taken.
TakeChallengeReads(w, c) ==
    /\ worker[w] = Idle /\ c \in challenges
    /\ Serve(w, [pc |-> "removePersist", challenge |-> c, start |-> clock])
    /\ UNCHANGED <<enrolled, enrolledFile, challenges, challengesFile, sessions, sessionsFile,
                   clock, issued, adminCalls, sessionFaults, answered, granted, ended, denied>>

\* verify_and_create_session takes the challenge whatever the answer is worth.
TakeChallenge(w, c) ==
    /\ worker[w] = Idle /\ c \in challenges
    /\ challenges' = challenges \ {c}
    /\ Serve(w, [pc |-> "removePersist", challenge |-> c, start |-> clock])
    /\ UNCHANGED <<enrolled, enrolledFile, challengesFile, sessions, sessionsFile, clock,
                   issued, adminCalls, sessionFaults, answered, granted, ended, denied>>

RemovePersist(w) ==
    /\ worker[w].pc = "removePersist"
    /\ \/ /\ Write(challengesFile, challenges, TRUE)
          /\ Serve(w, [worker[w] EXCEPT !.pc = "check"])
       \/ Write(challengesFile, challenges, FALSE) /\ Done(w)
    /\ UNCHANGED <<enrolled, enrolledFile, challenges, sessions, sessionsFile, clock, issued,
                   adminCalls, answered, granted, ended, denied>>

\* Expiry, key, enrolment and signature; an answer that fails any of them is refused.
CheckAnswer(w) ==
    LET job == worker[w]
    IN  /\ job.pc = "check"
        /\ \/ /\ job.start <= job.challenge.expires
              /\ Strict => IsEnrolled(job.challenge.who, job.challenge.device)
              /\ Serve(w, [job EXCEPT !.pc = "insert"])
           \/ Done(w)
        /\ UNCHANGED <<enrolled, enrolledFile, challenges, challengesFile, sessions,
                       sessionsFile, clock, issued, adminCalls, sessionFaults, answered,
                       granted, ended, denied>>

\* The token is random; a session carries the number of its challenge.
InsertSession(w) ==
    LET job == worker[w]
        live == {s \in sessions : s.expires > job.start}
        new == [id |-> job.challenge.id, who |-> job.challenge.who,
                device |-> job.challenge.device, expires |-> job.start + SessionTTL]
    IN  /\ job.pc = "insert"
        /\ \/ /\ Cardinality(live) < MaxSessions
              /\ sessions' = live \cup {new} /\ UNCHANGED ended
           \/ /\ Cardinality(live) >= MaxSessions
              /\ \E old \in live : /\ \A s \in live : old.expires <= s.expires
                                   /\ sessions' = (live \ {old}) \cup {new}
                                   /\ ended' = ended \cup {old}
        /\ answered' = answered \cup {new}
        /\ Serve(w, [pc |-> "insertPersist", session |-> new])
        /\ UNCHANGED <<enrolled, enrolledFile, challenges, challengesFile, sessionsFile, clock,
                       issued, adminCalls, sessionFaults, granted, denied>>

\* Mutant: the token is returned before the session is durable.
InsertPersistSkipped(w) ==
    /\ worker[w].pc = "insertPersist"
    /\ granted' = granted \cup {worker[w].session}
    /\ Done(w)
    /\ UNCHANGED <<enrolled, enrolledFile, challenges, challengesFile, sessions, sessionsFile,
                   sessionFaults, clock, issued, adminCalls, answered, ended, denied>>

InsertPersist(w) ==
    LET new == worker[w].session
    IN  /\ worker[w].pc = "insertPersist"
        /\ \/ /\ Write(sessionsFile, sessions, TRUE)
              /\ granted' = granted \cup {new} /\ UNCHANGED sessions
           \/ /\ Write(sessionsFile, sessions, FALSE)
              /\ sessions' = sessions \ {new} /\ UNCHANGED granted
        /\ Done(w)
        /\ UNCHANGED <<enrolled, enrolledFile, challenges, challengesFile, clock, issued,
                       adminCalls, answered, ended, denied>>

\* session_has_permission: the session is valid, and the identity it was created for
\* is still enrolled and permits writing.
SessionAuthorized(s) ==
    /\ s \in sessions /\ clock <= s.expires
    /\ Strict => IsEnrolled(s.who, s.device)
    /\ enrolled[s.who].status # "revoked"
    /\ enrolled[s.who].status = "active" => enrolled[s.who].write

RevokeSession(w, s) ==
    /\ worker[w] = Idle /\ s \in granted /\ SessionAuthorized(s)
    /\ sessions' = sessions \ {s}
    /\ ended' = ended \cup {s}
    /\ Serve(w, [pc |-> "endPersist", who |-> s.who, removed |-> {s}])
    /\ UNCHANGED <<enrolled, enrolledFile, challenges, challengesFile, sessionsFile, clock,
                   issued, adminCalls, sessionFaults, answered, granted, denied>>

-----------------------------------------------------------------------------
(* The environment *)

\* The process is killed and starts again from its files.
SessionsCrash ==
    /\ sessionFaults < SessionFaults
    /\ sessionFaults' = sessionFaults + 1
    /\ enrolled' = enrolledFile
    /\ challenges' = {c \in challengesFile : c.expires > clock}
    /\ sessions' = {s \in sessionsFile : s.expires > clock}
    /\ worker' = [w \in Workers |-> Idle]
    /\ UNCHANGED <<enrolledFile, challengesFile, sessionsFile, clock, issued, adminCalls,
                   answered, granted, ended, denied>>

SessionsTick ==
    /\ clock < MaxTime
    /\ clock' = clock + 1
    /\ UNCHANGED <<enrolled, enrolledFile, challenges, challengesFile, sessions, sessionsFile,
                   worker, issued, adminCalls, sessionFaults, answered, granted, ended, denied>>

SessionsStep(w) ==
    \/ \E who \in Identities, write \in BOOLEAN, device \in Bindings :
          EnrollIdentity(w, who, write, device)
    \/ EnrollPersist(w)
    \/ \E who \in Identities : RevokeIdentity(w, who)
    \/ RevokePersist(w) \/ DropSessions(w) \/ PersistRemoval(w)
    \/ \E who \in Identities, device \in Bindings : IssueChallenge(w, who, device)
    \/ IssuePersist(w)
    \/ \E c \in challenges : TakeChallenge(w, c)
    \/ RemovePersist(w) \/ CheckAnswer(w) \/ InsertSession(w) \/ InsertPersist(w)
    \/ \E s \in sessions : RevokeSession(w, s)

SessionsNext == (\E w \in Workers : SessionsStep(w)) \/ SessionsCrash \/ SessionsTick

SessionsSpec == SessionsInit /\ [][SessionsNext]_sessionsVars

-----------------------------------------------------------------------------
(* Properties *)

\* A challenge is answered at most once: verify_and_create_session takes it out of
\* the map and out of the file before it creates a session, so neither a second
\* request nor a restart finds it again.
ChallengeAnsweredOnce ==
    /\ \A s, t \in answered : s.id = t.id => s = t
    /\ \A s \in answered : \A c \in challenges \cup challengesFile : c.id # s.id

\* After revoke_identity has answered, no session authorizes a request for the
\* identity, not one whose login overlapped the revocation nor one that a restart
\* loads, until the identity is enrolled again.
RevocationHolds == \A s \in sessions : SessionAuthorized(s) => s.who \notin denied

\* A token that reached the client stays valid across restarts until it expires or
\* somebody revokes or displaces it: failed writes of other requests do not lose it.
GrantedSessionsDurable ==
    \A s \in granted \ ended : s.expires > clock => s \in sessions \cap sessionsFile

\* What the session table promises, whatever logins, revocations, failed writes and
\* restarts interleave (verify_and_create_session, revoke_identity).
SessionsSound ==
    SessionsTypeOK /\ ChallengeAnsweredOnce /\ RevocationHolds /\ GrantedSessionsDurable
=============================================================================
