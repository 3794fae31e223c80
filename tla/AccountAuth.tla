---------------------------- MODULE AccountAuth -----------------------------
(***************************************************************************)
(* Authentication of one hosted account (services/account): logins by      *)
(* account or device key, passkey, TOTP or recovery code, browser          *)
(* handoffs, TOTP step-up and policy, device enrolment and revocation, and *)
(* the emergency reset.  db is the SQLite database behind one mutex: a     *)
(* handler that takes the lock once, or works in one transaction, is one   *)
(* step; one that takes it twice is two.  Revoked and expired rows are     *)
(* deleted by prune_expired and filtered by every query, so a revoked      *)
(* session is NoSession, and used handoffs and challenges are absent.      *)
(* Requests the limiter turns down are in AuthLimits.                      *)
(***************************************************************************)
EXTENDS Integers, FiniteSets

CONSTANTS
    AuthDevices,
    MaxKeys,                \* bound on the device keys ever enrolled
    MaxSecrets,             \* bound on the TOTP secrets ever generated
    MaxTokens,              \* bound on the sessions ever created
    MaxAuthTime,            \* bound on the clock, in TOTP steps
    MaxOpen,                \* bound on open challenges, and on open handoffs
    MaxRequests,            \* bound on the steps of a behaviour
    CodeBatch,              \* recovery codes issued at once
    Fresh,                  \* STEP_UP_MAX_AGE_SECONDS and CHALLENGE_TTL_SECONDS
    HandoffTtl, SessionTtl, RecoveryTtl

ASSUME AccountAuthAssumption ==
    /\ {MaxTokens, MaxAuthTime, MaxOpen, MaxRequests} \subseteq Nat
    /\ {MaxKeys, MaxSecrets, CodeBatch, Fresh, HandoffTtl, SessionTtl, RecoveryTtl} \subseteq Nat \ {0}

VARIABLES db, now, minting, requests

authVars == <<db, now, minting, requests>>

NoDevice == "none"
Kinds == {"device", "webauthn", "totp", "recovery"}
NoSession == [kind |-> "none"]
NoProof == [secret |-> 0, at |-> 0]
(* The last two fields are history: the key of the device that proved the  *)
(* login (0: the account key, a passkey or a code), and the number of      *)
(* emergency resets before the login it goes back to.                      *)
AuthSession ==
    [kind : Kinds, device : AuthDevices \cup {NoDevice}, passkey : BOOLEAN,
     issued : 0..MaxAuthTime, ends : Nat,
     proof : [secret : 0..MaxSecrets, at : 0..MaxAuthTime],
     key : 0..MaxKeys, era : Nat]
AuthChallenge ==
    [kind : {"login", "enrol", "totp_login", "webauthn_login", "webauthn_registration"},
     device : AuthDevices \cup {NoDevice}, key : 0..MaxKeys, at : 0..MaxAuthTime]

AuthCopy == [origin : 1..MaxTokens, view : AuthSession]
AuthHandoff == [origin : 1..MaxTokens, view : AuthSession, at : 0..MaxAuthTime]
AuthDb ==
    [issued : 0..MaxTokens, keys : 0..MaxKeys, secrets : 0..MaxSecrets, resets : Nat,
     sessions : [1..MaxTokens -> AuthSession \cup {NoSession}],
     handoffs : SUBSET AuthHandoff, challenges : SUBSET AuthChallenge,
     devices : [AuthDevices -> [key : 0..MaxKeys, active : BOOLEAN]],
     codes : 0..CodeBatch, policy : BOOLEAN,
     totp : [secret : 0..MaxSecrets, enabled : BOOLEAN, step : -1..(MaxAuthTime + 1)],
     passkey : [active : BOOLEAN, device : AuthDevices \cup {NoDevice}, count : 0..MaxTokens]]

AuthTypeOK ==
    /\ now \in 0..MaxAuthTime /\ requests \in 0..MaxRequests
    /\ minting \subseteq AuthCopy
    /\ db \in AuthDb

(* post_account: an account without devices or factors.                    *)
NewAccount ==
    [issued |-> 0, keys |-> 0, secrets |-> 0, resets |-> 0,
     sessions |-> [t \in 1..MaxTokens |-> NoSession], handoffs |-> {}, challenges |-> {},
     devices |-> [d \in AuthDevices |-> [key |-> 0, active |-> FALSE]],
     codes |-> 0, policy |-> FALSE,
     totp |-> [secret |-> 0, enabled |-> FALSE, step |-> -1],
     passkey |-> [active |-> FALSE, device |-> NoDevice, count |-> 0]]

(* An account set up earlier: a device, an authenticator, recovery codes.  *)
SetUpAccount ==
    [NewAccount EXCEPT !.keys = 1, !.secrets = 1, !.codes = CodeBatch,
        !.devices = [d \in AuthDevices |-> [key |-> 1, active |-> TRUE]],
        !.totp = [secret |-> 1, enabled |-> TRUE, step |-> -1]]

AuthInit ==
    /\ db \in {NewAccount, SetUpAccount} /\ now = 0 /\ minting = {}
    /\ requests = 0

-----------------------------------------------------------------------------
(* The query of authenticated_session_with_db; a session bound to a device *)
(* or a passkey needs it unrevoked.                                        *)
Authenticates(t) ==
    LET s == db.sessions[t] IN
    /\ s # NoSession /\ s.ends > now
    /\ s.device # NoDevice => db.devices[s.device].active
    /\ s.passkey => db.passkey.active

(* mfa::apply_session_status: a proof counts while it is fresh and the     *)
(* authenticator it was made with is still the enabled one.                *)
HasProof(t) ==
    LET s == db.sessions[t] IN
    /\ db.totp.enabled /\ s.proof # NoProof
    /\ s.kind \in {"device", "webauthn"}
    /\ now - s.proof.at < Fresh /\ s.proof.secret = db.totp.secret

(* require_recent_primary_session and require_recent_strong_session. *)
RecentPrimary(t) ==
    /\ Authenticates(t)
    /\ db.sessions[t].kind \in {"device", "webauthn"}
    /\ now - db.sessions[t].issued <= Fresh
RecentStrong(t) == RecentPrimary(t) /\ (db.policy => HasProof(t))

(* The INSERT INTO sessions of every login. *)
WithSession(d, s) == [d EXCEPT !.issued = @ + 1, !.sessions[d.issued + 1] = s]
NewSession(kind, device, passkey, ttl, key) ==
    [kind |-> kind, device |-> device, passkey |-> passkey, issued |-> now, ends |-> now + ttl,
     proof |-> NoProof, key |-> key, era |-> db.resets]
SessionRows == {t \in 1..MaxTokens : db.sessions[t] # NoSession}
WithoutSessions(gone) ==
    [db EXCEPT !.sessions = [t \in 1..MaxTokens |-> IF t \in gone THEN NoSession ELSE @[t]]]

Challenge(kind, device, key) ==
    /\ Cardinality(db.challenges) < MaxOpen
    /\ db' = [db EXCEPT !.challenges = @ \cup {[kind |-> kind, device |-> device,
                                             key |-> key, at |-> now]}]
Open(kind) == {c \in db.challenges : c.kind = kind /\ now - c.at < Fresh}
Used(d, c) == [d EXCEPT !.challenges = @ \ {c}]

Alone == UNCHANGED <<now, minting>>
RoomForSession == db.issued < MaxTokens

-----------------------------------------------------------------------------
(* Sessions. *)
PostLoginChallenge ==
    /\ \E d \in {d \in AuthDevices : db.devices[d].active} \cup {NoDevice} :
          Challenge("login", d, 0)
    /\ Alone

(* The account key signs, or the key the device has now: the device must   *)
(* still be active when the answer comes.                                  *)
LoginKeys(c) ==
    CASE c.device = NoDevice -> {0}
      [] c.device # NoDevice /\ db.devices[c.device].active -> {0, db.devices[c.device].key}
      [] OTHER -> {}

PostLogin ==
    /\ RoomForSession
    /\ \E c \in Open("login") : \E key \in LoginKeys(c) :
          db' = Used(WithSession(db, NewSession("device", c.device, FALSE, SessionTtl, key)), c)
    /\ Alone

PostSessionRevoke(t) ==
    /\ Authenticates(t)
    /\ db' = WithoutSessions({t})
    /\ Alone

(* post_session_handoff authenticates under one lock and inserts the code  *)
(* under another, from the session as the first saw it.                    *)
PostSessionHandoff(t) ==
    /\ Authenticates(t) /\ Cardinality(minting) + Cardinality(db.handoffs) < MaxOpen
    /\ minting' = minting \cup {[origin |-> t, view |-> db.sessions[t]]}
    /\ UNCHANGED <<db, now>>

InsertHandoff(m) ==
    /\ minting' = minting \ {m}
    /\ db' = [db EXCEPT !.handoffs = @ \cup {[origin |-> m.origin, at |-> now,
                                             view |-> [m.view EXCEPT !.proof = NoProof]]}]
    /\ UNCHANGED now

(* The join with the origin session, its device and its passkey. *)
\* Mutant: the code alone is enough.
OriginForgotten(h) == TRUE
OriginStands(h) == Authenticates(h.origin)

PostHandoffConsume ==
    /\ RoomForSession
    /\ \E h \in db.handoffs :
          /\ now - h.at < HandoffTtl /\ OriginStands(h)
          /\ db' = [WithSession(db, h.view) EXCEPT !.handoffs = @ \ {h}]
    /\ Alone

-----------------------------------------------------------------------------
(* The second factor. *)
Steps == {step \in (now - 1)..(now + 1) : step >= 0 /\ step > db.totp.step}

(* One transaction; a proof replaces an earlier one. *)
PostStepUp(t) ==
    /\ RecentPrimary(t) /\ db.totp.enabled
    /\ \E step \in Steps :
          db' = [db EXCEPT !.totp.step = step,
                           !.sessions[t].proof = [secret |-> db.totp.secret, at |-> now]]
    /\ Alone

(* patch_policy: needs a proof either way, and an unused code to enable. *)
PatchPolicy(t) ==
    /\ RecentPrimary(t) /\ HasProof(t)
    /\ \E required \in BOOLEAN :
          /\ required => db.codes > 0
          /\ db' = [WithoutSessions(SessionRows \ {t})
                       EXCEPT !.policy = required, !.handoffs = {}]
    /\ Alone

PostRecoveryReset(t) ==
    /\ RecentPrimary(t) /\ db.codes > 0
    /\ db' = [WithoutSessions(SessionRows)
                 EXCEPT !.codes = @ - 1, !.policy = FALSE, !.totp.enabled = FALSE,
                        !.totp.secret = 0, !.handoffs = {}, !.resets = @ + 1]
    /\ Alone

(* post_totp_enrollment: a new secret, not yet enabled. *)
PostTotpEnrollment(t) ==
    /\ RecentStrong(t) /\ ~db.totp.enabled /\ db.secrets < MaxSecrets
    /\ db' = [db EXCEPT !.secrets = @ + 1,
                 !.totp = [secret |-> db.secrets + 1, enabled |-> FALSE, step |-> -1]]
    /\ Alone

PostTotpEnrollmentVerify(t) ==
    /\ RecentStrong(t) /\ db.totp.secret # 0 /\ ~db.totp.enabled
    /\ \E step \in Steps : db' = [db EXCEPT !.totp.enabled = TRUE, !.totp.step = step]
    /\ Alone

(* post_totp_revoke; the policy is read under the lock that revokes. *)
\* Mutant: the policy is not consulted.
MayRevokeAlways(t) == RecentStrong(t) /\ db.totp.secret # 0
MayRevoke(t) == RecentStrong(t) /\ ~db.policy /\ db.totp.secret # 0

PostTotpRevoke(t) ==
    /\ MayRevoke(t)
    /\ db' = [db EXCEPT !.totp.enabled = FALSE, !.totp.secret = 0]
    /\ Alone

(* The alternate login by code; it consumes the step and the challenge. *)
PostTotpOptions == db.totp.enabled /\ Challenge("totp_login", NoDevice, 0) /\ Alone

PostTotpLogin ==
    /\ RoomForSession /\ db.totp.enabled
    /\ \E c \in Open("totp_login"), step \in Steps :
          db' = [Used(WithSession(db, NewSession("totp", NoDevice, FALSE, SessionTtl, 0)), c)
                       EXCEPT !.totp.step = step]
    /\ Alone

-----------------------------------------------------------------------------
(* Passkeys: one credential, bound to the device whose session registers it. *)
PostPasskeyOptions(t) ==
    /\ RecentStrong(t) /\ db.sessions[t].device # NoDevice
    /\ Challenge("webauthn_registration", db.sessions[t].device, 0)
    /\ Alone

PostPasskeyRegister(t) ==
    /\ RecentStrong(t)
    /\ \E c \in Open("webauthn_registration") :
          /\ c.device = db.sessions[t].device /\ db.passkey.device = NoDevice
          /\ db' = [Used(db, c) EXCEPT
                       !.passkey = [active |-> TRUE, device |-> c.device, count |-> 0]]
    /\ Alone

PostPasskeyLoginOptions == db.passkey.active /\ Challenge("webauthn_login", NoDevice, 0) /\ Alone

(* The credential and its device stand, and the signature counter grows    *)
(* once it is above zero.                                                  *)
PasskeyAnswers(count) ==
    /\ db.passkey.active /\ db.devices[db.passkey.device].active
    /\ db.passkey.count # 0 => count > db.passkey.count

PostPasskeyLogin ==
    /\ RoomForSession
    /\ \E c \in Open("webauthn_login"), count \in {0, db.passkey.count + 1} :
          /\ PasskeyAnswers(count)
          /\ db' = [Used(WithSession(db, NewSession("webauthn", db.passkey.device, TRUE,
                                                    SessionTtl, 0)), c)
                       EXCEPT !.passkey.count = count]
    /\ Alone

PostPasskeyRevoke(t) ==
    /\ RecentStrong(t) /\ db.passkey.active
    /\ db' = [WithoutSessions({u \in SessionRows : db.sessions[u].passkey})
                 EXCEPT !.passkey.active = FALSE]
    /\ Alone

-----------------------------------------------------------------------------
(* Devices and recovery codes. *)
PostDeviceChallenge ==
    /\ \E d \in AuthDevices, key \in 1..MaxKeys :
          key <= db.keys + 1 /\ Challenge("enrol", d, key)
    /\ Alone

(* The account key signs, with a strong session if the policy asks for     *)
(* one, or a recovery session does with the new device's own key.          *)
EnrolmentAuthorized(t) ==
    \/ ~db.policy
    \/ RecentStrong(t)
    \/ Authenticates(t) /\ db.sessions[t].kind = "recovery"

(* Sessions under a replaced key end. *)
\* Mutant: the row is replaced and the sessions stay.
ReplacedKeySessionsStay(d, key) == {}
ReplacedKeySessions(d, key) ==
    {t \in SessionRows : db.devices[d].key \notin {0, key} /\ db.sessions[t].device = d}

PostDeviceEnrollment(t) ==
    /\ EnrolmentAuthorized(t)
    /\ \E c \in Open("enrol") :
          db' = [Used(WithoutSessions(ReplacedKeySessions(c.device, c.key)), c)
                       EXCEPT !.devices[c.device] = [key |-> c.key, active |-> TRUE],
                              !.keys = IF c.key > @ THEN c.key ELSE @]
    /\ Alone

(* The operators are told afterwards, outside the lock; a failure there is *)
(* only reported.                                                          *)
PostDeviceRevoke(t) ==
    /\ RecentStrong(t)
    /\ \E d \in AuthDevices :
          /\ db.devices[d].active
          /\ db' = [WithoutSessions({u \in SessionRows : db.sessions[u].device = d})
                       EXCEPT !.devices[d].active = FALSE]
    /\ Alone

(* Unused codes are deleted, then new ones inserted one by one: an error   *)
(* leaves fewer.                                                           *)
PostRecoveryCodes(t) ==
    /\ RecentStrong(t) /\ db.sessions[t].device # NoDevice
    /\ \E inserted \in 0..CodeBatch : db' = [db EXCEPT !.codes = inserted]
    /\ Alone

(* A code becomes a short session, or is lost if the insert fails. *)
PostRecoveryRedeem ==
    /\ db.codes > 0 /\ RoomForSession
    /\ \E d \in {db, WithSession(db, NewSession("recovery", NoDevice, FALSE, RecoveryTtl, 0))} :
          db' = [d EXCEPT !.codes = @ - 1]
    /\ Alone

(* The clock moves; prune_expired deletes what has ended. *)
ClockTicks ==
    /\ now < MaxAuthTime
    /\ now' = now + 1
    /\ db' = [WithoutSessions({t \in SessionRows : db.sessions[t].ends <= now + 1})
                 EXCEPT !.challenges = {c \in @ : now + 1 - c.at < Fresh},
                        !.handoffs = {h \in @ : now + 1 - h.at < HandoffTtl}]
    /\ UNCHANGED minting

SessionStep(t) ==
    \/ PostSessionRevoke(t) \/ PostSessionHandoff(t) \/ PostStepUp(t) \/ PatchPolicy(t)
    \/ PostRecoveryReset(t) \/ PostTotpEnrollment(t) \/ PostTotpEnrollmentVerify(t)
    \/ PostTotpRevoke(t) \/ PostPasskeyOptions(t) \/ PostPasskeyRegister(t)
    \/ PostPasskeyRevoke(t) \/ PostDeviceEnrollment(t) \/ PostDeviceRevoke(t)
    \/ PostRecoveryCodes(t)

RequestStep ==
    \/ PostLoginChallenge \/ PostLogin \/ PostHandoffConsume \/ PostTotpOptions \/ PostTotpLogin
    \/ PostPasskeyLoginOptions \/ PostPasskeyLogin \/ PostDeviceChallenge
    \/ PostRecoveryRedeem \/ ClockTicks
    \/ \E m \in minting : InsertHandoff(m)
    \/ \E t \in 1..MaxTokens : SessionStep(t)

AuthNext ==
    /\ requests < MaxRequests /\ requests' = requests + 1
    /\ RequestStep

AuthSpec == AuthInit /\ [][AuthNext]_authVars

-----------------------------------------------------------------------------
(* After an emergency reset no session that goes back to a login before it *)
(* authenticates, not even one from a handoff whose request was between    *)
(* its two locks: post_recovery_reset "revokes every session".             *)
ResetEndsSessions ==
    \A t \in 1..MaxTokens : Authenticates(t) => db.sessions[t].era = db.resets

(* A session proved by a device's key is good only while that key is the   *)
(* device's enrolled key, through re-enrolment, handoffs and challenges    *)
(* still open.                                                             *)
ReplacedKeyPowerless ==
    \A t \in 1..MaxTokens :
        LET s == db.sessions[t] IN
        Authenticates(t) /\ s.key # 0 => db.devices[s.device].key = s.key

(* While the policy requires the factor there is an enabled authenticator: *)
(* otherwise no session could ever step up, and nothing but a recovery     *)
(* code could change the policy back.                                      *)
PolicyHasFactor == db.policy => db.totp.enabled

(* What sessions and second factors promise an account, through enrolment, *)
(* handoffs, recovery and open challenges (sessions.rs, mfa.rs).           *)
AuthSound == AuthTypeOK /\ ResetEndsSessions /\ ReplacedKeyPowerless /\ PolicyHasFactor
=============================================================================
