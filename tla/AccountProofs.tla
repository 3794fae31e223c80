--------------------------- MODULE AccountProofs ----------------------------
(***************************************************************************)
(* The account service for any devices, tokens, clocks and numbers of      *)
(* requests.                                                               *)
(*                                                                         *)
(* Authentication.  Neither promise about sessions is inductive: a handoff *)
(* is a copy of a session, made under one lock and written under another,  *)
(* and may be of a login before a reset or under a replaced key.  It is    *)
(* harmless because it names its origin: token numbers are never used      *)
(* again (RowInv), and while the origin is there the copy agrees with it   *)
(* (CopyInv).                                                              *)
(*                                                                         *)
(* Repository bindings.  A deletion is noticed only by the binding that    *)
(* webhooks are looked up for (FirstNotices), so that all that bindings    *)
(* promise is proved where one project binds the repository.               *)
(*                                                                         *)
(* Scoped secrets.  A request seals with a key file it read under an       *)
(* earlier lock.  That every version opens takes that label and bytes of a *)
(* key are bound once registered (RegisteredInv); that a retry rotates     *)
(* nothing takes the receipt beside the version (ReceiptInv); that old     *)
(* keys can be dropped after a clean report takes that nobody still seals  *)
(* with one (ClearInv).                                                    *)
(*                                                                         *)
(* Memberships and roles.  That an active member has the role of an        *)
(* invitation used once takes that every invitation a membership ever came *)
(* from is spent (SpentInv).  That a token is not let in after its denial  *)
(* takes that a denial outlives the token it is about (DenyInv), and that  *)
(* no proof is shown twice takes that a proof is remembered for as long as *)
(* its stamp is near the clock (ProofInv).                                 *)
(***************************************************************************)
EXTENDS MCAccount, FiniteSetTheorems, SequenceTheorems, TLAPS

-----------------------------------------------------------------------------
(* Authentication: the inductive invariant *)

\* A row is of a login after the last reset and, if a device's key proved it, under
\* the key the device has; its token is one of those issued.
RowInv ==
    \A t \in 1..MaxTokens : db.sessions[t] # NoSession =>
        /\ t <= db.issued /\ db.sessions[t].era = db.resets
        /\ db.sessions[t].key # 0 =>
              /\ db.sessions[t].device \in AuthDevices
              /\ db.devices[db.sessions[t].device].key = db.sessions[t].key

\* A copy of a session agrees with it while it is there.
SameLogin(v, s) == v.device = s.device /\ v.key = s.key /\ v.era = s.era
CopyInv ==
    \A h \in minting \cup db.handoffs :
        /\ h.origin <= db.issued
        /\ db.sessions[h.origin] # NoSession => SameLogin(h.view, db.sessions[h.origin])

\* A passkey signed at most once per session.
CountInv == db.passkey.count <= db.issued

AuthIInv == AuthTypeOK /\ RowInv /\ CopyInv /\ CountInv /\ PolicyHasFactor

-----------------------------------------------------------------------------
(* Authentication: the two kinds of step *)

LEMMA AuthConsts ==
    /\ MaxKeys \in Nat \ {0} /\ MaxSecrets \in Nat \ {0} /\ MaxTokens \in Nat /\ MaxAuthTime \in Nat
    /\ MaxOpen \in Nat /\ MaxRequests \in Nat /\ CodeBatch \in Nat \ {0} /\ Fresh \in Nat \ {0}
    /\ HandoffTtl \in Nat \ {0} /\ SessionTtl \in Nat \ {0} /\ RecoveryTtl \in Nat \ {0}
BY AccountAuthAssumption

LEMMA DbFields ==
    ASSUME NEW d \in AuthDb
    PROVE  /\ d.issued \in 0..MaxTokens /\ d.secrets \in 0..MaxSecrets /\ d.codes \in 0..CodeBatch
           /\ d.keys \in 0..MaxKeys /\ d.resets \in Nat /\ d.challenges \subseteq AuthChallenge
           /\ d.totp \in [secret : 0..MaxSecrets, enabled : BOOLEAN, step : -1..(MaxAuthTime + 1)]
           /\ d.passkey \in [active : BOOLEAN, device : AuthDevices \cup {NoDevice}, count : 0..MaxTokens]
           /\ d.devices \in [AuthDevices -> [key : 0..MaxKeys, active : BOOLEAN]]
BY DEF AuthDb

LEMMA AuthTypes ==
    ASSUME AuthIInv
    PROVE  /\ db \in AuthDb /\ now \in 0..MaxAuthTime /\ minting \subseteq AuthCopy
           /\ requests \in 0..MaxRequests
           /\ db.issued \in 0..MaxTokens /\ db.resets \in Nat
           /\ \A t \in 1..MaxTokens : db.sessions[t] # NoSession => db.sessions[t] \in AuthSession
BY DEF AuthIInv, AuthTypeOK, AuthDb

\* d keeps the sessions of db, without some of them, and the keys of its devices.
Quiet(d) ==
    /\ d \in AuthDb /\ d.issued = db.issued /\ d.resets = db.resets
    /\ \A t \in 1..MaxTokens : d.sessions[t] # NoSession =>
          db.sessions[t] # NoSession /\ SameLogin(d.sessions[t], db.sessions[t])
    /\ \A x \in AuthDevices : d.devices[x].key = db.devices[x].key
    /\ d.handoffs \subseteq db.handoffs
    /\ d.passkey.count <= d.issued
    /\ d.policy => d.totp.enabled

LEMMA QuietStep ==
    ASSUME AuthIInv, Quiet(db'), now' \in 0..MaxAuthTime, requests' \in 0..MaxRequests,
           minting' = minting
    PROVE  AuthIInv'
<1>. USE DEF AuthIInv, Quiet
<1>1. AuthTypeOK' BY DEF AuthTypeOK
<1>2. RowInv'
  <2>. SUFFICES ASSUME NEW t \in 1..MaxTokens, db'.sessions[t] # NoSession
               PROVE  /\ t <= db'.issued /\ db'.sessions[t].era = db'.resets
                      /\ db'.sessions[t].key # 0 =>
                            /\ db'.sessions[t].device \in AuthDevices
                            /\ db'.devices[db'.sessions[t].device].key = db'.sessions[t].key
    BY DEF RowInv
  <2>1. db.sessions[t] # NoSession /\ SameLogin(db'.sessions[t], db.sessions[t]) OBVIOUS
  <2>. QED BY <2>1 DEF RowInv, SameLogin
<1>3. CopyInv'
  <2>. SUFFICES ASSUME NEW h \in minting \cup db.handoffs
               PROVE  /\ h.origin <= db'.issued
                      /\ db'.sessions[h.origin] # NoSession => SameLogin(h.view, db'.sessions[h.origin])
    BY DEF CopyInv
  <2>1. h.origin \in 1..MaxTokens BY DEF AuthTypeOK, AuthDb, AuthCopy, AuthHandoff
  <2>2. h.origin <= db'.issued BY DEF CopyInv
  <2>3. CASE db'.sessions[h.origin] # NoSession
    <3>1. db.sessions[h.origin] # NoSession /\ SameLogin(db'.sessions[h.origin], db.sessions[h.origin])
      BY <2>1, <2>3
    <3>2. SameLogin(h.view, db.sessions[h.origin]) BY <3>1 DEF CopyInv
    <3>. QED BY <2>2, <3>1, <3>2 DEF SameLogin
  <2>. QED BY <2>2, <2>3
<1>4. CountInv' /\ PolicyHasFactor' BY DEF CountInv, PolicyHasFactor
<1>. QED BY <1>1, <1>2, <1>3, <1>4

\* d has one more session, s, under the next token.
Login(d, s) ==
    /\ d \in AuthDb /\ d.issued = db.issued + 1 /\ d.resets = db.resets
    /\ d.sessions[db.issued + 1] = s /\ s.era = db.resets
    /\ s.key # 0 => s.device \in AuthDevices /\ db.devices[s.device].key = s.key
    /\ \A t \in 1..MaxTokens : t # db.issued + 1 => d.sessions[t] = db.sessions[t]
    /\ d.devices = db.devices /\ d.handoffs \subseteq db.handoffs
    /\ d.passkey.count <= d.issued
    /\ d.policy => d.totp.enabled

LEMMA LoginStep ==
    ASSUME AuthIInv, NEW s, Login(db', s), now' = now, requests' \in 0..MaxRequests,
           minting' = minting
    PROVE  AuthIInv'
<1>. USE DEF AuthIInv, Login
<1>0. db.issued \in 0..MaxTokens BY AuthTypes
<1>1. AuthTypeOK' BY DEF AuthTypeOK
<1>2. RowInv' BY <1>0 DEF RowInv
<1>3. CopyInv'
  <2>. SUFFICES ASSUME NEW h \in minting \cup db.handoffs
               PROVE  /\ h.origin <= db'.issued
                      /\ db'.sessions[h.origin] # NoSession => SameLogin(h.view, db'.sessions[h.origin])
    BY DEF CopyInv
  <2>1. h.origin \in 1..MaxTokens BY DEF AuthTypeOK, AuthDb, AuthCopy, AuthHandoff
  <2>2. h.origin <= db.issued BY DEF CopyInv
  <2>3. db'.sessions[h.origin] = db.sessions[h.origin] BY <1>0, <2>1, <2>2
  <2>. QED BY <1>0, <2>1, <2>2, <2>3 DEF CopyInv
<1>4. CountInv' /\ PolicyHasFactor' BY DEF CountInv, PolicyHasFactor
<1>. QED BY <1>1, <1>2, <1>3, <1>4

-----------------------------------------------------------------------------
(* Authentication: the operators on the database *)

LEMMA WithSessionFacts ==
    ASSUME NEW d \in AuthDb, d.issued < MaxTokens, NEW s \in AuthSession
    PROVE  LET e == WithSession(d, s)
           IN  /\ e \in AuthDb /\ e.issued = d.issued + 1 /\ e.resets = d.resets
               /\ e.sessions[d.issued + 1] = s
               /\ \A t \in 1..MaxTokens : t # d.issued + 1 => e.sessions[t] = d.sessions[t]
               /\ e.devices = d.devices /\ e.handoffs = d.handoffs /\ e.passkey = d.passkey
               /\ e.policy = d.policy /\ e.totp = d.totp /\ e.codes = d.codes
<1>. DEFINE rows == [d.sessions EXCEPT ![d.issued + 1] = s]
<1>0. d.issued \in 0..MaxTokens BY DEF AuthDb
<1>1. d.issued \in 0..MaxTokens /\ d.issued + 1 \in 1..MaxTokens BY <1>0, AuthConsts
<1>2. d.sessions \in [1..MaxTokens -> AuthSession \cup {NoSession}] BY DEF AuthDb
<1>3. /\ rows \in [1..MaxTokens -> AuthSession \cup {NoSession}] /\ rows[d.issued + 1] = s
      /\ \A t \in 1..MaxTokens : t # d.issued + 1 => rows[t] = d.sessions[t]
  BY <1>1, <1>2
<1>4. WithSession(d, s) = [d EXCEPT !.issued = d.issued + 1, !.sessions = rows]
  BY DEF WithSession, AuthDb
<1>5. d.issued + 1 \in 0..MaxTokens BY <1>1, AuthConsts
<1>. HIDE DEF rows
<1>. QED BY <1>3, <1>4, <1>5 DEF AuthDb

LEMMA UsedFacts ==
    ASSUME NEW d \in AuthDb, NEW c
    PROVE  LET e == Used(d, c)
           IN  /\ e \in AuthDb /\ e.issued = d.issued /\ e.resets = d.resets
               /\ e.sessions = d.sessions
               /\ e.devices = d.devices /\ e.handoffs = d.handoffs /\ e.passkey = d.passkey
               /\ e.policy = d.policy /\ e.totp = d.totp /\ e.codes = d.codes
BY DEF Used, AuthDb

LEMMA WithoutSessionsFacts ==
    ASSUME db \in AuthDb, NEW gone
    PROVE  LET e == WithoutSessions(gone)
           IN  /\ e \in AuthDb /\ e.issued = db.issued /\ e.resets = db.resets
               /\ \A t \in 1..MaxTokens :
                     e.sessions[t] = IF t \in gone THEN NoSession ELSE db.sessions[t]
               /\ e.devices = db.devices /\ e.handoffs = db.handoffs /\ e.passkey = db.passkey
               /\ e.policy = db.policy /\ e.totp = db.totp /\ e.codes = db.codes /\ e.keys = db.keys
<1>. DEFINE rows == [t \in 1..MaxTokens |-> IF t \in gone THEN NoSession ELSE db.sessions[t]]
<1>1. rows \in [1..MaxTokens -> AuthSession \cup {NoSession}] BY DEF AuthDb
<1>2. \A t \in 1..MaxTokens : rows[t] = IF t \in gone THEN NoSession ELSE db.sessions[t] OBVIOUS
<1>3. WithoutSessions(gone) = [db EXCEPT !.sessions = rows] BY DEF WithoutSessions
<1>. HIDE DEF rows
<1>. QED BY <1>1, <1>2, <1>3 DEF AuthDb

LEMMA NewSessionParts ==
    ASSUME AuthIInv
    PROVE  /\ NoProof \in [secret : 0..MaxSecrets, at : 0..MaxAuthTime]
           /\ now \in 0..MaxAuthTime /\ db.resets \in Nat
           /\ now + SessionTtl \in Nat /\ now + RecoveryTtl \in Nat
<1>1. NoProof \in [secret : 0..MaxSecrets, at : 0..MaxAuthTime] BY AuthConsts DEF NoProof
<1>2. now \in 0..MaxAuthTime /\ db.resets \in Nat BY AuthTypes
<1>. QED BY <1>1, <1>2, AuthConsts

-----------------------------------------------------------------------------
(* Authentication: one lemma per handler *)

\* What the counter of requests adds to a step.
Counted == requests' \in 0..MaxRequests

LEMMA ChallengeStep ==
    ASSUME AuthIInv, Counted, Alone, NEW kind, NEW x, NEW key, Challenge(kind, x, key),
           kind \in {"login", "enrol", "totp_login", "webauthn_login", "webauthn_registration"},
           x \in AuthDevices \cup {NoDevice}, key \in 0..MaxKeys
    PROVE  AuthIInv'
<1>1. db \in AuthDb /\ now \in 0..MaxAuthTime BY AuthTypes
<1>2. [kind |-> kind, device |-> x, key |-> key, at |-> now] \in AuthChallenge
  BY <1>1 DEF AuthChallenge
<1>3. /\ db' \in AuthDb /\ db'.issued = db.issued /\ db'.resets = db.resets
      /\ db'.sessions = db.sessions /\ db'.devices = db.devices /\ db'.handoffs = db.handoffs
      /\ db'.passkey = db.passkey /\ db'.policy = db.policy /\ db'.totp = db.totp
  BY <1>1, <1>2 DEF Challenge, AuthDb
<1>4. Quiet(db') BY <1>3 DEF Quiet, SameLogin, AuthIInv, CountInv, PolicyHasFactor
<1>. QED BY <1>1, <1>4, QuietStep DEF Counted, Alone

LEMMA PostLoginPreserves ==
    ASSUME AuthIInv, Counted, PostLogin PROVE AuthIInv'
<1>1. db \in AuthDb /\ db.issued < MaxTokens BY AuthTypes DEF PostLogin, RoomForSession
<1>0. PICK c \in Open("login") : \E key \in LoginKeys(c) :
         db' = Used(WithSession(db, NewSession("device", c.device, FALSE, SessionTtl, key)), c)
  BY DEF PostLogin
<1>2. PICK key \in LoginKeys(c) :
         db' = Used(WithSession(db, NewSession("device", c.device, FALSE, SessionTtl, key)), c)
  BY <1>0
<1>3. c.device \in AuthDevices \cup {NoDevice} BY <1>1 DEF Open, AuthDb, AuthChallenge
<1>4. key \in 0..MaxKeys /\ (key # 0 => c.device \in AuthDevices /\ db.devices[c.device].key = key)
  <2>1. 0 \in 0..MaxKeys BY AuthConsts
  <2>2. CASE c.device = NoDevice BY <2>1, <2>2 DEF LoginKeys
  <2>3. CASE c.device # NoDevice /\ db.devices[c.device].active
    <3>1. c.device \in AuthDevices BY <1>3, <2>3
    <3>2. db.devices[c.device].key \in 0..MaxKeys BY <1>1, <3>1, DbFields
    <3>. QED BY <2>1, <2>3, <3>1, <3>2 DEF LoginKeys
  <2>4. CASE c.device # NoDevice /\ ~db.devices[c.device].active BY <2>4 DEF LoginKeys
  <2>. QED BY <2>2, <2>3, <2>4
<1>. DEFINE new == NewSession("device", c.device, FALSE, SessionTtl, key)
<1>5. new \in AuthSession /\ new.era = db.resets /\ new.key = key /\ new.device = c.device
  <2>1. "device" \in Kinds BY AuthConsts DEF Kinds
  <2>. QED BY <2>1, <1>3, <1>4, NewSessionParts DEF NewSession, AuthSession
<1>. HIDE DEF new
<1>6. db' = Used(WithSession(db, new), c) BY <1>2 DEF new
<1>. DEFINE e == WithSession(db, new)
<1>7. /\ e \in AuthDb /\ e.issued = db.issued + 1 /\ e.resets = db.resets
      /\ e.sessions[db.issued + 1] = new
      /\ \A t \in 1..MaxTokens : t # db.issued + 1 => e.sessions[t] = db.sessions[t]
      /\ e.devices = db.devices /\ e.handoffs = db.handoffs /\ e.passkey = db.passkey
      /\ e.policy = db.policy /\ e.totp = db.totp
  BY <1>1, <1>5, WithSessionFacts
<1>8. db' = Used(e, c) BY <1>6
<1>. HIDE DEF e
<1>9. /\ db' \in AuthDb /\ db'.issued = e.issued /\ db'.resets = e.resets
      /\ db'.sessions = e.sessions /\ db'.devices = e.devices /\ db'.handoffs = e.handoffs
      /\ db'.passkey = e.passkey /\ db'.policy = e.policy /\ db'.totp = e.totp
  BY <1>7, <1>8, UsedFacts
<1>10. db.passkey.count <= db.issued + 1 BY <1>1, DbFields DEF AuthIInv, CountInv
<1>11. Login(db', new)
  BY <1>4, <1>5, <1>7, <1>9, <1>10 DEF Login, AuthIInv, PolicyHasFactor
<1>. QED BY <1>11, LoginStep DEF PostLogin, Alone, Counted

LEMMA PostSessionRevokePreserves ==
    ASSUME AuthIInv, Counted, NEW t \in 1..MaxTokens, PostSessionRevoke(t) PROVE AuthIInv'
<1>1. db \in AuthDb /\ now \in 0..MaxAuthTime BY AuthTypes
<1>2. Quiet(db')
  BY <1>1, WithoutSessionsFacts
     DEF PostSessionRevoke, Quiet, SameLogin, AuthIInv, CountInv, PolicyHasFactor
<1>. QED BY <1>1, <1>2, QuietStep DEF PostSessionRevoke, Alone, Counted

\* The first lock of a handoff: the copy is the session.
LEMMA PostSessionHandoffPreserves ==
    ASSUME AuthIInv, Counted, NEW t \in 1..MaxTokens, PostSessionHandoff(t) PROVE AuthIInv'
<1>. USE DEF AuthIInv, PostSessionHandoff
<1>1. db.sessions[t] # NoSession /\ db.sessions[t] \in AuthSession
  BY AuthTypes DEF Authenticates
<1>2. minting' \subseteq AuthCopy BY <1>1 DEF AuthTypeOK, AuthCopy
<1>3. AuthTypeOK' BY <1>2 DEF AuthTypeOK, Counted
<1>4. RowInv' /\ CountInv' /\ PolicyHasFactor' BY DEF RowInv, CountInv, PolicyHasFactor
<1>5. CopyInv'
  <2>1. t <= db.issued /\ SameLogin(db.sessions[t], db.sessions[t]) BY <1>1 DEF RowInv, SameLogin
  <2>. QED BY <2>1 DEF CopyInv
<1>. QED BY <1>3, <1>4, <1>5

\* The second lock, whatever happened to the session in between.
LEMMA InsertHandoffPreserves ==
    ASSUME AuthIInv, Counted, NEW m \in minting, InsertHandoff(m) PROVE AuthIInv'
<1>. DEFINE h == [origin |-> m.origin, at |-> now, view |-> [m.view EXCEPT !.proof = NoProof]]
<1>1. db \in AuthDb /\ now \in 0..MaxAuthTime /\ minting \subseteq AuthCopy BY AuthTypes
<1>2. m.origin \in 1..MaxTokens /\ m.view \in AuthSession BY <1>1 DEF AuthCopy
<1>3. NoProof \in [secret : 0..MaxSecrets, at : 0..MaxAuthTime] BY AuthConsts DEF NoProof
<1>4. [m.view EXCEPT !.proof = NoProof] \in AuthSession /\ SameLogin([m.view EXCEPT !.proof = NoProof], m.view)
  BY <1>2, <1>3 DEF AuthSession, SameLogin
<1>5. h \in AuthHandoff /\ h.origin = m.origin /\ SameLogin(h.view, m.view)
  BY <1>1, <1>2, <1>4 DEF AuthHandoff
<1>6. db' = [db EXCEPT !.handoffs = @ \cup {h}] /\ minting' = minting \ {m} /\ now' = now
  BY DEF InsertHandoff
<1>. HIDE DEF h
<1>7. /\ db' \in AuthDb /\ db'.issued = db.issued /\ db'.resets = db.resets
      /\ db'.sessions = db.sessions /\ db'.devices = db.devices /\ db'.handoffs = db.handoffs \cup {h}
      /\ db'.passkey = db.passkey /\ db'.policy = db.policy /\ db'.totp = db.totp
  BY <1>1, <1>5, <1>6 DEF AuthDb
<1>8. AuthTypeOK' BY <1>1, <1>6, <1>7 DEF AuthTypeOK, Counted
<1>9. RowInv' /\ CountInv' /\ PolicyHasFactor' BY <1>7 DEF AuthIInv, RowInv, CountInv, PolicyHasFactor
<1>10. CopyInv'
  <2>1. /\ h.origin <= db.issued
        /\ db.sessions[h.origin] # NoSession => SameLogin(h.view, db.sessions[h.origin])
    BY <1>5 DEF AuthIInv, CopyInv, SameLogin
  <2>. QED BY <1>6, <1>7, <2>1 DEF AuthIInv, CopyInv
<1>. QED BY <1>8, <1>9, <1>10 DEF AuthIInv

\* The origin stands, so the copy is of a login that stands.
LEMMA PostHandoffConsumePreserves ==
    ASSUME AuthIInv, Counted, PostHandoffConsume PROVE AuthIInv'
<1>1. db \in AuthDb /\ db.issued < MaxTokens BY AuthTypes DEF PostHandoffConsume, RoomForSession
<1>2. PICK h \in db.handoffs :
         OriginStands(h) /\ db' = [WithSession(db, h.view) EXCEPT !.handoffs = @ \ {h}]
  BY DEF PostHandoffConsume
<1>3. h.origin \in 1..MaxTokens /\ h.view \in AuthSession BY <1>1 DEF AuthDb, AuthHandoff
<1>4. db.sessions[h.origin] # NoSession BY <1>2 DEF OriginStands, Authenticates
<1>5. SameLogin(h.view, db.sessions[h.origin]) BY <1>4 DEF AuthIInv, CopyInv
<1>6. h.view.era = db.resets
      /\ (h.view.key # 0 => h.view.device \in AuthDevices /\ db.devices[h.view.device].key = h.view.key)
  BY <1>3, <1>4, <1>5 DEF AuthIInv, RowInv, SameLogin
<1>. DEFINE e == WithSession(db, h.view)
<1>7. /\ e \in AuthDb /\ e.issued = db.issued + 1 /\ e.resets = db.resets
      /\ e.sessions[db.issued + 1] = h.view
      /\ \A t \in 1..MaxTokens : t # db.issued + 1 => e.sessions[t] = db.sessions[t]
      /\ e.devices = db.devices /\ e.handoffs = db.handoffs /\ e.passkey = db.passkey
      /\ e.policy = db.policy /\ e.totp = db.totp
  BY <1>1, <1>3, WithSessionFacts
<1>8. db' = [e EXCEPT !.handoffs = @ \ {h}] BY <1>2
<1>. HIDE DEF e
<1>9. /\ db' \in AuthDb /\ db'.issued = e.issued /\ db'.resets = e.resets
      /\ db'.sessions = e.sessions /\ db'.devices = e.devices /\ db'.handoffs \subseteq e.handoffs
      /\ db'.passkey = e.passkey /\ db'.policy = e.policy /\ db'.totp = e.totp
  BY <1>7, <1>8 DEF AuthDb
<1>10. db.passkey.count <= db.issued + 1 BY <1>1 DEF AuthIInv, CountInv, AuthDb
<1>11. Login(db', h.view)
  BY <1>6, <1>7, <1>9, <1>10 DEF Login, AuthIInv, PolicyHasFactor
<1>. QED BY <1>11, LoginStep DEF PostHandoffConsume, Alone, Counted

\* What a step of the second factor or of another part leaves alone.
Undisturbed(d) ==
    /\ d \in AuthDb /\ d.issued = db.issued /\ d.resets = db.resets /\ d.sessions = db.sessions
    /\ d.devices = db.devices /\ d.handoffs = db.handoffs

LEMMA UndisturbedStep ==
    ASSUME AuthIInv, Counted, Alone, Undisturbed(db'), db'.passkey.count <= db.issued,
           db'.policy => db'.totp.enabled
    PROVE  AuthIInv'
<1>1. now \in 0..MaxAuthTime BY AuthTypes
<1>2. Quiet(db') BY DEF Undisturbed, Quiet, SameLogin
<1>. QED BY <1>1, <1>2, QuietStep DEF Alone, Counted

LEMMA StepsFacts ==
    ASSUME AuthIInv, NEW step \in Steps
    PROVE  step \in -1..(MaxAuthTime + 1)
BY AuthTypes, AuthConsts DEF Steps

LEMMA TotpFacts ==
    ASSUME AuthIInv, NEW step \in Steps
    PROVE  /\ [db.totp EXCEPT !.step = step] \in
                  [secret : 0..MaxSecrets, enabled : BOOLEAN, step : -1..(MaxAuthTime + 1)]
           /\ [db.totp EXCEPT !.step = step].enabled = db.totp.enabled
BY StepsFacts, AuthTypes DEF AuthDb

LEMMA PostStepUpPreserves ==
    ASSUME AuthIInv, Counted, NEW t \in 1..MaxTokens, PostStepUp(t) PROVE AuthIInv'
<1>1. db \in AuthDb /\ now \in 0..MaxAuthTime BY AuthTypes
<1>2. PICK step \in Steps :
         db' = [db EXCEPT !.totp.step = step,
                          !.sessions[t].proof = [secret |-> db.totp.secret, at |-> now]]
  BY DEF PostStepUp
<1>. DEFINE row == [db.sessions[t] EXCEPT !.proof = [secret |-> db.totp.secret, at |-> now]]
            rows == [db.sessions EXCEPT ![t] = row]
            totp == [db.totp EXCEPT !.step = step]
<1>3. db.sessions[t] # NoSession /\ db.sessions[t] \in AuthSession
  BY AuthTypes DEF PostStepUp, RecentPrimary, Authenticates
<1>4. db.totp.secret \in 0..MaxSecrets BY <1>1 DEF AuthDb
<1>5. row \in AuthSession /\ SameLogin(row, db.sessions[t]) BY <1>1, <1>3, <1>4 DEF AuthSession, SameLogin
<1>. HIDE DEF row
<1>6. /\ rows \in [1..MaxTokens -> AuthSession \cup {NoSession}] /\ rows[t] = row
      /\ \A u \in 1..MaxTokens : u # t => rows[u] = db.sessions[u]
  BY <1>1, <1>5 DEF AuthDb
<1>7. db' = [db EXCEPT !.totp = totp, !.sessions = rows] BY <1>2 DEF row, AuthDb
<1>8. totp \in [secret : 0..MaxSecrets, enabled : BOOLEAN, step : -1..(MaxAuthTime + 1)]
      /\ totp.enabled = db.totp.enabled
  BY TotpFacts
<1>. HIDE DEF rows, totp
<1>9. /\ db' \in AuthDb /\ db'.issued = db.issued /\ db'.resets = db.resets
      /\ db'.sessions = rows /\ db'.devices = db.devices /\ db'.handoffs = db.handoffs
      /\ db'.passkey = db.passkey /\ db'.policy = db.policy /\ db'.totp = totp
  BY <1>1, <1>6, <1>7, <1>8 DEF AuthDb
<1>10. \A u \in 1..MaxTokens : rows[u] # NoSession =>
          db.sessions[u] # NoSession /\ SameLogin(rows[u], db.sessions[u])
  BY <1>3, <1>5, <1>6 DEF SameLogin
<1>11. Quiet(db') BY <1>8, <1>9, <1>10 DEF Quiet, AuthIInv, CountInv, PolicyHasFactor
<1>. QED BY <1>1, <1>11, QuietStep DEF PostStepUp, Alone, Counted

LEMMA PatchPolicyPreserves ==
    ASSUME AuthIInv, Counted, NEW t \in 1..MaxTokens, PatchPolicy(t) PROVE AuthIInv'
<1>1. db \in AuthDb /\ now \in 0..MaxAuthTime BY AuthTypes
<1>. DEFINE e == WithoutSessions(SessionRows \ {t})
<1>2. PICK required \in BOOLEAN : db' = [e EXCEPT !.policy = required, !.handoffs = {}]
  BY DEF PatchPolicy
<1>3. /\ e \in AuthDb /\ e.issued = db.issued /\ e.resets = db.resets
      /\ \A u \in 1..MaxTokens : e.sessions[u] \in {NoSession, db.sessions[u]}
      /\ e.devices = db.devices /\ e.passkey = db.passkey /\ e.totp = db.totp
  BY <1>1, WithoutSessionsFacts
<1>. HIDE DEF e
<1>4. /\ db' \in AuthDb /\ db'.issued = e.issued /\ db'.resets = e.resets
      /\ db'.sessions = e.sessions /\ db'.devices = e.devices /\ db'.handoffs = {}
      /\ db'.passkey = e.passkey /\ db'.totp = e.totp
  BY <1>2, <1>3 DEF AuthDb
<1>5. db.totp.enabled BY DEF PatchPolicy, HasProof
<1>6. Quiet(db') BY <1>3, <1>4, <1>5 DEF Quiet, SameLogin, AuthIInv, CountInv
<1>. QED BY <1>1, <1>6, QuietStep DEF PatchPolicy, Alone, Counted

\* The reset leaves no row, so what is still being minted has no origin.
LEMMA PostRecoveryResetPreserves ==
    ASSUME AuthIInv, Counted, NEW t \in 1..MaxTokens, PostRecoveryReset(t) PROVE AuthIInv'
<1>1. db \in AuthDb /\ now \in 0..MaxAuthTime /\ minting \subseteq AuthCopy BY AuthTypes
<1>. DEFINE e == WithoutSessions(SessionRows)
            totp == [e.totp EXCEPT !.enabled = FALSE, !.secret = 0]
<1>2. /\ e \in AuthDb /\ e.issued = db.issued /\ e.resets = db.resets /\ e.codes = db.codes
      /\ \A u \in 1..MaxTokens : e.sessions[u] = IF u \in SessionRows THEN NoSession ELSE db.sessions[u]
      /\ e.devices = db.devices /\ e.passkey = db.passkey /\ e.totp = db.totp
  BY <1>1, WithoutSessionsFacts
<1>3. \A u \in 1..MaxTokens : e.sessions[u] = NoSession
  <2>. HIDE DEF e
  <2>. QED BY <1>2 DEF SessionRows
<1>4. db' = [e EXCEPT !.codes = @ - 1, !.policy = FALSE, !.totp.enabled = FALSE,
                      !.totp.secret = 0, !.handoffs = {}, !.resets = @ + 1]
  BY DEF PostRecoveryReset
<1>. HIDE DEF e
<1>5. db' = [e EXCEPT !.codes = e.codes - 1, !.policy = FALSE, !.totp = totp,
                      !.handoffs = {}, !.resets = e.resets + 1]
  BY <1>2, <1>4 DEF AuthDb
<1>6. totp \in [secret : 0..MaxSecrets, enabled : BOOLEAN, step : -1..(MaxAuthTime + 1)]
  <2>1. 0 \in 0..MaxSecrets BY AuthConsts
  <2>. QED BY <2>1, <1>2, DbFields
<1>7. e.codes - 1 \in 0..CodeBatch /\ e.resets + 1 \in Nat
  <2>1. e.codes \in 0..CodeBatch /\ e.codes > 0 /\ e.resets \in Nat
    BY <1>2, DbFields DEF PostRecoveryReset
  <2>. QED BY <2>1, AuthConsts
<1>. HIDE DEF totp
<1>8. /\ db' \in AuthDb /\ db'.issued = e.issued
      /\ db'.sessions = e.sessions /\ db'.devices = e.devices /\ db'.handoffs = {}
      /\ db'.passkey = e.passkey /\ db'.policy = FALSE
  BY <1>2, <1>5, <1>6, <1>7 DEF AuthDb
<1>9. UNCHANGED <<now, minting>> BY DEF PostRecoveryReset, Alone
<1>10. AuthTypeOK' BY <1>1, <1>8, <1>9 DEF AuthTypeOK, Counted
<1>11. RowInv' BY <1>3, <1>8 DEF RowInv
<1>12. CopyInv'
  <2>1. \A m \in minting : m.origin \in 1..MaxTokens /\ m.origin <= db.issued
    BY <1>1 DEF AuthCopy, AuthIInv, CopyInv
  <2>. QED BY <2>1, <1>2, <1>3, <1>8, <1>9 DEF CopyInv
<1>13. CountInv' /\ PolicyHasFactor' BY <1>2, <1>8 DEF AuthIInv, CountInv, PolicyHasFactor
<1>. QED BY <1>10, <1>11, <1>12, <1>13 DEF AuthIInv

LEMMA PostTotpEnrollmentPreserves ==
    ASSUME AuthIInv, Counted, NEW t \in 1..MaxTokens, PostTotpEnrollment(t) PROVE AuthIInv'
<1>. DEFINE totp == [secret |-> db.secrets + 1, enabled |-> FALSE, step |-> -1]
<1>1. db \in AuthDb BY AuthTypes
<1>2. db.secrets + 1 \in 0..MaxSecrets
  <2>1. db.secrets \in 0..MaxSecrets /\ db.secrets < MaxSecrets BY <1>1, DbFields DEF PostTotpEnrollment
  <2>. QED BY <2>1, AuthConsts
<1>3. totp \in [secret : 0..MaxSecrets, enabled : BOOLEAN, step : -1..(MaxAuthTime + 1)]
  BY <1>2, AuthConsts
<1>4. db' = [db EXCEPT !.secrets = db.secrets + 1, !.totp = totp] BY DEF PostTotpEnrollment
<1>. HIDE DEF totp
<1>5. Undisturbed(db') /\ db'.passkey = db.passkey /\ db'.policy = db.policy
  BY <1>1, <1>2, <1>3, <1>4 DEF Undisturbed, AuthDb
<1>6. ~db.policy BY DEF PostTotpEnrollment, AuthIInv, PolicyHasFactor
<1>. QED BY <1>5, <1>6, UndisturbedStep DEF PostTotpEnrollment, AuthIInv, CountInv

LEMMA PostTotpEnrollmentVerifyPreserves ==
    ASSUME AuthIInv, Counted, NEW t \in 1..MaxTokens, PostTotpEnrollmentVerify(t) PROVE AuthIInv'
<1>1. db \in AuthDb BY AuthTypes
<1>2. PICK step \in Steps : db' = [db EXCEPT !.totp.enabled = TRUE, !.totp.step = step]
  BY DEF PostTotpEnrollmentVerify
<1>. DEFINE totp == [db.totp EXCEPT !.enabled = TRUE, !.step = step]
<1>3. totp \in [secret : 0..MaxSecrets, enabled : BOOLEAN, step : -1..(MaxAuthTime + 1)] /\ totp.enabled
  BY <1>1, StepsFacts DEF AuthDb
<1>4. db' = [db EXCEPT !.totp = totp] BY <1>1, <1>2 DEF AuthDb
<1>. HIDE DEF totp
<1>5. Undisturbed(db') /\ db'.passkey = db.passkey /\ db'.totp.enabled
  BY <1>1, <1>3, <1>4 DEF Undisturbed, AuthDb
<1>. QED BY <1>5, UndisturbedStep DEF PostTotpEnrollmentVerify, AuthIInv, CountInv

LEMMA PostTotpRevokePreserves ==
    ASSUME AuthIInv, Counted, NEW t \in 1..MaxTokens, PostTotpRevoke(t) PROVE AuthIInv'
<1>1. db \in AuthDb BY AuthTypes
<1>. DEFINE totp == [db.totp EXCEPT !.enabled = FALSE, !.secret = 0]
<1>2. totp \in [secret : 0..MaxSecrets, enabled : BOOLEAN, step : -1..(MaxAuthTime + 1)]
  <2>1. 0 \in 0..MaxSecrets BY AuthConsts
  <2>. QED BY <2>1, <1>1, DbFields
<1>3. db' = [db EXCEPT !.totp = totp] BY <1>1 DEF PostTotpRevoke, AuthDb
<1>. HIDE DEF totp
<1>4. Undisturbed(db') /\ db'.passkey = db.passkey /\ db'.policy = db.policy
  BY <1>1, <1>2, <1>3 DEF Undisturbed, AuthDb
<1>5. ~db.policy BY DEF PostTotpRevoke, MayRevoke
<1>. QED BY <1>4, <1>5, UndisturbedStep DEF PostTotpRevoke, AuthIInv, CountInv

LEMMA PostTotpLoginPreserves ==
    ASSUME AuthIInv, Counted, PostTotpLogin PROVE AuthIInv'
<1>1. db \in AuthDb /\ db.issued < MaxTokens BY AuthTypes DEF PostTotpLogin, RoomForSession
<1>. DEFINE new == NewSession("totp", NoDevice, FALSE, SessionTtl, 0)
<1>2. PICK c \in Open("totp_login"), step \in Steps :
         db' = [Used(WithSession(db, new), c) EXCEPT !.totp.step = step]
  BY DEF PostTotpLogin
<1>3. new \in AuthSession /\ new.era = db.resets /\ new.key = 0
  <2>1. "totp" \in Kinds /\ 0 \in 0..MaxKeys
        /\ NoDevice \in AuthDevices \cup {NoDevice}
    BY AuthConsts DEF Kinds
  <2>. QED BY <2>1, NewSessionParts DEF NewSession, AuthSession
<1>. HIDE DEF new
<1>. DEFINE e == Used(WithSession(db, new), c)
            totp == [e.totp EXCEPT !.step = step]
<1>4. /\ e \in AuthDb /\ e.issued = db.issued + 1 /\ e.resets = db.resets
      /\ e.sessions[db.issued + 1] = new
      /\ \A t \in 1..MaxTokens : t # db.issued + 1 => e.sessions[t] = db.sessions[t]
      /\ e.devices = db.devices /\ e.handoffs = db.handoffs /\ e.passkey = db.passkey
      /\ e.policy = db.policy /\ e.totp = db.totp
  BY <1>1, <1>3, WithSessionFacts, UsedFacts
<1>. HIDE DEF e
<1>5. db' = [e EXCEPT !.totp = totp] BY <1>2, <1>4 DEF e, AuthDb
<1>6. totp \in [secret : 0..MaxSecrets, enabled : BOOLEAN, step : -1..(MaxAuthTime + 1)]
      /\ totp.enabled = db.totp.enabled
  BY <1>4, TotpFacts
<1>. HIDE DEF totp
<1>7. /\ db' \in AuthDb /\ db'.issued = e.issued /\ db'.resets = e.resets
      /\ db'.sessions = e.sessions /\ db'.devices = e.devices /\ db'.handoffs = e.handoffs
      /\ db'.passkey = e.passkey /\ db'.policy = e.policy /\ db'.totp = totp
  BY <1>4, <1>5, <1>6 DEF AuthDb
<1>8. db.passkey.count <= db.issued + 1 BY <1>1 DEF AuthIInv, CountInv, AuthDb
<1>9. Login(db', new)
  BY <1>3, <1>4, <1>6, <1>7, <1>8 DEF Login, AuthIInv, PolicyHasFactor
<1>. QED BY <1>9, LoginStep DEF PostTotpLogin, Alone, Counted

LEMMA PostPasskeyRegisterPreserves ==
    ASSUME AuthIInv, Counted, NEW t \in 1..MaxTokens, PostPasskeyRegister(t) PROVE AuthIInv'
<1>1. db \in AuthDb BY AuthTypes
<1>2. PICK c \in Open("webauthn_registration") :
         db' = [Used(db, c) EXCEPT !.passkey = [active |-> TRUE, device |-> c.device, count |-> 0]]
  BY DEF PostPasskeyRegister
<1>3. c.device \in AuthDevices \cup {NoDevice} BY <1>1 DEF Open, AuthDb, AuthChallenge
<1>. DEFINE key == [active |-> TRUE, device |-> c.device, count |-> 0]
            e == Used(db, c)
<1>4. key \in [active : BOOLEAN, device : AuthDevices \cup {NoDevice}, count : 0..MaxTokens] /\ key.count = 0
  BY <1>3, AuthConsts
<1>5. /\ e \in AuthDb /\ e.issued = db.issued /\ e.resets = db.resets /\ e.sessions = db.sessions
      /\ e.devices = db.devices /\ e.handoffs = db.handoffs
      /\ e.policy = db.policy /\ e.totp = db.totp
  BY <1>1, UsedFacts
<1>. HIDE DEF key, e
<1>6. db' = [e EXCEPT !.passkey = key] BY <1>2 DEF key, e
<1>7. Undisturbed(db') /\ db'.passkey = key /\ db'.policy = db.policy /\ db'.totp = db.totp
  BY <1>4, <1>5, <1>6 DEF Undisturbed, AuthDb
<1>8. 0 <= db.issued BY <1>1 DEF AuthDb
<1>. QED BY <1>4, <1>7, <1>8, UndisturbedStep DEF PostPasskeyRegister, AuthIInv, PolicyHasFactor

LEMMA PostPasskeyLoginPreserves ==
    ASSUME AuthIInv, Counted, PostPasskeyLogin PROVE AuthIInv'
<1>1. db \in AuthDb /\ db.issued < MaxTokens BY AuthTypes DEF PostPasskeyLogin, RoomForSession
<1>. DEFINE new == NewSession("webauthn", db.passkey.device, TRUE, SessionTtl, 0)
<1>2. PICK c \in Open("webauthn_login"), count \in {0, db.passkey.count + 1} :
         db' = [Used(WithSession(db, new), c) EXCEPT !.passkey.count = count]
  BY DEF PostPasskeyLogin
<1>3. db.passkey.device \in AuthDevices \cup {NoDevice} BY <1>1 DEF AuthDb
<1>4. new \in AuthSession /\ new.era = db.resets /\ new.key = 0
  <2>1. "webauthn" \in Kinds /\ 0 \in 0..MaxKeys
    BY AuthConsts DEF Kinds
  <2>. QED BY <2>1, <1>3, NewSessionParts DEF NewSession, AuthSession
<1>. HIDE DEF new
<1>. DEFINE e == Used(WithSession(db, new), c)
            key == [e.passkey EXCEPT !.count = count]
<1>5. /\ e \in AuthDb /\ e.issued = db.issued + 1 /\ e.resets = db.resets
      /\ e.sessions[db.issued + 1] = new
      /\ \A t \in 1..MaxTokens : t # db.issued + 1 => e.sessions[t] = db.sessions[t]
      /\ e.devices = db.devices /\ e.handoffs = db.handoffs /\ e.passkey = db.passkey
      /\ e.policy = db.policy /\ e.totp = db.totp
  BY <1>1, <1>4, WithSessionFacts, UsedFacts
<1>. HIDE DEF e
<1>6. db' = [e EXCEPT !.passkey = key] BY <1>2, <1>5 DEF e, AuthDb
<1>7. count \in 0..MaxTokens /\ count <= db.issued + 1
  BY <1>1, AuthConsts DEF AuthIInv, CountInv, AuthDb
<1>8. key \in [active : BOOLEAN, device : AuthDevices \cup {NoDevice}, count : 0..MaxTokens]
      /\ key.count = count
  BY <1>5, <1>7 DEF AuthDb
<1>. HIDE DEF key
<1>9. /\ db' \in AuthDb /\ db'.issued = e.issued /\ db'.resets = e.resets
      /\ db'.sessions = e.sessions /\ db'.devices = e.devices /\ db'.handoffs = e.handoffs
      /\ db'.passkey = key /\ db'.policy = e.policy /\ db'.totp = e.totp
  BY <1>5, <1>6, <1>8 DEF AuthDb
<1>10. Login(db', new)
  BY <1>4, <1>5, <1>7, <1>8, <1>9 DEF Login, AuthIInv, PolicyHasFactor
<1>. QED BY <1>10, LoginStep DEF PostPasskeyLogin, Alone, Counted

LEMMA PostPasskeyRevokePreserves ==
    ASSUME AuthIInv, Counted, NEW t \in 1..MaxTokens, PostPasskeyRevoke(t) PROVE AuthIInv'
<1>1. db \in AuthDb /\ now \in 0..MaxAuthTime BY AuthTypes
<1>. DEFINE e == WithoutSessions({u \in SessionRows : db.sessions[u].passkey})
            key == [e.passkey EXCEPT !.active = FALSE]
<1>2. db' = [e EXCEPT !.passkey.active = FALSE] BY DEF PostPasskeyRevoke
<1>3. /\ e \in AuthDb /\ e.issued = db.issued /\ e.resets = db.resets
      /\ \A u \in 1..MaxTokens : e.sessions[u] \in {NoSession, db.sessions[u]}
      /\ e.devices = db.devices /\ e.passkey = db.passkey /\ e.totp = db.totp
      /\ e.handoffs = db.handoffs /\ e.policy = db.policy
  BY <1>1, WithoutSessionsFacts
<1>. HIDE DEF e
<1>4. key \in [active : BOOLEAN, device : AuthDevices \cup {NoDevice}, count : 0..MaxTokens]
      /\ key.count = db.passkey.count
  BY <1>3 DEF AuthDb
<1>5. db' = [e EXCEPT !.passkey = key] BY <1>2, <1>3 DEF AuthDb
<1>. HIDE DEF key
<1>6. /\ db' \in AuthDb /\ db'.issued = e.issued /\ db'.resets = e.resets
      /\ db'.sessions = e.sessions /\ db'.devices = e.devices /\ db'.handoffs = e.handoffs
      /\ db'.passkey = key /\ db'.totp = e.totp /\ db'.policy = e.policy
  BY <1>3, <1>4, <1>5 DEF AuthDb
<1>7. Quiet(db') BY <1>3, <1>4, <1>6 DEF Quiet, SameLogin, AuthIInv, CountInv, PolicyHasFactor
<1>. QED BY <1>1, <1>7, QuietStep DEF PostPasskeyRevoke, Alone, Counted

\* A new key ends the sessions of the old one.
LEMMA PostDeviceEnrollmentPreserves ==
    ASSUME AuthIInv, Counted, NEW t \in 1..MaxTokens, PostDeviceEnrollment(t) PROVE AuthIInv'
<1>1. db \in AuthDb /\ now \in 0..MaxAuthTime /\ minting \subseteq AuthCopy BY AuthTypes
<1>2. PICK c \in Open("enrol") :
         db' = [Used(WithoutSessions(ReplacedKeySessions(c.device, c.key)), c)
                   EXCEPT !.devices[c.device] = [key |-> c.key, active |-> TRUE],
                          !.keys = IF c.key > @ THEN c.key ELSE @]
  BY DEF PostDeviceEnrollment
<1>. DEFINE gone == ReplacedKeySessions(c.device, c.key)
            e == Used(WithoutSessions(gone), c)
            devices == [e.devices EXCEPT ![c.device] = [key |-> c.key, active |-> TRUE]]
            keys == IF c.key > e.keys THEN c.key ELSE e.keys
<1>3. /\ e \in AuthDb /\ e.issued = db.issued /\ e.resets = db.resets
      /\ \A u \in 1..MaxTokens : e.sessions[u] = IF u \in gone THEN NoSession ELSE db.sessions[u]
      /\ e.devices = db.devices /\ e.handoffs = db.handoffs /\ e.passkey = db.passkey
      /\ e.policy = db.policy /\ e.totp = db.totp
  <2>. HIDE DEF gone
  <2>. QED BY <1>1, WithoutSessionsFacts, UsedFacts
<1>4. db' = [e EXCEPT !.devices[c.device] = [key |-> c.key, active |-> TRUE],
                      !.keys = IF c.key > @ THEN c.key ELSE @]
  BY <1>2
<1>. HIDE DEF e
<1>5. c.key \in 0..MaxKeys BY <1>1, DbFields DEF Open, AuthChallenge
<1>6. /\ devices \in [AuthDevices -> [key : 0..MaxKeys, active : BOOLEAN]]
      /\ \A x \in AuthDevices : devices[x].key = IF x = c.device THEN c.key ELSE db.devices[x].key
  <2>1. [key |-> c.key, active |-> TRUE] \in [key : 0..MaxKeys, active : BOOLEAN] BY <1>5
  <2>2. e.devices \in [AuthDevices -> [key : 0..MaxKeys, active : BOOLEAN]] BY <1>3, DbFields
  <2>. QED BY <1>3, <2>1, <2>2
<1>7. keys \in 0..MaxKeys BY <1>3, <1>5, DbFields
<1>8. db' = [e EXCEPT !.devices = devices, !.keys = keys] BY <1>3, <1>4 DEF AuthDb
<1>. HIDE DEF devices, keys
<1>9. /\ db' \in AuthDb /\ db'.issued = e.issued /\ db'.resets = e.resets
      /\ db'.sessions = e.sessions /\ db'.devices = devices /\ db'.handoffs = e.handoffs
      /\ db'.passkey = e.passkey /\ db'.totp = e.totp /\ db'.policy = e.policy
  BY <1>3, <1>6, <1>7, <1>8 DEF AuthDb
<1>10. UNCHANGED <<now, minting>> BY DEF PostDeviceEnrollment, Alone
<1>11. AuthTypeOK' BY <1>1, <1>9, <1>10 DEF AuthTypeOK, Counted
<1>12. RowInv'
  <2>. SUFFICES ASSUME NEW u \in 1..MaxTokens, db'.sessions[u] # NoSession
               PROVE  /\ u <= db'.issued /\ db'.sessions[u].era = db'.resets
                      /\ db'.sessions[u].key # 0 =>
                            /\ db'.sessions[u].device \in AuthDevices
                            /\ db'.devices[db'.sessions[u].device].key = db'.sessions[u].key
    BY DEF RowInv
  <2>1. u \notin gone /\ db.sessions[u] # NoSession /\ db'.sessions[u] = db.sessions[u]
    BY <1>3, <1>9
  <2>2. /\ u <= db.issued /\ db.sessions[u].era = db.resets
        /\ db.sessions[u].key # 0 =>
              /\ db.sessions[u].device \in AuthDevices
              /\ db.devices[db.sessions[u].device].key = db.sessions[u].key
    BY <2>1 DEF AuthIInv, RowInv
  <2>3. db.devices[c.device].key \in {0, c.key} \/ db.sessions[u].device # c.device
    BY <2>1 DEF ReplacedKeySessions, SessionRows
  <2>4. ASSUME db.sessions[u].key # 0
        PROVE  devices[db.sessions[u].device].key = db.sessions[u].key
    BY <2>2, <2>3, <2>4, <1>6
  <2>. QED BY <2>1, <2>2, <2>4, <1>3, <1>9
<1>13. CopyInv'
  <2>. SUFFICES ASSUME NEW h \in minting \cup db.handoffs
               PROVE  /\ h.origin <= db'.issued
                      /\ db'.sessions[h.origin] # NoSession => SameLogin(h.view, db'.sessions[h.origin])
    BY <1>3, <1>9, <1>10 DEF CopyInv
  <2>1. h.origin \in 1..MaxTokens BY <1>1 DEF AuthDb, AuthCopy, AuthHandoff
  <2>2. db'.sessions[h.origin] \in {NoSession, db.sessions[h.origin]} BY <2>1, <1>3, <1>9
  <2>. QED BY <2>1, <2>2, <1>3, <1>9 DEF AuthIInv, CopyInv
<1>14. CountInv' /\ PolicyHasFactor' BY <1>3, <1>9 DEF AuthIInv, CountInv, PolicyHasFactor
<1>. QED BY <1>11, <1>12, <1>13, <1>14 DEF AuthIInv

LEMMA PostDeviceRevokePreserves ==
    ASSUME AuthIInv, Counted, NEW t \in 1..MaxTokens, PostDeviceRevoke(t) PROVE AuthIInv'
<1>1. db \in AuthDb /\ now \in 0..MaxAuthTime BY AuthTypes
<1>2. PICK x \in AuthDevices :
         db' = [WithoutSessions({u \in SessionRows : db.sessions[u].device = x})
                   EXCEPT !.devices[x].active = FALSE]
  BY DEF PostDeviceRevoke
<1>. DEFINE e == WithoutSessions({u \in SessionRows : db.sessions[u].device = x})
            row == [e.devices[x] EXCEPT !.active = FALSE]
            devices == [e.devices EXCEPT ![x] = row]
<1>3. /\ e \in AuthDb /\ e.issued = db.issued /\ e.resets = db.resets
      /\ \A u \in 1..MaxTokens : e.sessions[u] \in {NoSession, db.sessions[u]}
      /\ e.devices = db.devices /\ e.passkey = db.passkey /\ e.totp = db.totp
      /\ e.handoffs = db.handoffs /\ e.policy = db.policy
  BY <1>1, WithoutSessionsFacts
<1>. HIDE DEF e
<1>4. db' = [e EXCEPT !.devices[x].active = FALSE] BY <1>2 DEF e
<1>5. e.devices \in [AuthDevices -> [key : 0..MaxKeys, active : BOOLEAN]] BY <1>3, DbFields
<1>6. row \in [key : 0..MaxKeys, active : BOOLEAN] /\ row.key = e.devices[x].key BY <1>5
<1>7. db' = [e EXCEPT !.devices = devices] BY <1>3, <1>4 DEF AuthDb
<1>. HIDE DEF row
<1>8. /\ devices \in [AuthDevices -> [key : 0..MaxKeys, active : BOOLEAN]]
      /\ \A y \in AuthDevices : devices[y].key = db.devices[y].key
  BY <1>3, <1>5, <1>6
<1>. HIDE DEF devices
<1>9. /\ db' \in AuthDb /\ db'.issued = e.issued /\ db'.resets = e.resets
      /\ db'.sessions = e.sessions /\ db'.devices = devices /\ db'.handoffs = e.handoffs
      /\ db'.passkey = e.passkey /\ db'.totp = e.totp /\ db'.policy = e.policy
  BY <1>3, <1>7, <1>8 DEF AuthDb
<1>10. Quiet(db') BY <1>3, <1>8, <1>9 DEF Quiet, SameLogin, AuthIInv, CountInv, PolicyHasFactor
<1>. QED BY <1>1, <1>10, QuietStep DEF PostDeviceRevoke, Alone, Counted

LEMMA PostRecoveryCodesPreserves ==
    ASSUME AuthIInv, Counted, NEW t \in 1..MaxTokens, PostRecoveryCodes(t) PROVE AuthIInv'
<1>1. db \in AuthDb BY AuthTypes
<1>2. PICK inserted \in 0..CodeBatch : db' = [db EXCEPT !.codes = inserted] BY DEF PostRecoveryCodes
<1>3. Undisturbed(db') /\ db'.passkey = db.passkey /\ db'.policy = db.policy /\ db'.totp = db.totp
  BY <1>1, <1>2 DEF Undisturbed, AuthDb
<1>. QED BY <1>3, UndisturbedStep DEF PostRecoveryCodes, AuthIInv, CountInv, PolicyHasFactor

LEMMA PostRecoveryRedeemPreserves ==
    ASSUME AuthIInv, Counted, PostRecoveryRedeem PROVE AuthIInv'
<1>1. db \in AuthDb /\ db.issued < MaxTokens BY AuthTypes DEF PostRecoveryRedeem, RoomForSession
<1>. DEFINE new == NewSession("recovery", NoDevice, FALSE, RecoveryTtl, 0)
            e == WithSession(db, new)
<1>2. db' = [db EXCEPT !.codes = @ - 1] \/ db' = [e EXCEPT !.codes = @ - 1]
  BY DEF PostRecoveryRedeem
<1>3. new \in AuthSession /\ new.era = db.resets /\ new.key = 0
  <2>1. "recovery" \in Kinds /\ 0 \in 0..MaxKeys /\ NoDevice \in AuthDevices \cup {NoDevice}
    BY AuthConsts DEF Kinds
  <2>. QED BY <2>1, NewSessionParts DEF NewSession, AuthSession
<1>4. db.codes - 1 \in 0..CodeBatch
  <2>1. db.codes \in 0..CodeBatch /\ db.codes > 0 BY <1>1, DbFields DEF PostRecoveryRedeem
  <2>. QED BY <2>1, AuthConsts
<1>5. CASE db' = [db EXCEPT !.codes = @ - 1]
  <2>1. Undisturbed(db') /\ db'.passkey = db.passkey /\ db'.policy = db.policy /\ db'.totp = db.totp
    BY <1>1, <1>4, <1>5 DEF Undisturbed, AuthDb
  <2>. QED BY <2>1, UndisturbedStep DEF PostRecoveryRedeem, AuthIInv, CountInv, PolicyHasFactor
<1>6. CASE db' = [e EXCEPT !.codes = @ - 1]
  <2>. HIDE DEF new
  <2>1. /\ e \in AuthDb /\ e.issued = db.issued + 1 /\ e.resets = db.resets
        /\ e.sessions[db.issued + 1] = new
        /\ \A t \in 1..MaxTokens : t # db.issued + 1 => e.sessions[t] = db.sessions[t]
        /\ e.devices = db.devices /\ e.handoffs = db.handoffs /\ e.passkey = db.passkey
        /\ e.policy = db.policy /\ e.totp = db.totp /\ e.codes = db.codes
    BY <1>1, <1>3, WithSessionFacts
  <2>. HIDE DEF e
  <2>2. /\ db' \in AuthDb /\ db'.issued = e.issued /\ db'.resets = e.resets
        /\ db'.sessions = e.sessions /\ db'.devices = e.devices /\ db'.handoffs = e.handoffs
        /\ db'.passkey = e.passkey /\ db'.policy = e.policy /\ db'.totp = e.totp
    BY <1>4, <1>6, <2>1 DEF AuthDb
  <2>3. db.passkey.count <= db.issued + 1 BY <1>1, DbFields DEF AuthIInv, CountInv
  <2>4. Login(db', new) BY <1>3, <2>1, <2>2, <2>3 DEF Login, AuthIInv, PolicyHasFactor
  <2>. QED BY <2>4, LoginStep DEF PostRecoveryRedeem, Alone, Counted
<1>. QED BY <1>2, <1>5, <1>6

LEMMA ClockTicksPreserves ==
    ASSUME AuthIInv, Counted, ClockTicks PROVE AuthIInv'
<1>1. db \in AuthDb /\ now \in 0..MaxAuthTime BY AuthTypes
<1>. DEFINE e == WithoutSessions({t \in SessionRows : db.sessions[t].ends <= now + 1})
<1>2. /\ e \in AuthDb /\ e.issued = db.issued /\ e.resets = db.resets
      /\ \A u \in 1..MaxTokens : e.sessions[u] \in {NoSession, db.sessions[u]}
      /\ e.devices = db.devices /\ e.passkey = db.passkey /\ e.totp = db.totp
      /\ e.handoffs = db.handoffs /\ e.policy = db.policy
  BY <1>1, WithoutSessionsFacts
<1>3. db' = [e EXCEPT !.challenges = {c \in @ : now + 1 - c.at < Fresh},
                      !.handoffs = {h \in @ : now + 1 - h.at < HandoffTtl}]
  BY DEF ClockTicks
<1>. HIDE DEF e
<1>4. /\ db' \in AuthDb /\ db'.issued = e.issued /\ db'.resets = e.resets
      /\ db'.sessions = e.sessions /\ db'.devices = e.devices /\ db'.handoffs \subseteq e.handoffs
      /\ db'.passkey = e.passkey /\ db'.totp = e.totp /\ db'.policy = e.policy
  BY <1>2, <1>3 DEF AuthDb
<1>5. Quiet(db') BY <1>2, <1>4 DEF Quiet, SameLogin, AuthIInv, CountInv, PolicyHasFactor
<1>6. now' \in 0..MaxAuthTime BY <1>1, AuthConsts DEF ClockTicks
<1>. QED BY <1>5, <1>6, QuietStep DEF ClockTicks, Counted

LEMMA ChallengesPreserve ==
    ASSUME AuthIInv, Counted,
           \/ PostLoginChallenge \/ PostTotpOptions \/ PostPasskeyLoginOptions \/ PostDeviceChallenge
           \/ \E t \in 1..MaxTokens : PostPasskeyOptions(t)
    PROVE  AuthIInv'
<1>0. 0 \in 0..MaxKeys /\ NoDevice \in AuthDevices \cup {NoDevice} BY AuthConsts
<1>1. CASE PostLoginChallenge BY <1>0, <1>1, ChallengeStep DEF PostLoginChallenge
<1>2. CASE PostTotpOptions BY <1>0, <1>2, ChallengeStep DEF PostTotpOptions
<1>3. CASE PostPasskeyLoginOptions BY <1>0, <1>3, ChallengeStep DEF PostPasskeyLoginOptions
<1>4. CASE PostDeviceChallenge
  <2>1. PICK x \in AuthDevices, key \in 1..MaxKeys : Challenge("enrol", x, key)
    BY <1>4 DEF PostDeviceChallenge
  <2>2. key \in 0..MaxKeys /\ x \in AuthDevices \cup {NoDevice} BY AuthConsts
  <2>. QED BY <1>4, <2>1, <2>2, ChallengeStep DEF PostDeviceChallenge
<1>5. CASE \E t \in 1..MaxTokens : PostPasskeyOptions(t)
  <2>1. PICK t \in 1..MaxTokens : PostPasskeyOptions(t) BY <1>5
  <2>2. db.sessions[t] \in AuthSession
    BY <2>1, AuthTypes DEF PostPasskeyOptions, RecentStrong, RecentPrimary, Authenticates
  <2>3. db.sessions[t].device \in AuthDevices \cup {NoDevice} BY <2>2 DEF AuthSession
  <2>. QED BY <1>0, <2>1, <2>3, ChallengeStep DEF PostPasskeyOptions
<1>. QED BY <1>1, <1>2, <1>3, <1>4, <1>5

-----------------------------------------------------------------------------
(* Authentication: the theorem *)

LEMMA AuthInitIInv == ASSUME AuthInit PROVE AuthIInv
<1>. DEFINE rows == [t \in 1..MaxTokens |-> NoSession]
            totp(n, b) == [secret |-> n, enabled |-> b, step |-> -1]
            devices(n, b) == [x \in AuthDevices |-> [key |-> n, active |-> b]]
            none == [active |-> FALSE, device |-> NoDevice, count |-> 0]
<1>1. rows \in [1..MaxTokens -> AuthSession \cup {NoSession}] /\ \A t \in 1..MaxTokens : rows[t] = NoSession
  OBVIOUS
<1>2. /\ 0 \in 0..MaxTokens /\ 0 \in 0..MaxKeys /\ 1 \in 0..MaxKeys /\ 0 \in 0..MaxSecrets
      /\ 1 \in 0..MaxSecrets /\ 0 \in 0..CodeBatch /\ CodeBatch \in 0..CodeBatch
      /\ -1 \in -1..(MaxAuthTime + 1) /\ 0 \in 0..MaxAuthTime /\ 0 \in 0..MaxRequests
  BY AuthConsts
<1>3. /\ totp(0, FALSE) \in [secret : 0..MaxSecrets, enabled : BOOLEAN, step : -1..(MaxAuthTime + 1)]
      /\ totp(1, TRUE) \in [secret : 0..MaxSecrets, enabled : BOOLEAN, step : -1..(MaxAuthTime + 1)]
      /\ devices(0, FALSE) \in [AuthDevices -> [key : 0..MaxKeys, active : BOOLEAN]]
      /\ devices(1, TRUE) \in [AuthDevices -> [key : 0..MaxKeys, active : BOOLEAN]]
      /\ none \in [active : BOOLEAN, device : AuthDevices \cup {NoDevice}, count : 0..MaxTokens]
      /\ none.count = 0
  BY <1>2
<1>. DEFINE blank == [issued |-> 0, keys |-> 0, secrets |-> 0, resets |-> 0,
                      sessions |-> rows, handoffs |-> {}, challenges |-> {},
                      devices |-> devices(0, FALSE), codes |-> 0, policy |-> FALSE,
                      totp |-> totp(0, FALSE), passkey |-> none]
<1>4. NewAccount = blank BY DEF NewAccount
<1>. HIDE DEF rows, none
<1>5. blank \in AuthDb
  <2>. HIDE DEF totp, devices
  <2>. QED BY <1>1, <1>2, <1>3 DEF AuthDb
<1>6. SetUpAccount = [blank EXCEPT !.keys = 1, !.secrets = 1, !.codes = CodeBatch,
                         !.devices = devices(1, TRUE), !.totp = totp(1, TRUE)]
  BY <1>4 DEF SetUpAccount
<1>7. ASSUME NEW d \in {NewAccount, SetUpAccount}
      PROVE  /\ d \in AuthDb /\ d.issued = 0 /\ d.sessions = rows /\ d.handoffs = {}
             /\ d.passkey = none /\ d.policy = FALSE
  <2>1. CASE d = NewAccount BY <1>4, <1>5, <2>1
  <2>2. CASE d = SetUpAccount
    <3>1. /\ blank.issued = 0 /\ blank.sessions = rows /\ blank.handoffs = {}
          /\ blank.passkey = none /\ blank.policy = FALSE
      OBVIOUS
    <3>. HIDE DEF blank, totp, devices
    <3>. QED BY <1>2, <1>3, <1>5, <1>6, <2>2, <3>1 DEF AuthDb
  <2>. QED BY <2>1, <2>2
<1>8. /\ db \in AuthDb /\ db.issued = 0 /\ db.sessions = rows /\ db.handoffs = {}
      /\ db.passkey = none /\ db.policy = FALSE /\ minting = {} /\ now = 0 /\ requests = 0
  BY <1>7 DEF AuthInit
<1>9. AuthTypeOK BY <1>2, <1>8 DEF AuthTypeOK
<1>10. RowInv /\ CopyInv /\ CountInv /\ PolicyHasFactor
  BY <1>1, <1>3, <1>8 DEF RowInv, CopyInv, CountInv, PolicyHasFactor
<1>. QED BY <1>9, <1>10 DEF AuthIInv

LEMMA AuthNextPreserves ==
    ASSUME AuthIInv, [AuthNext]_authVars PROVE AuthIInv'
<1>1. CASE AuthNext
  <2>0. Counted BY <1>1, AuthTypes, AuthConsts DEF AuthNext, Counted
  <2>1. CASE \E t \in 1..MaxTokens : SessionStep(t)
    <3>1. PICK t \in 1..MaxTokens : SessionStep(t) BY <2>1
    <3>. QED
      BY <2>0, <3>1, PostSessionRevokePreserves, PostSessionHandoffPreserves, PostStepUpPreserves,
         PatchPolicyPreserves, PostRecoveryResetPreserves, PostTotpEnrollmentPreserves,
         PostTotpEnrollmentVerifyPreserves, PostTotpRevokePreserves, ChallengesPreserve,
         PostPasskeyRegisterPreserves, PostPasskeyRevokePreserves, PostDeviceEnrollmentPreserves,
         PostDeviceRevokePreserves, PostRecoveryCodesPreserves
      DEF SessionStep
  <2>2. CASE \E m \in minting : InsertHandoff(m) BY <2>0, <2>2, InsertHandoffPreserves
  <2>. QED
    BY <1>1, <2>0, <2>1, <2>2, PostLoginPreserves, PostHandoffConsumePreserves, PostTotpLoginPreserves,
       PostPasskeyLoginPreserves, PostRecoveryRedeemPreserves, ClockTicksPreserves, ChallengesPreserve
    DEF AuthNext, RequestStep
<1>2. CASE UNCHANGED authVars
  BY <1>2 DEF authVars, AuthIInv, AuthTypeOK, RowInv, CopyInv, CountInv, PolicyHasFactor
<1>. QED BY <1>1, <1>2

\* For every order of logins, handoffs, enrolments, proofs and resets: no session of a
\* login before a reset or under a replaced key authenticates, and a required second
\* factor can be given.
THEOREM AuthenticationSafety == AuthSpec => []AuthSound
<1>1. AuthInit => AuthIInv BY AuthInitIInv
<1>2. AuthIInv /\ [AuthNext]_authVars => AuthIInv' BY AuthNextPreserves
<1>3. AuthIInv => AuthSound
  <2>1. AuthIInv => ResetEndsSessions /\ ReplacedKeyPowerless
    BY DEF AuthIInv, RowInv, ResetEndsSessions, ReplacedKeyPowerless, Authenticates
  <2>. QED BY <2>1 DEF AuthIInv, AuthSound
<1>. QED BY <1>1, <1>2, <1>3, PTL DEF AuthSpec

-----------------------------------------------------------------------------
(* Repository bindings: the inductive invariant *)

\* An active binding was proven.
ProvenInv == \A p \in BoundProjects : bindings[p] # Unbound =>
                 (bindings[p].status = "active" => bindings[p].proven)

\* A delivery is for a binding, and a deletion is told only of a repository that is
\* gone for good.
HookInv ==
    /\ \A h \in hooks : bindings[h.by] # Unbound /\ (h.event = "deleted" => provider.deleted)
    /\ \A p \in BoundProjects : bindings[p] # Unbound =>
           order # <<>> /\ ("deleted" \in bindings[p].told => provider.deleted)

\* The binding that webhooks are looked up for is not active once it was told.
FirstNotices ==
    order # <<>> /\ bindings[order[1]] # Unbound /\ "deleted" \in bindings[order[1]].told =>
        bindings[order[1]].status # "active"

ReposIInv == ReposTypeOK /\ ProvenInv /\ HookInv /\ FirstNotices

-----------------------------------------------------------------------------
(* Repository bindings: one binding changes *)

LEMMA BecomesFacts ==
    ASSUME NEW b \in Binding, NEW status \in Statuses
    PROVE  /\ BindingBecomes(b, status) \in Binding
           /\ BindingBecomes(b, status).status = status
           /\ BindingBecomes(b, status).told = b.told
           /\ status = "active" /\ b.proven => BindingBecomes(b, status).proven
<1>1. (b.proven /\ status = "active") \in BOOLEAN OBVIOUS
<1>2. BindingBecomes(b, status) = [b EXCEPT !.status = status, !.proven = b.proven /\ status = "active"]
  BY DEF BindingBecomes, Binding
<1>. DEFINE v == b.proven /\ status = "active"
<1>3. v \in BOOLEAN /\ (status = "active" /\ b.proven => v) BY <1>1
<1>4. BindingBecomes(b, status) = [b EXCEPT !.status = status, !.proven = v] BY <1>2
<1>. HIDE DEF v
<1>. QED BY <1>3, <1>4 DEF Binding

\* A binding that may follow b: it is active only if b was, or not at all.
Follows(c, b) ==
    /\ c \in Binding /\ c.told = b.told
    /\ c.status = "active" => b.status = "active"
    /\ c.status = "active" /\ b.proven => c.proven

LEMMA TransitionFacts ==
    ASSUME NEW status \in Statuses,
           NEW event \in {"deleted", "transferred", "archived", "renamed",
                          "adminSuspend", "adminRevoke", "adminReactivate"}
    PROVE  /\ Transition(status, event) \in Statuses \cup {"none"}
           /\ status # "revoked" => Transition(status, event) # "none"
           /\ Transition(status, event) = "active" => status = "active"
           /\ status # "revoked" /\ event = "deleted" => Transition(status, event) = "revoked"
BY DEF Transition, Statuses

LEMMA BindingShape ==
    ASSUME ReposIInv, NEW p \in BoundProjects, bindings[p] # Unbound
    PROVE  bindings[p] \in Binding /\ bindings[p].status \in Statuses
BY DEF ReposIInv, ReposTypeOK, Binding

\* One binding is replaced by one that may follow it.
LEMMA FollowsStep ==
    ASSUME ReposIInv, NEW p \in BoundProjects, bindings[p] # Unbound, NEW c, Follows(c, bindings[p]),
           bindings' = [bindings EXCEPT ![p] = c], UNCHANGED <<order, provider, hooks>>,
           repoSteps' \in 0..MaxRepoSteps
    PROVE  ReposIInv'
<1>. USE DEF ReposIInv
<1>1. /\ bindings' \in [BoundProjects -> Binding \cup {Unbound}] /\ bindings'[p] = c
      /\ \A q \in BoundProjects : q # p => bindings'[q] = bindings[q]
  BY DEF ReposTypeOK, Follows
<1>2. c # Unbound BY DEF Follows, Binding, Unbound, Statuses
<1>3. ReposTypeOK' BY <1>1 DEF ReposTypeOK
<1>4. ProvenInv' BY <1>1 DEF ProvenInv, Follows
<1>5. HookInv'
  <2>1. \A h \in hooks : h.by \in BoundProjects BY DEF ReposTypeOK
  <2>. QED BY <1>1, <1>2, <2>1 DEF HookInv, Follows
<1>6. FirstNotices'
  <2>1. order # <<>> => order[1] \in BoundProjects BY DEF ReposTypeOK
  <2>. QED BY <1>1, <2>1 DEF FirstNotices, Follows
<1>. QED BY <1>3, <1>4, <1>5, <1>6

LEMMA MutateBindingPreserves ==
    ASSUME ReposIInv, repoSteps' \in 0..MaxRepoSteps, NEW p \in BoundProjects,
           NEW event \in {"adminSuspend", "adminRevoke", "adminReactivate"}, MutateBinding(p, event)
    PROVE  ReposIInv'
<1>. DEFINE b == bindings[p]
            next == Transition(b.status, event)
<1>1. b # Unbound /\ next # "none" BY DEF MutateBinding, Bound
<1>2. b \in Binding /\ b.status \in Statuses BY <1>1, BindingShape
<1>3. next \in Statuses /\ (next = "active" => b.status = "active") BY <1>1, <1>2, TransitionFacts
<1>4. bindings' = [bindings EXCEPT ![p] = BindingBecomes(b, next)] BY DEF MutateBinding
<1>. HIDE DEF next
<1>5. Follows(BindingBecomes(b, next), b) BY <1>2, <1>3, BecomesFacts DEF Follows
<1>. QED BY <1>1, <1>4, <1>5, FollowsStep DEF MutateBinding

LEMMA ReconcileProjectPreserves ==
    ASSUME ReposIInv, repoSteps' \in 0..MaxRepoSteps, NEW p \in BoundProjects,
           NEW visible \in BOOLEAN, NEW dryRun \in BOOLEAN, ReconcileProject(p, visible, dryRun)
    PROVE  ReposIInv'
<1>. DEFINE b == bindings[p]
<1>1. b # Unbound BY DEF ReconcileProject, Bound
<1>2. b \in Binding /\ b.status \in Statuses BY <1>1, BindingShape
<1>3. provider \in [name : RepoNames, archived : BOOLEAN, deleted : BOOLEAN]
  BY DEF ReposIInv, ReposTypeOK
<1>4. Follows(b, b) BY <1>2 DEF Follows
<1>5. Follows(Reconciled(b, visible), b)
  <2>1. CASE b.status = "revoked" BY <1>4, <2>1 DEF Reconciled
  <2>2. CASE b.status # "revoked" /\ ~visible
    <3>1. Transition(b.status, "transferred") \in Statuses
          /\ (Transition(b.status, "transferred") = "active" => b.status = "active")
      BY <1>2, <2>2, TransitionFacts
    <3>. QED BY <1>2, <2>2, <3>1, BecomesFacts DEF Reconciled, Follows
  <2>3. CASE b.status # "revoked" /\ visible /\ provider.deleted
    BY <1>2, <2>3, BecomesFacts DEF Reconciled, Follows, Statuses
  <2>4. CASE b.status # "revoked" /\ visible /\ ~provider.deleted
    <3>. DEFINE named == [b EXCEPT !.name = provider.name]
    <3>1. named \in Binding /\ named.status = b.status /\ named.told = b.told /\ named.proven = b.proven
      BY <1>2, <1>3 DEF Binding
    <3>2. Transition(b.status, "archived") \in Statuses
          /\ (Transition(b.status, "archived") = "active" => b.status = "active")
      BY <1>2, <2>4, TransitionFacts
    <3>3. Reconciled(b, visible) =
             IF provider.archived THEN BindingBecomes(named, Transition(b.status, "archived")) ELSE named
      BY <2>4 DEF Reconciled
    <3>. HIDE DEF named, b
    <3>4. Follows(named, b) BY <3>1 DEF Follows
    <3>5. Follows(BindingBecomes(named, Transition(b.status, "archived")), b)
      BY <3>1, <3>2, BecomesFacts DEF Follows
    <3>. QED BY <3>3, <3>4, <3>5
  <2>. QED BY <2>1, <2>2, <2>3, <2>4
<1>6. CASE dryRun
  <2>1. bindings' = [bindings EXCEPT ![p] = b] BY <1>6 DEF ReconcileProject, ReposIInv, ReposTypeOK
  <2>. QED BY <1>1, <1>4, <2>1, FollowsStep DEF ReconcileProject
<1>7. CASE ~dryRun
  <2>1. bindings' = [bindings EXCEPT ![p] = Reconciled(b, visible)] BY <1>7 DEF ReconcileProject
  <2>. QED BY <1>1, <1>5, <2>1, FollowsStep DEF ReconcileProject
<1>. QED BY <1>6, <1>7

LEMMA BindRepositoryPreserves ==
    ASSUME ReposIInv, repoSteps' \in 0..MaxRepoSteps, NEW p \in BoundProjects, BindRepository(p)
    PROVE  ReposIInv'
<1>. DEFINE c == [status |-> "suspended", name |-> provider.name, proven |-> FALSE, told |-> {}]
<1>. USE DEF ReposIInv
<1>1. c \in Binding /\ c.status = "suspended" /\ c.told = {} /\ c # Unbound
  BY DEF Binding, Statuses, ReposTypeOK, Unbound
<1>2. bindings' = [bindings EXCEPT ![p] = c] /\ order' = Append(order, p) /\ UNCHANGED <<provider, hooks>>
      /\ bindings[p] = Unbound
  BY DEF BindRepository, Bound
<1>. HIDE DEF c
<1>3. /\ bindings' \in [BoundProjects -> Binding \cup {Unbound}] /\ bindings'[p] = c
      /\ \A q \in BoundProjects : q # p => bindings'[q] = bindings[q]
  BY <1>1, <1>2 DEF ReposTypeOK
<1>4. order \in Seq(BoundProjects) BY DEF ReposTypeOK
<1>5. /\ order' \in Seq(BoundProjects) /\ order' # <<>>
      /\ order'[1] = IF order = <<>> THEN p ELSE order[1]
  <2>1. order' = Append(order, p) BY <1>2
  <2>2. Len(order) \in Nat /\ (order = <<>> <=> Len(order) = 0) BY <1>4
  <2>. QED BY <1>4, <2>1, <2>2
<1>6. ReposTypeOK' BY <1>2, <1>3, <1>5 DEF ReposTypeOK
<1>7. ProvenInv' BY <1>1, <1>3 DEF ProvenInv
<1>8. HookInv'
  <2>1. \A h \in hooks : h.by \in BoundProjects BY DEF ReposTypeOK
  <2>. QED BY <1>1, <1>2, <1>3, <1>5, <2>1 DEF HookInv
<1>9. FirstNotices'
  <2>1. order # <<>> => order[1] \in BoundProjects BY <1>4
  <2>. QED BY <1>1, <1>3, <1>5, <2>1 DEF FirstNotices
<1>. QED BY <1>6, <1>7, <1>8, <1>9

\* The provider vouches only for a repository that is there: no deletion was told.
LEMMA ProveOwnershipPreserves ==
    ASSUME ReposIInv, repoSteps' \in 0..MaxRepoSteps, NEW p \in BoundProjects, ProveOwnership(p)
    PROVE  ReposIInv'
<1>. DEFINE b == bindings[p]
            c == [b EXCEPT !.status = "active", !.proven = TRUE]
<1>. USE DEF ReposIInv
<1>1. b # Unbound /\ ~provider.deleted BY DEF ProveOwnership, Bound
<1>2. b \in Binding BY <1>1, BindingShape
<1>3. c \in Binding /\ c.told = b.told /\ c.proven /\ c # Unbound
  BY <1>2 DEF Binding, Statuses, Unbound
<1>4. bindings' = [bindings EXCEPT ![p] = c] /\ UNCHANGED <<order, provider, hooks>>
  BY DEF ProveOwnership
<1>. HIDE DEF c
<1>5. /\ bindings' \in [BoundProjects -> Binding \cup {Unbound}] /\ bindings'[p] = c
      /\ \A q \in BoundProjects : q # p => bindings'[q] = bindings[q]
  BY <1>3, <1>4 DEF ReposTypeOK
<1>6. ReposTypeOK' BY <1>4, <1>5 DEF ReposTypeOK
<1>7. ProvenInv' BY <1>3, <1>5 DEF ProvenInv
<1>8. HookInv'
  <2>1. \A h \in hooks : h.by \in BoundProjects BY DEF ReposTypeOK
  <2>. QED BY <1>1, <1>3, <1>4, <1>5, <2>1 DEF HookInv
<1>9. FirstNotices'
  <2>1. order # <<>> => order[1] \in BoundProjects BY DEF ReposTypeOK
  <2>2. \A q \in BoundProjects : bindings[q] # Unbound => "deleted" \notin bindings[q].told
    BY <1>1 DEF HookInv
  <2>. QED BY <1>1, <1>3, <1>4, <1>5, <2>1, <2>2 DEF FirstNotices
<1>. QED BY <1>6, <1>7, <1>8, <1>9

LEMMA ProviderChangesPreserves ==
    ASSUME ReposIInv, repoSteps' \in 0..MaxRepoSteps, NEW event \in Events, NEW name \in RepoNames,
           ProviderChanges(event, name)
    PROVE  ReposIInv'
<1>. USE DEF ReposIInv, ProviderChanges
<1>1. ~provider.deleted /\ UNCHANGED <<bindings, order>> OBVIOUS
<1>2. provider' \in [name : RepoNames, archived : BOOLEAN, deleted : BOOLEAN]
      /\ (event = "deleted" => provider'.deleted)
  BY DEF ReposTypeOK
<1>3. \A h \in hooks' : h \in hooks \/ (h.event = event /\ bindings[h.by] # Unbound)
  BY DEF Bound
<1>4. hooks' \subseteq [event : Events, name : RepoNames, by : BoundProjects] BY DEF ReposTypeOK
<1>5. ReposTypeOK' BY <1>1, <1>2, <1>4 DEF ReposTypeOK
<1>6. ProvenInv' /\ FirstNotices' BY <1>1 DEF ProvenInv, FirstNotices
<1>7. HookInv' BY <1>1, <1>2, <1>3 DEF HookInv
<1>. QED BY <1>5, <1>6, <1>7

LEMMA LoseHookPreserves ==
    ASSUME ReposIInv, repoSteps' \in 0..MaxRepoSteps, NEW h \in hooks, LoseHook(h) PROVE ReposIInv'
BY DEF ReposIInv, LoseHook, ReposTypeOK, ProvenInv, HookInv, FirstNotices

\* A delivery is noted, and applied if it is looked up under its own binding.
LEMMA PostVcsWebhookPreserves ==
    ASSUME ReposIInv, repoSteps' \in 0..MaxRepoSteps, NEW h \in hooks, NEW again \in BOOLEAN,
           PostVcsWebhook(h, again)
    PROVE  ReposIInv'
<1>. DEFINE p == h.by
            b == bindings[p]
            told == [b EXCEPT !.told = @ \cup {h.event}]
            c == IF order[1] = p THEN Applied(told, h) ELSE told
<1>. USE DEF ReposIInv
<1>1. p \in BoundProjects /\ h.event \in Events /\ h.name \in RepoNames BY DEF ReposTypeOK
<1>2. b # Unbound /\ order # <<>> BY <1>1 DEF HookInv
<1>3. b \in Binding /\ b.status \in Statuses BY <1>1, <1>2, BindingShape
<1>4. told \in Binding /\ told.told = b.told \cup {h.event} /\ told.status = b.status
      /\ told.proven = b.proven
  BY <1>1, <1>3 DEF Binding, Events
<1>5. Told(h) = [bindings EXCEPT ![p] = told] BY DEF Told
<1>6. Told(h) \in [BoundProjects -> Binding \cup {Unbound}] /\ Told(h)[p] = told
  <2>. HIDE DEF told
  <2>. QED BY <1>1, <1>4, <1>5 DEF ReposTypeOK
<1>7. [Told(h) EXCEPT ![p] = Applied(@, h)] = [bindings EXCEPT ![p] = Applied(told, h)]
  <2>. HIDE DEF told
  <2>. QED BY <1>1, <1>5, <1>6 DEF ReposTypeOK
<1>8. bindings' = [bindings EXCEPT ![p] = c] BY <1>5, <1>7 DEF PostVcsWebhook, Addressed
<1>9. UNCHANGED <<order, provider>> /\ hooks' \subseteq hooks BY DEF PostVcsWebhook
<1>. HIDE DEF told
<1>10. Follows(Applied(told, h), told) /\ (h.event = "deleted" => Applied(told, h).status # "active")
  <2>1. CASE told.status = "revoked" BY <1>4, <2>1 DEF Applied, Follows
  <2>2. CASE told.status # "revoked" /\ h.event = "renamed"
    BY <1>1, <1>4, <2>2 DEF Applied, Follows, Binding
  <2>3. CASE told.status # "revoked" /\ h.event # "renamed"
    <3>1. told.status \in Statuses /\ h.event \in {"transferred", "deleted"}
      BY <1>1, <1>3, <1>4, <2>3 DEF Events
    <3>2. /\ Transition(told.status, h.event) \in Statuses
          /\ Transition(told.status, h.event) = "active" => told.status = "active"
          /\ h.event = "deleted" => Transition(told.status, h.event) = "revoked"
      BY <2>3, <3>1, TransitionFacts
    <3>3. Applied(told, h) = BindingBecomes(told, Transition(told.status, h.event))
      BY <2>3 DEF Applied
    <3>. QED BY <1>4, <3>2, <3>3, BecomesFacts DEF Follows
  <2>. QED BY <2>1, <2>2, <2>3
<1>11. Follows(c, told) BY <1>4, <1>10 DEF Follows
<1>12. order[1] = p /\ h.event = "deleted" => c.status # "active" BY <1>10
<1>13. c # Unbound BY <1>11 DEF Follows, Binding, Unbound, Statuses
<1>. HIDE DEF c
<1>14. /\ bindings' \in [BoundProjects -> Binding \cup {Unbound}] /\ bindings'[p] = c
       /\ \A q \in BoundProjects : q # p => bindings'[q] = bindings[q]
  BY <1>1, <1>8, <1>11 DEF ReposTypeOK, Follows
<1>15. c.told = b.told \cup {h.event} /\ (c.status = "active" => b.status = "active")
       /\ (c.status = "active" /\ b.proven => c.proven)
  BY <1>4, <1>11 DEF Follows
<1>. HIDE DEF b, p
<1>16. ReposTypeOK' BY <1>9, <1>14 DEF ReposTypeOK
<1>17. ProvenInv'
  <2>1. b.status = "active" => b.proven BY <1>1, <1>2 DEF ProvenInv, b
  <2>. QED BY <2>1, <1>14, <1>15 DEF ProvenInv
<1>18. HookInv'
  <2>1. \A k \in hooks : k.by \in BoundProjects BY DEF ReposTypeOK
  <2>2. "deleted" \in c.told => provider.deleted
    BY <1>1, <1>2, <1>15 DEF HookInv, b, p
  <2>. QED BY <1>2, <1>9, <1>13, <1>14, <2>1, <2>2 DEF HookInv
<1>19. FirstNotices'
  <2>1. order[1] \in BoundProjects BY <1>2 DEF ReposTypeOK
  <2>2. CASE order[1] = p
    <3>1. "deleted" \in b.told => b.status # "active" BY <1>2, <2>2 DEF FirstNotices, b
    <3>. QED BY <2>2, <3>1, <1>9, <1>12, <1>14, <1>15 DEF FirstNotices
  <2>3. CASE order[1] # p BY <2>1, <2>3, <1>9, <1>14 DEF FirstNotices
  <2>. QED BY <2>2, <2>3
<1>. QED BY <1>16, <1>17, <1>18, <1>19

-----------------------------------------------------------------------------
(* Repository bindings: the theorems *)

LEMMA ReposInitIInv == ASSUME ReposInit PROVE ReposIInv
<1>. USE DEF ReposInit
<1>1. ReposTypeOK
  <2>1. bindings \in [BoundProjects -> Binding \cup {Unbound}] OBVIOUS
  <2>2. order \in Seq(BoundProjects) BY EmptySeq
  <2>3. repoSteps \in 0..MaxRepoSteps BY RepositoriesAssumption
  <2>. QED BY <2>1, <2>2, <2>3 DEF ReposTypeOK
<1>2. ProvenInv /\ HookInv /\ FirstNotices BY DEF ProvenInv, HookInv, FirstNotices
<1>. QED BY <1>1, <1>2 DEF ReposIInv

LEMMA ReposNextPreserves ==
    ASSUME ReposIInv, [ReposNext]_repoVars PROVE ReposIInv'
<1>1. CASE ReposNext
  <2>1. repoSteps' \in 0..MaxRepoSteps
    BY <1>1, RepositoriesAssumption DEF ReposNext, ReposIInv, ReposTypeOK
  <2>2. CASE PostRepository BY <2>1, <2>2, BindRepositoryPreserves DEF PostRepository
  <2>3. CASE PostRepositoryProve BY <2>1, <2>3, ProveOwnershipPreserves DEF PostRepositoryProve
  <2>4. CASE DeleteRepository \/ PostRepositoryReactivate
    BY <2>1, <2>4, MutateBindingPreserves DEF DeleteRepository, PostRepositoryReactivate
  <2>5. CASE \E event \in Events, name \in RepoNames : ProviderChanges(event, name)
    BY <2>1, <2>5, ProviderChangesPreserves
  <2>6. CASE \E h \in hooks : LoseHook(h) \/ \E again \in BOOLEAN : PostVcsWebhook(h, again)
    BY <2>1, <2>6, LoseHookPreserves, PostVcsWebhookPreserves
  <2>7. CASE \E p \in BoundProjects, visible \in BOOLEAN, dryRun \in BOOLEAN :
                ReconcileProject(p, visible, dryRun)
    BY <2>1, <2>7, ReconcileProjectPreserves
  <2>. QED BY <1>1, <2>2, <2>3, <2>4, <2>5, <2>6, <2>7 DEF ReposNext, ReposStep
<1>2. CASE UNCHANGED repoVars
  BY <1>2 DEF repoVars, ReposIInv, ReposTypeOK, ProvenInv, HookInv, FirstNotices
<1>. QED BY <1>1, <1>2

\* For any number of projects, names and deliveries in any order: a binding that
\* admits new secrets was proven after everything that suspended it, and the binding
\* webhooks are looked up for is not active once its hook told of a deletion.
THEOREM BindingsSafety == ReposSpec => [](ActiveIsProven /\ FirstNotices)
<1>1. ReposInit => ReposIInv BY ReposInitIInv
<1>2. ReposIInv /\ [ReposNext]_repoVars => ReposIInv' BY ReposNextPreserves
<1>3. ReposIInv => ActiveIsProven /\ FirstNotices
  BY DEF ReposIInv, ProvenInv, ActiveIsProven, RequireActive, Bound
<1>. QED BY <1>1, <1>2, <1>3, PTL DEF ReposSpec

\* Where one project binds the repository, it is the binding webhooks are looked up
\* for, and everything repository bindings promise holds.
THEOREM SoleBindingSound ==
    ASSUME NEW CONSTANT p, BoundProjects = {p}
    PROVE  ReposSpec => []RepositoriesSound
<1>1. ReposInit => ReposIInv BY ReposInitIInv
<1>2. ReposIInv /\ [ReposNext]_repoVars => ReposIInv' BY ReposNextPreserves
<1>3. ReposIInv => RepositoriesSound
  <2>. SUFFICES ASSUME ReposIInv PROVE RepositoriesSound OBVIOUS
  <2>. USE DEF ReposIInv
  <2>1. ActiveIsProven BY DEF ProvenInv, ActiveIsProven, RequireActive, Bound
  <2>2. DeletionNoticed
    <3>. SUFFICES ASSUME NEW q \in BoundProjects, bindings[q] # Unbound, "deleted" \in bindings[q].told
                 PROVE  bindings[q].status # "active"
      BY DEF DeletionNoticed, RequireActive, Bound
    <3>1. order # <<>> BY DEF HookInv
    <3>2. order[1] \in BoundProjects BY <3>1 DEF ReposTypeOK
    <3>3. order[1] = q BY <3>2
    <3>. QED BY <3>1, <3>3 DEF FirstNotices
  <2>. QED BY <2>1, <2>2 DEF RepositoriesSound
<1>. QED BY <1>1, <1>2, <1>3, PTL DEF ReposSpec

-----------------------------------------------------------------------------
(* Scoped secrets: the inductive invariant *)

\* A file a request has read agrees with the registered bytes, and so does every seal.
RegisteredInv ==
    /\ \A f \in rings : \A l \in Labels : f.keys[l] # None => store.prints[l] = f.keys[l]
    /\ \A v \in store.versions : v.bytes = store.prints[v.label]

\* Versions are numbered without repetition, each with its audit event, and the last
\* one holds what was last written, in the secret's scope.
CurrentAt(s, v) ==
    /\ v.secret = s /\ v.version = store.secrets[s].version
    /\ v.env = store.secrets[s].env /\ v.value = store.written[s]
VersionInv ==
    /\ \A v \in store.versions :
          /\ store.secrets[v.secret] # NoSecretRow /\ v.version <= store.secrets[v.secret].version
          /\ [secret |-> v.secret, version |-> v.version, env |-> v.env] \in store.trail
    /\ \A v, w \in store.versions : v.secret = w.secret /\ v.version = w.version => v = w
    /\ \A s \in Secrets : store.secrets[s] # NoSecretRow =>
          /\ store.secrets[s].version <= steps + 1
          /\ \E v \in store.versions : CurrentAt(s, v)

\* A rotation leaves one version and the committed receipt that stops its retries.
ReceiptInv ==
    \A v \in store.versions : v.by # None =>
        /\ \E r \in store.receipts : r.secret = v.secret /\ r.key = v.by /\ r.committed
        /\ \A w \in store.versions : w.by = v.by /\ w.secret = v.secret => w.version = v.version

\* Once a rewrap has reported nothing remaining, all is sealed with the active key,
\* and whoever still holds a file will seal with it too.
ClearInv ==
    keyfile.clear =>
        /\ \A v \in store.versions :
              v.label = keyfile.file.active /\ v.bytes = keyfile.file.keys[v.label]
        /\ \A f \in rings : f.active = keyfile.file.active
                         /\ f.keys[f.active] = keyfile.file.keys[f.active]

SecretsIInv == SecretsTypeOK /\ RegisteredInv /\ VersionInv /\ ReceiptInv /\ ClearInv

-----------------------------------------------------------------------------
(* Scoped secrets: the two kinds of step *)

LEMMA StoreFields ==
    ASSUME NEW d \in Store
    PROVE  /\ d.secrets \in [Secrets -> Row \cup {NoSecretRow}] /\ d.versions \subseteq Version
           /\ d.receipts \subseteq Receipt /\ d.trail \subseteq TrailEvent
           /\ d.prints \in [Labels -> Materials \cup {None}]
           /\ d.written \in [Secrets -> Values \cup {None}]
BY DEF Store

LEMMA SecretsTypes ==
    ASSUME SecretsIInv
    PROVE  /\ store \in Store /\ keyfile \in [file : KeyFile, clear : BOOLEAN]
           /\ rings \subseteq KeyFile /\ steps \in 0..MaxSteps
           /\ \A s \in Secrets : store.secrets[s] # NoSecretRow => store.secrets[s] \in Row
           /\ \A v \in store.versions : v \in Version
BY DEF SecretsIInv, SecretsTypeOK, Store

\* What the counter of steps adds to a step.
Stepped == steps < MaxSteps /\ steps' = steps + 1

\* The values and their keys stay: rows change in what is not sealed, committed
\* receipts stay.
Calm ==
    /\ store' \in Store /\ store'.versions = store.versions /\ store'.prints = store.prints
    /\ store'.written = store.written /\ store.trail \subseteq store'.trail
    /\ \A s \in Secrets :
          /\ store'.secrets[s] # NoSecretRow <=> store.secrets[s] # NoSecretRow
          /\ store.secrets[s] # NoSecretRow =>
                /\ store'.secrets[s].version = store.secrets[s].version
                /\ store'.secrets[s].env = store.secrets[s].env
    /\ \A r \in store.receipts : r.committed => r \in store'.receipts
    /\ rings' \subseteq rings /\ keyfile' = keyfile

LEMMA StepsCount ==
    ASSUME SecretsIInv, Stepped
    PROVE  steps \in Nat /\ steps' = steps + 1 /\ steps' \in 0..MaxSteps /\ steps + 2 <= MaxSteps + 1
           /\ MaxSteps \in Nat
BY SecretsTypes, ScopedSecretsAssumption DEF Stepped

LEMMA VersionShape ==
    ASSUME SecretsIInv, NEW v \in store.versions
    PROVE  v.secret \in Secrets /\ v.version \in Nat /\ v.label \in Labels
BY SecretsTypes, ScopedSecretsAssumption DEF Version

LEMMA RowShape ==
    ASSUME SecretsIInv, NEW s \in Secrets, store.secrets[s] # NoSecretRow
    PROVE  store.secrets[s] \in Row /\ store.secrets[s].version \in Nat /\ store.secrets[s].env \in Envs
BY SecretsTypes, ScopedSecretsAssumption DEF Row

LEMMA CalmStep ==
    ASSUME SecretsIInv, Stepped, Calm PROVE SecretsIInv'
<1>. USE DEF SecretsIInv
<1>0. steps \in Nat /\ steps' = steps + 1 /\ steps' \in 0..MaxSteps BY StepsCount
<1>1. SecretsTypeOK' BY <1>0 DEF Calm, SecretsTypeOK
<1>2. RegisteredInv' BY DEF Calm, RegisteredInv
<1>3. VersionInv'
  <2>1. ASSUME NEW v \in store'.versions
        PROVE  /\ store'.secrets[v.secret] # NoSecretRow /\ v.version <= store'.secrets[v.secret].version
               /\ [secret |-> v.secret, version |-> v.version, env |-> v.env] \in store'.trail
    BY <2>1, VersionShape DEF Calm, VersionInv
  <2>2. \A v, w \in store'.versions : v.secret = w.secret /\ v.version = w.version => v = w
    BY DEF Calm, VersionInv
  <2>3. ASSUME NEW s \in Secrets, store'.secrets[s] # NoSecretRow
        PROVE  /\ store'.secrets[s].version <= steps' + 1
               /\ \E v \in store'.versions : CurrentAt(s, v)'
    <3>1. /\ store.secrets[s] # NoSecretRow /\ store'.secrets[s].version = store.secrets[s].version
          /\ store'.secrets[s].env = store.secrets[s].env
      BY <2>3 DEF Calm
    <3>2. store.secrets[s].version \in Nat BY <3>1, RowShape
    <3>3. store.secrets[s].version <= steps + 1 /\ \E v \in store.versions : CurrentAt(s, v)
      BY <3>1 DEF VersionInv
    <3>. QED BY <1>0, <3>1, <3>2, <3>3 DEF Calm, CurrentAt
  <2>. QED BY <2>1, <2>2, <2>3 DEF VersionInv
<1>4. ReceiptInv' BY DEF Calm, ReceiptInv
<1>5. ClearInv' BY DEF Calm, ClearInv
<1>. QED BY <1>1, <1>2, <1>3, <1>4, <1>5

\* One version more: value v of s under number n in scope e, sealed with file f for k.
Written(f, s, n, e, v, k) ==
    /\ store' \in Store
    /\ store'.versions = store.versions \cup {Sealed(f, s, n, e, v, k)}
    /\ store'.prints = store.prints
    /\ store'.written[s] = v /\ \A t \in Secrets \ {s} : store'.written[t] = store.written[t]
    /\ store.trail \cup {[secret |-> s, version |-> n, env |-> e]} \subseteq store'.trail
    /\ store'.secrets[s] # NoSecretRow /\ store'.secrets[s].version = n /\ store'.secrets[s].env = e
    /\ \A t \in Secrets \ {s} : store'.secrets[t] = store.secrets[t]
    /\ \A r \in store.receipts : r.committed => r \in store'.receipts
    /\ rings' \subseteq rings /\ keyfile' = keyfile

LEMMA SealedShape ==
    ASSUME NEW f, NEW s, NEW n, NEW e, NEW v, NEW k
    PROVE  /\ Sealed(f, s, n, e, v, k).secret = s /\ Sealed(f, s, n, e, v, k).version = n
           /\ Sealed(f, s, n, e, v, k).env = e /\ Sealed(f, s, n, e, v, k).value = v
           /\ Sealed(f, s, n, e, v, k).label = f.active
           /\ Sealed(f, s, n, e, v, k).bytes = f.keys[f.active] /\ Sealed(f, s, n, e, v, k).by = k
BY DEF Sealed

LEMMA WrittenStep ==
    ASSUME SecretsIInv, Stepped, NEW f \in rings, NEW s \in Secrets, NEW n \in Nat, NEW e, NEW v, NEW k,
           Written(f, s, n, e, v, k), n <= steps + 2,
           \A w \in store.versions : w.secret = s => w.version < n,
           k # None =>
              /\ \E r \in store'.receipts : r.secret = s /\ r.key = k /\ r.committed
              /\ \A w \in store.versions : w.secret = s => w.by # k
    PROVE  SecretsIInv'
<1>. DEFINE x == Sealed(f, s, n, e, v, k)
<1>. USE DEF SecretsIInv
<1>0. steps \in Nat /\ steps' = steps + 1 /\ steps' \in 0..MaxSteps BY StepsCount
<1>1. /\ x.secret = s /\ x.version = n /\ x.env = e /\ x.value = v
      /\ x.label = f.active /\ x.bytes = f.keys[f.active] /\ x.by = k
  BY SealedShape
<1>. HIDE DEF x
<1>2. /\ store' \in Store /\ store'.versions = store.versions \cup {x}
      /\ store'.prints = store.prints
      /\ store'.written[s] = v /\ \A t \in Secrets \ {s} : store'.written[t] = store.written[t]
      /\ store.trail \cup {[secret |-> s, version |-> n, env |-> e]} \subseteq store'.trail
      /\ store'.secrets[s] # NoSecretRow /\ store'.secrets[s].version = n /\ store'.secrets[s].env = e
      /\ \A t \in Secrets \ {s} : store'.secrets[t] = store.secrets[t]
      /\ \A r \in store.receipts : r.committed => r \in store'.receipts
      /\ rings' \subseteq rings /\ keyfile' = keyfile
  BY DEF Written, x
<1>3. f.active \in Labels /\ f.keys[f.active] # None BY SecretsTypes DEF KeyFile
<1>4. SecretsTypeOK' BY <1>0, <1>2 DEF SecretsTypeOK
<1>5. RegisteredInv'
  <2>1. x.bytes = store.prints[x.label] BY <1>1, <1>3 DEF RegisteredInv
  <2>. QED BY <1>2, <2>1 DEF RegisteredInv
<1>6. VersionInv'
  <2>1. ASSUME NEW w \in store'.versions
        PROVE  /\ store'.secrets[w.secret] # NoSecretRow /\ w.version <= store'.secrets[w.secret].version
               /\ [secret |-> w.secret, version |-> w.version, env |-> w.env] \in store'.trail
    <3>1. CASE w = x BY <1>1, <1>2, <3>1
    <3>2. CASE w \in store.versions
      <4>1. w.secret \in Secrets /\ w.version \in Nat BY <3>2, VersionShape
      <4>. QED BY <1>2, <3>2, <4>1 DEF VersionInv
    <3>. QED BY <1>2, <3>1, <3>2
  <2>2. ASSUME NEW u \in store'.versions, NEW w \in store'.versions,
               u.secret = w.secret, u.version = w.version
        PROVE  u = w
    <3>1. ASSUME NEW z \in store.versions, z.secret = s PROVE z.version # n
      <4>1. z.version \in Nat /\ z.version < n BY <3>1, VersionShape
      <4>. QED BY <4>1
    <3>. QED BY <1>1, <1>2, <2>2, <3>1 DEF VersionInv
  <2>3. ASSUME NEW t \in Secrets, store'.secrets[t] # NoSecretRow
        PROVE  /\ store'.secrets[t].version <= steps' + 1
               /\ \E w \in store'.versions : CurrentAt(t, w)'
    <3>1. CASE t = s
      <4>1. CurrentAt(s, x)' BY <1>1, <1>2 DEF CurrentAt
      <4>. QED BY <1>0, <1>2, <3>1, <4>1
    <3>2. CASE t # s
      <4>1. store.secrets[t] # NoSecretRow /\ store'.secrets[t] = store.secrets[t]
            /\ store'.written[t] = store.written[t]
        BY <1>2, <2>3, <3>2
      <4>2. store.secrets[t].version \in Nat BY <4>1, RowShape
      <4>3. store.secrets[t].version <= steps + 1 /\ \E w \in store.versions : CurrentAt(t, w)
        BY <4>1 DEF VersionInv
      <4>. QED BY <1>0, <1>2, <4>1, <4>2, <4>3 DEF CurrentAt
    <3>. QED BY <3>1, <3>2
  <2>. QED BY <2>1, <2>2, <2>3 DEF VersionInv
<1>7. ReceiptInv'
  <2>. SUFFICES ASSUME NEW w \in store'.versions, w.by # None
               PROVE  /\ \E r \in store'.receipts : r.secret = w.secret /\ r.key = w.by /\ r.committed
                      /\ \A u \in store'.versions : u.by = w.by /\ u.secret = w.secret => u.version = w.version
    BY DEF ReceiptInv
  <2>1. CASE w = x BY <1>1, <1>2, <2>1
  <2>2. CASE w \in store.versions
    <3>1. /\ \E r \in store.receipts : r.secret = w.secret /\ r.key = w.by /\ r.committed
          /\ \A u \in store.versions : u.by = w.by /\ u.secret = w.secret => u.version = w.version
      BY <2>2 DEF ReceiptInv
    <3>2. ~(x.by = w.by /\ x.secret = w.secret) BY <1>1, <2>2
    <3>. QED BY <1>2, <3>1, <3>2
  <2>. QED BY <1>2, <2>1, <2>2
<1>8. ClearInv'
  <2>. SUFFICES ASSUME keyfile.clear PROVE ClearInv' BY <1>2 DEF ClearInv
  <2>1. x.label = keyfile.file.active /\ x.bytes = keyfile.file.keys[x.label]
    BY <1>1 DEF ClearInv
  <2>. QED BY <1>2, <2>1 DEF ClearInv
<1>. QED BY <1>4, <1>5, <1>6, <1>7, <1>8

-----------------------------------------------------------------------------
(* Scoped secrets: the operators on the database *)

LEMMA KeyFileShape ==
    ASSUME NEW f \in KeyFile
    PROVE  f.active \in Labels /\ f.keys \in [Labels -> Materials \cup {None}] /\ f.keys[f.active] \in Materials
BY DEF KeyFile

LEMMA SealedType ==
    ASSUME NEW f \in KeyFile, NEW s \in Secrets, NEW n \in 1..(MaxSteps + 1), NEW e \in Envs,
           NEW v \in Values, NEW k \in ReceiptKeys \cup {None}
    PROVE  Sealed(f, s, n, e, v, k) \in Version
BY KeyFileShape DEF Sealed, Version

LEMMA AuditedFacts ==
    ASSUME NEW d \in Store, NEW s \in Secrets, d.secrets[s] \in Row
    PROVE  /\ Audited(d, s) \in Store
           /\ Audited(d, s).trail =
                 d.trail \cup {[secret |-> s, version |-> d.secrets[s].version, env |-> d.secrets[s].env]}
           /\ Audited(d, s).secrets = d.secrets /\ Audited(d, s).versions = d.versions
           /\ Audited(d, s).receipts = d.receipts /\ Audited(d, s).prints = d.prints
           /\ Audited(d, s).written = d.written
<1>. DEFINE ev == [secret |-> s, version |-> d.secrets[s].version, env |-> d.secrets[s].env]
<1>1. ev \in TrailEvent BY DEF TrailEvent, Row
<1>2. Audited(d, s) = [d EXCEPT !.trail = @ \cup {ev}] BY DEF Audited
<1>. HIDE DEF ev
<1>3. /\ Audited(d, s) \in Store /\ Audited(d, s).trail = d.trail \cup {ev}
      /\ Audited(d, s).secrets = d.secrets /\ Audited(d, s).versions = d.versions
      /\ Audited(d, s).receipts = d.receipts /\ Audited(d, s).prints = d.prints
      /\ Audited(d, s).written = d.written
  BY <1>1, <1>2 DEF Store
<1>. QED BY <1>3 DEF ev

LEMMA NewVersionFacts ==
    ASSUME NEW d \in Store, NEW f \in KeyFile, NEW s \in Secrets, d.secrets[s] \in Row,
           d.secrets[s].version + 1 \in 1..(MaxSteps + 1),
           NEW e \in Envs, NEW v \in Values, NEW k \in ReceiptKeys \cup {None}
    PROVE  LET n == d.secrets[s].version + 1
               new == NewVersion(d, f, s, e, v, k)
           IN  /\ new \in Store /\ new.versions = d.versions \cup {Sealed(f, s, n, e, v, k)}
               /\ new.secrets[s] \in Row /\ new.secrets[s].version = n /\ new.secrets[s].env = e
               /\ \A t \in Secrets \ {s} : new.secrets[t] = d.secrets[t]
               /\ new.receipts = d.receipts /\ new.trail = d.trail /\ new.prints = d.prints
               /\ new.written = d.written
<1>. DEFINE n == d.secrets[s].version + 1
            x == Sealed(f, s, n, e, v, k)
            row == [d.secrets[s] EXCEPT !.version = n, !.env = e]
            rows == [d.secrets EXCEPT ![s] = row]
            new == NewVersion(d, f, s, e, v, k)
<1>1. x \in Version BY SealedType
<1>2. row \in Row /\ row.version = n /\ row.env = e BY DEF Row
<1>3. d.secrets \in [Secrets -> Row \cup {NoSecretRow}] BY StoreFields
<1>4. new = [d EXCEPT !.versions = @ \cup {x}, !.secrets = rows] BY <1>3 DEF NewVersion, Store
<1>. HIDE DEF row, n, x, new
<1>5. /\ rows \in [Secrets -> Row \cup {NoSecretRow}] /\ rows[s] = row
      /\ \A t \in Secrets \ {s} : rows[t] = d.secrets[t]
  BY <1>2, <1>3
<1>. HIDE DEF rows
<1>6. /\ new \in Store /\ new.versions = d.versions \cup {x} /\ new.secrets = rows
      /\ new.receipts = d.receipts /\ new.trail = d.trail /\ new.prints = d.prints
      /\ new.written = d.written
  BY <1>1, <1>4, <1>5 DEF Store
<1>. QED BY <1>2, <1>5, <1>6 DEF n, x, new

-----------------------------------------------------------------------------
(* Scoped secrets: one lemma per handler *)

LEMMA CreateSecretPreserves ==
    ASSUME SecretsIInv, Stepped, NEW f \in rings, NEW s \in Secrets, NEW e \in Envs, NEW nm \in Names,
           NEW b \in Bindings \cup {None}, NEW v \in Values, CreateSecret(f, s, e, nm, b, v)
    PROVE  SecretsIInv'
<1>. DEFINE row == [env |-> e, name |-> nm, version |-> 1, binding |-> b, status |-> "active"]
            x == Sealed(f, s, 1, e, v, None)
            rows == [store.secrets EXCEPT ![s] = row]
            vals == [store.written EXCEPT ![s] = v]
            d == [store EXCEPT !.secrets = rows, !.versions = @ \cup {x}, !.written = vals]
<1>1. store \in Store /\ f \in KeyFile /\ steps \in Nat /\ MaxSteps \in Nat BY SecretsTypes, StepsCount
<1>2. 1 \in 1..(MaxSteps + 1) BY <1>1
<1>3. row \in Row /\ row.version = 1 /\ row.env = e BY <1>2 DEF Row
<1>4. x \in Version BY <1>1, <1>2, SealedType
<1>5. store.secrets \in [Secrets -> Row \cup {NoSecretRow}] /\ store.written \in [Secrets -> Values \cup {None}]
  BY <1>1, StoreFields
<1>6. store' = Audited([store EXCEPT !.secrets[s] = row, !.versions = @ \cup {x}, !.written[s] = v], s)
      /\ rings' = rings \ {f} /\ keyfile' = keyfile /\ store.secrets[s] = NoSecretRow
  BY DEF CreateSecret, With
<1>7. [store EXCEPT !.secrets[s] = row, !.versions = @ \cup {x}, !.written[s] = v] = d
  BY <1>1 DEF Store
<1>. HIDE DEF row, x
<1>8. /\ rows \in [Secrets -> Row \cup {NoSecretRow}] /\ rows[s] = row
      /\ \A t \in Secrets \ {s} : rows[t] = store.secrets[t]
      /\ vals \in [Secrets -> Values \cup {None}] /\ vals[s] = v
      /\ \A t \in Secrets \ {s} : vals[t] = store.written[t]
  BY <1>3, <1>5
<1>. HIDE DEF rows, vals
<1>9. /\ d \in Store /\ d.secrets = rows /\ d.versions = store.versions \cup {x} /\ d.written = vals
      /\ d.receipts = store.receipts /\ d.trail = store.trail /\ d.prints = store.prints
  BY <1>1, <1>4, <1>8 DEF Store
<1>10. store' = Audited(d, s) BY <1>6, <1>7
<1>. HIDE DEF d
<1>11. d.secrets[s] \in Row BY <1>3, <1>8, <1>9
<1>12. /\ store' \in Store /\ store'.secrets = rows /\ store'.versions = store.versions \cup {x}
       /\ store'.written = vals /\ store'.receipts = store.receipts /\ store'.prints = store.prints
       /\ store'.trail = store.trail \cup {[secret |-> s, version |-> 1, env |-> e]}
  BY <1>3, <1>8, <1>9, <1>10, <1>11, AuditedFacts
<1>13. store'.secrets[s] # NoSecretRow
  BY <1>3, <1>8, <1>12 DEF NoSecretRow
<1>14. Written(f, s, 1, e, v, None) BY <1>3, <1>6, <1>8, <1>12, <1>13 DEF Written, x
<1>15. \A w \in store.versions : w.secret = s => w.version < 1
  BY <1>6 DEF SecretsIInv, VersionInv
<1>16. 1 \in Nat /\ 1 <= steps + 2 BY <1>1
<1>. QED BY <1>14, <1>15, <1>16, WrittenStep

LEMMA ReadValuesPreserves ==
    ASSUME SecretsIInv, Stepped, NEW f \in rings, NEW batch \in SUBSET Secrets, ReadValues(f, batch)
    PROVE  SecretsIInv'
<1>. DEFINE evs == {[secret |-> s, version |-> store.secrets[s].version,
                     env |-> store.secrets[s].env] : s \in batch}
<1>1. store \in Store BY SecretsTypes
<1>2. \A s \in batch : store.secrets[s] \in Row BY SecretsTypes DEF ReadValues, Live
<1>3. evs \subseteq TrailEvent BY <1>2 DEF Row, TrailEvent
<1>4. /\ store' = [store EXCEPT !.trail = @ \cup evs] \/ store' = store
      /\ rings' \subseteq rings /\ keyfile' = keyfile
  BY DEF ReadValues, With
<1>. HIDE DEF evs
<1>5. /\ store' \in Store /\ store'.secrets = store.secrets /\ store'.versions = store.versions
      /\ store'.written = store.written /\ store'.receipts = store.receipts
      /\ store'.prints = store.prints /\ store.trail \subseteq store'.trail
  BY <1>1, <1>3, <1>4 DEF Store
<1>. QED BY <1>4, <1>5, CalmStep DEF Calm

\* The next number of a live secret is free.
LEMMA NextNumber ==
    ASSUME SecretsIInv, Stepped, NEW s \in Secrets, store.secrets[s] # NoSecretRow
    PROVE  LET n == store.secrets[s].version + 1
           IN  /\ n \in Nat /\ n \in 1..(MaxSteps + 1) /\ n <= steps + 2
               /\ \A w \in store.versions : w.secret = s => w.version < n
<1>1. store.secrets[s].version \in Nat BY RowShape
<1>2. store.secrets[s].version <= steps + 1 BY DEF SecretsIInv, VersionInv
<1>3. steps \in Nat /\ steps + 2 <= MaxSteps + 1 /\ MaxSteps \in Nat BY StepsCount
<1>4. ASSUME NEW w \in store.versions, w.secret = s PROVE w.version < store.secrets[s].version + 1
  <2>1. w.version \in Nat BY VersionShape
  <2>2. w.version <= store.secrets[s].version BY <1>4 DEF SecretsIInv, VersionInv
  <2>. QED BY <1>1, <2>1, <2>2
<1>. QED BY <1>1, <1>2, <1>3, <1>4

\* A retry under the key of a committed rotation, or for another value, changes
\* nothing; a fresh one leaves a receipt and, if the value passes, a version.
LEMMA RotateSecretPreserves ==
    ASSUME SecretsIInv, Stepped, NEW f \in rings, NEW s \in Secrets, NEW k \in ReceiptKeys,
           NEW v \in Values, RotateSecret(f, s, k, v)
    PROVE  SecretsIInv'
<1>. DEFINE passes == v \notin BadValues
            n == store.secrets[s].version + 1
            receipt == [secret |-> s, key |-> k, value |-> v, committed |-> passes,
                        version |-> IF passes THEN n ELSE 0]
            tried == [store EXCEPT !.receipts = (@ \ ReceiptFor(s, k)) \cup {receipt}]
            new == NewVersion(tried, f, s, store.secrets[s].env, v, k)
<1>1. store \in Store /\ f \in KeyFile BY SecretsTypes
<1>2. store.secrets[s] # NoSecretRow BY DEF RotateSecret, Live
<1>3. store.secrets[s] \in Row /\ store.secrets[s].env \in Envs BY <1>2, RowShape
<1>4. n \in Nat /\ n \in 1..(MaxSteps + 1) /\ n <= steps + 2
      /\ \A w \in store.versions : w.secret = s => w.version < n
  BY <1>2, NextNumber
<1>5. rings' = rings \ {f} /\ keyfile' = keyfile BY DEF RotateSecret, With
<1>6. store' = IF ~FreshRotation(s, k, v) THEN store
               ELSE IF ~passes THEN tried ELSE Audited([new EXCEPT !.written[s] = v], s)
  BY DEF RotateSecret, With
<1>7. receipt \in Receipt /\ receipt.secret = s /\ receipt.key = k /\ receipt.committed = passes
  <2>. DEFINE yes == v \notin BadValues
  <2>1. yes \in BOOLEAN /\ passes = yes OBVIOUS
  <2>2. n \in 0..(MaxSteps + 1) /\ 0 \in 0..(MaxSteps + 1) BY <1>4, ScopedSecretsAssumption
  <2>3. receipt = [secret |-> s, key |-> k, value |-> v, committed |-> yes, version |-> IF yes THEN n ELSE 0]
    BY <2>1
  <2>. HIDE DEF yes, n, passes, receipt
  <2>4. receipt.committed = yes /\ receipt \in Receipt /\ receipt.secret = s /\ receipt.key = k
    BY <2>1, <2>2, <2>3 DEF Receipt
  <2>. QED BY <2>1, <2>4
<1>8. CASE ~FreshRotation(s, k, v)
  <2>1. store' = store BY <1>6, <1>8
  <2>. QED BY <1>1, <1>5, <2>1, CalmStep DEF Calm
<1>. HIDE DEF receipt, passes
<1>9. /\ tried \in Store /\ tried.secrets = store.secrets /\ tried.versions = store.versions
      /\ tried.written = store.written /\ tried.trail = store.trail /\ tried.prints = store.prints
      /\ tried.receipts = (store.receipts \ ReceiptFor(s, k)) \cup {receipt}
  BY <1>1, <1>7 DEF Store
<1>. HIDE DEF tried
<1>10. ASSUME FreshRotation(s, k, v)
       PROVE  /\ \A r \in store.receipts : r.committed => r \in tried.receipts
              /\ \A w \in store.versions : w.secret = s => w.by # k \/ k = None
  <2>1. \A r \in ReceiptFor(s, k) : ~r.committed BY <1>10 DEF FreshRotation
  <2>2. \A r \in store.receipts : r.secret = s /\ r.key = k => ~r.committed
    BY <2>1 DEF ReceiptFor
  <2>. QED BY <1>9, <2>1, <2>2 DEF SecretsIInv, ReceiptInv
<1>11. CASE FreshRotation(s, k, v) /\ ~passes
  <2>1. store' = tried BY <1>6, <1>11
  <2>. QED BY <1>5, <1>9, <1>10, <1>11, <2>1, CalmStep DEF Calm
<1>12. CASE FreshRotation(s, k, v) /\ passes
  <2>. DEFINE e == store.secrets[s].env
              x == Sealed(f, s, n, e, v, k)
              vals == [new.written EXCEPT ![s] = v]
              d == [new EXCEPT !.written = vals]
  <2>1. /\ new \in Store /\ new.versions = store.versions \cup {x}
        /\ new.secrets[s] \in Row /\ new.secrets[s].version = n /\ new.secrets[s].env = e
        /\ \A t \in Secrets \ {s} : new.secrets[t] = store.secrets[t]
        /\ new.receipts = tried.receipts /\ new.trail = store.trail /\ new.prints = store.prints
        /\ new.written = store.written
    <3>1. tried.secrets[s] = store.secrets[s] BY <1>9
    <3>2. k \in ReceiptKeys \cup {None} OBVIOUS
    <3>. QED BY <1>1, <1>3, <1>4, <1>9, <3>1, <3>2, NewVersionFacts
  <2>. HIDE DEF new, x
  <2>2. vals \in [Secrets -> Values \cup {None}] /\ vals[s] = v
        /\ \A t \in Secrets \ {s} : vals[t] = store.written[t]
    <3>1. new.written \in [Secrets -> Values \cup {None}] BY <2>1, StoreFields
    <3>. QED BY <2>1, <3>1
  <2>3. store' = Audited(d, s)
    <3>1. [new EXCEPT !.written[s] = v] = d BY <2>1 DEF Store
    <3>. QED BY <1>6, <1>12, <3>1
  <2>. HIDE DEF vals
  <2>4. /\ d \in Store /\ d.versions = new.versions /\ d.secrets = new.secrets /\ d.written = vals
        /\ d.receipts = new.receipts /\ d.trail = new.trail /\ d.prints = new.prints
    BY <2>1, <2>2 DEF Store
  <2>. HIDE DEF d
  <2>5. d.secrets[s] \in Row BY <2>1, <2>4
  <2>6. /\ store' \in Store /\ store'.secrets = new.secrets /\ store'.versions = store.versions \cup {x}
        /\ store'.written = vals /\ store'.receipts = tried.receipts /\ store'.prints = store.prints
        /\ store'.trail = store.trail \cup {[secret |-> s, version |-> n, env |-> e]}
    <3>. HIDE DEF n, e
    <3>. QED BY <2>1, <2>3, <2>4, <2>5, AuditedFacts
  <2>. HIDE DEF n, e
  <2>7. store'.secrets[s] # NoSecretRow BY <2>1, <2>6 DEF NoSecretRow, Row
  <2>8. Written(f, s, n, e, v, k) BY <1>5, <1>10, <1>12, <2>1, <2>2, <2>6, <2>7 DEF Written, x
  <2>9. \E r \in store'.receipts : r.secret = s /\ r.key = k /\ r.committed
    BY <1>7, <1>9, <1>12, <2>6
  <2>. QED BY <1>4, <1>10, <1>12, <2>8, <2>9, WrittenStep
<1>. QED BY <1>8, <1>11, <1>12

\* A move opens the one current version, which holds what was last written.
LEMMA OpenedIsWritten ==
    ASSUME SecretsIInv, NEW f, NEW s \in Secrets, store.secrets[s] # NoSecretRow,
           NEW val \in Opened(f, s)
    PROVE  val = store.written[s] /\ val \in Values
<1>1. PICK w \in store.versions : w.secret = s /\ w.version = store.secrets[s].version /\ val = w.value
  BY DEF Opened
<1>2. PICK u \in store.versions : CurrentAt(s, u) BY DEF SecretsIInv, VersionInv
<1>3. u = w BY <1>1, <1>2 DEF SecretsIInv, VersionInv, CurrentAt
<1>4. w.value \in Values BY SecretsTypes DEF Version
<1>. QED BY <1>1, <1>2, <1>3, <1>4 DEF CurrentAt

\* A row changed in its name, binding or status, and its audit event.
LEMMA EditedRowCalm ==
    ASSUME SecretsIInv, NEW s \in Secrets, store.secrets[s] # NoSecretRow, NEW row \in Row,
           row.version = store.secrets[s].version, row.env = store.secrets[s].env, NEW rows,
           rows = [store.secrets EXCEPT ![s] = row],
           NEW d, d = [store EXCEPT !.secrets = rows],
           store' = Audited(d, s), rings' \subseteq rings, keyfile' = keyfile
    PROVE  Calm
<1>1. store \in Store BY SecretsTypes
<1>2. store.secrets \in [Secrets -> Row \cup {NoSecretRow}] BY <1>1, StoreFields
<1>3. /\ rows \in [Secrets -> Row \cup {NoSecretRow}] /\ rows[s] = row
      /\ \A t \in Secrets \ {s} : rows[t] = store.secrets[t]
  BY <1>2
<1>4. /\ d \in Store /\ d.secrets = rows /\ d.versions = store.versions /\ d.written = store.written
      /\ d.receipts = store.receipts /\ d.trail = store.trail /\ d.prints = store.prints
  BY <1>1, <1>3 DEF Store
<1>6. d.secrets[s] \in Row BY <1>3, <1>4
<1>7. /\ store' \in Store /\ store'.secrets = rows /\ store'.versions = store.versions
      /\ store'.written = store.written /\ store'.receipts = store.receipts
      /\ store'.prints = store.prints /\ store.trail \subseteq store'.trail
  BY <1>4, <1>6, AuditedFacts
<1>8. row # NoSecretRow BY DEF Row, NoSecretRow
<1>. QED BY <1>3, <1>7, <1>8 DEF Calm

\* update_secret_metadata, rebind_secret and delete_secret.
LEMMA EditsPreserve ==
    ASSUME SecretsIInv, Stepped, NEW s \in Secrets,
           \/ \E status \in {"active", "deprecated"} : UpdateSecretMetadata(s, status)
           \/ \E b \in Bindings \cup {None} : RebindSecret(s, b)
           \/ DeleteSecret(s)
    PROVE  SecretsIInv'
<1>1. store.secrets[s] # NoSecretRow BY DEF UpdateSecretMetadata, RebindSecret, DeleteSecret, Live
<1>2. store.secrets[s] \in Row BY <1>1, RowShape
<1>3. store \in Store BY SecretsTypes
<1>4. store.secrets \in [Secrets -> Row \cup {NoSecretRow}] BY <1>3, StoreFields
<1>5. ASSUME NEW status \in {"active", "deprecated", "scheduled_deletion"},
             Edited([store EXCEPT !.secrets[s].status = status], s)
      PROVE  SecretsIInv'
  <2>. DEFINE row == [store.secrets[s] EXCEPT !.status = status]
              rows == [store.secrets EXCEPT ![s] = row]
  <2>1. row \in Row /\ row.version = store.secrets[s].version /\ row.env = store.secrets[s].env
    BY <1>2 DEF Row
  <2>2. [store EXCEPT !.secrets[s].status = status] = [store EXCEPT !.secrets = rows]
    BY <1>3, <1>4 DEF Store
  <2>3. store' = Audited([store EXCEPT !.secrets = rows], s) /\ rings' = rings /\ keyfile' = keyfile
    BY <1>5, <2>2 DEF Edited
  <2>. HIDE DEF row
  <2>. QED BY <1>1, <2>1, <2>3, EditedRowCalm, CalmStep
<1>6. ASSUME NEW b \in Bindings \cup {None}, Edited([store EXCEPT !.secrets[s].binding = b], s)
      PROVE  SecretsIInv'
  <2>. DEFINE row == [store.secrets[s] EXCEPT !.binding = b]
              rows == [store.secrets EXCEPT ![s] = row]
  <2>1. row \in Row /\ row.version = store.secrets[s].version /\ row.env = store.secrets[s].env
    BY <1>2 DEF Row
  <2>2. [store EXCEPT !.secrets[s].binding = b] = [store EXCEPT !.secrets = rows]
    BY <1>3, <1>4 DEF Store
  <2>3. store' = Audited([store EXCEPT !.secrets = rows], s) /\ rings' = rings /\ keyfile' = keyfile
    BY <1>6, <2>2 DEF Edited
  <2>. HIDE DEF row
  <2>. QED BY <1>1, <2>1, <2>3, EditedRowCalm, CalmStep
<1>. QED BY <1>5, <1>6 DEF UpdateSecretMetadata, RebindSecret, DeleteSecret

\* A new name alone touches the row; a new scope seals the written value again.
LEMMA MoveSecretPreserves ==
    ASSUME SecretsIInv, Stepped, NEW f \in rings, NEW s \in Secrets, NEW e \in Envs, NEW nm \in Names,
           MoveSecret(f, s, e, nm)
    PROVE  SecretsIInv'
<1>. DEFINE row == [store.secrets[s] EXCEPT !.name = nm]
            rows == [store.secrets EXCEPT ![s] = row]
            renamed == [store EXCEPT !.secrets = rows]
            val == CHOOSE v \in Opened(f, s) : TRUE
            n == store.secrets[s].version + 1
            new == NewVersion(renamed, f, s, e, val, None)
<1>1. store.secrets[s] # NoSecretRow BY DEF MoveSecret, Live
<1>2. store \in Store /\ f \in KeyFile BY SecretsTypes
<1>3. store.secrets[s] \in Row BY <1>1, RowShape
<1>4. store.secrets \in [Secrets -> Row \cup {NoSecretRow}] BY <1>2, StoreFields
<1>5. row \in Row /\ row.version = store.secrets[s].version /\ row.env = store.secrets[s].env
  BY <1>3 DEF Row
<1>6. [store EXCEPT !.secrets[s].name = nm] = renamed BY <1>2, <1>4 DEF Store
<1>7. rings' = rings \ {f} /\ keyfile' = keyfile BY DEF MoveSecret, With
<1>8. store' = IF e = store.secrets[s].env THEN Audited(renamed, s)
               ELSE IF Opened(f, s) = {} THEN store ELSE Audited(new, s)
  BY <1>6 DEF MoveSecret, With
<1>. HIDE DEF row
<1>9. CASE e = store.secrets[s].env
  <2>1. store' = Audited(renamed, s) BY <1>8, <1>9
  <2>. QED BY <1>1, <1>5, <1>7, <2>1, EditedRowCalm, CalmStep
<1>10. CASE e # store.secrets[s].env /\ Opened(f, s) = {}
  <2>1. store' = store BY <1>8, <1>10
  <2>. QED BY <1>2, <1>7, <2>1, CalmStep DEF Calm
<1>11. CASE e # store.secrets[s].env /\ Opened(f, s) # {}
  <2>. DEFINE x == Sealed(f, s, n, e, val, None)
  <2>1. /\ rows \in [Secrets -> Row \cup {NoSecretRow}] /\ rows[s] = row
        /\ \A t \in Secrets \ {s} : rows[t] = store.secrets[t]
    BY <1>4, <1>5
  <2>. HIDE DEF rows
  <2>2. /\ renamed \in Store /\ renamed.secrets = rows /\ renamed.versions = store.versions
        /\ renamed.written = store.written /\ renamed.receipts = store.receipts
        /\ renamed.trail = store.trail /\ renamed.prints = store.prints
    BY <1>2, <2>1 DEF Store
  <2>. HIDE DEF renamed
  <2>3. val = store.written[s] /\ val \in Values
    <3>1. val \in Opened(f, s) BY <1>11
    <3>. HIDE DEF val
    <3>. QED BY <1>1, <3>1, OpenedIsWritten
  <2>. HIDE DEF val
  <2>4. n \in Nat /\ n \in 1..(MaxSteps + 1) /\ n <= steps + 2
        /\ \A w \in store.versions : w.secret = s => w.version < n
    BY <1>1, NextNumber
  <2>5. /\ new \in Store /\ new.versions = store.versions \cup {x}
        /\ new.secrets[s] \in Row /\ new.secrets[s].version = n /\ new.secrets[s].env = e
        /\ \A t \in Secrets \ {s} : new.secrets[t] = store.secrets[t]
        /\ new.receipts = store.receipts /\ new.trail = store.trail /\ new.prints = store.prints
        /\ new.written = store.written
    <3>1. renamed.secrets[s] \in Row /\ renamed.secrets[s].version + 1 = n BY <1>5, <2>1, <2>2
    <3>2. None \in ReceiptKeys \cup {None} OBVIOUS
    <3>. QED BY <1>2, <2>1, <2>2, <2>3, <2>4, <3>1, <3>2, NewVersionFacts
  <2>6. store' = Audited(new, s) BY <1>8, <1>11
  <2>. HIDE DEF new, x, n
  <2>7. /\ store' \in Store /\ store'.secrets = new.secrets /\ store'.versions = store.versions \cup {x}
        /\ store'.written = store.written /\ store'.receipts = store.receipts
        /\ store'.prints = store.prints
        /\ store'.trail = store.trail \cup {[secret |-> s, version |-> n, env |-> e]}
    BY <2>5, <2>6, AuditedFacts
  <2>8. store'.secrets[s] # NoSecretRow BY <2>5, <2>7 DEF NoSecretRow, Row
  <2>9. Written(f, s, n, e, val, None) BY <1>7, <2>3, <2>5, <2>7, <2>8 DEF Written, x
  <2>. QED BY <2>4, <2>9, WrittenStep
<1>. QED BY <1>9, <1>10, <1>11

\* A rewrap changes the label and the bytes of some versions and nothing else: each
\* version of the result comes from one with its secret, number, scope and value.
LEMMA RewrapProjectPreserves ==
    ASSUME SecretsIInv, Stepped, NEW f \in rings, RewrapProject(f)
    PROVE  SecretsIInv'
<1>. DEFINE Relabelled(v) == [v EXCEPT !.label = f.active, !.bytes = f.keys[f.active]]
            After(part) == (store.versions \ part) \cup {Relabelled(v) : v \in part}
            Done(part) == [store EXCEPT !.versions = After(part)]
            Ok(part) == \A v \in part : Unwraps(f, v)
<1>1. store \in Store /\ f \in KeyFile /\ keyfile \in [file : KeyFile, clear : BOOLEAN]
      /\ rings \subseteq KeyFile /\ store.versions \subseteq Version
  BY SecretsTypes
<1>2. PICK part \in SUBSET Historical(f, store) :
         /\ rings' = rings \ {f}
         /\ store' = IF Ok(part) THEN Done(part) ELSE store
         /\ keyfile' = [keyfile EXCEPT !.clear =
                \/ @
                \/ /\ Ok(part) /\ Historical(f, Done(part)) = {} /\ f = keyfile.file
                   /\ rings \subseteq {f}]
  BY DEF RewrapProject
<1>3. part \subseteq store.versions BY DEF Historical
<1>4. f.active \in Labels /\ f.keys[f.active] \in Materials /\ f.keys[f.active] # None
  BY <1>1, KeyFileShape DEF KeyFile
<1>5. /\ keyfile' \in [file : KeyFile, clear : BOOLEAN] /\ keyfile'.file = keyfile.file
      /\ keyfile'.clear <=> \/ keyfile.clear
                            \/ /\ Ok(part) /\ Historical(f, Done(part)) = {} /\ f = keyfile.file
                               /\ rings \subseteq {f}
  <2>. DEFINE c == \/ keyfile.clear
                   \/ /\ Ok(part) /\ Historical(f, Done(part)) = {} /\ f = keyfile.file
                      /\ rings \subseteq {f}
  <2>1. c \in BOOLEAN BY <1>1
  <2>2. keyfile' = [keyfile EXCEPT !.clear = c] BY <1>2
  <2>. HIDE DEF c
  <2>3. keyfile' \in [file : KeyFile, clear : BOOLEAN] /\ keyfile'.file = keyfile.file
        /\ keyfile'.clear = c
    BY <1>1, <2>1, <2>2
  <2>. QED BY <2>3 DEF c
<1>6. CASE ~Ok(part)
  <2>1. store' = store BY <1>2, <1>6
  <2>2. keyfile' = keyfile
    <3>1. keyfile'.clear = keyfile.clear BY <1>1, <1>5, <1>6
    <3>2. keyfile' \in [file : KeyFile, clear : BOOLEAN] /\ keyfile'.file = keyfile.file BY <1>5
    <3>. QED BY ONLY <1>1, <3>1, <3>2
  <2>. QED BY <1>1, <1>2, <2>1, <2>2, CalmStep DEF Calm
<1>7. CASE Ok(part)
  <2>. DEFINE Image(v) == IF v \in part THEN Relabelled(v) ELSE v
  <2>1. ASSUME NEW v \in store.versions
        PROVE  /\ Relabelled(v) \in Version /\ Relabelled(v).label = f.active
               /\ Relabelled(v).bytes = f.keys[f.active]
               /\ Relabelled(v).secret = v.secret /\ Relabelled(v).version = v.version
               /\ Relabelled(v).env = v.env /\ Relabelled(v).value = v.value /\ Relabelled(v).by = v.by
    BY <1>1, <1>4, v \in Version DEF Version
  <2>. HIDE DEF Relabelled
  <2>2. ASSUME NEW v \in store.versions
        PROVE  /\ Image(v) \in Version /\ Image(v).bytes = store.prints[Image(v).label]
               /\ Image(v).secret = v.secret /\ Image(v).version = v.version
               /\ Image(v).env = v.env /\ Image(v).value = v.value /\ Image(v).by = v.by
    <3>1. store.prints[f.active] = f.keys[f.active] BY <1>4 DEF SecretsIInv, RegisteredInv
    <3>2. v.bytes = store.prints[v.label] BY DEF SecretsIInv, RegisteredInv
    <3>. QED BY <1>1, <2>1, <3>1, <3>2
  <2>3. After(part) = {Image(v) : v \in store.versions} BY <1>3
  <2>4. store' = [store EXCEPT !.versions = After(part)] BY <1>2, <1>7
  <2>5. Historical(f, Done(part)) = {v \in store'.versions : v.label # f.active}
    BY <1>2, <1>7 DEF Historical
  <2>. HIDE DEF After, Image, Done, Ok
  <2>6. After(part) \subseteq Version BY <2>2, <2>3
  <2>7. /\ store' \in Store /\ store'.versions = After(part) /\ store'.secrets = store.secrets
        /\ store'.written = store.written /\ store'.receipts = store.receipts
        /\ store'.trail = store.trail /\ store'.prints = store.prints
    BY <1>1, <2>4, <2>6 DEF Store
  <2>8. store'.versions = {Image(v) : v \in store.versions} BY <2>3, <2>7
  <2>9. steps \in Nat /\ steps' = steps + 1 /\ steps' \in 0..MaxSteps BY StepsCount
  <2>10. SecretsTypeOK' BY <1>1, <1>2, <1>5, <2>7, <2>9 DEF SecretsTypeOK
  <2>11. RegisteredInv'
    <3>1. \A v \in store'.versions : v.bytes = store'.prints[v.label] BY <2>2, <2>7, <2>8
    <3>. QED BY <1>2, <2>7, <3>1 DEF SecretsIInv, RegisteredInv
  <2>12. VersionInv'
    <3>1. ASSUME NEW w \in store'.versions
          PROVE  /\ store'.secrets[w.secret] # NoSecretRow /\ w.version <= store'.secrets[w.secret].version
                 /\ [secret |-> w.secret, version |-> w.version, env |-> w.env] \in store'.trail
      <4>1. PICK v \in store.versions : w = Image(v) BY <2>8
      <4>. QED BY <2>2, <2>7, <4>1 DEF SecretsIInv, VersionInv
    <3>2. ASSUME NEW u \in store'.versions, NEW w \in store'.versions,
                 u.secret = w.secret, u.version = w.version
          PROVE  u = w
      <4>1. PICK u0 \in store.versions : u = Image(u0) BY <2>8
      <4>2. PICK w0 \in store.versions : w = Image(w0) BY <2>8
      <4>3. u0.secret = w0.secret /\ u0.version = w0.version BY <2>2, <3>2, <4>1, <4>2
      <4>4. u0 = w0 BY <4>3 DEF SecretsIInv, VersionInv
      <4>. QED BY <4>1, <4>2, <4>4
    <3>3. ASSUME NEW s \in Secrets, store'.secrets[s] # NoSecretRow
          PROVE  /\ store'.secrets[s].version <= steps' + 1
                 /\ \E v \in store'.versions : CurrentAt(s, v)'
      <4>1. store.secrets[s] # NoSecretRow BY <2>7, <3>3
      <4>2. store.secrets[s].version \in Nat BY <4>1, RowShape
      <4>3. store.secrets[s].version <= steps + 1 BY <4>1 DEF SecretsIInv, VersionInv
      <4>4. PICK v \in store.versions : CurrentAt(s, v) BY <4>1 DEF SecretsIInv, VersionInv
      <4>5. Image(v) \in store'.versions BY <2>8
      <4>6. CurrentAt(s, Image(v))' BY <2>2, <2>7, <4>4 DEF CurrentAt
      <4>. QED BY <2>7, <2>9, <4>2, <4>3, <4>5, <4>6
    <3>. QED BY <3>1, <3>2, <3>3 DEF VersionInv
  <2>13. ReceiptInv'
    <3>. SUFFICES ASSUME NEW w \in store'.versions, w.by # None
                 PROVE  /\ \E r \in store'.receipts : r.secret = w.secret /\ r.key = w.by /\ r.committed
                        /\ \A u \in store'.versions : u.by = w.by /\ u.secret = w.secret => u.version = w.version
      BY DEF ReceiptInv
    <3>1. PICK w0 \in store.versions : w = Image(w0) BY <2>8
    <3>2. w0.by = w.by /\ w0.secret = w.secret /\ w0.version = w.version BY <2>2, <3>1
    <3>3. /\ \E r \in store.receipts : r.secret = w.secret /\ r.key = w.by /\ r.committed
          /\ \A u \in store.versions : u.by = w.by /\ u.secret = w.secret => u.version = w.version
      BY <3>2 DEF SecretsIInv, ReceiptInv
    <3>4. ASSUME NEW u \in store'.versions, u.by = w.by, u.secret = w.secret PROVE u.version = w.version
      <4>1. PICK u0 \in store.versions : u = Image(u0) BY <2>8
      <4>2. u0.by = u.by /\ u0.secret = u.secret /\ u0.version = u.version BY <2>2, <4>1
      <4>. QED BY <3>3, <3>4, <4>2
    <3>. QED BY <2>7, <3>3, <3>4
  <2>14. ClearInv'
    <3>1. CASE keyfile.clear
      <4>1. f.active = keyfile.file.active /\ f.keys[f.active] = keyfile.file.keys[f.active]
        BY <3>1 DEF SecretsIInv, ClearInv
      <4>2. ASSUME NEW v \in store.versions
            PROVE  Image(v).label = keyfile.file.active
                   /\ Image(v).bytes = keyfile.file.keys[Image(v).label]
        BY <2>1, <3>1, <4>1 DEF Image, SecretsIInv, ClearInv
      <4>3. \A v \in store'.versions :
                v.label = keyfile'.file.active /\ v.bytes = keyfile'.file.keys[v.label]
        BY <1>5, <2>8, <4>2
      <4>4. \A g \in rings' : g.active = keyfile'.file.active
                           /\ g.keys[g.active] = keyfile'.file.keys[g.active]
        BY <1>2, <1>5, <3>1 DEF SecretsIInv, ClearInv
      <4>. QED BY <4>3, <4>4 DEF ClearInv
    <3>2. CASE ~keyfile.clear /\ keyfile'.clear
      <4>1. Historical(f, Done(part)) = {} /\ f = keyfile.file /\ rings \subseteq {f} BY <1>5, <3>2
      <4>2. \A v \in store'.versions : v.label = f.active BY <2>5, <4>1
      <4>3. store'.prints[f.active] = f.keys[f.active]
        BY <1>4, <2>7 DEF SecretsIInv, RegisteredInv
      <4>4. \A v \in store'.versions : v.bytes = f.keys[v.label]
        BY <2>11, <4>2, <4>3 DEF RegisteredInv
      <4>5. rings' = {} BY <1>2, <4>1
      <4>. QED BY <1>5, <4>1, <4>2, <4>4, <4>5 DEF ClearInv
    <3>. QED BY <3>1, <3>2 DEF ClearInv
  <2>. QED BY <2>10, <2>11, <2>12, <2>13, <2>14 DEF SecretsIInv
<1>. QED BY <1>6, <1>7

\* wrapping_for: the file's bytes are those registered, or are registered now; no
\* stored key changes its recorded bytes.
LEMMA WrappingForPreserves ==
    ASSUME SecretsIInv, Stepped, WrappingFor PROVE SecretsIInv'
<1>. DEFINE g == keyfile.file
            prints == [l \in Labels |-> IF g.keys[l] # None THEN g.keys[l] ELSE store.prints[l]]
<1>1. store \in Store /\ keyfile \in [file : KeyFile, clear : BOOLEAN] /\ rings \subseteq KeyFile
  BY SecretsTypes
<1>2. g \in KeyFile /\ g.keys \in [Labels -> Materials \cup {None}] BY <1>1, KeyFileShape
<1>3. store.prints \in [Labels -> Materials \cup {None}] BY <1>1, StoreFields
<1>4. prints \in [Labels -> Materials \cup {None}] BY <1>2, <1>3
<1>5. rings' = rings \cup {g} /\ keyfile' = keyfile BY DEF WrappingFor
<1>6. store' = [store EXCEPT !.prints = prints] BY DEF WrappingFor
<1>7. Registers(g) BY DEF WrappingFor
<1>. HIDE DEF prints
<1>8. /\ store' \in Store /\ store'.prints = prints /\ store'.versions = store.versions
      /\ store'.secrets = store.secrets /\ store'.written = store.written
      /\ store'.receipts = store.receipts /\ store'.trail = store.trail
  BY <1>1, <1>4, <1>6 DEF Store
<1>. HIDE DEF g
<1>9. steps \in Nat /\ steps' = steps + 1 /\ steps' \in 0..MaxSteps BY StepsCount
<1>10. SecretsTypeOK' BY <1>1, <1>2, <1>5, <1>8, <1>9 DEF SecretsTypeOK
<1>11. RegisteredInv'
  <2>1. ASSUME NEW l \in Labels, store.prints[l] # None PROVE prints[l] = store.prints[l]
    BY <1>7, <2>1 DEF prints, Registers
  <2>2. ASSUME NEW h \in rings, NEW l \in Labels, h.keys[l] # None PROVE prints[l] = h.keys[l]
    BY <2>1, <2>2 DEF SecretsIInv, RegisteredInv
  <2>3. ASSUME NEW l \in Labels, g.keys[l] # None PROVE prints[l] = g.keys[l]
    BY <2>3 DEF prints
  <2>4. ASSUME NEW v \in store.versions PROVE v.bytes = prints[v.label]
    <3>1. v.label \in Labels /\ v.bytes \in Materials BY SecretsTypes DEF Version
    <3>2. v.bytes = store.prints[v.label] BY DEF SecretsIInv, RegisteredInv
    <3>3. store.prints[v.label] # None BY <3>1, <3>2, ScopedSecretsAssumption DEF None
    <3>. QED BY <2>1, <3>1, <3>2, <3>3
  <2>. QED BY <1>5, <1>8, <2>2, <2>3, <2>4 DEF RegisteredInv
<1>12. VersionInv'
  <2>1. \A s \in Secrets : store.secrets[s] # NoSecretRow => store.secrets[s].version \in Nat BY RowShape
  <2>. QED BY <1>8, <1>9, <2>1 DEF SecretsIInv, VersionInv, CurrentAt
<1>13. ReceiptInv' BY <1>8 DEF SecretsIInv, ReceiptInv
<1>14. ClearInv' BY <1>5, <1>8 DEF SecretsIInv, ClearInv, g
<1>. QED BY <1>10, <1>11, <1>12, <1>13, <1>14 DEF SecretsIInv

\* The administrator edits the file: nothing stored changes, and the report of
\* remaining = 0 is void.
LEMMA EditKeyFilePreserves ==
    ASSUME SecretsIInv, Stepped, EditKeyFile PROVE SecretsIInv'
<1>1. store \in Store /\ keyfile \in [file : KeyFile, clear : BOOLEAN] /\ rings \subseteq KeyFile
  BY SecretsTypes
<1>2. keyfile.file.keys \in [Labels -> Materials \cup {None}] BY <1>1, KeyFileShape
<1>3. PICK l \in Labels, m \in Materials :
         keyfile' = [file |-> [active |-> l, keys |-> [keyfile.file.keys EXCEPT ![l] = m]], clear |-> FALSE]
  BY DEF EditKeyFile
<1>. DEFINE ks == [keyfile.file.keys EXCEPT ![l] = m]
            g == [active |-> l, keys |-> ks]
<1>4. ks \in [Labels -> Materials \cup {None}] /\ ks[l] = m BY <1>2
<1>5. m # None BY ScopedSecretsAssumption DEF None
<1>. HIDE DEF ks
<1>6. g \in KeyFile BY <1>4, <1>5 DEF KeyFile
<1>7. keyfile' = [file |-> g, clear |-> FALSE] BY <1>3 DEF ks
<1>. HIDE DEF g
<1>8. keyfile' \in [file : KeyFile, clear : BOOLEAN] /\ ~keyfile'.clear BY <1>6, <1>7
<1>9. store' = store /\ rings' = rings BY DEF EditKeyFile
<1>10. steps \in Nat /\ steps' = steps + 1 /\ steps' \in 0..MaxSteps BY StepsCount
<1>11. SecretsTypeOK' BY <1>1, <1>8, <1>9, <1>10 DEF SecretsTypeOK
<1>12. VersionInv'
  <2>1. \A s \in Secrets : store.secrets[s] # NoSecretRow => store.secrets[s].version \in Nat BY RowShape
  <2>. QED BY <1>9, <1>10, <2>1 DEF SecretsIInv, VersionInv, CurrentAt
<1>13. RegisteredInv' /\ ReceiptInv' BY <1>9 DEF SecretsIInv, RegisteredInv, ReceiptInv
<1>14. ClearInv' BY <1>8 DEF ClearInv
<1>. QED BY <1>11, <1>12, <1>13, <1>14 DEF SecretsIInv

\* The historical keys go: what is stored and who holds a file rely on the active one.
LEMMA DropHistoricalKeysPreserves ==
    ASSUME SecretsIInv, Stepped, DropHistoricalKeys PROVE SecretsIInv'
<1>. DEFINE a == keyfile.file.active
            ks == [l \in Labels |-> IF l = a THEN keyfile.file.keys[l] ELSE None]
            g == [keyfile.file EXCEPT !.keys = ks]
<1>1. store \in Store /\ keyfile \in [file : KeyFile, clear : BOOLEAN] /\ rings \subseteq KeyFile
  BY SecretsTypes
<1>2. a \in Labels /\ keyfile.file.keys \in [Labels -> Materials \cup {None}]
      /\ keyfile.file.keys[a] \in Materials /\ keyfile.file.keys[a] # None
  BY <1>1, KeyFileShape DEF KeyFile
<1>3. keyfile' = [keyfile EXCEPT !.file = g] BY <1>1 DEF DropHistoricalKeys
<1>4. ks \in [Labels -> Materials \cup {None}] /\ ks[a] = keyfile.file.keys[a] BY <1>2
<1>. HIDE DEF ks
<1>5. g \in KeyFile /\ g.active = a /\ g.keys = ks BY <1>1, <1>2, <1>4 DEF KeyFile
<1>. HIDE DEF g, a
<1>6. keyfile' \in [file : KeyFile, clear : BOOLEAN] /\ keyfile'.file = g BY <1>1, <1>3, <1>5
<1>7. store' = store /\ rings' = rings /\ keyfile.clear BY DEF DropHistoricalKeys
<1>8. steps \in Nat /\ steps' = steps + 1 /\ steps' \in 0..MaxSteps BY StepsCount
<1>9. SecretsTypeOK' BY <1>1, <1>6, <1>7, <1>8 DEF SecretsTypeOK
<1>10. VersionInv'
  <2>1. \A s \in Secrets : store.secrets[s] # NoSecretRow => store.secrets[s].version \in Nat BY RowShape
  <2>. QED BY <1>7, <1>8, <2>1 DEF SecretsIInv, VersionInv, CurrentAt
<1>11. RegisteredInv' /\ ReceiptInv' BY <1>7 DEF SecretsIInv, RegisteredInv, ReceiptInv
<1>12. ClearInv'
  <2>1. \A v \in store.versions : v.label = a /\ v.bytes = keyfile.file.keys[a]
    BY <1>7 DEF SecretsIInv, ClearInv, a
  <2>2. \A f \in rings : f.active = a /\ f.keys[f.active] = keyfile.file.keys[a]
    BY <1>7 DEF SecretsIInv, ClearInv, a
  <2>. QED BY <1>4, <1>5, <1>6, <1>7, <2>1, <2>2 DEF ClearInv
<1>. QED BY <1>9, <1>10, <1>11, <1>12 DEF SecretsIInv

LEMMA SecretsInitIInv == ASSUME SecretsInit PROVE SecretsIInv
<1>1. store \in Store
  BY DEF SecretsInit, Store
<1>2. /\ store.versions = {} /\ rings = {} /\ steps = 0
      /\ \A s \in Secrets : store.secrets[s] = NoSecretRow
  BY DEF SecretsInit
<1>3. keyfile \in [file : KeyFile, clear : BOOLEAN] /\ ~keyfile.clear
  <2>1. PICK f \in KeyFile : keyfile = [file |-> f, clear |-> FALSE] BY DEF SecretsInit
  <2>. QED BY <2>1
<1>4. SecretsTypeOK BY <1>1, <1>2, <1>3, ScopedSecretsAssumption DEF SecretsTypeOK
<1>. QED BY <1>2, <1>3, <1>4 DEF SecretsIInv, RegisteredInv, VersionInv, ReceiptInv, ClearInv

LEMMA SecretsNextPreserves ==
    ASSUME SecretsIInv, [SecretsNext]_secretVars PROVE SecretsIInv'
<1>1. CASE SecretsNext
  <2>0. Stepped BY <1>1 DEF SecretsNext, Stepped
  <2>1. CASE WrappingFor \/ EditKeyFile \/ DropHistoricalKeys
    BY <2>0, <2>1, WrappingForPreserves, EditKeyFilePreserves, DropHistoricalKeysPreserves
  <2>2. CASE PatchSecret \/ PostSecretRebind \/ DeleteSecretRoute
    <3>1. PICK s \in Secrets : \/ \E status \in {"active", "deprecated"} : UpdateSecretMetadata(s, status)
                               \/ \E b \in Bindings \cup {None} : RebindSecret(s, b)
                               \/ DeleteSecret(s)
      BY <2>2 DEF PatchSecret, PostSecretRebind, DeleteSecretRoute
    <3>. QED BY <2>0, <3>1, EditsPreserve
  <2>3. ASSUME NEW f \in rings, PostSecret(f) PROVE SecretsIInv'
    BY <2>0, <2>3, CreateSecretPreserves DEF PostSecret
  <2>4. ASSUME NEW f \in rings, GetSecretValueRoute(f) \/ PostMaterialize(f) PROVE SecretsIInv'
    <3>1. PICK batch \in SUBSET Secrets : ReadValues(f, batch)
      BY <2>4 DEF GetSecretValueRoute, PostMaterialize
    <3>. QED BY <2>0, <3>1, ReadValuesPreserves
  <2>5. ASSUME NEW f \in rings, PostSecretMove(f) PROVE SecretsIInv'
    BY <2>0, <2>5, MoveSecretPreserves DEF PostSecretMove
  <2>6. ASSUME NEW f \in rings, PostSecretRotate(f) PROVE SecretsIInv'
    BY <2>0, <2>6, RotateSecretPreserves DEF PostSecretRotate
  <2>7. ASSUME NEW f \in rings, PostRewrapKeys(f) PROVE SecretsIInv'
    BY <2>0, <2>7, RewrapProjectPreserves DEF PostRewrapKeys
  <2>. QED BY <1>1, <2>1, <2>2, <2>3, <2>4, <2>5, <2>6, <2>7 DEF SecretsNext, SecretsStep
<1>2. CASE UNCHANGED secretVars
  BY <1>2 DEF secretVars, SecretsIInv, SecretsTypeOK, RegisteredInv, VersionInv, CurrentAt, ReceiptInv, ClearInv
<1>. QED BY <1>1, <1>2

\* However requests, retries, key-file edits and rewraps interleave, and for any keys,
\* scopes and values: a rehearsed restore opens every retained version, the current
\* version of each secret is one and holds what was last written, a rotation rotates
\* once, and dropping the historical keys on a clean report loses no version.
THEOREM ScopedSecretsSafety == SecretsSpec => []SecretsSound
<1>1. SecretsInit => SecretsIInv BY SecretsInitIInv
<1>2. SecretsIInv /\ [SecretsNext]_secretVars => SecretsIInv' BY SecretsNextPreserves
<1>3. SecretsIInv => SecretsSound
  <2>. SUFFICES ASSUME SecretsIInv PROVE SecretsSound OBVIOUS
  <2>1. RehearsalOpensAll BY DEF SecretsIInv, RegisteredInv, VersionInv, RehearsalOpensAll, Rehearsed
  <2>2. CurrentOpens
    <3>. SUFFICES ASSUME NEW s \in Secrets, store.secrets[s] # NoSecretRow
                 PROVE  LET current == {v \in store.versions :
                                v.secret = s /\ v.version = store.secrets[s].version}
                        IN /\ Cardinality(current) = 1
                           /\ \A v \in current : v.env = store.secrets[s].env /\ v.value = store.written[s]
      BY DEF CurrentOpens
    <3>. DEFINE current == {v \in store.versions : v.secret = s /\ v.version = store.secrets[s].version}
    <3>1. PICK u \in store.versions : CurrentAt(s, u) BY DEF SecretsIInv, VersionInv
    <3>2. current = {u} BY <3>1 DEF SecretsIInv, VersionInv, CurrentAt
    <3>3. Cardinality(current) = 1 BY <3>2, FS_Singleton
    <3>. QED BY <3>1, <3>2, <3>3 DEF CurrentAt
  <2>3. RotatedOnce BY DEF SecretsIInv, ReceiptInv, RotatedOnce
  <2>4. KeysCoverVersions BY DEF SecretsIInv, ClearInv, KeysCoverVersions, Unwraps
  <2>. QED BY <2>1, <2>2, <2>3, <2>4 DEF SecretsSound, SecretsIInv
<1>. QED BY <1>1, <1>2, <1>3, PTL DEF SecretsSpec

-----------------------------------------------------------------------------
(* Memberships: the inductive invariant *)

\* The invitations a member joined by are spent, and no two memberships share one.
SpentInv ==
    \A a \in Invitees : members[a] # NoRow =>
        LET i == members[a].via IN
        /\ invitations[i] # NoRow
        /\ invitations[i].status = "accepted" /\ invitations[i].invitee = a
        /\ invitations[i].role = members[a].role
        /\ i \notin members[a].spent
        /\ \A j \in members[a].spent : invitations[j].status = "accepted"

\* Only the owner invites an administrator.
InviterInv ==
    \A i \in Invitations : invitations[i] # NoRow /\ invitations[i].role = "admin" =>
        invitations[i].by = "owner"

MembersIInv == MembersTypeOK /\ SpentInv /\ InviterInv

-----------------------------------------------------------------------------
(* Memberships: one lemma per handler *)

LEMMA MemberShape ==
    ASSUME MembersTypeOK, NEW a \in Invitees, members[a] # NoRow
    PROVE  /\ members[a] \in Member /\ members[a].via \in Invitations
           /\ members[a].spent \subseteq Invitations /\ members[a].role \in MemberRoles \ {"owner"}
BY DEF MembersTypeOK, Member

LEMMA InvitationShape ==
    ASSUME MembersTypeOK, NEW i \in Invitations, invitations[i] # NoRow
    PROVE  /\ invitations[i] \in Invitation /\ invitations[i].status \in {"open", "accepted"}
           /\ invitations[i].role \in MemberRoles \ {"owner"} /\ invitations[i].left \in 0..InvitationTtl
BY DEF MembersTypeOK, Invitation

\* A row has a status of its own.
LEMMA RowsAreRows ==
    /\ NoRow.status = "absent" /\ \A m \in Member : m # NoRow
    /\ \A i \in Invitation : i # NoRow
BY DEF NoRow, Member, Invitation

\* Who acts as an admin or above is one.
LEMMA ActorRole ==
    ASSUME MembersTypeOK, NEW actor \in Invitees \cup {Owner}, RequireRecentRole(actor, "admin")
    PROVE  ActiveMembershipRole(actor) \in {"owner", "admin"}
<1>1. CASE actor = Owner BY <1>1 DEF ActiveMembershipRole
<1>2. CASE actor # Owner
  <2>1. ActiveMembershipRole(actor) # "none" /\ RoleRank(ActiveMembershipRole(actor)) >= 3
    BY DEF RequireRecentRole, RoleRank
  <2>2. members[actor].status = "active" /\ ActiveMembershipRole(actor) = members[actor].role
    BY <1>2, <2>1 DEF ActiveMembershipRole
  <2>3. members[actor].role \in MemberRoles
    <3>1. members[actor] # NoRow BY <2>2, RowsAreRows
    <3>. QED BY <1>2, <3>1, MemberShape
  <2>. QED BY <2>1, <2>2, <2>3 DEF MemberRoles, RoleRank
<1>. QED BY <1>1, <1>2

\* What the counter of requests adds to a step.
MemberStepped == memberSteps < MaxMemberSteps /\ memberSteps' = memberSteps + 1

LEMMA MemberStepsCount ==
    ASSUME MembersTypeOK, MemberStepped PROVE memberSteps' \in 0..MaxMemberSteps
BY MembersAssumption DEF MembersTypeOK, MemberStepped

LEMMA PostInvitationPreserves ==
    ASSUME MembersIInv, MemberStepped, NEW actor \in Invitees \cup {Owner}, NEW i \in Invitations,
           NEW to \in Invitees, NEW r \in MemberRoles, PostInvitation(actor, i, to, r)
    PROVE  MembersIInv'
<1>. USE DEF MembersIInv
<1>. DEFINE by == ActiveMembershipRole(actor)
            row == [status |-> "open", invitee |-> to, role |-> r, by |-> by, left |-> InvitationTtl]
<1>1. by \in {"owner", "admin"} BY ActorRole DEF PostInvitation
<1>2. r # "owner" /\ (r = "admin" => by = "owner") BY DEF PostInvitation, MayGrant
<1>3. /\ invitations[i] = NoRow /\ invitations' = [invitations EXCEPT ![i] = row]
      /\ members' = members /\ strong' = strong /\ links' = links
  BY DEF PostInvitation
<1>. HIDE DEF by
<1>4. row \in Invitation /\ row.role = r /\ row.by = by
  BY <1>1, <1>2, MembersAssumption DEF Invitation
<1>. HIDE DEF row
<1>5. invitations \in [Invitations -> Invitation \cup {NoRow}] BY DEF MembersTypeOK
<1>6. /\ invitations' \in [Invitations -> Invitation \cup {NoRow}] /\ invitations'[i] = row
      /\ \A j \in Invitations \ {i} : invitations'[j] = invitations[j]
  BY <1>3, <1>4, <1>5
<1>7. MembersTypeOK' BY <1>3, <1>6, MemberStepsCount DEF MembersTypeOK
<1>8. SpentInv'
  <2>. SUFFICES ASSUME NEW a \in Invitees, members[a] # NoRow
               PROVE  LET k == members[a].via IN
                      /\ invitations'[k] # NoRow
                      /\ invitations'[k].status = "accepted" /\ invitations'[k].invitee = a
                      /\ invitations'[k].role = members[a].role
                      /\ k \notin members[a].spent
                      /\ \A j \in members[a].spent : invitations'[j].status = "accepted"
    BY <1>3 DEF SpentInv
  <2>1. members[a].via \in Invitations /\ members[a].spent \subseteq Invitations BY MemberShape
  <2>2. invitations[i].status # "accepted" BY <1>3, RowsAreRows
  <2>3. members[a].via # i /\ i \notin members[a].spent BY <2>2 DEF SpentInv
  <2>. QED BY <1>6, <2>1, <2>3 DEF SpentInv
<1>9. InviterInv' BY <1>2, <1>4, <1>6 DEF InviterInv
<1>. QED BY <1>7, <1>8, <1>9

\* An open invitation is in nobody's past.
LEMMA PostInvitationAcceptPreserves ==
    ASSUME MembersIInv, MemberStepped, NEW a \in Invitees, NEW i \in Invitations,
           PostInvitationAccept(a, i)
    PROVE  MembersIInv'
<1>. USE DEF MembersIInv
<1>. DEFINE irow == [invitations[i] EXCEPT !.status = "accepted"]
            ended == IF members[a] = NoRow THEN {} ELSE members[a].spent \cup {members[a].via}
            mrow == [status |-> "active", role |-> invitations[i].role, via |-> i, spent |-> ended]
<1>1. invitations[i].status = "open" /\ invitations[i].invitee = a
  BY DEF PostInvitationAccept, Acceptable
<1>2. invitations[i] # NoRow BY <1>1, RowsAreRows
<1>3. invitations[i] \in Invitation /\ invitations[i].role \in MemberRoles \ {"owner"}
  BY <1>2, InvitationShape
<1>4. /\ invitations' = [invitations EXCEPT ![i] = irow]
      /\ members' = [members EXCEPT ![a] = mrow] /\ strong' = strong /\ links' = links
  BY DEF PostInvitationAccept
<1>5. /\ irow \in Invitation /\ irow.status = "accepted" /\ irow.invitee = a
      /\ irow.role = invitations[i].role /\ irow.by = invitations[i].by
  BY <1>1, <1>3 DEF Invitation
<1>6. ended \subseteq Invitations BY MemberShape
<1>7. mrow \in Member /\ mrow.role = invitations[i].role /\ mrow.via = i /\ mrow.spent = ended
  BY <1>3, <1>6 DEF Member
<1>. HIDE DEF irow, mrow
<1>8. /\ invitations' \in [Invitations -> Invitation \cup {NoRow}] /\ invitations'[i] = irow
      /\ \A j \in Invitations \ {i} : invitations'[j] = invitations[j]
      /\ members' \in [Invitees -> Member \cup {NoRow}] /\ members'[a] = mrow
      /\ \A b \in Invitees \ {a} : members'[b] = members[b]
  BY <1>4, <1>5, <1>7 DEF MembersTypeOK
<1>9. MembersTypeOK' BY <1>4, <1>8, MemberStepsCount DEF MembersTypeOK
<1>10. ASSUME NEW b \in Invitees, members[b] # NoRow
       PROVE  /\ members[b].via \in Invitations /\ members[b].spent \subseteq Invitations
              /\ members[b].via # i /\ i \notin members[b].spent
  BY <1>1, <1>10, MemberShape DEF SpentInv
<1>11. irow # NoRow BY <1>5, RowsAreRows
<1>12. SpentInv'
  <2>. SUFFICES ASSUME NEW b \in Invitees, members'[b] # NoRow
               PROVE  LET k == members'[b].via IN
                      /\ invitations'[k] # NoRow
                      /\ invitations'[k].status = "accepted" /\ invitations'[k].invitee = b
                      /\ invitations'[k].role = members'[b].role
                      /\ k \notin members'[b].spent
                      /\ \A j \in members'[b].spent : invitations'[j].status = "accepted"
    BY DEF SpentInv
  <2>1. CASE b # a
    <3>1. members[b] # NoRow /\ members'[b] = members[b] BY <1>8, <2>1
    <3>. QED BY <1>8, <1>10, <3>1 DEF SpentInv
  <2>2. CASE b = a
    <3>1. i \notin ended /\ \A j \in ended : j \in Invitations \ {i} /\ invitations[j].status = "accepted"
      BY <1>10 DEF SpentInv
    <3>. HIDE DEF ended
    <3>. QED BY <1>5, <1>7, <1>8, <1>11, <2>2, <3>1
  <2>. QED BY <2>1, <2>2
<1>13. InviterInv' BY <1>2, <1>5, <1>8 DEF InviterInv
<1>. QED BY <1>9, <1>12, <1>13

LEMMA PostMembershipRevokePreserves ==
    ASSUME MembersIInv, MemberStepped, NEW actor, NEW m \in Invitees, PostMembershipRevoke(actor, m)
    PROVE  MembersIInv'
<1>. USE DEF MembersIInv
<1>. DEFINE row == [members[m] EXCEPT !.status = "revoked"]
<1>1. /\ members[m].status = "active" /\ members' = [members EXCEPT ![m] = row]
      /\ invitations' = invitations /\ strong' = strong /\ links' = links
  BY DEF PostMembershipRevoke
<1>2. members[m] # NoRow BY <1>1, RowsAreRows
<1>3. members[m] \in Member BY <1>2, MemberShape
<1>4. /\ row \in Member /\ row.role = members[m].role /\ row.via = members[m].via
      /\ row.spent = members[m].spent
  BY <1>3 DEF Member
<1>. HIDE DEF row
<1>5. /\ members' \in [Invitees -> Member \cup {NoRow}] /\ members'[m] = row
      /\ \A b \in Invitees \ {m} : members'[b] = members[b]
  BY <1>1, <1>4 DEF MembersTypeOK
<1>6. MembersTypeOK' BY <1>1, <1>5, MemberStepsCount DEF MembersTypeOK
<1>7. SpentInv' BY <1>1, <1>2, <1>4, <1>5 DEF SpentInv
<1>8. InviterInv' BY <1>1 DEF InviterInv
<1>. QED BY <1>6, <1>7, <1>8

LEMMA InvitationsAgePreserves ==
    ASSUME MembersIInv, MemberStepped, InvitationsAge PROVE MembersIInv'
<1>. USE DEF MembersIInv
<1>. DEFINE Older(i) == [invitations[i] EXCEPT !.left = @ - 1]
<1>1. /\ invitations' = [i \in Invitations |->
             IF invitations[i] = NoRow \/ invitations[i].left = 0 THEN invitations[i] ELSE Older(i)]
      /\ members' = members /\ strong' = strong /\ links' = links
  BY DEF InvitationsAge
<1>2. ASSUME NEW i \in Invitations, invitations[i] # NoRow, invitations[i].left # 0
      PROVE  /\ Older(i) \in Invitation /\ Older(i).status = invitations[i].status
             /\ Older(i).invitee = invitations[i].invitee /\ Older(i).role = invitations[i].role
             /\ Older(i).by = invitations[i].by
  <2>1. invitations[i] \in Invitation BY <1>2, InvitationShape
  <2>2. invitations[i].left - 1 \in 0..InvitationTtl
    BY <1>2, <2>1, MembersAssumption DEF Invitation
  <2>. QED BY <2>1, <2>2 DEF Invitation
<1>. HIDE DEF Older
<1>3. invitations \in [Invitations -> Invitation \cup {NoRow}] BY DEF MembersTypeOK
<1>4. ASSUME NEW i \in Invitations
      PROVE  /\ invitations'[i] \in Invitation \cup {NoRow}
             /\ invitations'[i] # NoRow <=> invitations[i] # NoRow
             /\ invitations[i] # NoRow =>
                   /\ invitations'[i].status = invitations[i].status
                   /\ invitations'[i].invitee = invitations[i].invitee
                   /\ invitations'[i].role = invitations[i].role /\ invitations'[i].by = invitations[i].by
  <2>1. CASE invitations[i] = NoRow \/ invitations[i].left = 0 BY <1>1, <1>3, <2>1
  <2>2. CASE ~(invitations[i] = NoRow \/ invitations[i].left = 0)
    BY <1>1, <1>2, <2>2, RowsAreRows
  <2>. QED BY <2>1, <2>2
<1>5. invitations' \in [Invitations -> Invitation \cup {NoRow}] BY <1>1, <1>4
<1>6. MembersTypeOK' BY <1>1, <1>5, MemberStepsCount DEF MembersTypeOK
<1>7. SpentInv'
  <2>. SUFFICES ASSUME NEW a \in Invitees, members[a] # NoRow
               PROVE  LET k == members[a].via IN
                      /\ invitations'[k] # NoRow
                      /\ invitations'[k].status = "accepted" /\ invitations'[k].invitee = a
                      /\ invitations'[k].role = members[a].role
                      /\ k \notin members[a].spent
                      /\ \A j \in members[a].spent : invitations'[j].status = "accepted"
    BY <1>1 DEF SpentInv
  <2>1. members[a].via \in Invitations /\ members[a].spent \subseteq Invitations BY MemberShape
  <2>2. \A j \in members[a].spent : invitations[j] # NoRow BY RowsAreRows DEF SpentInv
  <2>. QED BY <1>4, <2>1, <2>2 DEF SpentInv
<1>8. InviterInv' BY <1>4 DEF InviterInv
<1>. QED BY <1>6, <1>7, <1>8

LEMMA OtherRequestsPreserve ==
    ASSUME MembersIInv, MemberStepped, NEW a \in Invitees \cup {Owner},
           \/ ProveFactor(a)
           \/ \E v \in Vaults, l \in Locators \cup {NoLocator} : PostVaultLink(a, v, l)
    PROVE  MembersIInv'
<1>. USE DEF MembersIInv
<1>1. members' = members /\ invitations' = invitations BY DEF ProveFactor, PostVaultLink
<1>2. strong' \subseteq Invitees \cup {Owner} BY DEF ProveFactor, PostVaultLink, MembersTypeOK
<1>3. links' \in [Vaults -> Link \cup {NoRow}]
  <2>1. CASE ProveFactor(a) BY <2>1 DEF ProveFactor, MembersTypeOK
  <2>2. ASSUME NEW v \in Vaults, NEW l \in Locators \cup {NoLocator}, PostVaultLink(a, v, l)
        PROVE  links' \in [Vaults -> Link \cup {NoRow}]
    <3>. DEFINE loc == IF l = NoLocator /\ links[v] /= NoRow THEN links[v].locator ELSE l
    <3>1. loc \in Locators \cup {NoLocator} BY DEF MembersTypeOK, Link
    <3>2. links' = [links EXCEPT ![v] = [status |-> "linked", locator |-> loc]]
      BY <2>2 DEF PostVaultLink
    <3>. HIDE DEF loc
    <3>. QED BY <3>1, <3>2 DEF MembersTypeOK, Link
  <2>. QED BY <2>1, <2>2
<1>4. MembersTypeOK' BY <1>1, <1>2, <1>3, MemberStepsCount DEF MembersTypeOK
<1>. QED BY <1>1, <1>4 DEF SpentInv, InviterInv

LEMMA MembersNextPreserves ==
    ASSUME MembersIInv, [MembersNext]_membersVars PROVE MembersIInv'
<1>1. CASE MembersNext
  <2>0. MemberStepped BY <1>1 DEF MembersNext, MemberStepped
  <2>1. ASSUME NEW a \in Invitees \cup {Owner},
               \/ ProveFactor(a)
               \/ \E v \in Vaults, l \in Locators \cup {NoLocator} : PostVaultLink(a, v, l)
        PROVE  MembersIInv'
    BY <2>0, <2>1, OtherRequestsPreserve
  <2>2. CASE \E a \in Invitees \cup {Owner}, i \in Invitations, to \in Invitees, r \in MemberRoles :
                PostInvitation(a, i, to, r)
    BY <2>0, <2>2, PostInvitationPreserves
  <2>3. CASE \E a \in Invitees, i \in Invitations : PostInvitationAccept(a, i)
    BY <2>0, <2>3, PostInvitationAcceptPreserves
  <2>4. CASE \E a \in Invitees \cup {Owner}, m \in Invitees : PostMembershipRevoke(a, m)
    BY <2>0, <2>4, PostMembershipRevokePreserves
  <2>5. CASE InvitationsAge BY <2>0, <2>5, InvitationsAgePreserves
  <2>. QED BY <1>1, <2>1, <2>2, <2>3, <2>4, <2>5 DEF MembersNext
<1>2. CASE UNCHANGED membersVars
  BY <1>2 DEF membersVars, MembersIInv, MembersTypeOK, SpentInv, InviterInv
<1>. QED BY <1>1, <1>2

LEMMA MembersInitIInv == ASSUME MembersInit PROVE MembersIInv
BY MembersAssumption DEF MembersInit, MembersIInv, MembersTypeOK, SpentInv, InviterInv

LEMMA MembersSafe == MembersIInv => MembersTypeOK /\ RolesDelegated
<1>. SUFFICES ASSUME MembersIInv, NEW a \in Invitees, ActiveMembershipRole(a) # "none"
             PROVE  LET i == members[a].via IN
                    /\ members[a].status = "active"
                    /\ invitations[i].status = "accepted" /\ invitations[i].invitee = a
                    /\ invitations[i].role = ActiveMembershipRole(a)
                    /\ i \notin members[a].spent
                    /\ invitations[i].role = "admin" => invitations[i].by = "owner"
  BY DEF RolesDelegated, MembersIInv
<1>1. members[a].status = "active" /\ ActiveMembershipRole(a) = members[a].role
  BY MembersAssumption DEF ActiveMembershipRole
<1>2. members[a] # NoRow BY <1>1, RowsAreRows
<1>3. members[a].via \in Invitations BY <1>2, MemberShape DEF MembersIInv
<1>. QED BY <1>1, <1>2, <1>3 DEF MembersIInv, SpentInv, InviterInv

-----------------------------------------------------------------------------
(* Grants and scope tokens: the inductive invariant *)

\* Nobody is invited as an administrator.
InvitesInv == \A i \in grants.invites : i.role # "admin"

\* A token's term is bounded, and a denial outlives the token it is about.
TokenInv ==
    \A t \in 1..MaxScopeTokens : grants.tokens[t] # NoToken =>
        grants.tokens[t].ends <= scopeTime + TokenTtl
DenyInv ==
    \A t \in grants.everDenied :
        /\ grants.tokens[t] # NoToken
        /\ scopeTime < grants.tokens[t].ends =>
              \E d \in grants.denied : d.token = t /\ d.ends >= grants.tokens[t].ends

\* A proof that was shown is remembered until its stamp is too old.
ProofInv ==
    \A t \in 1..MaxScopeTokens, stamp \in ScopeTime : <<t, stamp>> \in grants.shown =>
        \/ scopeTime - stamp > ProofWindow
        \/ [token |-> t, stamp |-> stamp, ends |-> stamp + ProofRetention] \in grants.proofs

GrantsIInv == GrantsTypeOK /\ AdminNeedsTwo /\ InvitesInv /\ TokenInv /\ DenyInv /\ ProofInv

-----------------------------------------------------------------------------
(* Grants and scope tokens: the kinds of step *)

LEMMA GrantsFields ==
    ASSUME NEW d \in Grants
    PROVE  /\ d.roles \in [Principals -> Roles \cup {"none"}]
           /\ d.makers \in [Principals -> SUBSET Principals]
           /\ d.pending \subseteq [for : Principals, by : Principals, ends : Nat]
           /\ d.invites \subseteq [role : Roles, by : Principals, ends : Nat]
           /\ d.sessions \in [Principals -> [live : BOOLEAN, at : ScopeTime, factor : Nat]]
           /\ d.tokens \in [1..MaxScopeTokens -> ScopeToken \cup {NoToken}]
           /\ d.denied \subseteq [token : 1..MaxScopeTokens, ends : Nat]
           /\ d.proofs \subseteq [token : 1..MaxScopeTokens, stamp : ScopeTime, ends : Nat]
           /\ d.everDenied \subseteq 1..MaxScopeTokens
           /\ d.shown \subseteq ((1..MaxScopeTokens) \X ScopeTime)
BY DEF Grants

LEMMA GrantsTypes ==
    ASSUME GrantsIInv
    PROVE  /\ grants \in Grants /\ opened \subseteq Request /\ scopeTime \in ScopeTime
           /\ acts \in 0..MaxActs /\ scopeTime \in Nat
           /\ \A t \in 1..MaxScopeTokens : grants.tokens[t] # NoToken => grants.tokens[t] \in ScopeToken
<1>1. grants \in Grants /\ opened \subseteq Request /\ scopeTime \in ScopeTime /\ acts \in 0..MaxActs
  BY DEF GrantsIInv, GrantsTypeOK
<1>2. scopeTime \in Nat BY <1>1, ScopeGrantsAssumption DEF ScopeTime
<1>. QED BY <1>1, <1>2, GrantsFields

\* What the counter of steps adds to a step.
Acted == acts < MaxActs /\ acts' = acts + 1

LEMMA ActsCount == ASSUME GrantsIInv, Acted PROVE acts' \in 0..MaxActs
BY GrantsTypes, ScopeGrantsAssumption DEF Acted

\* Tokens, denials and proofs stay as they are.
TokensStay ==
    /\ grants'.tokens = grants.tokens /\ grants'.denied = grants.denied
    /\ grants'.proofs = grants.proofs /\ grants'.everDenied = grants.everDenied
    /\ grants'.shown = grants.shown /\ scopeTime' = scopeTime
\* Roles, their makers and the invites stay as they are.
RolesStay ==
    grants'.roles = grants.roles /\ grants'.makers = grants.makers /\ grants'.invites = grants.invites

\* A step of the members' side: roles and invites change.
LEMMA RolesStep ==
    ASSUME GrantsIInv, Acted, grants' \in Grants, opened' \subseteq Request, TokensStay,
           AdminNeedsTwo', InvitesInv'
    PROVE  GrantsIInv'
<1>1. GrantsTypeOK' BY ActsCount, GrantsTypes DEF GrantsTypeOK, TokensStay
<1>2. TokenInv' /\ DenyInv' /\ ProofInv' BY DEF GrantsIInv, TokensStay, TokenInv, DenyInv, ProofInv
<1>. QED BY <1>1, <1>2 DEF GrantsIInv

\* A step of the tokens' side.
LEMMA TokensStep ==
    ASSUME GrantsIInv, Acted, grants' \in Grants, opened' \subseteq Request, scopeTime' \in ScopeTime,
           RolesStay, TokenInv', DenyInv', ProofInv'
    PROVE  GrantsIInv'
<1>1. GrantsTypeOK' BY ActsCount, GrantsTypes DEF GrantsTypeOK
<1>2. AdminNeedsTwo' /\ InvitesInv' BY DEF GrantsIInv, RolesStay, AdminNeedsTwo, InvitesInv
<1>. QED BY <1>1, <1>2 DEF GrantsIInv

\* A request that ends passed the policy under the lock of its operation.
LEMMA AuthorizedEntitled ==
    ASSUME GrantsIInv, NEW r \in opened, NEW action, NEW scope, Authorize(r, action, scope),
           action \in {"readValue", "viewAudit", "manageMembers"},
           opened' = opened \ {r}, grants'.proofs = grants.proofs
    PROVE  EntitledStep
<1>1. grants.sessions[r.who].live /\ grants.sessions[r.who].factor = r.factor
  BY DEF Authorize, OriginActive
<1>2. grants.roles[r.who] # "none" BY DEF Authorize, RoleAllows
<1>. QED BY <1>1, <1>2 DEF EntitledStep

\* Roles change and no request is opened or ended.
LEMMA NothingUsed ==
    ASSUME opened' = opened, grants'.proofs = grants.proofs PROVE EntitledStep
BY DEF EntitledStep

-----------------------------------------------------------------------------
(* Grants and scope tokens: members, grants and invites *)

LEMMA GrantedFacts ==
    ASSUME NEW d \in Grants, NEW p \in Principals, NEW role \in Roles \cup {"none"},
           NEW made \in SUBSET Principals
    PROVE  LET g == Granted(d, p, role, made)
           IN  /\ g \in Grants /\ g.roles[p] = role /\ g.makers[p] = made
               /\ \A q \in Principals \ {p} : g.roles[q] = d.roles[q] /\ g.makers[q] = d.makers[q]
               /\ g.pending = d.pending /\ g.invites = d.invites /\ g.sessions = d.sessions
               /\ g.tokens = d.tokens /\ g.denied = d.denied /\ g.proofs = d.proofs
               /\ g.everDenied = d.everDenied /\ g.shown = d.shown
<1>. DEFINE roles == [d.roles EXCEPT ![p] = role]
            makers == [d.makers EXCEPT ![p] = made]
            g == Granted(d, p, role, made)
<1>1. d.roles \in [Principals -> Roles \cup {"none"}] /\ d.makers \in [Principals -> SUBSET Principals]
  BY GrantsFields
<1>2. /\ roles \in [Principals -> Roles \cup {"none"}] /\ makers \in [Principals -> SUBSET Principals]
      /\ roles[p] = role /\ makers[p] = made
      /\ \A q \in Principals \ {p} : roles[q] = d.roles[q] /\ makers[q] = d.makers[q]
  BY <1>1
<1>3. g = [d EXCEPT !.roles = roles, !.makers = makers] BY DEF Granted, Grants
<1>. HIDE DEF roles, makers, g
<1>4. /\ g \in Grants /\ g.roles = roles /\ g.makers = makers
      /\ g.pending = d.pending /\ g.invites = d.invites /\ g.sessions = d.sessions
      /\ g.tokens = d.tokens /\ g.denied = d.denied /\ g.proofs = d.proofs
      /\ g.everDenied = d.everDenied /\ g.shown = d.shown
  BY <1>2, <1>3 DEF Grants
<1>. QED BY <1>2, <1>4 DEF g

\* Only pending requests, or invites without an admin's role, change.
Listed(ps, is) == [grants EXCEPT !.pending = ps, !.invites = is]

LEMMA ListedFacts ==
    ASSUME GrantsIInv, NEW ps \in SUBSET [for : Principals, by : Principals, ends : Nat],
           NEW is \in SUBSET [role : Roles, by : Principals, ends : Nat]
    PROVE  /\ Listed(ps, is) \in Grants /\ Listed(ps, is).roles = grants.roles
           /\ Listed(ps, is).makers = grants.makers /\ Listed(ps, is).invites = is
           /\ Listed(ps, is).tokens = grants.tokens /\ Listed(ps, is).denied = grants.denied
           /\ Listed(ps, is).proofs = grants.proofs /\ Listed(ps, is).everDenied = grants.everDenied
           /\ Listed(ps, is).shown = grants.shown
BY GrantsTypes DEF Grants, Listed

LEMMA PairOfTwo == ASSUME NEW x, NEW y, x # y PROVE Cardinality({x, y}) = 2
<1>1. IsFiniteSet({x}) /\ Cardinality({x}) = 1 BY FS_Singleton
<1>2. Cardinality({x} \cup {y}) = Cardinality({x}) + 1 BY <1>1, FS_AddElement
<1>3. {x} \cup {y} = {x, y} OBVIOUS
<1>. QED BY <1>1, <1>2, <1>3

\* Each route that manages members: what it leaves in the database.
LEMMA ManagedPreserves ==
    ASSUME GrantsIInv, Acted, NEW r \in opened, NEW d \in Grants, Managed(r, d),
           d.tokens = grants.tokens, d.denied = grants.denied, d.proofs = grants.proofs,
           d.everDenied = grants.everDenied, d.shown = grants.shown,
           \A p \in Principals : d.roles[p] = "admin" => p \in Founders \/ Cardinality(d.makers[p]) = 2,
           \A i \in d.invites : i.role # "admin"
    PROVE  GrantsIInv' /\ EntitledStep
<1>1. grants' = d /\ opened' = opened \ {r} /\ scopeTime' = scopeTime BY DEF Managed
<1>2. opened' \subseteq Request BY <1>1, GrantsTypes
<1>3. TokensStay BY <1>1 DEF TokensStay
<1>4. AdminNeedsTwo' /\ InvitesInv' BY <1>1 DEF AdminNeedsTwo, InvitesInv
<1>5. GrantsIInv' BY <1>1, <1>2, <1>3, <1>4, RolesStep
<1>6. EntitledStep BY <1>1, AuthorizedEntitled DEF Managed
<1>. QED BY <1>5, <1>6

LEMMA PostProjectMemberPreserves ==
    ASSUME GrantsIInv, Acted, NEW r \in opened, NEW p \in Principals, NEW role \in Roles,
           PostProjectMember(r, p, role)
    PROVE  GrantsIInv' /\ EntitledStep
<1>1. grants \in Grants /\ scopeTime \in Nat /\ r.who \in Principals BY GrantsTypes DEF Request
<1>2. CASE role # "admin"
  <2>. DEFINE d == Granted(grants, p, role, {})
  <2>1. Managed(r, d) BY <1>2 DEF PostProjectMember
  <2>2. role \in Roles \cup {"none"} /\ {} \in SUBSET Principals OBVIOUS
  <2>3. /\ d \in Grants /\ d.roles[p] = role /\ d.invites = grants.invites
        /\ \A q \in Principals \ {p} : d.roles[q] = grants.roles[q] /\ d.makers[q] = grants.makers[q]
        /\ d.tokens = grants.tokens /\ d.denied = grants.denied /\ d.proofs = grants.proofs
        /\ d.everDenied = grants.everDenied /\ d.shown = grants.shown
    BY <1>1, <2>2, GrantedFacts
  <2>. HIDE DEF d
  <2>4. \A q \in Principals : d.roles[q] = "admin" => q \in Founders \/ Cardinality(d.makers[q]) = 2
    BY <1>2, <2>3 DEF GrantsIInv, AdminNeedsTwo
  <2>5. \A i \in d.invites : i.role # "admin" BY <2>3 DEF GrantsIInv, InvitesInv
  <2>. QED BY <2>1, <2>3, <2>4, <2>5, ManagedPreserves
<1>3. CASE role = "admin"
  <2>. DEFINE d == RequestAdminGrant(r, p)
              new == [for |-> p, by |-> r.who, ends |-> scopeTime + GrantTtl]
              ps == grants.pending \cup {new}
              is == grants.invites
  <2>1. Managed(r, d) BY <1>3 DEF PostProjectMember
  <2>2. new \in [for : Principals, by : Principals, ends : Nat] BY <1>1, ScopeGrantsAssumption
  <2>3. /\ ps \in SUBSET [for : Principals, by : Principals, ends : Nat]
        /\ is \in SUBSET [role : Roles, by : Principals, ends : Nat]
    BY <1>1, <2>2, GrantsFields
  <2>4. \A i \in is : i.role # "admin" BY DEF GrantsIInv, InvitesInv
  <2>5. d = grants \/ d = Listed(ps, is)
    BY <1>1 DEF RequestAdminGrant, Grants, Listed
  <2>. HIDE DEF d, ps
  <2>6. /\ d \in Grants /\ d.roles = grants.roles /\ d.makers = grants.makers /\ d.invites = is
        /\ d.tokens = grants.tokens /\ d.denied = grants.denied /\ d.proofs = grants.proofs
        /\ d.everDenied = grants.everDenied /\ d.shown = grants.shown
    BY <1>1, <2>3, <2>4, <2>5, ListedFacts
  <2>7. \A q \in Principals : d.roles[q] = "admin" => q \in Founders \/ Cardinality(d.makers[q]) = 2
    BY <2>6 DEF GrantsIInv, AdminNeedsTwo
  <2>. QED BY <2>1, <2>4, <2>6, <2>7, ManagedPreserves
<1>. QED BY <1>2, <1>3

LEMMA DeleteProjectMemberPreserves ==
    ASSUME GrantsIInv, Acted, NEW r \in opened, NEW p \in Principals, DeleteProjectMember(r, p)
    PROVE  GrantsIInv' /\ EntitledStep
<1>. DEFINE d == Granted(grants, p, "none", {})
<1>1. grants \in Grants BY GrantsTypes
<1>2. Managed(r, d) BY DEF DeleteProjectMember
<1>3. "none" \in Roles \cup {"none"} /\ {} \in SUBSET Principals OBVIOUS
<1>4. /\ d \in Grants /\ d.roles[p] = "none" /\ d.invites = grants.invites
      /\ \A q \in Principals \ {p} : d.roles[q] = grants.roles[q] /\ d.makers[q] = grants.makers[q]
      /\ d.tokens = grants.tokens /\ d.denied = grants.denied /\ d.proofs = grants.proofs
      /\ d.everDenied = grants.everDenied /\ d.shown = grants.shown
  BY <1>1, <1>3, GrantedFacts
<1>. HIDE DEF d
<1>5. \A q \in Principals : d.roles[q] = "admin" => q \in Founders \/ Cardinality(d.makers[q]) = 2
  BY <1>4 DEF GrantsIInv, AdminNeedsTwo
<1>6. \A i \in d.invites : i.role # "admin" BY <1>4 DEF GrantsIInv, InvitesInv
<1>. QED BY <1>2, <1>4, <1>5, <1>6, ManagedPreserves

\* Who asked is not who decides: an approved request names two.
LEMMA DecideGrantRequestPreserves ==
    ASSUME GrantsIInv, Acted, NEW r \in opened, NEW q \in grants.pending, NEW approve, NEW crash,
           DecideGrantRequest(r, q, approve, crash)
    PROVE  GrantsIInv' /\ EntitledStep
<1>. DEFINE ps == grants.pending \ {q}
            is == grants.invites
            decided == [grants EXCEPT !.pending = ps]
            made == {q.by, r.who}
            g == Granted(decided, q.for, "admin", made)
            late == Expired(q) \/ ~approve \/ crash
            d == IF late THEN decided ELSE g
<1>1. grants \in Grants /\ r.who \in Principals BY GrantsTypes DEF Request
<1>2. q.for \in Principals /\ q.by \in Principals BY <1>1, GrantsFields
<1>3. /\ ps \in SUBSET [for : Principals, by : Principals, ends : Nat]
      /\ is \in SUBSET [role : Roles, by : Principals, ends : Nat]
  BY <1>1, GrantsFields
<1>4. \A i \in is : i.role # "admin" BY DEF GrantsIInv, InvitesInv
<1>5. decided = Listed(ps, is) BY <1>1 DEF Grants, Listed
<1>6. Managed(r, d) /\ (~Expired(q) => q.by # r.who) BY DEF DecideGrantRequest, SelfApproval
<1>. HIDE DEF decided, ps
<1>7. /\ decided \in Grants /\ decided.roles = grants.roles /\ decided.makers = grants.makers
      /\ decided.invites = is
      /\ decided.tokens = grants.tokens /\ decided.denied = grants.denied
      /\ decided.proofs = grants.proofs /\ decided.everDenied = grants.everDenied
      /\ decided.shown = grants.shown
  BY <1>3, <1>4, <1>5, ListedFacts
<1>8. made \in SUBSET Principals /\ "admin" \in Roles \cup {"none"} BY <1>1, <1>2 DEF Roles
<1>9. /\ g \in Grants /\ g.roles[q.for] = "admin" /\ g.makers[q.for] = made /\ g.invites = is
      /\ \A p \in Principals \ {q.for} : g.roles[p] = grants.roles[p] /\ g.makers[p] = grants.makers[p]
      /\ g.tokens = grants.tokens /\ g.denied = grants.denied /\ g.proofs = grants.proofs
      /\ g.everDenied = grants.everDenied /\ g.shown = grants.shown
  <2>. HIDE DEF made
  <2>. QED BY <1>2, <1>7, <1>8, GrantedFacts
<1>10. ~late => Cardinality(made) = 2 BY <1>6, PairOfTwo
<1>. HIDE DEF g, made
<1>11. /\ d \in Grants /\ d.invites = is
       /\ d.tokens = grants.tokens /\ d.denied = grants.denied /\ d.proofs = grants.proofs
       /\ d.everDenied = grants.everDenied /\ d.shown = grants.shown
  BY <1>7, <1>9
<1>12. \A p \in Principals : d.roles[p] = "admin" => p \in Founders \/ Cardinality(d.makers[p]) = 2
  <2>1. CASE late BY <1>7, <2>1 DEF GrantsIInv, AdminNeedsTwo
  <2>2. CASE ~late
    <3>1. d = g BY <2>2
    <3>. QED BY <1>9, <1>10, <2>2, <3>1 DEF GrantsIInv, AdminNeedsTwo
  <2>. QED BY <2>1, <2>2
<1>. HIDE DEF d
<1>. QED BY <1>4, <1>6, <1>11, <1>12, ManagedPreserves

\* list_grant_requests, create_invite and revoke_invite.
LEMMA ListsPreserve ==
    ASSUME GrantsIInv, Acted, NEW r \in opened,
           ListPending(r) \/ CreateInviteRoute(r) \/ RevokeInviteRoute(r)
    PROVE  GrantsIInv' /\ EntitledStep
<1>1. grants \in Grants /\ r.who \in Principals /\ scopeTime \in Nat BY GrantsTypes DEF Request
<1>2. PICK ps \in SUBSET [for : Principals, by : Principals, ends : Nat],
           is \in SUBSET [role : Roles, by : Principals, ends : Nat] :
        Managed(r, Listed(ps, is)) /\ \A i \in is : i.role # "admin"
  <2>1. /\ grants.pending \in SUBSET [for : Principals, by : Principals, ends : Nat]
        /\ grants.invites \in SUBSET [role : Roles, by : Principals, ends : Nat]
    BY <1>1, GrantsFields
  <2>2. CASE ListPending(r)
    <3>. DEFINE ps == {q \in grants.pending : q.ends > scopeTime}
                is == {i \in grants.invites : i.ends > scopeTime}
    <3>1. Managed(r, Listed(ps, is)) BY <2>2 DEF ListPending, Listed
    <3>2. /\ ps \in SUBSET [for : Principals, by : Principals, ends : Nat]
          /\ is \in SUBSET [role : Roles, by : Principals, ends : Nat]
      BY <2>1
    <3>3. \A i \in is : i.role # "admin" BY DEF GrantsIInv, InvitesInv
    <3>. HIDE DEF ps, is
    <3>. QED BY <3>1, <3>2, <3>3
  <2>3. CASE CreateInviteRoute(r)
    <3>1. PICK role \in Roles : CreateInvite(r, role) BY <2>3 DEF CreateInviteRoute
    <3>. DEFINE new == [role |-> role, by |-> r.who, ends |-> scopeTime + InviteTtl]
                is == grants.invites \cup {new}
    <3>2. new \in [role : Roles, by : Principals, ends : Nat] BY <1>1, ScopeGrantsAssumption
    <3>3. is \in SUBSET [role : Roles, by : Principals, ends : Nat] BY <2>1, <3>2
    <3>4. \A i \in is : i.role # "admin" BY <3>1 DEF CreateInvite, GrantsIInv, InvitesInv
    <3>5. [grants EXCEPT !.invites = is] = Listed(grants.pending, is)
      BY <1>1 DEF Grants, Listed
    <3>6. Managed(r, [grants EXCEPT !.invites = is]) BY <3>1 DEF CreateInvite
    <3>. HIDE DEF is
    <3>. QED BY <2>1, <3>3, <3>4, <3>5, <3>6
  <2>4. CASE RevokeInviteRoute(r)
    <3>1. PICK i \in grants.invites : RevokeInvite(r, i) BY <2>4 DEF RevokeInviteRoute
    <3>. DEFINE is == grants.invites \ {i}
    <3>3. is \in SUBSET [role : Roles, by : Principals, ends : Nat] BY <2>1
    <3>4. \A j \in is : j.role # "admin" BY DEF GrantsIInv, InvitesInv
    <3>5. [grants EXCEPT !.invites = is] = Listed(grants.pending, is)
      BY <1>1 DEF Grants, Listed
    <3>6. Managed(r, [grants EXCEPT !.invites = is]) BY <3>1 DEF RevokeInvite
    <3>. HIDE DEF is
    <3>. QED BY <2>1, <3>3, <3>4, <3>5, <3>6
  <2>. QED BY <2>2, <2>3, <2>4
<1>. DEFINE d == Listed(ps, is)
<1>3. Managed(r, d) BY <1>2
<1>4. /\ d \in Grants /\ d.roles = grants.roles /\ d.makers = grants.makers /\ d.invites = is
      /\ d.tokens = grants.tokens /\ d.denied = grants.denied /\ d.proofs = grants.proofs
      /\ d.everDenied = grants.everDenied /\ d.shown = grants.shown
  BY <1>2, ListedFacts
<1>. HIDE DEF d
<1>5. \A q \in Principals : d.roles[q] = "admin" => q \in Founders \/ Cardinality(d.makers[q]) = 2
  BY <1>4 DEF GrantsIInv, AdminNeedsTwo
<1>. QED BY <1>2, <1>3, <1>4, <1>5, ManagedPreserves

\* Whoever has the code takes the invited role, which is not an admin's.
LEMMA AcceptInvitePreserves ==
    ASSUME GrantsIInv, Acted, NEW p \in Principals, AcceptInviteRoute(p)
    PROVE  GrantsIInv' /\ EntitledStep
<1>1. PICK i \in grants.invites, crash \in BOOLEAN : AcceptInvite(p, i, crash) BY DEF AcceptInviteRoute
<1>. DEFINE is == grants.invites \ {i}
            ps == grants.pending
            used == [grants EXCEPT !.invites = is]
            g == Granted(used, p, i.role, {})
<1>2. grants \in Grants /\ opened \subseteq Request BY GrantsTypes
<1>3. /\ ps \in SUBSET [for : Principals, by : Principals, ends : Nat]
      /\ is \in SUBSET [role : Roles, by : Principals, ends : Nat]
      /\ i.role \in Roles \cup {"none"} /\ {} \in SUBSET Principals
  BY <1>2, GrantsFields
<1>4. i.role # "admin" /\ \A j \in is : j.role # "admin" BY DEF GrantsIInv, InvitesInv
<1>5. used = Listed(ps, is) BY <1>2 DEF Grants, Listed
<1>6. (grants' = used \/ grants' = g) /\ opened' = opened /\ scopeTime' = scopeTime
  BY <1>1 DEF AcceptInvite
<1>. HIDE DEF used, is, ps
<1>7. /\ used \in Grants /\ used.roles = grants.roles /\ used.makers = grants.makers /\ used.invites = is
      /\ used.tokens = grants.tokens /\ used.denied = grants.denied /\ used.proofs = grants.proofs
      /\ used.everDenied = grants.everDenied /\ used.shown = grants.shown
  BY <1>3, <1>4, <1>5, ListedFacts
<1>8. /\ g \in Grants /\ g.roles[p] = i.role /\ g.invites = is
      /\ \A q \in Principals \ {p} : g.roles[q] = grants.roles[q] /\ g.makers[q] = grants.makers[q]
      /\ g.tokens = grants.tokens /\ g.denied = grants.denied /\ g.proofs = grants.proofs
      /\ g.everDenied = grants.everDenied /\ g.shown = grants.shown
  BY <1>3, <1>7, GrantedFacts
<1>. HIDE DEF g
<1>9. grants' \in Grants /\ TokensStay BY <1>6, <1>7, <1>8 DEF TokensStay
<1>10. AdminNeedsTwo'
  <2>1. CASE grants' = used BY <1>7, <2>1 DEF GrantsIInv, AdminNeedsTwo
  <2>2. CASE grants' = g BY <1>4, <1>8, <2>2 DEF GrantsIInv, AdminNeedsTwo
  <2>. QED BY <1>6, <2>1, <2>2
<1>11. InvitesInv' BY <1>4, <1>6, <1>7, <1>8 DEF InvitesInv
<1>12. GrantsIInv' BY <1>2, <1>6, <1>9, <1>10, <1>11, RolesStep
<1>. QED BY <1>6, <1>9, <1>12, NothingUsed DEF TokensStay

-----------------------------------------------------------------------------
(* Grants and scope tokens: sessions, tokens and the requests they make *)

LEMMA SessionsPreserve ==
    ASSUME GrantsIInv, Acted, NEW p \in Principals, Logout(p) \/ ChangeFactor(p)
    PROVE  GrantsIInv' /\ EntitledStep
<1>1. grants \in Grants /\ opened \subseteq Request BY GrantsTypes
<1>2. grants.sessions \in [Principals -> [live : BOOLEAN, at : ScopeTime, factor : Nat]]
  BY <1>1, GrantsFields
<1>3. opened' = opened /\ scopeTime' = scopeTime BY DEF Logout, ChangeFactor
<1>4. PICK one \in [live : BOOLEAN, at : ScopeTime, factor : Nat] :
         grants' = [grants EXCEPT !.sessions = [grants.sessions EXCEPT ![p] = one]]
  <2>1. CASE Logout(p)
    <3>. DEFINE one == [grants.sessions[p] EXCEPT !.live = FALSE]
    <3>1. one \in [live : BOOLEAN, at : ScopeTime, factor : Nat] BY <1>2
    <3>2. grants' = [grants EXCEPT !.sessions = [grants.sessions EXCEPT ![p] = one]]
      BY <1>1, <1>2, <2>1 DEF Logout, Grants
    <3>. QED BY <3>1, <3>2
  <2>2. CASE ChangeFactor(p)
    <3>. DEFINE one == [grants.sessions[p] EXCEPT !.factor = 1]
    <3>1. one \in [live : BOOLEAN, at : ScopeTime, factor : Nat] BY <1>2
    <3>2. grants' = [grants EXCEPT !.sessions = [grants.sessions EXCEPT ![p] = one]]
      BY <1>1, <1>2, <2>2 DEF ChangeFactor, Grants
    <3>. QED BY <3>1, <3>2
  <2>. QED BY <2>1, <2>2
<1>. DEFINE new == [grants.sessions EXCEPT ![p] = one]
<1>5. new \in [Principals -> [live : BOOLEAN, at : ScopeTime, factor : Nat]] BY <1>2
<1>6. grants' = [grants EXCEPT !.sessions = new] BY <1>4
<1>. HIDE DEF new
<1>7. grants' \in Grants BY <1>1, <1>5, <1>6 DEF Grants
<1>8. TokensStay /\ RolesStay BY <1>1, <1>3, <1>6 DEF Grants, TokensStay, RolesStay
<1>9. AdminNeedsTwo' /\ InvitesInv'
  BY <1>8 DEF GrantsIInv, RolesStay, AdminNeedsTwo, InvitesInv
<1>10. GrantsIInv' BY <1>1, <1>3, <1>7, <1>8, <1>9, RolesStep
<1>. QED BY <1>3, <1>8, <1>10, NothingUsed DEF TokensStay

\* Time only lets tokens, denials and stamps grow old.
LEMMA ScopeTickPreserves ==
    ASSUME GrantsIInv, Acted, ScopeTick PROVE GrantsIInv' /\ EntitledStep
<1>. USE ScopeGrantsAssumption
<1>1. /\ grants \in Grants /\ opened \subseteq Request /\ scopeTime \in Nat
      /\ \A t \in 1..MaxScopeTokens : grants.tokens[t] # NoToken => grants.tokens[t] \in ScopeToken
  BY GrantsTypes
<1>2. grants' = grants /\ opened' = opened /\ scopeTime' = scopeTime + 1 /\ scopeTime < MaxScopeTime
  BY DEF ScopeTick
<1>3. scopeTime' \in ScopeTime BY <1>1, <1>2 DEF ScopeTime
<1>4. RolesStay BY <1>2 DEF RolesStay
<1>5. TokenInv'
  <2>. SUFFICES ASSUME NEW t \in 1..MaxScopeTokens, grants.tokens[t] # NoToken
               PROVE  grants.tokens[t].ends <= scopeTime + 1 + TokenTtl
    BY <1>2 DEF TokenInv
  <2>1. grants.tokens[t].ends \in Nat BY <1>1 DEF ScopeToken
  <2>2. grants.tokens[t].ends <= scopeTime + TokenTtl BY DEF GrantsIInv, TokenInv
  <2>. QED BY <1>1, <2>1, <2>2
<1>6. DenyInv'
  <2>. SUFFICES ASSUME NEW t \in grants.everDenied
               PROVE  /\ grants.tokens[t] # NoToken
                      /\ scopeTime + 1 < grants.tokens[t].ends =>
                            \E d \in grants.denied : d.token = t /\ d.ends >= grants.tokens[t].ends
    BY <1>2 DEF DenyInv
  <2>1. t \in 1..MaxScopeTokens BY <1>1, GrantsFields
  <2>2. grants.tokens[t] # NoToken BY DEF GrantsIInv, DenyInv
  <2>3. grants.tokens[t].ends \in Nat BY <1>1, <2>1, <2>2 DEF ScopeToken
  <2>4. scopeTime + 1 < grants.tokens[t].ends => scopeTime < grants.tokens[t].ends BY <1>1, <2>3
  <2>. QED BY <2>2, <2>4 DEF GrantsIInv, DenyInv
<1>7. ProofInv'
  <2>. SUFFICES ASSUME NEW t \in 1..MaxScopeTokens, NEW stamp \in ScopeTime, <<t, stamp>> \in grants.shown
               PROVE  \/ scopeTime' - stamp > ProofWindow
                      \/ [token |-> t, stamp |-> stamp, ends |-> stamp + ProofRetention] \in grants.proofs
    BY <1>2, Zenon DEF ProofInv
  <2>1. stamp \in Nat /\ ProofWindow \in Nat BY DEF ScopeTime
  <2>2. scopeTime - stamp > ProofWindow => scopeTime' - stamp > ProofWindow BY <1>1, <1>2, <2>1
  <2>. QED BY <2>2 DEF GrantsIInv, ProofInv
<1>8. grants' \in Grants /\ opened' \subseteq Request BY <1>1, <1>2
<1>9. GrantsIInv' BY <1>3, <1>4, <1>5, <1>6, <1>7, <1>8, TokensStep
<1>. QED BY <1>2, <1>9, NothingUsed

\* A token gets an id that was never used.
LEMMA PostScopeTokenPreserves ==
    ASSUME GrantsIInv, Acted, NEW p \in Principals, NEW scope \in Scopes, NEW elevated \in BOOLEAN,
           NEW bound \in BOOLEAN, PostScopeToken(p, scope, elevated, bound)
    PROVE  GrantsIInv' /\ EntitledStep
<1>. DEFINE free == {t \in 1..MaxScopeTokens : grants.tokens[t] = NoToken}
            u == CHOOSE t \in free : TRUE
            until == grants.sessions[p].at + Elevation
            ends == scopeTime + TokenTtl
            when == IF until < ends THEN until ELSE ends
            high == IF elevated THEN when ELSE 0
            token == [who |-> p, factor |-> grants.sessions[p].factor, scope |-> scope, ends |-> ends,
                      elevated |-> high, bound |-> bound]
            new == [grants.tokens EXCEPT ![u] = token]
<1>1. grants \in Grants /\ opened \subseteq Request /\ scopeTime \in Nat /\ scopeTime \in ScopeTime
  BY GrantsTypes
<1>2. /\ grants.sessions[p].at \in ScopeTime /\ grants.sessions[p].factor \in Nat
      /\ grants.tokens \in [1..MaxScopeTokens -> ScopeToken \cup {NoToken}]
  BY <1>1, GrantsFields
<1>3. free # {} /\ opened' = opened /\ scopeTime' = scopeTime /\ grants' = [grants EXCEPT !.tokens[u] = token]
  BY DEF PostScopeToken
<1>4. u \in 1..MaxScopeTokens /\ grants.tokens[u] = NoToken
  <2>1. u \in free
    <3>. HIDE DEF free
    <3>. QED BY <1>3
  <2>. QED BY <2>1
<1>. HIDE DEF u, free
<1>5. ends \in Nat /\ until \in Nat
  <2>1. /\ MaxScopeTime \in Nat /\ TokenTtl \in Nat /\ Elevation \in Nat BY ScopeGrantsAssumption
  <2>2. grants.sessions[p].at \in Nat BY ONLY <1>2, <2>1 DEF ScopeTime
  <2>. QED BY ONLY <1>1, <2>1, <2>2
<1>6. high \in Nat BY <1>5
<1>. HIDE DEF high, when, until
<1>7. token \in ScopeToken /\ token.ends = ends BY <1>2, <1>5, <1>6 DEF ScopeToken
<1>8. grants' = [grants EXCEPT !.tokens = new] BY <1>1, <1>3 DEF Grants
<1>. HIDE DEF token
<1>9. /\ new \in [1..MaxScopeTokens -> ScopeToken \cup {NoToken}] /\ new[u] = token
      /\ \A t \in (1..MaxScopeTokens) \ {u} : new[t] = grants.tokens[t]
  BY <1>2, <1>4, <1>7
<1>. HIDE DEF new
<1>10. /\ grants' \in Grants /\ grants'.tokens = new /\ grants'.denied = grants.denied
       /\ grants'.proofs = grants.proofs /\ grants'.everDenied = grants.everDenied
       /\ grants'.shown = grants.shown /\ grants'.roles = grants.roles
       /\ grants'.makers = grants.makers /\ grants'.invites = grants.invites
  BY <1>1, <1>8, <1>9 DEF Grants
<1>11. TokenInv'
  <2>1. ends <= scopeTime + TokenTtl BY <1>5
  <2>. QED BY <1>3, <1>7, <1>9, <1>10, <2>1 DEF GrantsIInv, TokenInv
<1>12. DenyInv'
  <2>1. grants.everDenied \subseteq 1..MaxScopeTokens BY <1>1, GrantsFields
  <2>2. u \notin grants.everDenied BY <1>4 DEF GrantsIInv, DenyInv
  <2>3. \A t \in grants.everDenied : new[t] = grants.tokens[t] BY <1>9, <2>1, <2>2
  <2>. QED BY <1>3, <1>10, <2>3 DEF GrantsIInv, DenyInv
<1>13. ProofInv' BY <1>3, <1>10 DEF GrantsIInv, ProofInv
<1>14. GrantsIInv' BY <1>1, <1>3, <1>10, <1>11, <1>12, <1>13, TokensStep DEF RolesStay
<1>. QED BY <1>3, <1>10, <1>14, NothingUsed

\* A denial ends after the token: DenyTtl exceeds the longest term.
LEMMA DeleteScopeTokenPreserves ==
    ASSUME GrantsIInv, Acted, NEW t \in 1..MaxScopeTokens, DeleteScopeToken(t)
    PROVE  GrantsIInv' /\ EntitledStep
<1>. DEFINE new == [token |-> t, ends |-> scopeTime + DenyTtl]
            denials == {d \in grants.denied : d.token # t} \cup {new}
            ever == grants.everDenied \cup {t}
<1>1. grants \in Grants /\ opened \subseteq Request /\ scopeTime \in Nat /\ scopeTime \in ScopeTime
  BY GrantsTypes
<1>2. /\ grants.tokens[t] # NoToken /\ opened' = opened /\ scopeTime' = scopeTime
      /\ grants' = [grants EXCEPT !.denied = denials, !.everDenied = ever]
  BY DEF DeleteScopeToken
<1>3. new \in [token : 1..MaxScopeTokens, ends : Nat] /\ new.token = t /\ new.ends = scopeTime + DenyTtl
  BY <1>1, ScopeGrantsAssumption
<1>4. grants.tokens[t].ends \in Nat BY <1>2, GrantsTypes DEF ScopeToken
<1>5. new.ends >= grants.tokens[t].ends
  <2>1. grants.tokens[t].ends <= scopeTime + TokenTtl BY <1>2 DEF GrantsIInv, TokenInv
  <2>. QED BY <1>1, <1>3, <1>4, <2>1, ScopeGrantsAssumption
<1>. HIDE DEF new
<1>6. denials \subseteq [token : 1..MaxScopeTokens, ends : Nat] /\ ever \subseteq 1..MaxScopeTokens
  BY <1>1, <1>3, GrantsFields
<1>7. /\ new \in denials /\ \A d \in grants.denied : d.token # t => d \in denials
  OBVIOUS
<1>. HIDE DEF denials
<1>8. /\ grants' \in Grants /\ grants'.tokens = grants.tokens /\ grants'.denied = denials
      /\ grants'.proofs = grants.proofs /\ grants'.everDenied = ever
      /\ grants'.shown = grants.shown /\ grants'.roles = grants.roles
      /\ grants'.makers = grants.makers /\ grants'.invites = grants.invites
  BY <1>1, <1>2, <1>6 DEF Grants
<1>9. TokenInv' /\ ProofInv' BY <1>2, <1>8 DEF GrantsIInv, TokenInv, ProofInv
<1>10. DenyInv'
  <2>. SUFFICES ASSUME NEW o \in ever
               PROVE  /\ grants.tokens[o] # NoToken
                      /\ scopeTime < grants.tokens[o].ends =>
                            \E d \in denials : d.token = o /\ d.ends >= grants.tokens[o].ends
    BY <1>2, <1>8 DEF DenyInv
  <2>1. CASE o = t BY <1>2, <1>3, <1>5, <1>7, <2>1
  <2>2. CASE o # t BY <1>7, <2>2 DEF GrantsIInv, DenyInv
  <2>. QED BY <2>1, <2>2
<1>11. GrantsIInv' BY <1>1, <1>2, <1>8, <1>9, <1>10, TokensStep DEF RolesStay
<1>. QED BY <1>2, <1>8, <1>11, NothingUsed

\* Pruning the denials forgets only tokens that have ended.
LEMMA KeptDenials ==
    ASSUME GrantsIInv, NEW t \in grants.everDenied
    PROVE  /\ grants.tokens[t] # NoToken
           /\ scopeTime < grants.tokens[t].ends =>
                 \E d \in Kept(grants.denied) : d.token = t /\ d.ends >= grants.tokens[t].ends
<1>1. grants \in Grants /\ scopeTime \in Nat BY GrantsTypes
<1>2. t \in 1..MaxScopeTokens BY <1>1, GrantsFields
<1>3. grants.tokens[t] # NoToken BY DEF GrantsIInv, DenyInv
<1>4. grants.tokens[t].ends \in Nat BY <1>2, <1>3, GrantsTypes DEF ScopeToken
<1>5. ASSUME scopeTime < grants.tokens[t].ends
      PROVE  \E d \in Kept(grants.denied) : d.token = t /\ d.ends >= grants.tokens[t].ends
  <2>1. PICK d \in grants.denied : d.token = t /\ d.ends >= grants.tokens[t].ends
    BY <1>5 DEF GrantsIInv, DenyInv
  <2>2. d.ends \in Nat BY <1>1, GrantsFields
  <2>3. d.ends > scopeTime BY <1>1, <1>4, <1>5, <2>1, <2>2
  <2>. QED BY <2>1, <2>3 DEF Kept
<1>. QED BY <1>3, <1>5

\* A token that stands was never denied.
LEMMA StandingNeverDenied ==
    ASSUME GrantsIInv, NEW t \in 1..MaxScopeTokens, TokenStands(t)
    PROVE  t \notin grants.everDenied
BY DEF GrantsIInv, DenyInv, TokenStands

\* A stamp that is near the clock and was shown is remembered.
LEMMA ShownIsRemembered ==
    ASSUME GrantsIInv, NEW t \in 1..MaxScopeTokens, NEW stamp \in ScopeTime,
           <<t, stamp>> \in grants.shown
    PROVE  \/ scopeTime - stamp > ProofWindow
           \/ [token |-> t, stamp |-> stamp, ends |-> stamp + ProofRetention] \in Remembered(grants.proofs)
<1>. DEFINE q == [token |-> t, stamp |-> stamp, ends |-> stamp + ProofRetention]
<1>1. scopeTime \in Nat /\ stamp \in Nat BY GrantsTypes, ScopeGrantsAssumption DEF ScopeTime
<1>2. CASE scopeTime - stamp > ProofWindow BY <1>2
<1>3. CASE ~(scopeTime - stamp > ProofWindow)
  <2>1. q \in grants.proofs BY <1>3 DEF GrantsIInv, ProofInv
  <2>2. q.ends > scopeTime BY <1>1, <1>3, ScopeGrantsAssumption
  <2>. QED BY <2>1, <2>2 DEF Remembered
<1>. QED BY <1>2, <1>3

LEMMA AuthenticateTokenPreserves ==
    ASSUME GrantsIInv, Acted, NEW t \in 1..MaxScopeTokens, NEW stamp \in ScopeTime \cup {NoProofSent},
           AuthenticateToken(t, stamp)
    PROVE  GrantsIInv' /\ EntitledStep
<1>. DEFINE token == grants.tokens[t]
            q == [token |-> t, stamp |-> stamp, ends |-> stamp + ProofRetention]
            proofs == IF token.bound THEN Remembered(grants.proofs) \cup {q} ELSE grants.proofs
            shown == IF token.bound THEN grants.shown \cup {<<t, stamp>>} ELSE grants.shown
            denials == Kept(grants.denied)
            r == [who |-> token.who, token |-> t, factor |-> token.factor, scope |-> token.scope,
                  human |-> FALSE, strong |-> scopeTime < token.elevated]
<1>1. grants \in Grants /\ opened \subseteq Request /\ scopeTime \in Nat /\ scopeTime \in ScopeTime
  BY GrantsTypes
<1>2. /\ TokenStands(t) /\ ProofHolds(t, stamp) /\ scopeTime' = scopeTime /\ opened' = opened \cup {r}
      /\ grants' = [grants EXCEPT !.denied = denials, !.proofs = proofs, !.shown = shown]
  BY DEF AuthenticateToken
<1>3. token \in ScopeToken BY <1>2, GrantsTypes DEF TokenStands
<1>4. r \in Request /\ r.token = t
  <2>. DEFINE strong0 == scopeTime < token.elevated
  <2>1. strong0 \in BOOLEAN OBVIOUS
  <2>2. r = [who |-> token.who, token |-> t, factor |-> token.factor, scope |-> token.scope,
             human |-> FALSE, strong |-> strong0]
    OBVIOUS
  <2>3. t \in 0..MaxScopeTokens BY ScopeGrantsAssumption
  <2>. HIDE DEF strong0, r, token
  <2>. QED BY <1>3, <2>1, <2>2, <2>3 DEF Request, ScopeToken
<1>. HIDE DEF r
<1>5. ASSUME token.bound
      PROVE  /\ stamp \in ScopeTime /\ stamp \in Nat /\ scopeTime - stamp <= ProofWindow
             /\ ~ \E x \in Remembered(grants.proofs) : x.token = t /\ x.stamp = stamp
  BY <1>2, <1>5, ScopeGrantsAssumption DEF ProofHolds, ScopeTime
<1>6. proofs \subseteq [token : 1..MaxScopeTokens, stamp : ScopeTime, ends : Nat]
      /\ shown \subseteq ((1..MaxScopeTokens) \X ScopeTime)
      /\ denials \subseteq [token : 1..MaxScopeTokens, ends : Nat]
  <2>1. /\ grants.proofs \subseteq [token : 1..MaxScopeTokens, stamp : ScopeTime, ends : Nat]
        /\ grants.shown \subseteq ((1..MaxScopeTokens) \X ScopeTime)
        /\ grants.denied \subseteq [token : 1..MaxScopeTokens, ends : Nat]
    BY <1>1, GrantsFields
  <2>2. token.bound => q \in [token : 1..MaxScopeTokens, stamp : ScopeTime, ends : Nat]
    BY <1>5, ScopeGrantsAssumption
  <2>. HIDE DEF q
  <2>. QED BY <1>5, <2>1, <2>2 DEF Remembered, Kept
<1>7. ASSUME NEW u \in 1..MaxScopeTokens, NEW old \in ScopeTime, <<u, old>> \in grants.shown
      PROVE  \/ scopeTime - old > ProofWindow
             \/ [token |-> u, stamp |-> old, ends |-> old + ProofRetention] \in proofs
  <2>1. CASE ~token.bound BY <1>7, <2>1 DEF GrantsIInv, ProofInv
  <2>2. CASE token.bound BY <1>7, <2>2, ShownIsRemembered
  <2>. QED BY <2>1, <2>2
<1>8. ASSUME NEW u \in 1..MaxScopeTokens, NEW old \in ScopeTime, <<u, old>> \in shown
      PROVE  \/ scopeTime - old > ProofWindow
             \/ [token |-> u, stamp |-> old, ends |-> old + ProofRetention] \in proofs
  <2>1. CASE <<u, old>> \in grants.shown BY <1>7, <2>1
  <2>2. CASE <<u, old>> \notin grants.shown
    <3>1. token.bound /\ u = t /\ old = stamp BY <1>8, <2>2
    <3>. QED BY <3>1
  <2>. QED BY <2>1, <2>2
<1>9. ASSUME NEW u \in 1..MaxScopeTokens, NEW old \in ScopeTime,
             [token |-> u, stamp |-> old, ends |-> old + ProofRetention] \in proofs \ grants.proofs
      PROVE  <<u, old>> \notin grants.shown
  <2>1. token.bound /\ [token |-> u, stamp |-> old, ends |-> old + ProofRetention] = q
    BY <1>9 DEF Remembered
  <2>2. u = t /\ old = stamp BY <2>1
  <2>3. SUFFICES ASSUME <<t, stamp>> \in grants.shown PROVE FALSE BY <2>2
  <2>4. ~(scopeTime - stamp > ProofWindow) BY <1>1, <1>5, <2>1, ScopeGrantsAssumption
  <2>5. q \in Remembered(grants.proofs) BY <1>5, <2>1, <2>3, <2>4, ShownIsRemembered
  <2>. QED BY <1>5, <2>1, <2>5
<1>. HIDE DEF proofs, shown, denials
<1>10. /\ grants' \in Grants /\ grants'.tokens = grants.tokens /\ grants'.denied = denials
       /\ grants'.proofs = proofs /\ grants'.everDenied = grants.everDenied
       /\ grants'.shown = shown /\ grants'.roles = grants.roles
       /\ grants'.makers = grants.makers /\ grants'.invites = grants.invites
  BY <1>1, <1>2, <1>6 DEF Grants
<1>11. TokenInv' BY <1>2, <1>10 DEF GrantsIInv, TokenInv
<1>12. DenyInv' BY <1>2, <1>10, KeptDenials DEF DenyInv, denials
<1>13. ProofInv' BY <1>2, <1>8, <1>10 DEF ProofInv
<1>14. opened' \subseteq Request BY <1>1, <1>2, <1>4
<1>15. GrantsIInv' BY <1>1, <1>2, <1>10, <1>11, <1>12, <1>13, <1>14, TokensStep DEF RolesStay
<1>16. EntitledStep
  <2>1. t \notin grants.everDenied BY <1>2, StandingNeverDenied
  <2>2. opened \ opened' = {} BY <1>2
  <2>3. \A x \in opened' \ opened : x.token # 0 => x.token \notin grants.everDenied
    BY <1>2, <1>4, <2>1
  <2>4. \A u \in 1..MaxScopeTokens, old \in ScopeTime :
           [token |-> u, stamp |-> old, ends |-> old + ProofRetention]
               \in grants'.proofs \ grants.proofs => <<u, old>> \notin grants.shown
    BY <1>9, <1>10
  <2>. QED BY <2>2, <2>3, <2>4 DEF EntitledStep
<1>. QED BY <1>15, <1>16

LEMMA AuthenticateSessionPreserves ==
    ASSUME GrantsIInv, Acted, NEW p \in Principals, AuthenticateSession(p)
    PROVE  GrantsIInv' /\ EntitledStep
<1>. DEFINE recent == Recent(p)
            r == [who |-> p, token |-> 0, factor |-> grants.sessions[p].factor, scope |-> "project",
                  human |-> TRUE, strong |-> recent]
<1>1. grants \in Grants /\ opened \subseteq Request /\ scopeTime \in ScopeTime BY GrantsTypes
<1>2. grants.sessions[p].factor \in Nat /\ grants.sessions[p].live \in BOOLEAN BY <1>1, GrantsFields
<1>3. recent \in BOOLEAN BY <1>2 DEF Recent
<1>4. grants' = grants /\ opened' = opened \cup {r} /\ scopeTime' = scopeTime BY DEF AuthenticateSession
<1>. HIDE DEF recent
<1>5. r \in Request /\ r.token = 0 BY <1>2, <1>3, ScopeGrantsAssumption DEF Request, Scopes
<1>. HIDE DEF r
<1>6. TokensStay /\ AdminNeedsTwo' /\ InvitesInv'
  BY <1>4 DEF TokensStay, GrantsIInv, AdminNeedsTwo, InvitesInv
<1>7. GrantsIInv' BY <1>1, <1>4, <1>5, <1>6, RolesStep
<1>8. EntitledStep BY <1>4, <1>5 DEF EntitledStep
<1>. QED BY <1>7, <1>8

LEMMA OperationsPreserve ==
    ASSUME GrantsIInv, Acted, NEW r \in opened,
           \/ \E scope \in Scopes : Operate(r, scope)
           \/ \E t \in 1..MaxScopeTokens : GetAuditExport(r, t)
    PROVE  GrantsIInv' /\ EntitledStep
<1>1. grants \in Grants /\ opened \subseteq Request /\ scopeTime \in ScopeTime BY GrantsTypes
<1>2. opened' = opened \ {r} /\ scopeTime' = scopeTime BY DEF Operate, GetAuditExport
<1>3. CASE \E scope \in Scopes : Operate(r, scope)
  <2>1. PICK scope \in Scopes : Operate(r, scope) BY <1>3
  <2>2. grants' = grants BY <2>1 DEF Operate
  <2>3. TokensStay /\ AdminNeedsTwo' /\ InvitesInv'
    BY <1>2, <2>2 DEF TokensStay, GrantsIInv, AdminNeedsTwo, InvitesInv
  <2>4. GrantsIInv' BY <1>1, <1>2, <2>2, <2>3, RolesStep
  <2>5. EntitledStep BY <1>2, <2>1, <2>2, AuthorizedEntitled DEF Operate
  <2>. QED BY <2>4, <2>5
<1>4. CASE \E t \in 1..MaxScopeTokens : GetAuditExport(r, t)
  <2>. DEFINE denials == Kept(grants.denied)
  <2>1. PICK t \in 1..MaxScopeTokens : GetAuditExport(r, t) BY <1>4
  <2>2. grants' = [grants EXCEPT !.denied = denials] BY <2>1 DEF GetAuditExport
  <2>3. denials \subseteq [token : 1..MaxScopeTokens, ends : Nat] BY <1>1, GrantsFields DEF Kept
  <2>. HIDE DEF denials
  <2>4. /\ grants' \in Grants /\ grants'.tokens = grants.tokens /\ grants'.denied = denials
        /\ grants'.proofs = grants.proofs /\ grants'.everDenied = grants.everDenied
        /\ grants'.shown = grants.shown /\ grants'.roles = grants.roles
        /\ grants'.makers = grants.makers /\ grants'.invites = grants.invites
    BY <1>1, <2>2, <2>3 DEF Grants
  <2>5. TokenInv' /\ ProofInv' BY <1>2, <2>4 DEF GrantsIInv, TokenInv, ProofInv
  <2>6. DenyInv' BY <1>2, <2>4, KeptDenials DEF DenyInv, denials
  <2>7. GrantsIInv' BY <1>1, <1>2, <2>4, <2>5, <2>6, TokensStep DEF RolesStay
  <2>8. EntitledStep BY <1>2, <2>1, <2>4, AuthorizedEntitled DEF GetAuditExport
  <2>. QED BY <2>7, <2>8
<1>. QED BY <1>3, <1>4

-----------------------------------------------------------------------------
(* The theorems *)

LEMMA GrantsInitIInv == ASSUME GrantsInit PROVE GrantsIInv
<1>1. /\ scopeTime = 0 /\ acts = 0 /\ opened = {} BY DEF GrantsInit
<1>2. grants \in Grants
  <2>1. [p \in Principals |-> IF p \in Founders THEN "admin" ELSE "none"]
           \in [Principals -> Roles \cup {"none"}]
    BY DEF Roles
  <2>2. 0 \in ScopeTime BY ScopeGrantsAssumption DEF ScopeTime
  <2>. QED BY <2>1, <2>2 DEF GrantsInit, Grants
<1>3. /\ grants.invites = {} /\ grants.everDenied = {} /\ grants.shown = {}
      /\ \A t \in 1..MaxScopeTokens : grants.tokens[t] = NoToken
      /\ \A p \in Principals : grants.roles[p] = "admin" => p \in Founders
  BY DEF GrantsInit
<1>4. GrantsTypeOK BY <1>1, <1>2, ScopeGrantsAssumption DEF GrantsTypeOK, ScopeTime
<1>. QED BY <1>3, <1>4 DEF GrantsIInv, AdminNeedsTwo, InvitesInv, TokenInv, DenyInv, ProofInv

LEMMA GrantsNextPreserves ==
    ASSUME GrantsIInv, [GrantsNext]_grantVars PROVE GrantsIInv' /\ [EntitledStep]_grantVars
<1>1. CASE GrantsNext
  <2>0. Acted /\ Act BY <1>1 DEF GrantsNext, Acted
  <2>1. CASE ScopeTick BY <2>0, <2>1, ScopeTickPreserves
  <2>2. ASSUME NEW p \in Principals, Logout(p) \/ ChangeFactor(p) PROVE GrantsIInv' /\ EntitledStep
    BY <2>0, <2>2, SessionsPreserve
  <2>3. ASSUME NEW p \in Principals, AuthenticateSession(p) PROVE GrantsIInv' /\ EntitledStep
    BY <2>0, <2>3, AuthenticateSessionPreserves
  <2>4. ASSUME NEW p \in Principals, AcceptInviteRoute(p) PROVE GrantsIInv' /\ EntitledStep
    BY <2>0, <2>4, AcceptInvitePreserves
  <2>5. ASSUME NEW p \in Principals, NEW scope \in Scopes, NEW elevated \in BOOLEAN, NEW bound \in BOOLEAN,
               PostScopeToken(p, scope, elevated, bound)
        PROVE  GrantsIInv' /\ EntitledStep
    BY <2>0, <2>5, PostScopeTokenPreserves
  <2>6. ASSUME NEW t \in 1..MaxScopeTokens, DeleteScopeToken(t) PROVE GrantsIInv' /\ EntitledStep
    BY <2>0, <2>6, DeleteScopeTokenPreserves
  <2>7. ASSUME NEW t \in 1..MaxScopeTokens, NEW stamp \in ScopeTime \cup {NoProofSent},
               AuthenticateToken(t, stamp)
        PROVE  GrantsIInv' /\ EntitledStep
    BY <2>0, <2>7, AuthenticateTokenPreserves
  <2>8. ASSUME NEW r \in opened,
               \/ \E scope \in Scopes : Operate(r, scope)
               \/ \E t \in 1..MaxScopeTokens : GetAuditExport(r, t)
        PROVE  GrantsIInv' /\ EntitledStep
    BY <2>0, <2>8, OperationsPreserve
  <2>9. ASSUME NEW r \in opened, NEW p \in Principals,
               DeleteProjectMember(r, p) \/ \E role \in Roles : PostProjectMember(r, p, role)
        PROVE  GrantsIInv' /\ EntitledStep
    BY <2>0, <2>9, DeleteProjectMemberPreserves, PostProjectMemberPreserves
  <2>10. ASSUME NEW r \in opened, DecideGrantRequestRoute(r) PROVE GrantsIInv' /\ EntitledStep
    BY <2>0, <2>10, DecideGrantRequestPreserves DEF DecideGrantRequestRoute
  <2>11. ASSUME NEW r \in opened, ListPending(r) \/ CreateInviteRoute(r) \/ RevokeInviteRoute(r)
         PROVE  GrantsIInv' /\ EntitledStep
    BY <2>0, <2>11, ListsPreserve
  <2>. QED BY <2>0, <2>1, <2>2, <2>3, <2>4, <2>5, <2>6, <2>7, <2>8, <2>9, <2>10, <2>11 DEF Act
<1>2. CASE UNCHANGED grantVars
  BY <1>2 DEF grantVars, GrantsIInv, GrantsTypeOK, AdminNeedsTwo, InvitesInv, TokenInv, DenyInv, ProofInv
<1>. QED BY <1>1, <1>2

\* Nobody widens a role alone: however invitations, revocations and joins of an
\* account interleave, and however grants, invites and crashes of a project do, a
\* member acts with the role that was delegated to it by an invitation of its own,
\* and who did not found the project is its admin by two principals.
THEOREM RolesAreDelegated == MembersSpec /\ GrantsSpec => []RolesSound
<1>1. MembersInit => MembersIInv BY MembersInitIInv
<1>2. MembersIInv /\ [MembersNext]_membersVars => MembersIInv' BY MembersNextPreserves
<1>3. GrantsInit => GrantsIInv BY GrantsInitIInv
<1>4. GrantsIInv /\ [GrantsNext]_grantVars => GrantsIInv' BY GrantsNextPreserves
<1>5. MembersIInv /\ GrantsIInv => RolesSound BY MembersSafe DEF GrantsIInv, RolesSound
<1>. QED BY <1>1, <1>2, <1>3, <1>4, <1>5, PTL DEF MembersSpec, GrantsSpec

\* Whatever changes between a request's two locks: it acts only while the session it
\* goes back to lives with its second factor and its caller is a member, no token is
\* let in after its denial, and no proof of a key-bound token is taken twice.
THEOREM RequestsAreEntitled == GrantsSpec => UsedWhileEntitled
<1>1. GrantsInit => GrantsIInv BY GrantsInitIInv
<1>2. GrantsIInv /\ [GrantsNext]_grantVars => GrantsIInv' /\ [EntitledStep]_grantVars
  BY GrantsNextPreserves
<1>. QED BY <1>1, <1>2, PTL DEF GrantsSpec, UsedWhileEntitled
=============================================================================
