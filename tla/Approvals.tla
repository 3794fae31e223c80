----------------------------- MODULE Approvals -----------------------------
(***************************************************************************)
(* Out-of-band approvals: challenges that requesters register at several   *)
(* operators, and receipts that approvers sign and submit to all of them   *)
(* (services/operator/src/state.rs and handlers.rs, crates/recovery/src/   *)
(* approval.rs, apps/cli/src/commands/approvals.rs).  A signature is the   *)
(* challenge it was made over.                                             *)
(***************************************************************************)
EXTENDS Naturals, FiniteSets

CONSTANTS
    Hosts,              \* operators
    Requests,           \* approval challenges: id, vault, details, expiry
    Approvers,
    NoRequest,
    MaxMinute,          \* bound on the clock
    MaxRegistered,      \* bound on registrations
    MaxSigned,          \* bound on runs of `approve sign`
    ApprovalFaults      \* bound on failed writes and crashes

ASSUME ApprovalsAssumption ==
    /\ \A c \in Requests : c.expires \in Nat
    /\ NoRequest \notin Requests
    /\ MaxMinute \in Nat /\ MaxRegistered \in Nat /\ MaxSigned \in Nat /\ ApprovalFaults \in Nat

VARIABLES
    book, bookFile,     \* approval_challenges and its file, per operator
    submissions,        \* receipts on their way, or past the scope check of post_submit_approval
    minute, registered, signed, approvalFaults,
    accepted            \* history: receipts each operator acknowledged

approvalsVars == <<book, bookFile, submissions, minute, registered, signed, approvalFaults, accepted>>

RequestIds == {c.id : c \in Requests}
Receipt == [over : Requests, by : Approvers]
ApprovalPage == [about : Requests \cup {NoRequest}, receipts : SUBSET Receipt]
NoPage == [about |-> NoRequest, receipts |-> {}]
Submission == [host : Hosts, receipt : Receipt, checked : BOOLEAN]

ApprovalsTypeOK ==
    /\ book \in [Hosts -> [RequestIds -> ApprovalPage]] /\ bookFile \in [Hosts -> [RequestIds -> ApprovalPage]]
    /\ submissions \subseteq Submission
    /\ minute \in 0..MaxMinute /\ registered \in 0..MaxRegistered /\ signed \in 0..MaxSigned
    /\ approvalFaults \in 0..ApprovalFaults
    /\ accepted \in [Hosts -> SUBSET Receipt]

ApprovalsInit ==
    /\ book = [h \in Hosts |-> [i \in RequestIds |-> NoPage]] /\ bookFile = book
    /\ submissions = {} /\ minute = 0 /\ registered = 0 /\ signed = 0 /\ approvalFaults = 0
    /\ accepted = [h \in Hosts |-> {}]

Expired(c) == minute > c.expires
Unexpired(pages) ==
    [i \in RequestIds |-> IF pages[i] # NoPage /\ pages[i].about.expires > minute THEN pages[i] ELSE NoPage]

\* persist_approval_challenges under the lock of the map.
BookSaved(h, pages) == bookFile' = [bookFile EXCEPT ![h] = pages] /\ UNCHANGED approvalFaults
BookSaveFails(h, pages) ==
    /\ approvalFaults < ApprovalFaults /\ approvalFaults' = approvalFaults + 1
    /\ \/ UNCHANGED bookFile
       \/ bookFile' = [bookFile EXCEPT ![h] = pages]

\* Mutant: a challenge registered again keeps the receipts of its page.
RegisteredPageKeeps(h, c) == [about |-> c, receipts |-> book[h][c.id].receipts]

\* A page starts without receipts, also when its id was there before.
RegisteredPage(h, c) == [about |-> c, receipts |-> {}]

RegisterChallenge(h, c) ==
    LET new == [Unexpired(book[h]) EXCEPT ![c.id] = RegisteredPage(h, c)]
    IN  /\ registered < MaxRegistered /\ registered' = registered + 1
        /\ ~Expired(c)
        /\ \/ book' = [book EXCEPT ![h] = new] /\ BookSaved(h, new)
           \/ book' = [book EXCEPT ![h] = [new EXCEPT ![c.id] = NoPage]] /\ BookSaveFails(h, new)
        /\ accepted' = [accepted EXCEPT ![h] = {r \in @ : r.over.id # c.id}]
        /\ UNCHANGED <<submissions, minute, signed>>

\* `approve sign`: the first operator that answers has the challenge; the receipt goes
\* to all operators.  A request that is not delivered stays behind.
ApproveSign(a, h, i) ==
    LET c == book[h][i].about
    IN  /\ signed < MaxSigned /\ signed' = signed + 1
        /\ c # NoRequest
        /\ submissions' = submissions \cup
              {[host |-> k, receipt |-> [over |-> c, by |-> a], checked |-> FALSE] : k \in Hosts}
        /\ UNCHANGED <<book, bookFile, minute, registered, approvalFaults, accepted>>

\* post_submit_approval reads the challenge of that id for the scope check, ...
CheckScope(s) ==
    /\ s \in submissions /\ ~s.checked
    /\ book[s.host][s.receipt.over.id] # NoPage
    /\ submissions' = (submissions \ {s}) \cup {[s EXCEPT !.checked = TRUE]}
    /\ UNCHANGED <<book, bookFile, minute, registered, signed, approvalFaults, accepted>>

\* Mutant: the signature is checked against the challenge the receipt names itself.
VerifiesItself(receipt, c) == ~Expired(c)

\* The receipt is over exactly this challenge, which has not expired.
Verifies(receipt, c) == receipt.over = c /\ ~Expired(c)

\* ... and submit_approval_receipt looks it up again under the lock.
SubmitReceipt(s) ==
    LET h == s.host
        r == s.receipt
        page == book[h][r.over.id]
        known == \E q \in page.receipts : q.by = r.by
        new == [book[h] EXCEPT ![r.over.id].receipts = IF known THEN @ ELSE @ \cup {r}]
    IN  /\ s \in submissions /\ s.checked
        /\ page # NoPage /\ Verifies(r, page.about)
        /\ \/ /\ book' = [book EXCEPT ![h] = new] /\ BookSaved(h, new)
              /\ submissions' = submissions \ {s}
              /\ accepted' = [accepted EXCEPT ![h] = @ \cup {r}]
           \/ BookSaveFails(h, new) /\ submissions' = submissions \ {s} /\ UNCHANGED <<book, accepted>>
        /\ UNCHANGED <<minute, registered, signed>>

\* Unknown id, expired, or signed over other content: refused.
SubmitRefused(s) ==
    LET page == book[s.host][s.receipt.over.id]
    IN  /\ s \in submissions
        /\ page = NoPage \/ (s.checked /\ ~Verifies(s.receipt, page.about))
        /\ submissions' = submissions \ {s}
        /\ UNCHANGED <<book, bookFile, minute, registered, signed, approvalFaults, accepted>>

\* load_approval_challenges verifies every receipt again.
ApprovalsCrash(h) ==
    LET loaded == Unexpired(bookFile[h])
    IN  /\ approvalFaults < ApprovalFaults /\ approvalFaults' = approvalFaults + 1
        /\ book' = [book EXCEPT ![h] =
              [i \in RequestIds |-> [loaded[i] EXCEPT !.receipts = {r \in @ : Verifies(r, loaded[i].about)}]]]
        /\ submissions' = {s \in submissions : s.host # h}
        /\ UNCHANGED <<bookFile, minute, registered, signed, accepted>>

NextMinute ==
    /\ minute < MaxMinute /\ minute' = minute + 1
    /\ UNCHANGED <<book, bookFile, submissions, registered, signed, approvalFaults, accepted>>

ApprovalsNext ==
    \/ \E h \in Hosts, c \in Requests : RegisterChallenge(h, c)
    \/ \E a \in Approvers, h \in Hosts, i \in RequestIds : ApproveSign(a, h, i)
    \/ \E s \in submissions : CheckScope(s) \/ SubmitReceipt(s) \/ SubmitRefused(s)
    \/ \E h \in Hosts : ApprovalsCrash(h)
    \/ NextMinute

ApprovalsSpec == ApprovalsInit /\ [][ApprovalsNext]_approvalsVars

\* get_challenge_status counts as approved what has a receipt.
Approved(h, c) == book[h][c.id].about = c /\ book[h][c.id].receipts # {}

\* An operator reports a challenge as approved only by signatures over exactly its
\* content, also when another challenge took over its id between
\* signing, scope check and submission.
ApprovedAsSigned ==
    \A h \in Hosts, c \in Requests : Approved(h, c) => \A r \in book[h][c.id].receipts : r.over = c

\* An acknowledged receipt survives failed writes and restarts while its challenge
\* lives, unless the challenge is registered again (register_approval_challenge starts
\* the page anew).
AcceptedKept ==
    \A h \in Hosts : \A r \in accepted[h] :
        r.over.expires > minute =>
            \E q \in book[h][r.over.id].receipts \cap bookFile[h][r.over.id].receipts : q.by = r.by

\* What approvals promise a recovering client (get_challenge_status): a challenge is
\* approved by signatures over its own content, and accepted ones stay.
ApprovalsSound == ApprovalsTypeOK /\ ApprovedAsSigned /\ AcceptedKept
=============================================================================
