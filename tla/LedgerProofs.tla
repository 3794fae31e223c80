---------------------------- MODULE LedgerProofs -----------------------------
(***************************************************************************)
(* The account service's two ledgers for any operators, runs, lines,       *)
(* secrets, events and interruptions.                                      *)
(*                                                                         *)
(* Migration.  That a shred loses nothing takes that every entry counted   *)
(* as imported names a secret that was given the entry's value             *)
(* (WrittenInv), that the secret still lives (BackedInv), and that the     *)
(* entry's value is the snapshot's (SourcesInv).  BackedInv falls when an  *)
(* abort deletes a secret that an entry of another run adopted, and a run  *)
(* is incomplete when its plan dies between its two requests               *)
(* (MigrateShred); the theorems say which of the two they exclude.         *)
(*                                                                         *)
(* Audit chain.  Rows are exported in the order of their seconds, and      *)
(* linked in the order of their numbers.  The two agree as long as the     *)
(* clock is not set back (ChainInv), so that a walk has the first rows of  *)
(* the chain (WalkInv).                                                    *)
(***************************************************************************)
EXTENDS MCAccount, FiniteSetTheorems, SequenceTheorems, WellFoundedInduction, TLAPS

-----------------------------------------------------------------------------
(* Migration: the inductive invariant *)

EntryNames == {SourceNames[l] : l \in Lines} \cup FreeNames
RunRecord ==
    [state : {"planning", "applying", "verifying", "complete", "aborted"}, from : Heads]
LineRecord ==
    [state : EntryStates, name : EntryNames, source : SourceValues,
     target : SourceValues \cup {"none"}, secret : ScopedIds \cup {"none"}]
ScopedRecord ==
    [live : BOOLEAN, held : SUBSET SourceValues, name : EntryNames \cup {"none"}]
Snapshots == {Contents[h] : h \in Heads}
Todo == [line : Lines, name : EntryNames]
PlanCommand == [cmd : {"plan"}, run : RunIds, values : Snapshots]
ApplyCommand == [cmd : {"apply"}, run : RunIds, values : Snapshots, todo : SUBSET Todo]
MarkCommand ==
    [cmd : {"mark"}, run : RunIds, values : Snapshots, todo : SUBSET Todo,
     secret : ScopedIds, line : Lines]
VerifyCommand == [cmd : {"verify"}, run : RunIds]
ShredCommand == [cmd : {"shred"}, live : SUBSET RunIds, seen : SUBSET Heads]
MigrationCommand ==
    {AtPrompt} \cup PlanCommand \cup ApplyCommand \cup MarkCommand \cup VerifyCommand
        \cup ShredCommand

MigrationTypes ==
    /\ runs \in [RunIds -> {NoRun} \cup RunRecord]
    /\ ledger \in [RunIds -> [Lines -> {NoLine} \cup LineRecord]]
    /\ scoped \in [ScopedIds -> ScopedRecord]
    /\ vault \in [head : Heads, shredded : BOOLEAN]
    /\ commands \in [Operators -> MigrationCommand]
    /\ migrationSteps \in 0..MaxMigrationSteps

\* A run's book: no two of its claims have one name.
ClaimsApart(book) ==
    \A l, k \in Lines : l # k /\ book[l].state \in Claims /\ book[k].state \in Claims
                          => book[l].name # book[k].name
Settled(book) ==
    \A l \in Lines : book[l].state \in {"none", "VERIFIED", "LEGACY_PATH_DISABLED"}
BooksInv ==
    \A r \in RunIds :
        /\ ClaimsApart(ledger[r])
        /\ runs[r].state = "complete" => Settled(ledger[r])

\* A run's entries hold the values of the snapshot it was planned from.
SourcesInv ==
    \A r \in RunIds, l \in Lines : ledger[r][l] # NoLine =>
        runs[r] # NoRun /\ ledger[r][l].source = Contents[runs[r].from][l]
\* A plan in progress is the only one of its run, which has no entries yet.
PlansInv ==
    \A o \in Operators : At(o, "plan") =>
        LET r == commands[o].run IN
        /\ runs[r] # NoRun /\ commands[o].values = Contents[runs[r].from]
        /\ \A l \in Lines : ledger[r][l] = NoLine
        /\ \A p \in Operators : At(p, "plan") /\ commands[p].run = r => p = o
\* What is marked, or about to be, was written to the secret it names.
Imported == {"MIGRATED", "VERIFIED", "LEGACY_PATH_DISABLED"}
WrittenInv ==
    /\ \A o \in Operators : At(o, "mark") =>
           commands[o].values[commands[o].line] \in scoped[commands[o].secret].held
    /\ \A r \in RunIds, l \in Lines : ledger[r][l].state \in Imported =>
           LET e == ledger[r][l] IN
           /\ e.secret \in ScopedIds /\ e.target \in scoped[e.secret].held
           /\ e.state # "MIGRATED" => e.target = e.source

\* A shred goes through runs that exist.
ListedInv ==
    \A o \in Operators : At(o, "shred") => \A r \in commands[o].live : runs[r] # NoRun

MigrationIInv ==
    /\ MigrationTypes /\ BooksInv /\ SourcesInv /\ PlansInv /\ WrittenInv
    /\ ListedInv

-----------------------------------------------------------------------------
(* Induction over an interval, by the least counterexample *)

LEMMA Upwards ==
    ASSUME NEW N \in Nat, NEW S, 0 \in S, \A n \in 0..N : n < N /\ n \in S => n + 1 \in S
    PROVE  \A n \in 0..N : n \in S
<1>. DEFINE R == OpToRel(<, Nat)
            bad == {n \in 0..N : n \notin S}
<1>1. IsWellFoundedOn(R, Nat) BY NatLessThanWellFounded
<1>2. \A m, n \in Nat : m < n => <<m, n>> \in R BY Zenon DEF OpToRel
<1>. HIDE DEF R
<1>3. SUFFICES ASSUME bad # {} PROVE FALSE OBVIOUS
<1>4. bad \in SUBSET Nat OBVIOUS
<1>5. PICK n \in bad : \A m \in bad : ~(<<m, n>> \in R) BY <1>1, <1>3, <1>4, WFMin
<1>6. n # 0 /\ n \in 0..N BY <1>5
<1>7. n - 1 \in 0..N /\ n - 1 < n /\ n - 1 < N /\ (n - 1) + 1 = n BY <1>6
<1>8. n - 1 \in Nat /\ n \in Nat BY <1>6, <1>7
<1>9. <<n - 1, n>> \in R BY <1>2, <1>7, <1>8
<1>10. n - 1 \notin bad BY <1>5, <1>9
<1>11. n - 1 \in S BY <1>7, <1>10
<1>. QED BY <1>5, <1>7, <1>11

-----------------------------------------------------------------------------
(* The entries of a plan are submitted one after the other *)

LEMMA SubmittedUnfolds ==
    ASSUME NEW r \in RunIds, NEW values
    PROVE  \E f : /\ DOMAIN f = 0..NumLines
                  /\ f[0] = ledger[r]
                  /\ \A n \in 0..NumLines : n # 0 => f[n] = Upserted(f[n - 1], n, values[n])
                  /\ Submitted(r, values) = f[NumLines]
<1>. DEFINE upTo[n \in 0..NumLines] ==
            IF n = 0 THEN ledger[r] ELSE Upserted(upTo[n - 1], n, values[n])
<1>1. NumLines \in Nat BY MigrationAssumption
<1>2. Submitted(r, values) = upTo[NumLines] BY DEF Submitted
<1>3. \E f : f = [n \in 0..NumLines |-> IF n = 0 THEN ledger[r] ELSE Upserted(f[n - 1], n, values[n])]
  <2>. DEFINE Upto(k, f) == f = [n \in 0..k |-> IF n = 0 THEN ledger[r] ELSE Upserted(f[n - 1], n, values[n])]
              S == {k \in 0..NumLines : \E f : Upto(k, f)}
  <2>1. 0 \in S
    <3>. DEFINE f == [n \in 0..0 |-> ledger[r]]
    <3>1. Upto(0, f) OBVIOUS
    <3>2. \E h : Upto(0, h)
      <4>. HIDE DEF Upto, f
      <4>. QED BY <3>1
    <3>3. 0 \in 0..NumLines BY <1>1
    <3>. QED BY <3>2, <3>3
  <2>2. ASSUME NEW k \in 0..NumLines, k < NumLines, k \in S PROVE k + 1 \in S
    <3>1. PICK f : Upto(k, f) BY <2>2
    <3>. DEFINE g == [n \in 0..(k + 1) |-> IF n = k + 1 THEN Upserted(f[k], n, values[n]) ELSE f[n]]
    <3>2. ASSUME NEW n \in 0..(k + 1)
          PROVE  g[n] = IF n = 0 THEN ledger[r] ELSE Upserted(g[n - 1], n, values[n])
      <4>1. CASE n = 0 BY <1>1, <3>1, <4>1
      <4>2. CASE n = k + 1
        <5>1. n # 0 /\ n - 1 = k /\ g[k] = f[k] BY <1>1, <4>2
        <5>. QED BY <4>2, <5>1
      <4>3. CASE n # 0 /\ n # k + 1
        <5>1. n \in 0..k /\ n - 1 \in 0..(k + 1) /\ n - 1 # k + 1 BY <1>1, <4>3
        <5>2. g[n] = f[n] /\ g[n - 1] = f[n - 1] BY <4>3, <5>1
        <5>3. f[n] = Upserted(f[n - 1], n, values[n]) BY <3>1, <4>3, <5>1
        <5>. QED BY <4>3, <5>2, <5>3
      <4>. QED BY <4>1, <4>2, <4>3
    <3>3. Upto(k + 1, g)
      <4>. HIDE DEF g
      <4>1. g = [n \in 0..(k + 1) |-> g[n]] BY DEF g
      <4>. QED BY <3>2, <4>1
    <3>4. k + 1 \in 0..NumLines BY <1>1, <2>2
    <3>. QED BY <3>3, <3>4
  <2>. HIDE DEF S
  <2>3. NumLines \in S
    <3>1. \A k \in 0..NumLines : k \in S BY <1>1, <2>1, <2>2, Upwards
    <3>. QED BY <1>1, <3>1
  <2>. QED BY <2>3 DEF S
<1>4. upTo = [n \in 0..NumLines |-> IF n = 0 THEN ledger[r] ELSE Upserted(upTo[n - 1], n, values[n])]
  BY <1>3
<1>. HIDE DEF upTo
<1>5. \A n \in 0..NumLines : upTo[n] = IF n = 0 THEN ledger[r] ELSE Upserted(upTo[n - 1], n, values[n])
  BY <1>4
<1>6. DOMAIN upTo = 0..NumLines BY <1>4
<1>. QED BY <1>1, <1>2, <1>5, <1>6

\* An entry as a plan submits it.
Submission(value) ==
    {e \in LineRecord : e.state \in {"VALIDATED", "QUARANTINED"} /\ e.source = value}

LEMMA UpsertedOK ==
    ASSUME NEW book \in [Lines -> {NoLine} \cup LineRecord], ClaimsApart(book),
           NEW l \in Lines, NEW value \in SourceValues
    PROVE  /\ Upserted(book, l, value) \in [Lines -> {NoLine} \cup LineRecord]
           /\ ClaimsApart(Upserted(book, l, value))
           /\ Upserted(book, l, value)[l] \in Submission(value)
           /\ \A k \in Lines : k # l => Upserted(book, l, value)[k] = book[k]
<1>. DEFINE v == Validated(book, l, SourceNames[l])
            e == [state |-> v, name |-> SourceNames[l], source |-> value, target |-> "none",
                  secret |-> "none"]
            new == [book EXCEPT ![l] = e]
<1>1. v \in {"VALIDATED", "QUARANTINED"} BY DEF Validated
<1>2. v = "VALIDATED" =>
        \A k \in Lines \ {l} : ~(book[k].state \in Claims /\ book[k].name = SourceNames[l])
  BY DEF Validated
<1>. HIDE DEF v
<1>3. e \in Submission(value)
  BY <1>1 DEF Submission, LineRecord, EntryNames, EntryStates
<1>4. e.state = v /\ e.name = SourceNames[l] OBVIOUS
<1>. HIDE DEF e
<1>5. new \in [Lines -> {NoLine} \cup LineRecord] BY <1>3 DEF Submission
<1>6. new[l] = e /\ \A k \in Lines : k # l => new[k] = book[k] OBVIOUS
<1>7. ClaimsApart(new)
  <2>. SUFFICES ASSUME NEW j \in Lines, NEW k \in Lines, j # k, new[j].state \in Claims,
                       new[k].state \in Claims
                PROVE  new[j].name # new[k].name
    BY DEF ClaimsApart
  <2>1. CASE j # l /\ k # l BY <1>6, <2>1 DEF ClaimsApart
  <2>2. CASE j = l BY <1>1, <1>2, <1>4, <1>6, <2>2 DEF Claims
  <2>3. CASE k = l BY <1>1, <1>2, <1>4, <1>6, <2>3 DEF Claims
  <2>. QED BY <2>1, <2>2, <2>3
<1>8. Upserted(book, l, value) = new BY DEF Upserted, e, v
<1>. QED BY <1>3, <1>5, <1>6, <1>7, <1>8

LEMMA SubmittedOK ==
    ASSUME MigrationTypes, NEW r \in RunIds, ClaimsApart(ledger[r]), NEW values,
           \A l \in Lines : values[l] \in SourceValues
    PROVE  /\ Submitted(r, values) \in [Lines -> LineRecord]
           /\ ClaimsApart(Submitted(r, values))
           /\ \A l \in Lines : Submitted(r, values)[l] \in Submission(values[l])
<1>1. NumLines \in Nat BY MigrationAssumption
<1>2. PICK f : /\ DOMAIN f = 0..NumLines
               /\ f[0] = ledger[r]
               /\ \A n \in 0..NumLines : n # 0 => f[n] = Upserted(f[n - 1], n, values[n])
               /\ Submitted(r, values) = f[NumLines]
  BY SubmittedUnfolds
<1>. DEFINE P(n) == /\ f[n] \in [Lines -> {NoLine} \cup LineRecord]
                    /\ ClaimsApart(f[n])
                    /\ \A l \in Lines : l <= n => f[n][l] \in Submission(values[l])
            S == {n \in 0..NumLines : P(n)}
<1>3. 0 \in S
  <2>1. \A l \in Lines : ~(l <= 0) BY <1>1 DEF Lines
  <2>2. P(0) BY <1>2, <2>1 DEF MigrationTypes
  <2>. QED BY <1>1, <2>2
<1>4. ASSUME NEW n \in 0..NumLines, n < NumLines, n \in S PROVE n + 1 \in S
  <2>1. n + 1 \in 0..NumLines /\ n + 1 \in Lines /\ n + 1 # 0 /\ (n + 1) - 1 = n
    BY <1>1, <1>4 DEF Lines
  <2>2. f[n + 1] = Upserted(f[n], n + 1, values[n + 1]) BY <1>2, <2>1
  <2>3. P(n) BY <1>4
  <2>4. values[n + 1] \in SourceValues BY <2>1
  <2>5. /\ f[n + 1] \in [Lines -> {NoLine} \cup LineRecord]
        /\ ClaimsApart(f[n + 1])
        /\ f[n + 1][n + 1] \in Submission(values[n + 1])
        /\ \A k \in Lines : k # n + 1 => f[n + 1][k] = f[n][k]
    BY <2>1, <2>2, <2>3, <2>4, UpsertedOK
  <2>6. ASSUME NEW l \in Lines, l <= n + 1 PROVE f[n + 1][l] \in Submission(values[l])
    <3>1. CASE l = n + 1 BY <2>5, <3>1
    <3>2. CASE l # n + 1
      <4>1. l <= n BY <1>1, <2>6, <3>2 DEF Lines
      <4>. QED BY <2>3, <2>5, <3>2, <4>1
    <3>. QED BY <3>1, <3>2
  <2>. QED BY <2>1, <2>5, <2>6
<1>. HIDE DEF S
<1>5. NumLines \in S
  <2>1. \A n \in 0..NumLines : n \in S BY <1>1, <1>3, <1>4, Upwards
  <2>. QED BY <1>1, <2>1
<1>6. P(NumLines) BY <1>5 DEF S
<1>7. \A l \in Lines : l <= NumLines BY <1>1 DEF Lines
<1>8. \A l \in Lines : f[NumLines][l] \in Submission(values[l]) BY <1>6, <1>7
<1>9. f[NumLines] \in [Lines -> LineRecord] BY <1>6, <1>8 DEF Submission
<1>. QED BY <1>2, <1>6, <1>8, <1>9

-----------------------------------------------------------------------------
(* Migration: what every step preserves *)

LEMMA CommandShape ==
    ASSUME MigrationTypes, NEW o \in Operators
    PROVE  /\ commands[o] \in MigrationCommand
           /\ At(o, "plan") => commands[o] \in PlanCommand
           /\ At(o, "apply") => commands[o] \in ApplyCommand
           /\ At(o, "mark") => commands[o] \in MarkCommand
           /\ At(o, "verify") => commands[o] \in VerifyCommand
           /\ At(o, "shred") => commands[o] \in ShredCommand
<1>1. commands[o] \in MigrationCommand BY DEF MigrationTypes
<1>. QED
  BY <1>1 DEF At, MigrationCommand, AtPrompt, PlanCommand, ApplyCommand, MarkCommand,
              VerifyCommand, ShredCommand

LEMMA LineShape ==
    ASSUME MigrationTypes, NEW r \in RunIds, NEW l \in Lines
    PROVE  /\ ledger[r][l] = NoLine \/ ledger[r][l] \in LineRecord
           /\ ledger[r][l] # NoLine <=> ledger[r][l].state \in EntryStates
           /\ ledger[r][l].state \in EntryStates \cup {"none"}
<1>1. ledger[r][l] \in {NoLine} \cup LineRecord BY DEF MigrationTypes
<1>. QED BY <1>1 DEF NoLine, LineRecord, EntryStates

LEMMA RunShape ==
    ASSUME MigrationTypes, NEW r \in RunIds
    PROVE  /\ runs[r] = NoRun \/ runs[r] \in RunRecord
           /\ runs[r] # NoRun <=> runs[r].state # "none"
<1>1. runs[r] \in {NoRun} \cup RunRecord BY DEF MigrationTypes
<1>. QED BY <1>1 DEF NoRun, RunRecord

\* A command goes on, or ends, and the database stays as it is.
LEMMA CommandStep ==
    ASSUME MigrationIInv, migrationSteps' \in 0..MaxMigrationSteps,
           UNCHANGED <<runs, ledger, scoped>>, vault' \in [head : Heads, shredded : BOOLEAN],
           commands' \in [Operators -> MigrationCommand],
           \A o \in Operators :
               \/ commands'[o] = commands[o] \/ commands'[o].cmd \notin {"plan", "mark", "shred"}
               \/ commands'[o].cmd = "shred" /\ \A x \in commands'[o].live : runs[x] # NoRun
    PROVE  MigrationIInv'
<1>1. MigrationTypes' BY DEF MigrationIInv, MigrationTypes
<1>2. BooksInv' BY DEF MigrationIInv, BooksInv
<1>3. SourcesInv' BY DEF MigrationIInv, SourcesInv
<1>4. PlansInv' BY DEF MigrationIInv, PlansInv, At
<1>5. WrittenInv' BY DEF MigrationIInv, WrittenInv, At
<1>6. ListedInv' BY DEF MigrationIInv, ListedInv, At
<1>. QED BY <1>1, <1>2, <1>3, <1>4, <1>5, <1>6 DEF MigrationIInv

\* A request changes one run's entries and nothing of what they were planned from.
LEMMA BookStep ==
    ASSUME MigrationIInv, migrationSteps' \in 0..MaxMigrationSteps, UNCHANGED vault,
           NEW r \in RunIds, NEW book \in [Lines -> {NoLine} \cup LineRecord],
           ledger' = [ledger EXCEPT ![r] = book], ClaimsApart(book),
           \A l \in Lines :
               /\ book[l] = NoLine <=> ledger[r][l] = NoLine
               /\ book[l] # NoLine => book[l].source = ledger[r][l].source,
           runs[r] # NoRun, NEW q \in RunRecord, runs' = [runs EXCEPT ![r] = q],
           q.from = runs[r].from, q.state = "complete" => Settled(book),
           scoped' \in [ScopedIds -> ScopedRecord],
           \A s \in ScopedIds : scoped'[s].held = scoped[s].held,
           \A l \in Lines : book[l].state \in Imported =>
               /\ book[l].secret \in ScopedIds /\ book[l].target \in scoped[book[l].secret].held
               /\ book[l].state # "MIGRATED" => book[l].target = book[l].source,
           commands' \in [Operators -> MigrationCommand],
           \A o \in Operators :
               \/ commands'[o] = commands[o] \/ commands'[o].cmd \notin {"plan", "mark", "shred"}
               \/ commands'[o].cmd = "shred" /\ \A x \in commands'[o].live : runs[x] # NoRun
    PROVE  MigrationIInv'
<1>0. MigrationTypes BY DEF MigrationIInv
<1>1. ledger'[r] = book /\ \A x \in RunIds : x # r => ledger'[x] = ledger[x]
  BY <1>0 DEF MigrationTypes
<1>2. runs'[r] = q /\ \A x \in RunIds : x # r => runs'[x] = runs[x] BY <1>0 DEF MigrationTypes
<1>3. q # NoRun BY DEF RunRecord, NoRun
<1>4. MigrationTypes'
  <2>1. runs' \in [RunIds -> {NoRun} \cup RunRecord] BY <1>0 DEF MigrationTypes
  <2>2. ledger' \in [RunIds -> [Lines -> {NoLine} \cup LineRecord]] BY <1>0 DEF MigrationTypes
  <2>. QED BY <1>0, <2>1, <2>2 DEF MigrationTypes
<1>5. BooksInv'
  <2>1. ASSUME NEW x \in RunIds
        PROVE  ClaimsApart(ledger'[x]) /\ (runs'[x].state = "complete" => Settled(ledger'[x]))
    BY <1>1, <1>2 DEF MigrationIInv, BooksInv
  <2>. QED BY <2>1 DEF BooksInv, ClaimsApart, Settled
<1>6. SourcesInv'
  <2>1. ASSUME NEW x \in RunIds, NEW l \in Lines, ledger'[x][l] # NoLine
        PROVE  runs'[x] # NoRun /\ ledger'[x][l].source = Contents[runs'[x].from][l]
    <3>1. CASE x = r
      <4>1. book[l] # NoLine BY <1>1, <2>1, <3>1
      <4>2. ledger[r][l] # NoLine /\ book[l].source = ledger[r][l].source BY <4>1
      <4>3. ledger[r][l].source = Contents[runs[r].from][l] BY <4>2 DEF MigrationIInv, SourcesInv
      <4>4. book[l].source = Contents[q.from][l] BY <4>2, <4>3
      <4>. QED BY <1>1, <1>2, <1>3, <3>1, <4>4
    <3>2. CASE x # r BY <1>1, <1>2, <2>1, <3>2 DEF MigrationIInv, SourcesInv
    <3>. QED BY <3>1, <3>2
  <2>. QED BY <2>1 DEF SourcesInv
<1>7. PlansInv'
  <2>. SUFFICES ASSUME NEW o \in Operators, commands'[o].cmd = "plan"
                PROVE  /\ runs'[commands'[o].run] # NoRun
                       /\ commands'[o].values = Contents[runs'[commands'[o].run].from]
                       /\ \A l \in Lines : ledger'[commands'[o].run][l] = NoLine
                       /\ \A p \in Operators : commands'[p].cmd = "plan" /\ commands'[p].run = commands'[o].run
                                                => p = o
    BY DEF PlansInv, At
  <2>1. commands'[o] = commands[o] OBVIOUS
  <2>2. commands[o].run \in RunIds BY <1>0, <2>1, CommandShape DEF At, PlanCommand
  <2>3. /\ runs[commands[o].run] # NoRun
        /\ commands[o].values = Contents[runs[commands[o].run].from]
        /\ \A l \in Lines : ledger[commands[o].run][l] = NoLine
        /\ \A p \in Operators : commands[p].cmd = "plan" /\ commands[p].run = commands[o].run => p = o
    BY <2>1 DEF MigrationIInv, PlansInv, At
  <2>4. \A p \in Operators : commands'[p].cmd = "plan" => commands'[p] = commands[p] OBVIOUS
  <2>5. CASE commands[o].run = r
    <3>1. commands[o].values = Contents[q.from] BY <2>3, <2>5
    <3>2. \A l \in Lines : book[l] = NoLine BY <2>3, <2>5
    <3>. QED BY <1>1, <1>2, <1>3, <2>1, <2>3, <2>4, <2>5, <3>1, <3>2
  <2>6. CASE commands[o].run # r BY <1>1, <1>2, <2>1, <2>2, <2>3, <2>4, <2>6
  <2>. QED BY <2>5, <2>6
<1>8. WrittenInv'
  <2>1. ASSUME NEW o \in Operators, commands'[o].cmd = "mark"
        PROVE  commands'[o].values[commands'[o].line] \in scoped'[commands'[o].secret].held
    <3>1. commands'[o] = commands[o] BY <2>1
    <3>2. commands[o].secret \in ScopedIds BY <1>0, <2>1, <3>1, CommandShape DEF At, MarkCommand
    <3>. QED BY <2>1, <3>1, <3>2 DEF MigrationIInv, WrittenInv, At
  <2>2. ASSUME NEW x \in RunIds, NEW l \in Lines, ledger'[x][l].state \in Imported
        PROVE  /\ ledger'[x][l].secret \in ScopedIds
               /\ ledger'[x][l].target \in scoped'[ledger'[x][l].secret].held
               /\ ledger'[x][l].state # "MIGRATED" => ledger'[x][l].target = ledger'[x][l].source
    <3>1. CASE x = r BY <1>1, <2>2, <3>1
    <3>2. CASE x # r
      <4>1. ledger'[x][l] = ledger[x][l] BY <1>1, <3>2
      <4>. QED BY <2>2, <4>1 DEF MigrationIInv, WrittenInv
    <3>. QED BY <3>1, <3>2
  <2>. QED BY <2>1, <2>2 DEF WrittenInv, At
<1>9. ListedInv'
  <2>1. ASSUME NEW o \in Operators, commands'[o].cmd = "shred", NEW x \in commands'[o].live
        PROVE  runs'[x] # NoRun
    <3>1. runs[x] # NoRun /\ x \in RunIds
      <4>1. commands'[o] \in ShredCommand BY <1>4, <2>1 DEF MigrationTypes, MigrationCommand, AtPrompt,
              PlanCommand, ApplyCommand, MarkCommand, VerifyCommand, ShredCommand
      <4>. QED BY <2>1, <4>1 DEF MigrationIInv, ListedInv, At, ShredCommand
    <3>. QED BY <1>2, <1>3, <3>1
  <2>. QED BY <2>1 DEF ListedInv, At
<1>. QED BY <1>4, <1>5, <1>6, <1>7, <1>8, <1>9 DEF MigrationIInv

LEMMA CmdPlanOK ==
    ASSUME MigrationIInv, migrationSteps' \in 0..MaxMigrationSteps, NEW o \in Operators,
           NEW r \in RunIds, CmdPlan(o, r)
    PROVE  MigrationIInv'
<1>0. MigrationTypes BY DEF MigrationIInv
<1>. DEFINE q == [state |-> "planning", from |-> vault.head]
            c == [cmd |-> "plan", run |-> r, values |-> Contents[vault.head]]
<1>1. /\ commands[o].cmd = "none" /\ runs[r] = NoRun /\ runs' = [runs EXCEPT ![r] = q]
      /\ commands' = [commands EXCEPT ![o] = c]
      /\ ledger' = ledger /\ scoped' = scoped /\ vault' = vault
  BY DEF CmdPlan, At, StartRun, Becomes
<1>2. vault.head \in Heads BY <1>0 DEF MigrationTypes
<1>3. q \in RunRecord /\ q # NoRun /\ q.state = "planning" /\ q.from = vault.head
  BY <1>2 DEF RunRecord, NoRun
<1>4. c \in MigrationCommand /\ c.cmd = "plan" /\ c.run = r /\ c.values = Contents[vault.head]
  BY <1>2 DEF MigrationCommand, PlanCommand, Snapshots
<1>. HIDE DEF q, c
<1>5. runs'[r] = q /\ \A x \in RunIds : x # r => runs'[x] = runs[x] BY <1>0, <1>1 DEF MigrationTypes
<1>6. commands'[o] = c /\ \A p \in Operators : p # o => commands'[p] = commands[p]
  BY <1>0, <1>1 DEF MigrationTypes
<1>7. \A l \in Lines : ledger[r][l] = NoLine BY <1>1 DEF MigrationIInv, SourcesInv
<1>8. MigrationTypes' BY <1>0, <1>1, <1>3, <1>4 DEF MigrationTypes
<1>9. BooksInv'
  <2>1. \A x \in RunIds : runs'[x].state = "complete" => runs'[x] = runs[x] BY <1>3, <1>5
  <2>. QED BY <1>1, <2>1 DEF MigrationIInv, BooksInv
<1>10. SourcesInv'
  <2>1. \A x \in RunIds, l \in Lines : ledger[x][l] # NoLine => x # r BY <1>7
  <2>. QED BY <1>1, <1>5, <2>1 DEF MigrationIInv, SourcesInv
<1>11. PlansInv'
  <2>. SUFFICES ASSUME NEW p \in Operators, commands'[p].cmd = "plan"
                PROVE  /\ runs'[commands'[p].run] # NoRun
                       /\ commands'[p].values = Contents[runs'[commands'[p].run].from]
                       /\ \A l \in Lines : ledger'[commands'[p].run][l] = NoLine
                       /\ \A u \in Operators : commands'[u].cmd = "plan" /\ commands'[u].run = commands'[p].run
                                                => u = p
    BY DEF PlansInv, At
  <2>1. ASSUME NEW u \in Operators, u # o, commands'[u].cmd = "plan"
        PROVE  /\ commands'[u] = commands[u] /\ commands[u].run \in RunIds /\ commands[u].run # r
               /\ runs[commands[u].run] # NoRun
    <3>1. commands'[u] = commands[u] BY <1>6, <2>1
    <3>2. At(u, "plan") BY <2>1, <3>1 DEF At
    <3>3. commands[u].run \in RunIds BY <1>0, <3>2, CommandShape DEF PlanCommand
    <3>. QED BY <1>1, <3>1, <3>2, <3>3 DEF MigrationIInv, PlansInv
  <2>2. CASE p = o BY <1>1, <1>3, <1>4, <1>5, <1>6, <1>7, <2>1, <2>2
  <2>3. CASE p # o
    <3>1. At(p, "plan") /\ commands'[p] = commands[p] BY <2>1, <2>3 DEF At
    <3>2. /\ commands[p].values = Contents[runs[commands[p].run].from]
          /\ \A l \in Lines : ledger[commands[p].run][l] = NoLine
          /\ \A u \in Operators : commands[u].cmd = "plan" /\ commands[u].run = commands[p].run => u = p
      BY <3>1 DEF MigrationIInv, PlansInv, At
    <3>. QED BY <1>1, <1>4, <1>5, <1>6, <2>1, <2>3, <3>1, <3>2
  <2>. QED BY <2>2, <2>3
<1>12. WrittenInv' BY <1>1, <1>4, <1>6 DEF MigrationIInv, WrittenInv, At
<1>13. ListedInv'
  <2>1. \A x \in RunIds : runs[x] # NoRun => runs'[x] # NoRun BY <1>3, <1>5
  <2>2. ASSUME NEW p \in Operators, commands'[p].cmd = "shred", NEW x \in commands'[p].live
        PROVE  runs'[x] # NoRun
    <3>1. At(p, "shred") /\ commands'[p] = commands[p] BY <1>4, <1>6, <2>2 DEF At
    <3>2. x \in RunIds BY <1>0, <2>2, <3>1, CommandShape DEF ShredCommand
    <3>. QED BY <2>1, <2>2, <3>1, <3>2 DEF MigrationIInv, ListedInv
  <2>. QED BY <2>2 DEF ListedInv, At
<1>. QED BY <1>8, <1>9, <1>10, <1>11, <1>12, <1>13 DEF MigrationIInv

LEMMA CmdPlanSubmitsOK ==
    ASSUME MigrationIInv, migrationSteps' \in 0..MaxMigrationSteps, NEW o \in Operators,
           CmdPlanSubmits(o)
    PROVE  /\ MigrationIInv'
           /\ \A l \in Lines : ledger'[commands[o].run][l] # NoLine
<1>0. MigrationTypes BY DEF MigrationIInv
<1>. DEFINE r == commands[o].run
            values == commands[o].values
            book == Submitted(r, values)
<1>1. /\ At(o, "plan") /\ RunOpen(r) /\ ledger' = [ledger EXCEPT ![r] = book]
      /\ commands' = [commands EXCEPT ![o] = AtPrompt]
      /\ runs' = runs /\ scoped' = scoped /\ vault' = vault
  BY DEF CmdPlanSubmits, SubmitEntries, Becomes
<1>2. r \in RunIds /\ values \in Snapshots BY <1>0, <1>1, CommandShape DEF PlanCommand
<1>3. /\ runs[r] # NoRun /\ values = Contents[runs[r].from]
      /\ \A p \in Operators : At(p, "plan") /\ commands[p].run = r => p = o
  BY <1>1 DEF MigrationIInv, PlansInv
<1>4. \A l \in Lines : values[l] \in SourceValues BY <1>2 DEF Snapshots, SourceValues
<1>5. ClaimsApart(ledger[r]) BY <1>2 DEF MigrationIInv, BooksInv
<1>6. /\ book \in [Lines -> LineRecord] /\ ClaimsApart(book)
      /\ \A l \in Lines : book[l] \in Submission(values[l])
  BY <1>0, <1>2, <1>4, <1>5, SubmittedOK
<1>7. runs[r].state # "complete" BY <1>1 DEF RunOpen
<1>. HIDE DEF r, values, book
<1>8. ledger'[r] = book /\ \A x \in RunIds : x # r => ledger'[x] = ledger[x]
  BY <1>0, <1>1, <1>2 DEF MigrationTypes
<1>9. commands'[o] = AtPrompt /\ \A p \in Operators : p # o => commands'[p] = commands[p]
  BY <1>0, <1>1 DEF MigrationTypes
<1>10. AtPrompt \in MigrationCommand /\ AtPrompt.cmd = "none" BY DEF MigrationCommand, AtPrompt
<1>. HIDE DEF AtPrompt
<1>11. \A l \in Lines : /\ book[l] # NoLine /\ book[l].source = values[l]
                        /\ book[l].state \notin Imported
  BY <1>6 DEF Submission, LineRecord, NoLine, Imported
<1>12. MigrationTypes'
  <2>1. ledger' \in [RunIds -> [Lines -> {NoLine} \cup LineRecord]]
    BY <1>0, <1>1, <1>6 DEF MigrationTypes
  <2>2. commands' \in [Operators -> MigrationCommand] BY <1>0, <1>1, <1>10 DEF MigrationTypes
  <2>. QED BY <1>0, <1>1, <2>1, <2>2 DEF MigrationTypes
<1>13. BooksInv'
  <2>1. \A x \in RunIds : runs'[x].state = "complete" => x # r BY <1>1, <1>7
  <2>2. ASSUME NEW x \in RunIds
        PROVE  ClaimsApart(ledger'[x]) /\ (runs'[x].state = "complete" => Settled(ledger'[x]))
    BY <1>1, <1>6, <1>8, <2>1 DEF MigrationIInv, BooksInv
  <2>. QED BY <2>2 DEF BooksInv, ClaimsApart, Settled
<1>14. SourcesInv'
  <2>1. ASSUME NEW x \in RunIds, NEW l \in Lines, ledger'[x][l] # NoLine
        PROVE  runs'[x] # NoRun /\ ledger'[x][l].source = Contents[runs'[x].from][l]
    <3>1. CASE x = r BY <1>1, <1>3, <1>8, <1>11, <3>1
    <3>2. CASE x # r BY <1>1, <1>8, <2>1, <3>2 DEF MigrationIInv, SourcesInv
    <3>. QED BY <3>1, <3>2
  <2>. QED BY <2>1 DEF SourcesInv
<1>15. PlansInv'
  <2>1. ASSUME NEW p \in Operators, commands'[p].cmd = "plan"
        PROVE  /\ p # o /\ commands'[p] = commands[p] /\ At(p, "plan")
               /\ commands[p].run # r /\ commands[p].run \in RunIds
    <3>1. p # o /\ commands'[p] = commands[p] BY <1>9, <1>10, <2>1
    <3>2. At(p, "plan") BY <2>1, <3>1 DEF At
    <3>. QED BY <1>0, <1>3, <3>1, <3>2, CommandShape DEF PlanCommand
  <2>. SUFFICES ASSUME NEW p \in Operators, commands'[p].cmd = "plan"
                PROVE  /\ runs'[commands'[p].run] # NoRun
                       /\ commands'[p].values = Contents[runs'[commands'[p].run].from]
                       /\ \A l \in Lines : ledger'[commands'[p].run][l] = NoLine
                       /\ \A u \in Operators : commands'[u].cmd = "plan" /\ commands'[u].run = commands'[p].run
                                                => u = p
    BY DEF PlansInv, At
  <2>2. /\ runs[commands[p].run] # NoRun
        /\ commands[p].values = Contents[runs[commands[p].run].from]
        /\ \A l \in Lines : ledger[commands[p].run][l] = NoLine
        /\ \A u \in Operators : commands[u].cmd = "plan" /\ commands[u].run = commands[p].run => u = p
    BY <2>1 DEF MigrationIInv, PlansInv, At
  <2>. QED BY <1>1, <1>8, <2>1, <2>2
<1>16. WrittenInv'
  <2>1. ASSUME NEW x \in RunIds, NEW l \in Lines, ledger'[x][l].state \in Imported
        PROVE  ledger'[x][l] = ledger[x][l]
    BY <1>8, <1>11, <2>1
  <2>2. \A p \in Operators : commands'[p].cmd = "mark" => commands'[p] = commands[p]
    BY <1>9, <1>10
  <2>. QED BY <1>1, <2>1, <2>2 DEF MigrationIInv, WrittenInv, At
<1>17. ListedInv' BY <1>1, <1>9, <1>10 DEF MigrationIInv, ListedInv, At
<1>. QED BY <1>8, <1>11, <1>12, <1>13, <1>14, <1>15, <1>16, <1>17 DEF MigrationIInv, r

LEMMA CmdApplyOK ==
    ASSUME MigrationIInv, migrationSteps' \in 0..MaxMigrationSteps, NEW o \in Operators,
           NEW r \in RunIds, CmdApply(o, r)
    PROVE  MigrationIInv'
<1>0. MigrationTypes BY DEF MigrationIInv
<1>. DEFINE todo == {[line |-> l, name |-> ledger[r][l].name] : l \in In(r, {"VALIDATED"})}
            c == [cmd |-> "apply", run |-> r, values |-> Contents[vault.head], todo |-> todo]
<1>1. commands' = [commands EXCEPT ![o] = c] /\ UNCHANGED <<runs, ledger, scoped, vault>>
  BY DEF CmdApply, Becomes
<1>2. todo \in SUBSET Todo
  <2>1. \A l \in In(r, {"VALIDATED"}) : l \in Lines /\ ledger[r][l].name \in EntryNames
    BY <1>0, LineShape DEF In, NoLine, LineRecord
  <2>. QED BY <2>1 DEF Todo
<1>. HIDE DEF todo
<1>3. Contents[vault.head] \in Snapshots BY <1>0 DEF MigrationTypes, Snapshots
<1>4. c \in ApplyCommand /\ c.cmd = "apply" BY <1>2, <1>3 DEF ApplyCommand
<1>. HIDE DEF c
<1>5. commands' \in [Operators -> MigrationCommand] BY <1>0, <1>1, <1>4 DEF MigrationTypes, MigrationCommand
<1>6. \A p \in Operators : commands'[p] = commands[p] \/ commands'[p].cmd \notin {"plan", "mark", "shred"}
  BY <1>0, <1>1, <1>4 DEF MigrationTypes
<1>7. vault' \in [head : Heads, shredded : BOOLEAN] BY <1>0, <1>1 DEF MigrationTypes
<1>. QED BY <1>1, <1>5, <1>6, <1>7, CommandStep

LEMMA CmdApplyCreatesOK ==
    ASSUME MigrationIInv, migrationSteps' \in 0..MaxMigrationSteps, NEW o \in Operators,
           NEW t \in commands[o].todo, CmdApplyCreates(o, t)
    PROVE  MigrationIInv'
<1>0. MigrationTypes BY DEF MigrationIInv
<1>1. At(o, "apply") /\ UNCHANGED <<runs, ledger, vault>> BY DEF CmdApplyCreates
<1>2. /\ commands[o].run \in RunIds /\ commands[o].values \in Snapshots
      /\ commands[o].todo \in SUBSET Todo /\ t.line \in Lines /\ t.name \in EntryNames
  BY <1>0, <1>1, CommandShape DEF ApplyCommand, Todo
<1>. DEFINE value == commands[o].values[t.line]
<1>3. value \in SourceValues BY <1>2 DEF Snapshots, SourceValues
<1>4. ASSUME NEW s \in ScopedIds
      PROVE  /\ Marking(commands[o], t, s) \in MigrationCommand
             /\ Marking(commands[o], t, s).cmd = "mark"
             /\ Marking(commands[o], t, s).values[Marking(commands[o], t, s).line] = value
             /\ Marking(commands[o], t, s).secret = s
  BY <1>2 DEF Marking, MigrationCommand, MarkCommand
<1>. HIDE DEF value
<1>5. AtPrompt \in MigrationCommand /\ AtPrompt.cmd = "none" BY DEF MigrationCommand, AtPrompt
<1>6. ASSUME NEW s \in ScopedIds, Becomes(o, Marking(commands[o], t, s)),
             scoped' \in [ScopedIds -> ScopedRecord],
             \A u \in ScopedIds : scoped[u].held \subseteq scoped'[u].held,
             value \in scoped'[s].held
      PROVE  MigrationIInv'
  <2>. DEFINE c == Marking(commands[o], t, s)
  <2>. HIDE DEF c
  <2>1. c \in MigrationCommand /\ c.cmd = "mark" /\ c.values[c.line] = value /\ c.secret = s
    BY <1>4 DEF c
  <2>2. commands' = [commands EXCEPT ![o] = c] BY <1>6 DEF Becomes, c
  <2>3. commands'[o] = c /\ \A p \in Operators : p # o => commands'[p] = commands[p]
    BY <1>0, <2>2 DEF MigrationTypes
  <2>4. commands' \in [Operators -> MigrationCommand] BY <1>0, <2>1, <2>2 DEF MigrationTypes
  <2>5. MigrationTypes' BY <1>0, <1>1, <1>6, <2>4 DEF MigrationTypes
  <2>6. BooksInv' /\ SourcesInv' BY <1>1 DEF MigrationIInv, BooksInv, SourcesInv
  <2>7. PlansInv'
    <3>1. \A p \in Operators : commands'[p].cmd = "plan" => commands'[p] = commands[p] BY <2>1, <2>3
    <3>. QED BY <1>1, <3>1 DEF MigrationIInv, PlansInv, At
  <2>8. WrittenInv'
    <3>1. ASSUME NEW p \in Operators, commands'[p].cmd = "mark"
          PROVE  commands'[p].values[commands'[p].line] \in scoped'[commands'[p].secret].held
      <4>1. CASE p = o BY <1>6, <2>1, <2>3, <4>1
      <4>2. CASE p # o
        <5>1. commands'[p] = commands[p] /\ At(p, "mark") BY <2>3, <3>1, <4>2 DEF At
        <5>2. commands[p].secret \in ScopedIds BY <1>0, <5>1, CommandShape DEF MarkCommand
        <5>3. commands[p].values[commands[p].line] \in scoped[commands[p].secret].held
          BY <5>1 DEF MigrationIInv, WrittenInv
        <5>. QED BY <1>6, <5>1, <5>2, <5>3
      <4>. QED BY <4>1, <4>2
    <3>2. ASSUME NEW x \in RunIds, NEW l \in Lines, ledger[x][l].state \in Imported
          PROVE  /\ ledger[x][l].secret \in ScopedIds
                 /\ ledger[x][l].target \in scoped'[ledger[x][l].secret].held
                 /\ ledger[x][l].state # "MIGRATED" => ledger[x][l].target = ledger[x][l].source
      BY <1>6, <3>2 DEF MigrationIInv, WrittenInv
    <3>. QED BY <1>1, <3>1, <3>2 DEF WrittenInv, At
  <2>9. ListedInv' BY <1>1, <2>1, <2>3 DEF MigrationIInv, ListedInv, At
  <2>. QED BY <2>5, <2>6, <2>7, <2>8, <2>9 DEF MigrationIInv
<1>7. CASE Occupied(t.name) /\ ~\E s \in ScopedIds : Adoptable(s, t.name, value)
  <2>1. UNCHANGED scoped /\ Becomes(o, AtPrompt) BY <1>7 DEF CmdApplyCreates, value
  <2>. HIDE DEF AtPrompt
  <2>2. commands' \in [Operators -> MigrationCommand] BY <1>0, <1>5, <2>1 DEF MigrationTypes, Becomes
  <2>3. \A p \in Operators : commands'[p] = commands[p] \/ commands'[p].cmd \notin {"plan", "mark", "shred"}
    BY <1>0, <1>5, <2>1 DEF MigrationTypes, Becomes
  <2>4. vault' \in [head : Heads, shredded : BOOLEAN] BY <1>0, <1>1 DEF MigrationTypes
  <2>. QED BY <1>1, <2>1, <2>2, <2>3, <2>4, CommandStep
<1>8. CASE Occupied(t.name) /\ \E s \in ScopedIds : Adoptable(s, t.name, value)
  <2>1. UNCHANGED scoped BY <1>8 DEF CmdApplyCreates
  <2>2. PICK s \in ScopedIds : Adoptable(s, t.name, value) /\ Becomes(o, Marking(commands[o], t, s))
    BY <1>8 DEF CmdApplyCreates, value
  <2>3. value \in scoped[s].held BY <2>2 DEF Adoptable
  <2>. QED BY <1>0, <1>6, <2>1, <2>2, <2>3 DEF MigrationTypes
<1>9. CASE ~Occupied(t.name)
  <2>. DEFINE n(s) == [live |-> TRUE, held |-> {value}, name |-> t.name]
  <2>1. PICK s \in ScopedIds : /\ scoped[s] = Free /\ scoped' = [scoped EXCEPT ![s] = n(s)]
                               /\ Becomes(o, Marking(commands[o], t, s))
    BY <1>9 DEF CmdApplyCreates, value
  <2>2. n(s) \in ScopedRecord /\ n(s).held = {value} BY <1>2, <1>3 DEF ScopedRecord
  <2>3. scoped[s].held = {} BY <2>1 DEF Free
  <2>. HIDE DEF n
  <2>4. scoped' \in [ScopedIds -> ScopedRecord] BY <1>0, <2>1, <2>2 DEF MigrationTypes
  <2>5. scoped'[s] = n(s) /\ \A u \in ScopedIds : u # s => scoped'[u] = scoped[u]
    BY <1>0, <2>1 DEF MigrationTypes
  <2>6. \A u \in ScopedIds : scoped[u].held \subseteq scoped'[u].held BY <2>3, <2>5
  <2>7. value \in scoped'[s].held BY <2>2, <2>5
  <2>. QED BY <1>6, <2>1, <2>4, <2>6, <2>7
<1>. QED BY <1>7, <1>8, <1>9

LEMMA CmdApplyMarksOK ==
    ASSUME MigrationIInv, migrationSteps' \in 0..MaxMigrationSteps, NEW o \in Operators,
           CmdApplyMarks(o)
    PROVE  MigrationIInv'
<1>0. MigrationTypes BY DEF MigrationIInv
<1>. DEFINE c == commands[o]
            r == c.run
            value == c.values[c.line]
            d == [cmd |-> "apply", run |-> c.run, values |-> c.values,
                  todo |-> {t \in c.todo : t.line # c.line}]
<1>1. /\ At(o, "mark") /\ MarkMigrated(r, c.line, c.secret, value)
      /\ commands' = [commands EXCEPT ![o] = d] /\ UNCHANGED <<scoped, vault>>
  BY DEF CmdApplyMarks, Becomes
<1>2. c \in MarkCommand BY <1>0, <1>1, CommandShape
<1>3. r \in RunIds /\ c.line \in Lines /\ c.secret \in ScopedIds /\ c.values \in Snapshots
  BY <1>2 DEF MarkCommand
<1>4. value \in SourceValues BY <1>3 DEF Snapshots, SourceValues
<1>5. value \in scoped[c.secret].held BY <1>1 DEF MigrationIInv, WrittenInv
<1>6. d \in ApplyCommand /\ d.cmd = "apply" BY <1>2 DEF ApplyCommand, MarkCommand
<1>. HIDE DEF d
<1>7. commands' \in [Operators -> MigrationCommand] BY <1>0, <1>1, <1>6 DEF MigrationTypes, MigrationCommand
<1>8. \A p \in Operators : commands'[p] = commands[p] \/ commands'[p].cmd \notin {"plan", "mark", "shred"}
  BY <1>0, <1>1, <1>6 DEF MigrationTypes
<1>9. CASE UNCHANGED <<runs, ledger>>
  <2>1. vault' \in [head : Heads, shredded : BOOLEAN] BY <1>0, <1>1 DEF MigrationTypes
  <2>. QED BY <1>1, <1>7, <1>8, <1>9, <2>1, CommandStep
<1>10. CASE ~UNCHANGED <<runs, ledger>>
  <2>. DEFINE l == c.line
              e == [ledger[r][l] EXCEPT !.state = "MIGRATED", !.secret = c.secret, !.target = value]
              book == [ledger[r] EXCEPT ![l] = e]
              q == [runs[r] EXCEPT !.state = "applying"]
  <2>1. /\ RunOpen(r) /\ ledger[r][l].state = "VALIDATED"
        /\ ledger' = [ledger EXCEPT ![r][l] = e] /\ runs' = [runs EXCEPT ![r].state = "applying"]
    BY <1>1, <1>10 DEF MarkMigrated
  <2>2. runs[r] # NoRun BY <2>1 DEF RunOpen, NoRun
  <2>3. runs[r] \in RunRecord BY <1>0, <1>3, <2>2, RunShape
  <2>4. ledger[r][l] # NoLine /\ ledger[r][l] \in LineRecord
    BY <1>0, <1>3, <2>1, LineShape DEF NoLine
  <2>5. /\ e \in LineRecord /\ e.state = "MIGRATED" /\ e.secret = c.secret /\ e.target = value
        /\ e.source = ledger[r][l].source /\ e.name = ledger[r][l].name
    BY <1>3, <1>4, <2>4 DEF LineRecord, EntryStates
  <2>6. e # NoLine BY <2>5 DEF NoLine
  <2>7. q \in RunRecord /\ q.from = runs[r].from /\ q.state = "applying" BY <2>3 DEF RunRecord
  <2>8. ledger' = [ledger EXCEPT ![r] = book] BY <1>0, <1>3, <2>1 DEF MigrationTypes
  <2>9. runs' = [runs EXCEPT ![r] = q] BY <1>0, <1>3, <2>1 DEF MigrationTypes
  <2>10. ledger[r] \in [Lines -> {NoLine} \cup LineRecord] /\ ClaimsApart(ledger[r])
    BY <1>0, <1>3 DEF MigrationTypes, MigrationIInv, BooksInv
  <2>. HIDE DEF e, q
  <2>11. book \in [Lines -> {NoLine} \cup LineRecord] BY <2>5, <2>10
  <2>12. book[l] = e /\ \A k \in Lines : k # l => book[k] = ledger[r][k] BY <1>3, <2>10
  <2>. HIDE DEF book
  <2>13. ClaimsApart(book)
    <3>1. \A k \in Lines : /\ book[k].state \in Claims => ledger[r][k].state \in Claims
                           /\ book[k].name = ledger[r][k].name
      BY <2>1, <2>5, <2>12 DEF Claims
    <3>. QED BY <2>10, <3>1 DEF ClaimsApart
  <2>14. \A k \in Lines :
            /\ book[k] = NoLine <=> ledger[r][k] = NoLine
            /\ book[k] # NoLine => book[k].source = ledger[r][k].source
    BY <2>4, <2>5, <2>6, <2>12
  <2>15. \A k \in Lines : book[k].state \in Imported =>
            /\ book[k].secret \in ScopedIds /\ book[k].target \in scoped[book[k].secret].held
            /\ book[k].state # "MIGRATED" => book[k].target = book[k].source
    <3>1. ASSUME NEW k \in Lines, book[k].state \in Imported, k # l
          PROVE  /\ book[k].secret \in ScopedIds /\ book[k].target \in scoped[book[k].secret].held
                 /\ book[k].state # "MIGRATED" => book[k].target = book[k].source
      BY <1>3, <2>12, <3>1 DEF MigrationIInv, WrittenInv
    <3>2. book[l].secret \in ScopedIds /\ book[l].target \in scoped[book[l].secret].held
      BY <1>3, <1>5, <2>5, <2>12
    <3>3. book[l].state = "MIGRATED" BY <2>5, <2>12
    <3>. QED BY <3>1, <3>2, <3>3
  <2>16. scoped' \in [ScopedIds -> ScopedRecord] BY <1>0, <1>1 DEF MigrationTypes
  <2>. HIDE DEF c, r, l
  <2>17. q.state # "complete" BY <2>7
  <2>. QED BY <1>1, <1>3, <1>7, <1>8, <2>2, <2>7, <2>8, <2>9, <2>11, <2>13, <2>14, <2>15, <2>16,
              <2>17, BookStep
<1>. QED BY <1>9, <1>10

LEMMA CmdVerifyPostsOK ==
    ASSUME MigrationIInv, migrationSteps' \in 0..MaxMigrationSteps, NEW o \in Operators,
           CmdVerifyPosts(o)
    PROVE  MigrationIInv'
<1>0. MigrationTypes BY DEF MigrationIInv
<1>. DEFINE r == commands[o].run
            book == [l \in Lines |-> IF ledger[r][l].state = "MIGRATED"
                                     THEN Judged(ledger[r][l]) ELSE ledger[r][l]]
            q == [runs[r] EXCEPT !.state = MaybeComplete(r, book, "verifying")]
<1>1. /\ At(o, "verify") /\ runs[r].state \in {"applying", "verifying"}
      /\ ledger' = [ledger EXCEPT ![r] = book]
      /\ runs' = [runs EXCEPT ![r].state = MaybeComplete(r, book, "verifying")]
      /\ commands' = [commands EXCEPT ![o] = AtPrompt] /\ scoped' = scoped /\ vault' = vault
  BY DEF CmdVerifyPosts, VerifyRun, Becomes
<1>2. r \in RunIds BY <1>0, <1>1, CommandShape DEF VerifyCommand
<1>3. runs[r] # NoRun /\ runs[r] \in RunRecord BY <1>0, <1>1, <1>2, RunShape DEF NoRun
<1>4. /\ MaybeComplete(r, book, "verifying") \in {"complete", "verifying"}
      /\ MaybeComplete(r, book, "verifying") = "complete" => Settled(book)
  BY DEF MaybeComplete, Settled
<1>. HIDE DEF book
<1>5. q \in RunRecord /\ q.from = runs[r].from /\ (q.state = "complete" => Settled(book))
  BY <1>3, <1>4 DEF RunRecord
<1>6. runs' = [runs EXCEPT ![r] = q] BY <1>0, <1>1, <1>2 DEF MigrationTypes
<1>7. ASSUME NEW l \in Lines
      PROVE  /\ book[l] \in {NoLine} \cup LineRecord
             /\ book[l] = NoLine <=> ledger[r][l] = NoLine
             /\ book[l] # NoLine => /\ book[l].source = ledger[r][l].source
                                    /\ book[l].name = ledger[r][l].name
             /\ book[l].state \in Claims => ledger[r][l].state \in Claims
             /\ book[l].state \in Imported =>
                   /\ book[l].secret \in ScopedIds /\ book[l].target \in scoped[book[l].secret].held
                   /\ book[l].state # "MIGRATED" => book[l].target = book[l].source
  <2>1. CASE ledger[r][l].state # "MIGRATED"
    <3>1. book[l] = ledger[r][l] BY <2>1 DEF book
    <3>. QED BY <1>0, <1>2, <3>1, LineShape DEF MigrationIInv, WrittenInv
  <2>2. CASE ledger[r][l].state = "MIGRATED"
    <3>. DEFINE e == ledger[r][l]
                v == IF e.target = e.source THEN "VERIFIED" ELSE "QUARANTINED"
    <3>1. book[l] = [e EXCEPT !.state = v] BY <2>2 DEF book, Judged
    <3>2. e \in LineRecord /\ e # NoLine BY <1>0, <1>2, <2>2, LineShape DEF NoLine
    <3>3. e.secret \in ScopedIds /\ e.target \in scoped[e.secret].held
      BY <1>2, <2>2 DEF MigrationIInv, WrittenInv, Imported
    <3>4. v \in {"VERIFIED", "QUARANTINED"} /\ (v = "VERIFIED" => e.target = e.source) OBVIOUS
    <3>. HIDE DEF v
    <3>5. /\ book[l] \in LineRecord /\ book[l].state = v /\ book[l].source = e.source
          /\ book[l].name = e.name /\ book[l].secret = e.secret /\ book[l].target = e.target
      BY <3>1, <3>2, <3>4 DEF LineRecord, EntryStates
    <3>6. book[l] # NoLine BY <3>4, <3>5 DEF NoLine
    <3>. QED BY <2>2, <3>2, <3>3, <3>4, <3>5, <3>6 DEF Claims, Imported
  <2>. QED BY <2>1, <2>2
<1>8. book \in [Lines -> {NoLine} \cup LineRecord]
  <2>1. book = [l \in Lines |-> book[l]] BY DEF book
  <2>. QED BY <1>7, <2>1
<1>9. ClaimsApart(book)
  <2>1. ClaimsApart(ledger[r]) BY <1>2 DEF MigrationIInv, BooksInv
  <2>2. \A l \in Lines : book[l].state \in Claims => book[l] # NoLine BY DEF Claims, NoLine
  <2>. QED BY <1>7, <2>1, <2>2 DEF ClaimsApart
<1>10. AtPrompt \in MigrationCommand /\ AtPrompt.cmd = "none" BY DEF MigrationCommand, AtPrompt
<1>. HIDE DEF AtPrompt
<1>11. /\ commands' \in [Operators -> MigrationCommand]
       /\ \A p \in Operators : commands'[p] = commands[p] \/ commands'[p].cmd \notin {"plan", "mark", "shred"}
  BY <1>0, <1>1, <1>10 DEF MigrationTypes
<1>12. scoped' \in [ScopedIds -> ScopedRecord] BY <1>0, <1>1 DEF MigrationTypes
<1>13. \A l \in Lines :
          /\ book[l] = NoLine <=> ledger[r][l] = NoLine
          /\ book[l] # NoLine => book[l].source = ledger[r][l].source
  BY <1>7
<1>14. \A l \in Lines : book[l].state \in Imported =>
          /\ book[l].secret \in ScopedIds /\ book[l].target \in scoped[book[l].secret].held
          /\ book[l].state # "MIGRATED" => book[l].target = book[l].source
  BY <1>7
<1>15. \A s \in ScopedIds : scoped'[s].held = scoped[s].held BY <1>1
<1>16. UNCHANGED vault BY <1>1
<1>17. ledger' = [ledger EXCEPT ![r] = book] BY <1>1
<1>. HIDE DEF q, r
<1>. QED BY <1>2, <1>3, <1>5, <1>6, <1>8, <1>9, <1>11, <1>12, <1>13, <1>14, <1>15, <1>16, <1>17, BookStep

LEMMA CmdResolveOK ==
    ASSUME MigrationIInv, migrationSteps' \in 0..MaxMigrationSteps, NEW o \in Operators,
           NEW r \in RunIds, NEW l \in Lines, NEW name \in FreeNames, CmdResolve(o, r, l, name)
    PROVE  MigrationIInv'
<1>0. MigrationTypes BY DEF MigrationIInv
<1>. DEFINE v == Validated(ledger[r], l, name)
            e == [ledger[r][l] EXCEPT !.name = name, !.state = v]
            book == [ledger[r] EXCEPT ![l] = e]
<1>1. /\ RunOpen(r) /\ ledger[r][l].state = "QUARANTINED" /\ ledger' = [ledger EXCEPT ![r][l] = e]
      /\ UNCHANGED <<runs, scoped, vault, commands>>
  BY DEF CmdResolve, ResolveEntry
<1>2. /\ v \in {"VALIDATED", "QUARANTINED"}
      /\ v = "VALIDATED" => \A k \in Lines \ {l} : ~(ledger[r][k].state \in Claims /\ ledger[r][k].name = name)
  BY DEF Validated
<1>. HIDE DEF v
<1>3. ledger[r][l] \in LineRecord /\ ledger[r][l] # NoLine BY <1>0, <1>1, LineShape DEF NoLine
<1>4. e \in LineRecord /\ e.state = v /\ e.name = name /\ e.source = ledger[r][l].source
  BY <1>2, <1>3 DEF LineRecord, EntryStates, EntryNames
<1>5. e # NoLine BY <1>2, <1>4 DEF NoLine
<1>. HIDE DEF e
<1>6. ledger[r] \in [Lines -> {NoLine} \cup LineRecord] /\ ClaimsApart(ledger[r])
  BY <1>0 DEF MigrationTypes, MigrationIInv, BooksInv
<1>7. ledger' = [ledger EXCEPT ![r] = book] BY <1>0, <1>1 DEF MigrationTypes
<1>8. book \in [Lines -> {NoLine} \cup LineRecord] BY <1>4, <1>6
<1>9. book[l] = e /\ \A k \in Lines : k # l => book[k] = ledger[r][k] BY <1>6
<1>. HIDE DEF book
<1>10. ClaimsApart(book)
  <2>. SUFFICES ASSUME NEW j \in Lines, NEW k \in Lines, j # k, book[j].state \in Claims,
                       book[k].state \in Claims
                PROVE  book[j].name # book[k].name
    BY DEF ClaimsApart
  <2>1. CASE j # l /\ k # l BY <1>6, <1>9, <2>1 DEF ClaimsApart
  <2>2. CASE j = l BY <1>2, <1>4, <1>9, <2>2 DEF Claims
  <2>3. CASE k = l BY <1>2, <1>4, <1>9, <2>3 DEF Claims
  <2>. QED BY <2>1, <2>2, <2>3
<1>11. \A k \in Lines :
          /\ book[k] = NoLine <=> ledger[r][k] = NoLine
          /\ book[k] # NoLine => book[k].source = ledger[r][k].source
  BY <1>3, <1>4, <1>5, <1>9
<1>12. \A k \in Lines : book[k].state \in Imported =>
          /\ book[k].secret \in ScopedIds /\ book[k].target \in scoped[book[k].secret].held
          /\ book[k].state # "MIGRATED" => book[k].target = book[k].source
  <2>1. \A k \in Lines : book[k].state \in Imported => book[k] = ledger[r][k]
    BY <1>2, <1>4, <1>9 DEF Imported
  <2>. QED BY <2>1 DEF MigrationIInv, WrittenInv
<1>13. runs[r] # NoRun /\ runs[r] \in RunRecord /\ runs[r].state # "complete"
  BY <1>0, <1>1, RunShape DEF RunOpen, NoRun
<1>14. runs' = [runs EXCEPT ![r] = runs[r]] BY <1>0, <1>1 DEF MigrationTypes
<1>15. scoped' \in [ScopedIds -> ScopedRecord] /\ commands' \in [Operators -> MigrationCommand]
  BY <1>0, <1>1 DEF MigrationTypes
<1>16. \A s \in ScopedIds : scoped'[s].held = scoped[s].held BY <1>1
<1>17. \A p \in Operators : commands'[p] = commands[p] \/ commands'[p].cmd \notin {"plan", "mark", "shred"}
  BY <1>1
<1>18. UNCHANGED vault BY <1>1
<1>19. runs[r].state = "complete" => Settled(book) BY <1>13
<1>. DEFINE q == runs[r]
<1>20. q \in RunRecord /\ q.from = runs[r].from /\ (q.state = "complete" => Settled(book))
       /\ runs' = [runs EXCEPT ![r] = q] /\ runs[r] # NoRun
  BY <1>13, <1>14, <1>19
<1>. HIDE DEF q
<1>. QED BY <1>7, <1>8, <1>10, <1>11, <1>12, <1>15, <1>16, <1>17, <1>18, <1>20, BookStep

LEMMA AbortOK ==
    ASSUME MigrationIInv, migrationSteps' \in 0..MaxMigrationSteps, NEW o \in Operators,
           NEW r \in RunIds, PostMigrationAbort(o, r)
    PROVE  MigrationIInv'
<1>0. MigrationTypes BY DEF MigrationIInv
<1>1. PICK done \in SUBSET Lines : AbortRun(r, done) BY DEF PostMigrationAbort
<1>. DEFINE book == [l \in Lines |->
                IF l \in done THEN [ledger[r][l] EXCEPT !.state = "VALIDATED", !.secret = "none",
                                                        !.target = "none"] ELSE ledger[r][l]]
            q == IF done = In(r, {"MIGRATED", "VERIFIED"})
                 THEN [runs[r] EXCEPT !.state = "aborted"] ELSE runs[r]
<1>2. /\ RunOpen(r) /\ done \subseteq In(r, {"MIGRATED", "VERIFIED"})
      /\ scoped' = [s \in ScopedIds |->
            IF \E l \in done : ledger[r][l].secret = s THEN [scoped[s] EXCEPT !.live = FALSE]
            ELSE scoped[s]]
      /\ UNCHANGED <<vault, commands>>
  BY <1>1 DEF AbortRun, PostMigrationAbort
<1>3. ledger' = [ledger EXCEPT ![r] = book] BY <1>1 DEF AbortRun
<1>4. runs' = [runs EXCEPT ![r] = q] BY <1>0, <1>1 DEF AbortRun, MigrationTypes
<1>5. runs[r] # NoRun /\ runs[r] \in RunRecord /\ runs[r].state # "complete"
  BY <1>0, <1>2, RunShape DEF RunOpen, NoRun
<1>6. q \in RunRecord /\ q.from = runs[r].from /\ q.state # "complete" BY <1>5 DEF RunRecord
<1>. HIDE DEF book, q
<1>7. ASSUME NEW l \in Lines
      PROVE  /\ book[l] \in {NoLine} \cup LineRecord
             /\ book[l] = NoLine <=> ledger[r][l] = NoLine
             /\ book[l] # NoLine => /\ book[l].source = ledger[r][l].source
                                    /\ book[l].name = ledger[r][l].name
             /\ book[l].state \in Claims => ledger[r][l].state \in Claims
             /\ book[l].state \in Imported => book[l] = ledger[r][l]
  <2>1. CASE l \notin done
    <3>1. book[l] = ledger[r][l] BY <2>1 DEF book
    <3>. QED BY <1>0, <3>1, LineShape
  <2>2. CASE l \in done
    <3>. DEFINE e == ledger[r][l]
    <3>1. book[l] = [e EXCEPT !.state = "VALIDATED", !.secret = "none", !.target = "none"]
      BY <2>2 DEF book
    <3>2. e.state \in {"MIGRATED", "VERIFIED"} BY <1>2, <2>2 DEF In
    <3>3. e \in LineRecord /\ e # NoLine BY <1>0, <3>2, LineShape DEF NoLine
    <3>4. /\ book[l] \in LineRecord /\ book[l].state = "VALIDATED" /\ book[l].source = e.source
          /\ book[l].name = e.name
      BY <3>1, <3>3 DEF LineRecord, EntryStates
    <3>5. book[l] # NoLine BY <3>4 DEF NoLine
    <3>. QED BY <3>2, <3>3, <3>4, <3>5 DEF Claims, Imported
  <2>. QED BY <2>1, <2>2
<1>8. book \in [Lines -> {NoLine} \cup LineRecord]
  <2>1. book = [l \in Lines |-> book[l]] BY DEF book
  <2>. QED BY <1>7, <2>1
<1>9. ClaimsApart(book)
  <2>1. ClaimsApart(ledger[r]) BY DEF MigrationIInv, BooksInv
  <2>2. \A l \in Lines : book[l].state \in Claims => book[l] # NoLine BY DEF Claims, NoLine
  <2>. QED BY <1>7, <2>1, <2>2 DEF ClaimsApart
<1>10. \A l \in Lines : book[l].state \in Imported =>
          /\ book[l].secret \in ScopedIds /\ book[l].target \in scoped[book[l].secret].held
          /\ book[l].state # "MIGRATED" => book[l].target = book[l].source
  BY <1>7 DEF MigrationIInv, WrittenInv
<1>11. ASSUME NEW s \in ScopedIds
       PROVE  scoped'[s] \in ScopedRecord /\ scoped'[s].held = scoped[s].held
  <2>1. scoped[s] \in ScopedRecord BY <1>0 DEF MigrationTypes
  <2>2. scoped'[s] = scoped[s] \/ scoped'[s] = [scoped[s] EXCEPT !.live = FALSE] BY <1>2
  <2>. QED BY <2>1, <2>2 DEF ScopedRecord
<1>12. scoped' \in [ScopedIds -> ScopedRecord] BY <1>2, <1>11
<1>13. commands' \in [Operators -> MigrationCommand] BY <1>0, <1>2 DEF MigrationTypes
<1>14. \A l \in Lines :
          /\ book[l] = NoLine <=> ledger[r][l] = NoLine
          /\ book[l] # NoLine => book[l].source = ledger[r][l].source
  BY <1>7
<1>15. \A s \in ScopedIds : scoped'[s].held = scoped[s].held BY <1>11
<1>16. \A p \in Operators : commands'[p] = commands[p] \/ commands'[p].cmd \notin {"plan", "mark", "shred"}
  BY <1>2
<1>17. UNCHANGED vault BY <1>2
<1>18. q.state = "complete" => Settled(book) BY <1>6
<1>19. q.from = runs[r].from /\ q \in RunRecord /\ runs[r] # NoRun BY <1>5, <1>6
<1>. QED BY <1>3, <1>4, <1>8, <1>9, <1>10, <1>12, <1>13, <1>14, <1>15, <1>16, <1>17, <1>18, <1>19, BookStep

LEMMA FlipsOK ==
    ASSUME MigrationIInv, migrationSteps' \in 0..MaxMigrationSteps, NEW o \in Operators,
           NEW r \in RunIds, CmdShredFlips(o, r)
    PROVE  MigrationIInv'
<1>0. MigrationTypes BY DEF MigrationIInv
<1>. DEFINE next == [cmd |-> "shred", live |-> commands[o].live \ {r},
                     seen |-> commands[o].seen \cup {runs[r].from}]
            c == IF ~AllDisabled(ledger'[r]) THEN AtPrompt ELSE next
<1>1. At(o, "shred") /\ r \in commands[o].live /\ commands' = [commands EXCEPT ![o] = c] /\ vault' = vault
  BY DEF CmdShredFlips, Becomes
<1>2. commands[o] \in ShredCommand BY <1>0, <1>1, CommandShape
<1>3. runs[r] # NoRun /\ runs[r] \in RunRecord BY <1>0, <1>1, RunShape DEF MigrationIInv, ListedInv
<1>4. AtPrompt \in MigrationCommand /\ AtPrompt.cmd = "none" BY DEF MigrationCommand, AtPrompt
<1>5. /\ next \in MigrationCommand /\ next.cmd = "shred"
      /\ \A x \in next.live : runs[x] # NoRun
  BY <1>1, <1>2, <1>3 DEF MigrationCommand, ShredCommand, RunRecord, MigrationIInv, ListedInv
<1>. HIDE DEF AtPrompt, next
<1>6. c \in MigrationCommand
      /\ (c.cmd \notin {"plan", "mark", "shred"}
          \/ (c.cmd = "shred" /\ \A x \in c.live : runs[x] # NoRun))
  <2>1. CASE AllDisabled(ledger'[r])
    <3>1. c = next BY <2>1
    <3>. QED BY <1>5, <3>1
  <2>2. CASE ~AllDisabled(ledger'[r])
    <3>1. c = AtPrompt BY <2>2
    <3>. QED BY <1>4, <3>1
  <2>. QED BY <2>1, <2>2
<1>. HIDE DEF c
<1>7. commands' \in [Operators -> MigrationCommand] BY <1>0, <1>1, <1>6 DEF MigrationTypes
<1>8. \A p \in Operators :
        \/ commands'[p] = commands[p] \/ commands'[p].cmd \notin {"plan", "mark", "shred"}
        \/ commands'[p].cmd = "shred" /\ \A x \in commands'[p].live : runs[x] # NoRun
  BY <1>0, <1>1, <1>6 DEF MigrationTypes
<1>9. vault' \in [head : Heads, shredded : BOOLEAN] BY <1>0, <1>1 DEF MigrationTypes
<1>10. CASE ~(runs[r].state \in {"verifying", "complete"})
  <2>1. UNCHANGED <<runs, ledger, scoped>> BY <1>10 DEF CmdShredFlips
  <2>. QED BY <1>7, <1>8, <1>9, <2>1, CommandStep
<1>11. CASE runs[r].state \in {"verifying", "complete"}
  <2>1. PICK done \in SUBSET In(r, {"VERIFIED"}) : DisableLegacy(r, done)
    BY <1>11 DEF CmdShredFlips
  <2>. DEFINE book == [l \in Lines |-> IF l \in done
                                       THEN [ledger[r][l] EXCEPT !.state = "LEGACY_PATH_DISABLED"]
                                       ELSE ledger[r][l]]
              v == MaybeComplete(r, book, runs[r].state)
              q == IF done = In(r, {"VERIFIED"}) THEN [runs[r] EXCEPT !.state = v] ELSE runs[r]
  <2>2. ledger' = [ledger EXCEPT ![r] = book] /\ UNCHANGED scoped BY <2>1 DEF DisableLegacy
  <2>3. runs' = [runs EXCEPT ![r] = q] BY <1>0, <2>1 DEF DisableLegacy, MigrationTypes
  <2>4. v \in {"complete", runs[r].state} /\ (v = "complete" => runs[r].state = "complete" \/ Settled(book))
    BY DEF MaybeComplete, Settled
  <2>. HIDE DEF v
  <2>5. q \in RunRecord /\ q.from = runs[r].from
        /\ (q.state = "complete" => runs[r].state = "complete" \/ Settled(book))
    BY <1>3, <2>4 DEF RunRecord
  <2>. HIDE DEF book, q
  <2>6. ASSUME NEW l \in Lines
        PROVE  /\ book[l] \in {NoLine} \cup LineRecord
               /\ book[l] = NoLine <=> ledger[r][l] = NoLine
               /\ book[l] # NoLine => /\ book[l].source = ledger[r][l].source
                                      /\ book[l].name = ledger[r][l].name
               /\ book[l].state \in Claims => ledger[r][l].state \in Claims
               /\ book[l].state = ledger[r][l].state \/ book[l].state = "LEGACY_PATH_DISABLED"
               /\ book[l].state \in Imported =>
                     /\ book[l].secret \in ScopedIds /\ book[l].target \in scoped[book[l].secret].held
                     /\ book[l].state # "MIGRATED" => book[l].target = book[l].source
    <3>1. CASE l \notin done
      <4>1. book[l] = ledger[r][l] BY <3>1 DEF book
      <4>. QED BY <1>0, <4>1, LineShape DEF MigrationIInv, WrittenInv
    <3>2. CASE l \in done
      <4>. DEFINE e == ledger[r][l]
      <4>1. book[l] = [e EXCEPT !.state = "LEGACY_PATH_DISABLED"] BY <3>2 DEF book
      <4>2. e.state = "VERIFIED" BY <3>2 DEF In
      <4>3. e \in LineRecord /\ e # NoLine BY <1>0, <4>2, LineShape DEF NoLine
      <4>4. e.secret \in ScopedIds /\ e.target \in scoped[e.secret].held /\ e.target = e.source
        BY <4>2 DEF MigrationIInv, WrittenInv, Imported
      <4>5. /\ book[l] \in LineRecord /\ book[l].state = "LEGACY_PATH_DISABLED"
            /\ book[l].source = e.source /\ book[l].name = e.name /\ book[l].secret = e.secret
            /\ book[l].target = e.target
        BY <4>1, <4>3 DEF LineRecord, EntryStates
      <4>6. book[l] # NoLine BY <4>5 DEF NoLine
      <4>. QED BY <4>2, <4>3, <4>4, <4>5, <4>6 DEF Claims
    <3>. QED BY <3>1, <3>2
  <2>7. book \in [Lines -> {NoLine} \cup LineRecord]
    <3>1. book = [l \in Lines |-> book[l]] BY DEF book
    <3>. QED BY <2>6, <3>1
  <2>8. ClaimsApart(book)
    <3>1. ClaimsApart(ledger[r]) BY DEF MigrationIInv, BooksInv
    <3>2. \A l \in Lines : book[l].state \in Claims => book[l] # NoLine BY DEF Claims, NoLine
    <3>. QED BY <2>6, <3>1, <3>2 DEF ClaimsApart
  <2>9. q.state = "complete" => Settled(book)
    <3>1. runs[r].state = "complete" => Settled(ledger[r]) BY DEF MigrationIInv, BooksInv
    <3>. QED BY <2>5, <2>6, <3>1 DEF Settled
  <2>10. \A l \in Lines : book[l].state \in Imported =>
            /\ book[l].secret \in ScopedIds /\ book[l].target \in scoped[book[l].secret].held
            /\ book[l].state # "MIGRATED" => book[l].target = book[l].source
    BY <2>6
  <2>11. \A l \in Lines :
            /\ book[l] = NoLine <=> ledger[r][l] = NoLine
            /\ book[l] # NoLine => book[l].source = ledger[r][l].source
    BY <2>6
  <2>12. scoped' \in [ScopedIds -> ScopedRecord] /\ \A s \in ScopedIds : scoped'[s].held = scoped[s].held
    BY <1>0, <2>2 DEF MigrationTypes
  <2>13. UNCHANGED vault BY <1>1
  <2>14. ledger' = [ledger EXCEPT ![r] = book] BY <2>2
  <2>15. q \in RunRecord /\ q.from = runs[r].from BY <2>5
  <2>. QED BY <1>3, <1>7, <1>8, <2>3, <2>7, <2>8, <2>9, <2>10, <2>11, <2>12, <2>13, <2>14, <2>15,
              BookStep
<1>. QED BY <1>10, <1>11

LEMMA QuietMigrationOK ==
    ASSUME MigrationIInv, migrationSteps' \in 0..MaxMigrationSteps,
           \/ \E o \in Operators : \/ Interrupted(o) \/ CmdShred(o) \/ CmdShredRemoves(o)
                                   \/ \E r \in RunIds : CmdVerify(o, r)
           \/ \E h \in Heads : VaultAdvances(h)
           \/ UNCHANGED <<runs, ledger, scoped, vault, commands>>
    PROVE  MigrationIInv' /\ UNCHANGED <<runs, ledger, scoped>>
<1>0. MigrationTypes BY DEF MigrationIInv
<1>1. UNCHANGED <<runs, ledger, scoped>>
  BY DEF Interrupted, CmdShred, CmdShredRemoves, CmdVerify, VaultAdvances
<1>2. vault' \in [head : Heads, shredded : BOOLEAN]
  BY <1>0 DEF MigrationTypes, Interrupted, CmdShred, CmdShredRemoves, CmdVerify, VaultAdvances
<1>3. ASSUME NEW o \in Operators, NEW c \in MigrationCommand, commands' = [commands EXCEPT ![o] = c],
             c.cmd \notin {"plan", "mark", "shred"}
             \/ (c.cmd = "shred" /\ \A x \in c.live : runs[x] # NoRun)
      PROVE  MigrationIInv'
  <2>1. commands' \in [Operators -> MigrationCommand] BY <1>0, <1>3 DEF MigrationTypes
  <2>2. \A p \in Operators :
          \/ commands'[p] = commands[p] \/ commands'[p].cmd \notin {"plan", "mark", "shred"}
          \/ commands'[p].cmd = "shred" /\ \A x \in commands'[p].live : runs[x] # NoRun
    BY <1>0, <1>3 DEF MigrationTypes
  <2>. QED BY <1>1, <1>2, <2>1, <2>2, CommandStep
<1>4. ASSUME NEW o \in Operators, commands' = [commands EXCEPT ![o] = AtPrompt] PROVE MigrationIInv'
  <2>1. AtPrompt \in MigrationCommand /\ AtPrompt.cmd = "none" BY DEF MigrationCommand, AtPrompt
  <2>2. AtPrompt.cmd \notin {"plan", "mark", "shred"} BY <2>1
  <2>. HIDE DEF AtPrompt
  <2>. QED BY <1>3, <1>4, <2>1, <2>2
<1>5. ASSUME NEW o \in Operators, CmdShred(o) PROVE MigrationIInv'
  <2>. DEFINE c == [cmd |-> "shred", live |-> LiveRuns, seen |-> {}]
  <2>1. commands' = [commands EXCEPT ![o] = c] BY <1>5 DEF CmdShred, Becomes
  <2>2. c \in MigrationCommand BY DEF LiveRuns, MigrationCommand, ShredCommand
  <2>3. c.cmd = "shred" /\ \A x \in c.live : runs[x] # NoRun BY DEF LiveRuns
  <2>. HIDE DEF c
  <2>. QED BY <1>3, <2>1, <2>2, <2>3
<1>6. ASSUME NEW o \in Operators, NEW r \in RunIds, CmdVerify(o, r) PROVE MigrationIInv'
  <2>. DEFINE c == [cmd |-> "verify", run |-> r]
  <2>1. commands' = [commands EXCEPT ![o] = c] BY <1>6 DEF CmdVerify, Becomes
  <2>2. c \in MigrationCommand BY DEF MigrationCommand, VerifyCommand
  <2>3. c.cmd \notin {"plan", "mark", "shred"} OBVIOUS
  <2>. HIDE DEF c
  <2>. QED BY <1>3, <2>1, <2>2, <2>3
<1>7. CASE UNCHANGED commands BY <1>0, <1>1, <1>2, <1>7, CommandStep DEF MigrationTypes
<1>. QED BY <1>1, <1>4, <1>5, <1>6, <1>7
         DEF Interrupted, CmdShredRemoves, VaultAdvances, Becomes

LEMMA MigrationInitOK == MigrationInit => MigrationIInv
<1>. SUFFICES ASSUME MigrationInit PROVE MigrationIInv OBVIOUS
<1>1. MigrationTypes
  <2>1. FirstHead \in Heads /\ MaxMigrationSteps \in Nat BY MigrationAssumption
  <2>2. Free \in ScopedRecord BY DEF Free, ScopedRecord
  <2>3. AtPrompt \in MigrationCommand BY DEF MigrationCommand
  <2>. QED BY <2>1, <2>2, <2>3 DEF MigrationInit, MigrationTypes
<1>2. \A r \in RunIds, l \in Lines : ledger[r][l] = NoLine /\ ledger[r][l].state = "none"
  BY DEF MigrationInit, NoLine
<1>3. \A r \in RunIds : runs[r].state = "none" BY DEF MigrationInit, NoRun
<1>4. \A o \in Operators : commands[o].cmd = "none" BY DEF MigrationInit, AtPrompt
<1>5. BooksInv BY <1>2, <1>3 DEF BooksInv, ClaimsApart, Claims
<1>6. SourcesInv BY <1>2 DEF SourcesInv
<1>7. PlansInv BY <1>4 DEF PlansInv, At
<1>8. WrittenInv BY <1>2, <1>4 DEF WrittenInv, At, Imported
<1>9. ListedInv BY <1>4 DEF ListedInv, At
<1>. QED BY <1>1, <1>5, <1>6, <1>7, <1>8, <1>9 DEF MigrationIInv

LEMMA MigrationStepOK == ASSUME MigrationIInv, [MigrationNext]_migrationVars PROVE MigrationIInv'
<1>1. CASE UNCHANGED migrationVars
  <2>1. migrationSteps' \in 0..MaxMigrationSteps
    BY <1>1 DEF migrationVars, MigrationIInv, MigrationTypes
  <2>. QED BY <1>1, <2>1, QuietMigrationOK DEF migrationVars
<1>2. CASE MigrationNext
  <2>1. migrationSteps' \in 0..MaxMigrationSteps
    BY <1>2, MigrationAssumption DEF MigrationNext, MigrationIInv, MigrationTypes
  <2>2. MigrationStep BY <1>2 DEF MigrationNext
  <2>. QED BY <2>1, <2>2, CmdPlanOK, CmdPlanSubmitsOK, CmdApplyOK, CmdApplyCreatesOK, CmdApplyMarksOK,
              CmdVerifyPostsOK, CmdResolveOK, AbortOK, FlipsOK, QuietMigrationOK DEF MigrationStep
<1>. QED BY <1>1, <1>2

LEMMA MigrationIInvBooks == MigrationIInv => MigrationTypeOK /\ CompleteIsVerified
<1>. SUFFICES ASSUME MigrationIInv PROVE MigrationTypeOK /\ CompleteIsVerified OBVIOUS
<1>0. MigrationTypes BY DEF MigrationIInv
<1>1. MigrationTypeOK
  <2>1. \A r \in RunIds : runs[r] = NoRun \/
           /\ runs[r].state \in {"planning", "applying", "verifying", "complete", "aborted"}
           /\ runs[r].from \in Heads
    BY <1>0, RunShape DEF RunRecord
  <2>2. \A r \in RunIds, l \in Lines : ledger[r][l] = NoLine \/
           /\ ledger[r][l].state \in EntryStates
           /\ ledger[r][l].source \in SourceValues
           /\ ledger[r][l].secret \in ScopedIds \cup {"none"}
    BY <1>0, LineShape DEF LineRecord
  <2>3. \A s \in ScopedIds : scoped[s].held \subseteq SourceValues
    BY <1>0 DEF MigrationTypes, ScopedRecord
  <2>4. vault.head \in Heads /\ vault.shredded \in BOOLEAN BY <1>0 DEF MigrationTypes
  <2>5. \A o \in Operators :
           commands[o].cmd \in {"none", "plan", "apply", "mark", "verify", "shred", "remove"}
    <3>1. \A o \in Operators : commands[o] \in MigrationCommand BY <1>0 DEF MigrationTypes
    <3>. QED BY <3>1 DEF MigrationCommand, AtPrompt, PlanCommand, ApplyCommand, MarkCommand,
                VerifyCommand, ShredCommand
  <2>. QED BY <1>0, <2>1, <2>2, <2>3, <2>4, <2>5 DEF MigrationTypeOK, MigrationTypes
<1>2. CompleteIsVerified
  BY DEF MigrationIInv, BooksInv, ClaimsApart, Settled, CompleteIsVerified, In
<1>. QED BY <1>1, <1>2

\* Whatever runs, people and interruptions there are, and whatever stale lists the
\* commands act on (migration_ledger.rs maybe_complete, validate_mapped): a complete
\* run stays wholly verified, and no two of a run's claims share a name.
THEOREM LedgerStaysConsistent == MigrationSpec => [](MigrationTypeOK /\ CompleteIsVerified)
BY MigrationInitOK, MigrationStepOK, MigrationIInvBooks, PTL DEF MigrationSpec

-----------------------------------------------------------------------------
(* Migration: what no step takes back *)

\* A run keeps its snapshot and its entries, a disabled entry stays disabled, and
\* an entry that counts as imported did before or has just been given a live secret.
RunKept(r) ==
    /\ runs[r] # NoRun => runs'[r] # NoRun /\ runs'[r].from = runs[r].from
    /\ runs[r] = NoRun => \/ runs'[r] = NoRun
                          \/ \E o \in Operators : commands'[o].cmd = "plan" /\ commands'[o].run = r
    /\ runs[r].state = "aborted" => runs'[r].state = "aborted"
    /\ runs[r].state = "planning" /\ (\A l \in Lines : ledger[r][l] = NoLine) =>
          runs'[r].state \in {"planning", "aborted"}
    /\ \A l \in Lines : ledger[r][l] # NoLine => ledger'[r][l] # NoLine
LineKept(r, l) ==
    /\ ledger[r][l].state = "LEGACY_PATH_DISABLED" => ledger'[r][l].state = "LEGACY_PATH_DISABLED"
    /\ ledger'[r][l].state \in Imported =>
          \/ (\E o \in Operators : CmdApplyMarks(o)) /\ scoped'[ledger'[r][l].secret].live
          \/ /\ ledger[r][l].state \in Imported /\ ledger'[r][l].secret = ledger[r][l].secret
             /\ ledger'[r][l].name = ledger[r][l].name
LedgerKept == \A r \in RunIds : RunKept(r) /\ \A l \in Lines : LineKept(r, l)

LEMMA SameKept ==
    ASSUME NEW r \in RunIds, runs'[r] = runs[r], ledger'[r] = ledger[r]
    PROVE  RunKept(r) /\ \A l \in Lines : LineKept(r, l)
BY DEF RunKept, LineKept

LEMMA QuietKept == ASSUME UNCHANGED <<runs, ledger>> PROVE LedgerKept
BY SameKept DEF LedgerKept

LEMMA CmdPlanKept ==
    ASSUME MigrationIInv, NEW o \in Operators, NEW r \in RunIds, CmdPlan(o, r) PROVE LedgerKept
<1>1. /\ runs[r] = NoRun /\ ledger' = ledger
      /\ runs' = [runs EXCEPT ![r] = [state |-> "planning", from |-> vault.head]]
  BY DEF CmdPlan, StartRun
<1>2. \A x \in RunIds : x # r => runs'[x] = runs[x] BY <1>1 DEF MigrationIInv, MigrationTypes
<1>3. runs[r].state = "none" BY <1>1 DEF NoRun
<1>4. commands'[o].cmd = "plan" /\ commands'[o].run = r
  BY DEF CmdPlan, Becomes, MigrationIInv, MigrationTypes
<1>5. RunKept(r) /\ \A l \in Lines : LineKept(r, l) BY <1>1, <1>3, <1>4 DEF RunKept, LineKept
<1>. QED BY <1>1, <1>2, <1>5, SameKept DEF LedgerKept

LEMMA CmdPlanSubmitsKept ==
    ASSUME MigrationIInv, NEW o \in Operators, CmdPlanSubmits(o),
           \A l \in Lines : ledger'[commands[o].run][l] # NoLine
    PROVE  LedgerKept
<1>0. MigrationTypes BY DEF MigrationIInv
<1>. DEFINE r == commands[o].run
            values == commands[o].values
<1>1. /\ At(o, "plan") /\ ledger' = [ledger EXCEPT ![r] = Submitted(r, values)] /\ runs' = runs
  BY DEF CmdPlanSubmits, SubmitEntries
<1>2. r \in RunIds /\ values \in Snapshots BY <1>0, <1>1, CommandShape DEF PlanCommand
<1>3. \A l \in Lines : values[l] \in SourceValues BY <1>2 DEF Snapshots, SourceValues
<1>4. ClaimsApart(ledger[r]) BY <1>2 DEF MigrationIInv, BooksInv
<1>5. \A l \in Lines : Submitted(r, values)[l] \in Submission(values[l])
  BY <1>0, <1>2, <1>3, <1>4, SubmittedOK
<1>6. ledger'[r] = Submitted(r, values) /\ \A x \in RunIds : x # r => ledger'[x] = ledger[x]
  BY <1>0, <1>1, <1>2 DEF MigrationTypes
<1>7. \A l \in Lines : ledger[r][l] = NoLine BY <1>1 DEF MigrationIInv, PlansInv
<1>8. \A l \in Lines : ledger[r][l].state = "none" BY <1>7 DEF NoLine
<1>9. \A l \in Lines : ledger'[r][l].state \notin Imported BY <1>5, <1>6 DEF Submission, Imported
<1>10. RunKept(r) /\ \A l \in Lines : LineKept(r, l)
  <2>1. runs[r].state = "planning" => runs'[r].state \in {"planning", "aborted"} BY <1>1
  <2>. QED BY <1>1, <1>7, <1>8, <1>9, <2>1 DEF RunKept, LineKept
<1>. QED BY <1>1, <1>6, <1>10, SameKept DEF LedgerKept

LEMMA CmdApplyMarksKept ==
    ASSUME MigrationIInv, NEW o \in Operators, CmdApplyMarks(o) PROVE LedgerKept
<1>0. MigrationTypes BY DEF MigrationIInv
<1>. DEFINE c == commands[o]
            r == c.run
            l == c.line
            e == [ledger[r][l] EXCEPT !.state = "MIGRATED", !.secret = c.secret,
                                      !.target = c.values[c.line]]
<1>1. At(o, "mark") /\ MarkMigrated(r, l, c.secret, c.values[c.line]) /\ scoped' = scoped
  BY DEF CmdApplyMarks
<1>2. r \in RunIds /\ l \in Lines BY <1>0, <1>1, CommandShape DEF MarkCommand
<1>3. CASE UNCHANGED <<runs, ledger>> BY <1>3, QuietKept
<1>4. CASE ~UNCHANGED <<runs, ledger>>
  <2>1. /\ ledger[r][l].state = "VALIDATED" /\ scoped[c.secret].live /\ RunOpen(r)
        /\ ledger' = [ledger EXCEPT ![r][l] = e] /\ runs' = [runs EXCEPT ![r].state = "applying"]
    BY <1>1, <1>4 DEF MarkMigrated, Anchored
  <2>2. runs[r] # NoRun /\ ledger[r][l] # NoLine BY <2>1 DEF RunOpen, NoRun, NoLine
  <2>3. runs[r] \in RunRecord /\ ledger[r][l] \in LineRecord
    BY <1>0, <1>2, <2>2, RunShape, LineShape
  <2>4. e.state = "MIGRATED" /\ e.secret = c.secret BY <2>3 DEF LineRecord
  <2>5. e # NoLine BY <2>4 DEF NoLine
  <2>. HIDE DEF e
  <2>6. /\ ledger'[r][l] = e
        /\ \A x \in RunIds, k \in Lines : x # r \/ k # l => ledger'[x][k] = ledger[x][k]
        /\ \A x \in RunIds : x # r => ledger'[x] = ledger[x]
    BY <1>0, <1>2, <2>1 DEF MigrationTypes
  <2>7. /\ runs'[r] = [runs[r] EXCEPT !.state = "applying"]
        /\ \A x \in RunIds : x # r => runs'[x] = runs[x]
    BY <1>0, <1>2, <2>1 DEF MigrationTypes
  <2>8. runs'[r] # NoRun /\ runs'[r].from = runs[r].from BY <2>3, <2>7 DEF RunRecord, NoRun
  <2>9. runs[r].state # "aborted" BY <2>1 DEF RunOpen
  <2>10. RunKept(r)
    <3>1. \A k \in Lines : ledger[r][k] # NoLine => ledger'[r][k] # NoLine
      BY <1>2, <2>5, <2>6
    <3>. QED BY <1>2, <2>2, <2>8, <2>9, <3>1 DEF RunKept
  <2>11. \A k \in Lines : k # l => LineKept(r, k) BY <1>2, <2>6 DEF LineKept
  <2>12. LineKept(r, l) BY <1>1, <2>1, <2>4, <2>6 DEF LineKept
  <2>. QED BY <2>6, <2>7, <2>10, <2>11, <2>12, SameKept DEF LedgerKept
<1>. QED BY <1>3, <1>4

LEMMA CmdVerifyPostsKept ==
    ASSUME MigrationIInv, NEW o \in Operators, CmdVerifyPosts(o) PROVE LedgerKept
<1>0. MigrationTypes BY DEF MigrationIInv
<1>. DEFINE r == commands[o].run
            book == [l \in Lines |-> IF ledger[r][l].state = "MIGRATED"
                                     THEN Judged(ledger[r][l]) ELSE ledger[r][l]]
            v == MaybeComplete(r, book, "verifying")
<1>1. /\ At(o, "verify") /\ runs[r].state \in {"applying", "verifying"}
      /\ ledger' = [ledger EXCEPT ![r] = book] /\ runs' = [runs EXCEPT ![r].state = v]
  BY DEF CmdVerifyPosts, VerifyRun
<1>2. r \in RunIds BY <1>0, <1>1, CommandShape DEF VerifyCommand
<1>3. runs[r] # NoRun /\ runs[r] \in RunRecord BY <1>0, <1>1, <1>2, RunShape DEF NoRun
<1>4. v \in {"complete", "verifying"} BY DEF MaybeComplete
<1>. HIDE DEF book, v
<1>5. /\ ledger'[r] = book /\ runs'[r] = [runs[r] EXCEPT !.state = v]
      /\ \A x \in RunIds : x # r => ledger'[x] = ledger[x] /\ runs'[x] = runs[x]
  BY <1>0, <1>1, <1>2 DEF MigrationTypes
<1>6. runs'[r] # NoRun /\ runs'[r].from = runs[r].from BY <1>3, <1>4, <1>5 DEF RunRecord, NoRun
<1>7. ASSUME NEW l \in Lines PROVE LineKept(r, l) /\ (ledger[r][l] # NoLine => book[l] # NoLine)
  <2>1. CASE ledger[r][l].state # "MIGRATED"
    <3>1. book[l] = ledger[r][l] BY <2>1 DEF book
    <3>. QED BY <1>5, <3>1 DEF LineKept
  <2>2. CASE ledger[r][l].state = "MIGRATED"
    <3>. DEFINE e == ledger[r][l]
                w == IF e.target = e.source THEN "VERIFIED" ELSE "QUARANTINED"
    <3>1. book[l] = [e EXCEPT !.state = w] BY <2>2 DEF book, Judged
    <3>2. e \in LineRecord BY <1>0, <1>2, <2>2, LineShape DEF NoLine
    <3>3. w # "none" OBVIOUS
    <3>. HIDE DEF w
    <3>4. book[l].secret = e.secret /\ book[l].state = w /\ book[l].name = e.name
      BY <3>1, <3>2 DEF LineRecord
    <3>5. book[l] # NoLine BY <3>3, <3>4 DEF NoLine
    <3>. QED BY <1>5, <2>2, <3>4, <3>5 DEF LineKept, Imported
  <2>. QED BY <2>1, <2>2
<1>8. RunKept(r) BY <1>1, <1>3, <1>5, <1>6, <1>7 DEF RunKept
<1>. QED BY <1>5, <1>7, <1>8, SameKept DEF LedgerKept

LEMMA CmdResolveKept ==
    ASSUME MigrationIInv, NEW o \in Operators, NEW r \in RunIds, NEW l \in Lines, NEW name \in FreeNames,
           CmdResolve(o, r, l, name)
    PROVE  LedgerKept
<1>0. MigrationTypes BY DEF MigrationIInv
<1>. DEFINE v == Validated(ledger[r], l, name)
            e == [ledger[r][l] EXCEPT !.name = name, !.state = v]
<1>1. /\ ledger[r][l].state = "QUARANTINED" /\ ledger' = [ledger EXCEPT ![r][l] = e] /\ runs' = runs
  BY DEF CmdResolve, ResolveEntry
<1>2. v \in {"VALIDATED", "QUARANTINED"} BY DEF Validated
<1>. HIDE DEF v
<1>3. ledger[r][l] \in LineRecord BY <1>0, <1>1, LineShape DEF NoLine
<1>4. e.state = v BY <1>3 DEF LineRecord
<1>5. e # NoLine /\ e.state \notin Imported BY <1>2, <1>4 DEF NoLine, Imported
<1>. HIDE DEF e
<1>6. /\ ledger'[r][l] = e
      /\ \A k \in Lines : k # l => ledger'[r][k] = ledger[r][k]
      /\ \A x \in RunIds : x # r => ledger'[x] = ledger[x]
  BY <1>0, <1>1 DEF MigrationTypes
<1>7. RunKept(r)
  <2>1. \A k \in Lines : ledger[r][k] # NoLine => ledger'[r][k] # NoLine BY <1>5, <1>6
  <2>. QED BY <1>1, <2>1 DEF RunKept
<1>8. \A k \in Lines : LineKept(r, k) BY <1>1, <1>5, <1>6 DEF LineKept
<1>. QED BY <1>1, <1>6, <1>7, <1>8, SameKept DEF LedgerKept

LEMMA AbortKept ==
    ASSUME MigrationIInv, NEW o \in Operators, NEW r \in RunIds, PostMigrationAbort(o, r) PROVE LedgerKept
<1>0. MigrationTypes BY DEF MigrationIInv
<1>1. PICK done \in SUBSET Lines : AbortRun(r, done) BY DEF PostMigrationAbort
<1>. DEFINE book == [l \in Lines |->
                IF l \in done THEN [ledger[r][l] EXCEPT !.state = "VALIDATED", !.secret = "none",
                                                        !.target = "none"] ELSE ledger[r][l]]
<1>2. RunOpen(r) /\ done \subseteq In(r, {"MIGRATED", "VERIFIED"}) BY <1>1 DEF AbortRun
<1>3. ledger' = [ledger EXCEPT ![r] = book] BY <1>1 DEF AbortRun
<1>4. runs' = runs \/ runs' = [runs EXCEPT ![r].state = "aborted"] BY <1>1 DEF AbortRun
<1>. HIDE DEF book
<1>6. \A x \in RunIds : x # r => ledger'[x] = ledger[x] /\ runs'[x] = runs[x]
  BY <1>0, <1>3, <1>4 DEF MigrationTypes
<1>7. runs[r] # NoRun /\ runs[r] \in RunRecord BY <1>0, <1>2, RunShape DEF RunOpen, NoRun
<1>8. /\ runs'[r] # NoRun /\ runs'[r].from = runs[r].from
      /\ runs'[r].state \in {runs[r].state, "aborted"}
  BY <1>4, <1>0, <1>7 DEF MigrationTypes, RunRecord, NoRun
<1>9. ledger'[r] = book BY <1>0, <1>3 DEF MigrationTypes
<1>10. ASSUME NEW l \in Lines PROVE LineKept(r, l) /\ (ledger[r][l] # NoLine => book[l] # NoLine)
  <2>1. CASE l \notin done
    <3>1. book[l] = ledger[r][l] BY <2>1 DEF book
    <3>. QED BY <1>9, <3>1 DEF LineKept
  <2>2. CASE l \in done
    <3>. DEFINE e == ledger[r][l]
    <3>1. book[l] = [e EXCEPT !.state = "VALIDATED", !.secret = "none", !.target = "none"]
      BY <2>2 DEF book
    <3>2. e.state \in {"MIGRATED", "VERIFIED"} BY <1>2, <2>2 DEF In
    <3>3. e \in LineRecord BY <1>0, <3>2, LineShape DEF NoLine
    <3>4. book[l].state = "VALIDATED" BY <3>1, <3>3 DEF LineRecord
    <3>5. book[l] # NoLine BY <3>4 DEF NoLine
    <3>. QED BY <1>9, <3>2, <3>4, <3>5 DEF LineKept, Imported
  <2>. QED BY <2>1, <2>2
<1>11. RunKept(r) BY <1>7, <1>8, <1>9, <1>10 DEF RunKept
<1>. QED BY <1>6, <1>10, <1>11, SameKept DEF LedgerKept

LEMMA FlipsKept ==
    ASSUME MigrationIInv, NEW o \in Operators, NEW r \in RunIds, CmdShredFlips(o, r) PROVE LedgerKept
<1>0. MigrationTypes BY DEF MigrationIInv
<1>1. At(o, "shred") /\ r \in commands[o].live BY DEF CmdShredFlips
<1>2. runs[r] # NoRun /\ runs[r] \in RunRecord BY <1>0, <1>1, RunShape DEF MigrationIInv, ListedInv
<1>3. CASE ~(runs[r].state \in {"verifying", "complete"})
  BY <1>3, QuietKept DEF CmdShredFlips
<1>4. CASE runs[r].state \in {"verifying", "complete"}
  <2>1. PICK done \in SUBSET In(r, {"VERIFIED"}) : DisableLegacy(r, done)
    BY <1>4 DEF CmdShredFlips
  <2>. DEFINE book == [l \in Lines |-> IF l \in done
                                       THEN [ledger[r][l] EXCEPT !.state = "LEGACY_PATH_DISABLED"]
                                       ELSE ledger[r][l]]
              v == MaybeComplete(r, book, runs[r].state)
  <2>2. ledger' = [ledger EXCEPT ![r] = book] BY <2>1 DEF DisableLegacy
  <2>3. runs' = runs \/ runs' = [runs EXCEPT ![r].state = v] BY <2>1 DEF DisableLegacy
  <2>4. v \in {"complete", runs[r].state} BY DEF MaybeComplete
  <2>. HIDE DEF book, v
  <2>5. ledger'[r] = book BY <1>0, <2>2 DEF MigrationTypes
  <2>6. \A x \in RunIds : x # r => ledger'[x] = ledger[x] /\ runs'[x] = runs[x]
    BY <1>0, <2>2, <2>3 DEF MigrationTypes
  <2>7. runs'[r] # NoRun /\ runs'[r].from = runs[r].from
    BY <1>0, <1>2, <1>4, <2>3, <2>4 DEF MigrationTypes, RunRecord, NoRun
  <2>8. ASSUME NEW l \in Lines PROVE LineKept(r, l) /\ (ledger[r][l] # NoLine => book[l] # NoLine)
    <3>1. CASE l \notin done
      <4>1. book[l] = ledger[r][l] BY <3>1 DEF book
      <4>. QED BY <2>5, <4>1 DEF LineKept
    <3>2. CASE l \in done
      <4>. DEFINE e == ledger[r][l]
      <4>1. book[l] = [e EXCEPT !.state = "LEGACY_PATH_DISABLED"] BY <3>2 DEF book
      <4>2. e.state = "VERIFIED" BY <3>2 DEF In
      <4>3. e \in LineRecord BY <1>0, <4>2, LineShape DEF NoLine
      <4>4. book[l].state = "LEGACY_PATH_DISABLED" /\ book[l].secret = e.secret /\ book[l].name = e.name
        BY <4>1, <4>3 DEF LineRecord
      <4>5. book[l] # NoLine BY <4>4 DEF NoLine
      <4>. QED BY <2>5, <4>2, <4>4, <4>5 DEF LineKept, Imported
    <3>. QED BY <3>1, <3>2
  <2>9. RunKept(r) BY <1>2, <1>4, <2>5, <2>7, <2>8 DEF RunKept
  <2>. QED BY <2>6, <2>8, <2>9, SameKept DEF LedgerKept
<1>. QED BY <1>3, <1>4

LEMMA MigrationStepKept == ASSUME MigrationIInv, [MigrationNext]_migrationVars PROVE LedgerKept
<1>1. CASE UNCHANGED migrationVars BY <1>1, QuietKept DEF migrationVars
<1>2. CASE MigrationNext
  <2>1. migrationSteps' \in 0..MaxMigrationSteps
    BY <1>2, MigrationAssumption DEF MigrationNext, MigrationIInv, MigrationTypes
  <2>2. MigrationStep BY <1>2 DEF MigrationNext
  <2>3. ASSUME NEW o \in Operators, CmdPlanSubmits(o) PROVE LedgerKept
    BY <2>1, <2>3, CmdPlanSubmitsOK, CmdPlanSubmitsKept
  <2>4. ASSUME NEW o \in Operators, NEW t \in commands[o].todo, CmdApplyCreates(o, t) PROVE LedgerKept
    BY <2>4, QuietKept DEF CmdApplyCreates
  <2>5. ASSUME NEW o \in Operators, NEW r \in RunIds, CmdApply(o, r) PROVE LedgerKept
    BY <2>5, QuietKept DEF CmdApply
  <2>. QED BY <2>1, <2>2, <2>3, <2>4, <2>5, CmdPlanKept, CmdApplyMarksKept, CmdVerifyPostsKept,
              CmdResolveKept, AbortKept, FlipsKept, QuietMigrationOK, QuietKept DEF MigrationStep
<1>. QED BY <1>1, <1>2

-----------------------------------------------------------------------------
(* Migration: what the destruction of the vault relies on *)

\* Without a plan that died, a run has all its entries, or its plan is still going.
PlannedInv ==
    /\ \A r \in RunIds :
          \/ runs[r] = NoRun \/ runs[r].state = "aborted"
          \/ \A l \in Lines : ledger[r][l] # NoLine
          \/ \E o \in Operators : At(o, "plan") /\ commands[o].run = r
    /\ \A o \in Operators : At(o, "plan") => runs[commands[o].run].state \in {"planning", "aborted"}
\* Some run imported the whole of a snapshot.
Cleared(h) ==
    \E r \in RunIds : /\ runs[r] # NoRun /\ runs[r].from = h
                      /\ \A l \in Lines : ledger[r][l].state = "LEGACY_PATH_DISABLED"
ShredInv ==
    /\ \A o \in Operators : At(o, "shred") =>
          /\ \A r \in commands[o].live, l \in Lines : ledger[r][l] # NoLine
          /\ \A h \in commands[o].seen : Cleared(h)
    /\ vault.shredded => Cleared(vault.head)
\* The secret of an imported entry is live.
BackedInv ==
    \A r \in RunIds, l \in Lines :
        ledger[r][l].state \in Imported => scoped[ledger[r][l].secret].live

\* What keeps BackedInv: a secret is deleted only together with every entry that
\* counts as imported because of it.
DeletedAlone ==
    \A s \in ScopedIds : scoped[s].live /\ ~scoped'[s].live =>
        \A r \in RunIds, l \in Lines : ledger'[r][l].state \in Imported => ledger'[r][l].secret # s

\* Plans in progress stay as they are, unless one starts, submits or is interrupted.
PlanSame(p) == commands[p].cmd = "plan" \/ commands'[p].cmd = "plan" => commands'[p] = commands[p]

LEMMA OtherCommands ==
    ASSUME MigrationTypes, NEW o \in Operators, NEW c, commands' = [commands EXCEPT ![o] = c],
           commands[o].cmd # "plan", c.cmd # "plan"
    PROVE  \A p \in Operators : PlanSame(p)
BY DEF MigrationTypes, PlanSame

LEMMA PlansMove ==
    ASSUME MigrationTypes, MigrationStep
    PROVE  \/ \A p \in Operators : PlanSame(p)
           \/ \E o \in Operators : CmdPlanSubmits(o) \/ Interrupted(o) \/ \E r \in RunIds : CmdPlan(o, r)
<1>1. ASSUME NEW o \in Operators, NEW t \in commands[o].todo, CmdApplyCreates(o, t)
      PROVE  \A p \in Operators : PlanSame(p)
  <2>1. commands[o].cmd = "apply" BY <1>1 DEF CmdApplyCreates, At
  <2>2. ASSUME NEW s PROVE Marking(commands[o], t, s).cmd = "mark" BY DEF Marking
  <2>3. AtPrompt.cmd = "none" BY DEF AtPrompt
  <2>4. \/ commands' = [commands EXCEPT ![o] = AtPrompt]
        \/ \E s \in ScopedIds : commands' = [commands EXCEPT ![o] = Marking(commands[o], t, s)]
    BY <1>1 DEF CmdApplyCreates, Becomes
  <2>5. CASE commands' = [commands EXCEPT ![o] = AtPrompt] BY <2>1, <2>3, <2>5, OtherCommands
  <2>6. ASSUME NEW s \in ScopedIds, commands' = [commands EXCEPT ![o] = Marking(commands[o], t, s)]
        PROVE  \A p \in Operators : PlanSame(p)
    BY <2>1, <2>2, <2>6, OtherCommands
  <2>. QED BY <2>4, <2>5, <2>6
<1>2. ASSUME NEW o \in Operators, CmdApplyMarks(o) PROVE \A p \in Operators : PlanSame(p)
  <2>. DEFINE c == [cmd |-> "apply", run |-> commands[o].run, values |-> commands[o].values,
                    todo |-> {t \in commands[o].todo : t.line # commands[o].line}]
  <2>1. commands[o].cmd = "mark" /\ commands' = [commands EXCEPT ![o] = c]
    BY <1>2 DEF CmdApplyMarks, At, Becomes
  <2>2. c.cmd = "apply" OBVIOUS
  <2>. HIDE DEF c
  <2>. QED BY <2>1, <2>2, OtherCommands
<1>3. ASSUME NEW o \in Operators, CmdVerifyPosts(o) \/ CmdShredRemoves(o)
      PROVE  \A p \in Operators : PlanSame(p)
  <2>1. commands[o].cmd \in {"verify", "shred"} /\ commands' = [commands EXCEPT ![o] = AtPrompt]
    BY <1>3 DEF CmdVerifyPosts, CmdShredRemoves, At, Becomes
  <2>2. AtPrompt.cmd = "none" BY DEF AtPrompt
  <2>. QED BY <2>1, <2>2, OtherCommands
<1>4. ASSUME NEW o \in Operators, CmdShred(o) PROVE \A p \in Operators : PlanSame(p)
  <2>. DEFINE c == [cmd |-> "shred", live |-> LiveRuns, seen |-> {}]
  <2>1. commands[o].cmd = "none" /\ commands' = [commands EXCEPT ![o] = c]
    BY <1>4 DEF CmdShred, At, Becomes
  <2>2. c.cmd = "shred" OBVIOUS
  <2>. HIDE DEF c
  <2>. QED BY <2>1, <2>2, OtherCommands
<1>5. ASSUME NEW o \in Operators, NEW r \in RunIds, CmdApply(o, r) PROVE \A p \in Operators : PlanSame(p)
  <2>. DEFINE c == [cmd |-> "apply", run |-> r, values |-> Contents[vault.head],
                    todo |-> {[line |-> l, name |-> ledger[r][l].name] : l \in In(r, {"VALIDATED"})}]
  <2>1. commands[o].cmd = "none" /\ commands' = [commands EXCEPT ![o] = c]
    BY <1>5 DEF CmdApply, At, Becomes
  <2>2. c.cmd = "apply" OBVIOUS
  <2>. HIDE DEF c
  <2>. QED BY <2>1, <2>2, OtherCommands
<1>6. ASSUME NEW o \in Operators, NEW r \in RunIds, CmdVerify(o, r) PROVE \A p \in Operators : PlanSame(p)
  <2>. DEFINE c == [cmd |-> "verify", run |-> r]
  <2>1. commands[o].cmd = "none" /\ commands' = [commands EXCEPT ![o] = c]
    BY <1>6 DEF CmdVerify, At, Becomes
  <2>2. c.cmd = "verify" OBVIOUS
  <2>. HIDE DEF c
  <2>. QED BY <2>1, <2>2, OtherCommands
<1>7. ASSUME NEW o \in Operators, NEW r \in RunIds, CmdShredFlips(o, r) PROVE \A p \in Operators : PlanSame(p)
  <2>. DEFINE c == [cmd |-> "shred", live |-> commands[o].live \ {r},
                    seen |-> commands[o].seen \cup {runs[r].from}]
  <2>1. commands[o].cmd = "shred" BY <1>7 DEF CmdShredFlips, At
  <2>2. commands' = [commands EXCEPT ![o] = c] \/ commands' = [commands EXCEPT ![o] = AtPrompt]
    BY <1>7 DEF CmdShredFlips, Becomes
  <2>3. c.cmd = "shred" /\ AtPrompt.cmd = "none" BY DEF AtPrompt
  <2>. HIDE DEF c
  <2>. QED BY <2>1, <2>2, <2>3, OtherCommands
<1>8. ASSUME UNCHANGED commands PROVE \A p \in Operators : PlanSame(p) BY <1>8 DEF PlanSame
<1>. QED BY <1>1, <1>2, <1>3, <1>4, <1>5, <1>6, <1>7, <1>8
         DEF MigrationStep, PostMigrationAbort, CmdResolve, VaultAdvances

LEMMA PlannedStepOK ==
    ASSUME MigrationIInv, PlannedInv, ~PlanHalfSeen, [MigrationNext]_migrationVars
    PROVE  PlannedInv'
<1>0. MigrationTypes /\ LedgerKept BY MigrationStepKept DEF MigrationIInv
<1>1. \A o \in Operators : At(o, "plan") => /\ commands[o].run \in RunIds
                                            /\ \A l \in Lines : ledger[commands[o].run][l] = NoLine
  BY <1>0, CommandShape DEF PlanCommand, MigrationIInv, PlansInv
<1>2. ASSUME NEW o \in Operators, At(o, "plan")
      PROVE  runs'[commands[o].run].state \in {"planning", "aborted"}
  BY <1>0, <1>1, <1>2 DEF PlannedInv, LedgerKept, RunKept
<1>3. ASSUME \A p \in Operators :
                At(p, "plan") => \/ commands'[p] = commands[p]
                                 \/ runs[commands[p].run].state = "aborted"
                                 \/ \A l \in Lines : ledger'[commands[p].run][l] # NoLine,
             \A p \in Operators :
                commands'[p].cmd = "plan" => \/ commands'[p] = commands[p]
                                             \/ runs'[commands'[p].run].state \in {"planning", "aborted"}
      PROVE  PlannedInv'
  <2>1. ASSUME NEW r \in RunIds
        PROVE  \/ runs'[r] = NoRun \/ runs'[r].state = "aborted"
               \/ \A l \in Lines : ledger'[r][l] # NoLine
               \/ \E o \in Operators : commands'[o].cmd = "plan" /\ commands'[o].run = r
    <3>1. RunKept(r) BY <1>0 DEF LedgerKept
    <3>2. CASE runs[r] = NoRun BY <3>1, <3>2 DEF RunKept
    <3>3. CASE runs[r].state = "aborted" BY <3>1, <3>3 DEF RunKept
    <3>4. CASE \A l \in Lines : ledger[r][l] # NoLine BY <3>1, <3>4 DEF RunKept
    <3>5. ASSUME NEW o \in Operators, At(o, "plan"), commands[o].run = r
          PROVE  \/ runs'[r].state = "aborted"
                 \/ \A l \in Lines : ledger'[r][l] # NoLine
                 \/ commands'[o].cmd = "plan" /\ commands'[o].run = r
      <4>1. CASE commands'[o] = commands[o] BY <3>5, <4>1 DEF At
      <4>2. CASE runs[r].state = "aborted" BY <3>1, <4>2 DEF RunKept
      <4>. QED BY <1>3, <3>5, <4>1, <4>2
    <3>. QED BY <3>2, <3>3, <3>4, <3>5 DEF PlannedInv
  <2>2. ASSUME NEW o \in Operators, commands'[o].cmd = "plan"
        PROVE  runs'[commands'[o].run].state \in {"planning", "aborted"}
    <3>1. CASE commands'[o] = commands[o] BY <1>2, <2>2, <3>1 DEF At
    <3>. QED BY <1>3, <2>2, <3>1
  <2>. QED BY <2>1, <2>2 DEF PlannedInv, At
<1>4. CASE UNCHANGED migrationVars BY <1>3, <1>4 DEF migrationVars
<1>5. CASE \A p \in Operators : PlanSame(p) BY <1>3, <1>5 DEF PlanSame, At
<1>6. ASSUME NEW o \in Operators, CmdPlanSubmits(o), migrationSteps' \in 0..MaxMigrationSteps PROVE PlannedInv'
  <2>1. \A l \in Lines : ledger'[commands[o].run][l] # NoLine BY <1>6, CmdPlanSubmitsOK
  <2>2. commands'[o].cmd = "none" /\ \A p \in Operators : p # o => commands'[p] = commands[p]
    BY <1>0, <1>6 DEF CmdPlanSubmits, Becomes, AtPrompt, MigrationTypes
  <2>. QED BY <1>3, <2>1, <2>2
<1>7. ASSUME NEW o \in Operators, Interrupted(o) PROVE PlannedInv'
  <2>1. commands'[o].cmd = "none" /\ \A p \in Operators : p # o => commands'[p] = commands[p]
    BY <1>0, <1>7 DEF Interrupted, Becomes, AtPrompt, MigrationTypes
  <2>2. At(o, "plan") => runs[commands[o].run].state = "aborted"
    BY <1>7 DEF Interrupted, RunOpen, PlannedInv
  <2>. QED BY <1>3, <2>1, <2>2
<1>8. ASSUME NEW o \in Operators, NEW r \in RunIds, CmdPlan(o, r) PROVE PlannedInv'
  <2>1. commands'[o].run = r /\ \A p \in Operators : p # o => commands'[p] = commands[p]
    BY <1>0, <1>8 DEF CmdPlan, Becomes, MigrationTypes
  <2>2. runs'[r].state = "planning" BY <1>0, <1>8 DEF CmdPlan, StartRun, MigrationTypes
  <2>3. ~At(o, "plan") BY <1>8 DEF CmdPlan, At
  <2>. QED BY <1>3, <2>1, <2>2, <2>3
<1>9. CASE MigrationNext
  <2>1. migrationSteps' \in 0..MaxMigrationSteps
    BY <1>9, MigrationAssumption DEF MigrationNext, MigrationIInv, MigrationTypes
  <2>2. MigrationStep BY <1>9 DEF MigrationNext
  <2>. QED BY <1>0, <1>5, <1>6, <1>7, <1>8, <2>1, <2>2, PlansMove
<1>. QED BY <1>4, <1>9

LEMMA ShredsMove ==
    ASSUME MigrationTypes, MigrationStep, NEW p \in Operators, commands'[p].cmd = "shred"
    PROVE  commands'[p] = commands[p] \/ CmdShred(p) \/ \E r \in RunIds : CmdShredFlips(p, r)
<1>1. ASSUME NEW o \in Operators, NEW c, commands' = [commands EXCEPT ![o] = c], c.cmd # "shred"
      PROVE  commands'[p] = commands[p]
  BY <1>1 DEF MigrationTypes
<1>2. AtPrompt.cmd = "none" BY DEF AtPrompt
<1>3. ASSUME NEW o \in Operators, NEW c, commands' = [commands EXCEPT ![o] = c], p # o
      PROVE  commands'[p] = commands[p]
  BY <1>3 DEF MigrationTypes
<1>4. ASSUME NEW o \in Operators, NEW t \in commands[o].todo, CmdApplyCreates(o, t)
      PROVE  commands'[p] = commands[p]
  <2>1. ASSUME NEW s PROVE Marking(commands[o], t, s).cmd = "mark" BY DEF Marking
  <2>2. \/ commands' = [commands EXCEPT ![o] = AtPrompt]
        \/ \E s \in ScopedIds : commands' = [commands EXCEPT ![o] = Marking(commands[o], t, s)]
    BY <1>4 DEF CmdApplyCreates, Becomes
  <2>3. CASE commands' = [commands EXCEPT ![o] = AtPrompt] BY <1>1, <1>2, <2>3
  <2>4. ASSUME NEW s \in ScopedIds, commands' = [commands EXCEPT ![o] = Marking(commands[o], t, s)]
        PROVE  commands'[p] = commands[p]
    BY <1>1, <2>1, <2>4
  <2>. QED BY <2>2, <2>3, <2>4
<1>5. ASSUME NEW o \in Operators, CmdApplyMarks(o) PROVE commands'[p] = commands[p]
  <2>. DEFINE c == [cmd |-> "apply", run |-> commands[o].run, values |-> commands[o].values,
                    todo |-> {t \in commands[o].todo : t.line # commands[o].line}]
  <2>1. commands' = [commands EXCEPT ![o] = c] BY <1>5 DEF CmdApplyMarks, Becomes
  <2>2. c.cmd = "apply" OBVIOUS
  <2>. HIDE DEF c
  <2>. QED BY <1>1, <2>1, <2>2
<1>6. ASSUME NEW o \in Operators,
             CmdPlanSubmits(o) \/ Interrupted(o) \/ CmdVerifyPosts(o) \/ CmdShredRemoves(o)
      PROVE  commands'[p] = commands[p]
  <2>1. commands' = [commands EXCEPT ![o] = AtPrompt]
    BY <1>6 DEF CmdPlanSubmits, Interrupted, CmdVerifyPosts, CmdShredRemoves, Becomes
  <2>. QED BY <1>1, <1>2, <2>1
<1>7. ASSUME NEW o \in Operators, NEW r \in RunIds, CmdPlan(o, r) \/ CmdVerify(o, r) \/ CmdApply(o, r)
      PROVE  commands'[p] = commands[p]
  <2>1. commands'[o].cmd \in {"plan", "verify", "apply"}
    BY <1>7 DEF CmdPlan, CmdVerify, CmdApply, Becomes, MigrationTypes
  <2>2. p # o => commands'[p] = commands[p]
    BY <1>7 DEF CmdPlan, CmdVerify, CmdApply, Becomes, MigrationTypes
  <2>. QED BY <2>1, <2>2
<1>8. ASSUME NEW o \in Operators, CmdShred(o) \/ \E r \in RunIds : CmdShredFlips(o, r), p # o
      PROVE  commands'[p] = commands[p]
  <2>1. \E c : commands' = [commands EXCEPT ![o] = c] BY <1>8 DEF CmdShred, CmdShredFlips, Becomes
  <2>. QED BY <1>3, <1>8, <2>1
<1>. QED BY <1>4, <1>5, <1>6, <1>7, <1>8
         DEF MigrationStep, PostMigrationAbort, CmdResolve, VaultAdvances

\* A snapshot is cleared after the step.
ClearedNext(h) ==
    \E r \in RunIds : /\ runs'[r] # NoRun /\ runs'[r].from = h
                      /\ \A l \in Lines : ledger'[r][l].state = "LEGACY_PATH_DISABLED"

LEMMA ShredStepOK ==
    ASSUME MigrationIInv, PlannedInv, ShredInv, ~PlanHalfSeen, [MigrationNext]_migrationVars
    PROVE  ShredInv'
<1>0. MigrationTypes /\ MigrationTypes' /\ LedgerKept BY MigrationStepOK, MigrationStepKept DEF MigrationIInv
<1>1. ASSUME NEW h, Cleared(h) PROVE ClearedNext(h)
  <2>1. PICK r \in RunIds : /\ runs[r] # NoRun /\ runs[r].from = h
                            /\ \A l \in Lines : ledger[r][l].state = "LEGACY_PATH_DISABLED"
    BY <1>1 DEF Cleared
  <2>2. /\ runs'[r] # NoRun /\ runs'[r].from = h
        /\ \A l \in Lines : ledger'[r][l].state = "LEGACY_PATH_DISABLED"
    BY <1>0, <2>1 DEF LedgerKept, RunKept, LineKept
  <2>. QED BY <2>2 DEF ClearedNext
<1>2. \A r \in RunIds, l \in Lines : ledger[r][l] # NoLine => ledger'[r][l] # NoLine
  BY <1>0 DEF LedgerKept, RunKept
<1>3. ASSUME NEW o \in Operators, At(o, "shred") PROVE commands[o].live \subseteq RunIds
  BY <1>0, <1>3, CommandShape DEF ShredCommand
<1>4. ASSUME NEW o \in Operators, commands'[o] = commands[o], commands'[o].cmd = "shred"
      PROVE  /\ \A r \in commands'[o].live, l \in Lines : ledger'[r][l] # NoLine
             /\ \A h \in commands'[o].seen : ClearedNext(h)
  <2>1. At(o, "shred") BY <1>4 DEF At
  <2>2. /\ \A r \in commands[o].live, l \in Lines : ledger[r][l] # NoLine
        /\ \A h \in commands[o].seen : Cleared(h)
    BY <2>1 DEF ShredInv
  <2>3. \A h \in commands[o].seen : ClearedNext(h) BY <1>1, <2>2
  <2>4. \A r \in commands[o].live, l \in Lines : ledger'[r][l] # NoLine BY <1>2, <1>3, <2>1, <2>2
  <2>. QED BY <1>4, <2>3, <2>4
<1>5. ASSUME NEW o \in Operators, CmdShred(o)
      PROVE  /\ \A r \in commands'[o].live, l \in Lines : ledger'[r][l] # NoLine
             /\ \A h \in commands'[o].seen : ClearedNext(h)
  <2>1. commands'[o] = [cmd |-> "shred", live |-> LiveRuns, seen |-> {}] /\ ledger' = ledger
    BY <1>0, <1>5 DEF CmdShred, Becomes, MigrationTypes
  <2>2. \A p \in Operators : ~At(p, "plan") BY <1>5 DEF CmdShred
  <2>3. \A r \in LiveRuns, l \in Lines : ledger[r][l] # NoLine BY <2>2 DEF LiveRuns, PlannedInv
  <2>. QED BY <2>1, <2>3
<1>6. ASSUME NEW o \in Operators, NEW r \in RunIds, CmdShredFlips(o, r), commands'[o].cmd = "shred"
      PROVE  /\ \A x \in commands'[o].live, l \in Lines : ledger'[x][l] # NoLine
             /\ \A h \in commands'[o].seen : ClearedNext(h)
  <2>1. At(o, "shred") /\ r \in commands[o].live BY <1>6 DEF CmdShredFlips
  <2>. DEFINE next == [cmd |-> "shred", live |-> commands[o].live \ {r},
                       seen |-> commands[o].seen \cup {runs[r].from}]
  <2>2. commands'[o] = IF ~AllDisabled(ledger'[r]) THEN AtPrompt ELSE next
    BY <1>0, <1>6 DEF CmdShredFlips, Becomes, MigrationTypes
  <2>3. AllDisabled(ledger'[r]) /\ commands'[o] = next BY <1>6, <2>2 DEF AtPrompt
  <2>4. runs[r] # NoRun BY <2>1 DEF MigrationIInv, ListedInv
  <2>5. runs'[r] # NoRun /\ runs'[r].from = runs[r].from BY <1>0, <2>4 DEF LedgerKept, RunKept
  <2>6. \A l \in Lines : ledger'[r][l] # NoLine BY <1>2, <2>1 DEF ShredInv
  <2>7. \A l \in Lines : ledger'[r][l].state = "LEGACY_PATH_DISABLED"
    <3>1. \A l \in Lines : ledger'[r][l] \in LineRecord BY <1>0, <2>6 DEF MigrationTypes
    <3>. QED BY <2>3, <3>1 DEF AllDisabled, LineRecord, EntryStates
  <2>8. ClearedNext(runs[r].from) BY <2>5, <2>7 DEF ClearedNext
  <2>9. \A h \in commands[o].seen : ClearedNext(h) BY <1>1, <2>1 DEF ShredInv
  <2>10. \A x \in commands[o].live, l \in Lines : ledger'[x][l] # NoLine
    BY <1>2, <1>3, <2>1 DEF ShredInv
  <2>11. commands'[o].live = commands[o].live \ {r} /\ commands'[o].seen = commands[o].seen \cup {runs[r].from}
    BY <2>3
  <2>12. \A h \in commands'[o].seen : ClearedNext(h) BY <2>8, <2>9, <2>11
  <2>. QED BY <2>10, <2>11, <2>12
<1>7. ASSUME NEW o \in Operators, commands'[o].cmd = "shred"
      PROVE  /\ \A r \in commands'[o].live, l \in Lines : ledger'[r][l] # NoLine
             /\ \A h \in commands'[o].seen : ClearedNext(h)
  <2>1. CASE commands'[o] = commands[o] BY <1>4, <1>7, <2>1
  <2>2. CASE commands'[o] # commands[o]
    <3>1. MigrationStep BY <2>2 DEF MigrationNext, migrationVars
    <3>2. CmdShred(o) \/ \E r \in RunIds : CmdShredFlips(o, r) BY <1>0, <1>7, <2>2, <3>1, ShredsMove
    <3>. QED BY <1>5, <1>6, <1>7, <3>2
  <2>. QED BY <2>1, <2>2
<1>8. ASSUME vault'.shredded PROVE ClearedNext(vault'.head)
  <2>1. CASE vault' = vault BY <1>1, <1>8, <2>1 DEF ShredInv
  <2>2. CASE vault' # vault
    <3>1. MigrationStep BY <2>2 DEF MigrationNext, migrationVars
    <3>2. ~\E h \in Heads : VaultAdvances(h) BY <1>0, <1>8 DEF VaultAdvances, MigrationTypes
    <3>3. PICK o \in Operators : CmdShredRemoves(o)
      BY <2>2, <3>1, <3>2 DEF MigrationStep, CmdPlanSubmits, Interrupted, CmdApplyMarks, CmdVerifyPosts,
            CmdShred, CmdApplyCreates, CmdPlan, CmdApply, CmdVerify, PostMigrationAbort, CmdShredFlips,
            CmdResolve
    <3>4. At(o, "shred") /\ vault.head \in commands[o].seen BY <3>3 DEF CmdShredRemoves, MayRemove
    <3>5. vault'.head = vault.head BY <1>0, <3>3 DEF CmdShredRemoves, MigrationTypes
    <3>6. ClearedNext(vault.head) BY <1>1, <3>4 DEF ShredInv
    <3>. QED BY <3>5, <3>6
  <2>. QED BY <2>1, <2>2
<1>. QED BY <1>7, <1>8 DEF ShredInv, At, Cleared, ClearedNext

LEMMA BackedStepOK ==
    ASSUME MigrationIInv, BackedInv, [MigrationNext]_migrationVars, [DeletedAlone]_migrationVars
    PROVE  BackedInv'
<1>0. MigrationTypes' /\ LedgerKept BY MigrationStepOK, MigrationStepKept DEF MigrationIInv
<1>1. ASSUME NEW r \in RunIds, NEW l \in Lines, ledger'[r][l].state \in Imported
      PROVE  scoped'[ledger'[r][l].secret].live
  <2>1. CASE ledger[r][l].state \in Imported /\ ledger'[r][l].secret = ledger[r][l].secret
    <3>. DEFINE s == ledger[r][l].secret
    <3>1. s \in ScopedIds /\ scoped[s].live BY <2>1 DEF BackedInv, MigrationIInv, WrittenInv
    <3>2. CASE UNCHANGED migrationVars BY <2>1, <3>1, <3>2 DEF migrationVars
    <3>3. CASE DeletedAlone BY <1>1, <2>1, <3>1, <3>3 DEF DeletedAlone
    <3>. QED BY <3>2, <3>3
  <2>. QED BY <1>0, <1>1, <2>1 DEF LedgerKept, LineKept
<1>. QED BY <1>1 DEF BackedInv

LEMMA ShredInitOK == MigrationInit => PlannedInv /\ ShredInv /\ BackedInv
<1>. SUFFICES ASSUME MigrationInit PROVE PlannedInv /\ ShredInv /\ BackedInv OBVIOUS
<1>1. \A r \in RunIds, l \in Lines : ledger[r][l].state = "none" BY DEF MigrationInit, NoLine
<1>2. \A r \in RunIds : runs[r] = NoRun BY DEF MigrationInit
<1>3. \A o \in Operators : commands[o].cmd = "none" BY DEF MigrationInit, AtPrompt
<1>4. ~vault.shredded BY DEF MigrationInit
<1>. QED BY <1>1, <1>2, <1>3, <1>4 DEF PlannedInv, ShredInv, BackedInv, At, Imported

LEMMA ClearedIsKept ==
    ASSUME MigrationIInv, ShredInv, BackedInv PROVE ShredLosesNothing
<1>. SUFFICES ASSUME vault.shredded, NEW l \in Lines
              PROVE  \E s \in ScopedIds : scoped[s].live /\ Contents[vault.head][l] \in scoped[s].held
  BY DEF ShredLosesNothing
<1>1. PICK r \in RunIds : /\ runs[r] # NoRun /\ runs[r].from = vault.head
                          /\ \A k \in Lines : ledger[r][k].state = "LEGACY_PATH_DISABLED"
  BY DEF ShredInv, Cleared
<1>. DEFINE e == ledger[r][l]
<1>2. e.state = "LEGACY_PATH_DISABLED" BY <1>1
<1>3. /\ e.secret \in ScopedIds /\ e.target \in scoped[e.secret].held /\ e.target = e.source
      /\ scoped[e.secret].live
  BY <1>2 DEF MigrationIInv, WrittenInv, BackedInv, Imported
<1>4. e # NoLine BY <1>2 DEF NoLine
<1>5. e.source = Contents[vault.head][l] BY <1>1, <1>4 DEF MigrationIInv, SourcesInv
<1>. QED BY <1>3, <1>5

\* Whatever runs, people and interruptions there are, as long as no plan dies between
\* its two requests (MigrateShred) and no abort deletes a secret that another entry
\* counts as imported (migrate.rs cmd_shred and cmd_apply, migration_ledger.rs
\* abort_run): the ledger stays consistent, and the legacy vault is destroyed only
\* when every value of its last snapshot is a live scoped secret.
THEOREM ShredKeepsEveryValue ==
    ASSUME ~PlanHalfSeen
    PROVE  MigrationSpec /\ [][DeletedAlone]_migrationVars => []MigrationSound
<1>. DEFINE Inv == MigrationIInv /\ PlannedInv /\ ShredInv /\ BackedInv
<1>1. MigrationInit => Inv BY MigrationInitOK, ShredInitOK
<1>2. Inv /\ [MigrationNext]_migrationVars /\ [DeletedAlone]_migrationVars => Inv'
  BY MigrationStepOK, PlannedStepOK, ShredStepOK, BackedStepOK
<1>3. Inv => MigrationSound BY MigrationIInvBooks, ClearedIsKept DEF MigrationSound
<1>. QED BY <1>1, <1>2, <1>3, PTL DEF MigrationSpec

-----------------------------------------------------------------------------
(* Migration by one person in one run *)

\* The secret of an entry that is imported, or about to be, has the entry's name;
\* what an apply has left to do is named as the entries are.
NamesInv ==
    /\ \A r \in RunIds, l \in Lines : ledger[r][l].state \in Imported =>
          scoped[ledger[r][l].secret].name = ledger[r][l].name
    /\ \A o \in Operators : commands[o].cmd \in {"apply", "mark"} =>
          \A t \in commands[o].todo : ledger[commands[o].run][t.line].name = t.name
    /\ \A o \in Operators : commands[o].cmd = "mark" =>
          scoped[commands[o].secret].name = ledger[commands[o].run][commands[o].line].name

\* A step that neither marks nor creates leaves the names of imported entries alone.
LEMMA RestingNames ==
    ASSUME MigrationIInv, NamesInv, LedgerKept, \A o \in Operators : ~CmdApplyMarks(o),
           \A s \in ScopedIds : scoped'[s].name = scoped[s].name,
           \A o \in Operators : commands'[o].cmd \notin {"apply", "mark"}
    PROVE  NamesInv'
<1>1. ASSUME NEW r \in RunIds, NEW l \in Lines, ledger'[r][l].state \in Imported
      PROVE  scoped'[ledger'[r][l].secret].name = ledger'[r][l].name
  <2>1. /\ ledger[r][l].state \in Imported /\ ledger'[r][l].secret = ledger[r][l].secret
        /\ ledger'[r][l].name = ledger[r][l].name
    BY <1>1 DEF LedgerKept, LineKept
  <2>2. ledger[r][l].secret \in ScopedIds BY <2>1 DEF MigrationIInv, WrittenInv
  <2>. QED BY <2>1, <2>2 DEF NamesInv
<1>. QED BY <1>1 DEF NamesInv

LEMMA CmdApplyNames ==
    ASSUME MigrationIInv, NamesInv, \A p, q \in Operators : p = q, NEW o \in Operators, NEW r \in RunIds,
           CmdApply(o, r)
    PROVE  NamesInv'
<1>0. MigrationTypes BY DEF MigrationIInv
<1>. DEFINE todo == {[line |-> l, name |-> ledger[r][l].name] : l \in In(r, {"VALIDATED"})}
<1>1. /\ commands'[o] = [cmd |-> "apply", run |-> r, values |-> Contents[vault.head], todo |-> todo]
      /\ ledger' = ledger /\ scoped' = scoped
  BY <1>0 DEF CmdApply, Becomes, MigrationTypes
<1>2. \A t \in todo : ledger[r][t.line].name = t.name OBVIOUS
<1>. HIDE DEF todo
<1>3. commands'[o].cmd = "apply" /\ commands'[o].run = r /\ commands'[o].todo = todo BY <1>1
<1>. QED BY <1>1, <1>2, <1>3 DEF NamesInv

LEMMA CmdApplyCreatesNames ==
    ASSUME MigrationIInv, NamesInv, \A p, q \in Operators : p = q, NEW o \in Operators,
           NEW t \in commands[o].todo, CmdApplyCreates(o, t)
    PROVE  NamesInv'
<1>0. MigrationTypes BY DEF MigrationIInv
<1>1. commands[o].cmd = "apply" /\ ledger' = ledger BY DEF CmdApplyCreates, At
<1>2. commands[o].run \in RunIds /\ t.line \in Lines
  BY <1>0, <1>1, CommandShape DEF ApplyCommand, Todo, At
<1>. DEFINE value == commands[o].values[t.line]
            r == commands[o].run
<1>3. \A u \in commands[o].todo : ledger[r][u.line].name = u.name BY <1>1 DEF NamesInv
<1>4. ASSUME NEW s \in ScopedIds, commands' = [commands EXCEPT ![o] = Marking(commands[o], t, s)],
             scoped'[s].name = t.name,
             \A u \in ScopedIds : scoped[u].held # {} => scoped'[u].name = scoped[u].name
      PROVE  NamesInv'
  <2>1. commands'[o] = Marking(commands[o], t, s) BY <1>0, <1>4 DEF MigrationTypes
  <2>2. /\ commands'[o].run = r /\ commands'[o].todo = commands[o].todo /\ commands'[o].secret = s
        /\ commands'[o].line = t.line
    BY <2>1 DEF Marking
  <2>3. ASSUME NEW x \in RunIds, NEW l \in Lines, ledger[x][l].state \in Imported
        PROVE  scoped'[ledger[x][l].secret].name = ledger[x][l].name
    BY <1>4, <2>3 DEF NamesInv, MigrationIInv, WrittenInv
  <2>. QED BY <1>1, <1>3, <1>4, <2>2, <2>3 DEF NamesInv
<1>5. CASE Occupied(t.name) /\ ~\E s \in ScopedIds : Adoptable(s, t.name, value)
  <2>1. scoped' = scoped /\ commands' = [commands EXCEPT ![o] = AtPrompt]
    BY <1>5 DEF CmdApplyCreates, Becomes
  <2>2. commands'[o].cmd = "none" BY <1>0, <2>1 DEF MigrationTypes, AtPrompt
  <2>. QED BY <1>1, <2>1, <2>2 DEF NamesInv
<1>6. CASE Occupied(t.name) /\ \E s \in ScopedIds : Adoptable(s, t.name, value)
  <2>1. scoped' = scoped BY <1>6 DEF CmdApplyCreates
  <2>2. PICK s \in ScopedIds : /\ Adoptable(s, t.name, value)
                               /\ commands' = [commands EXCEPT ![o] = Marking(commands[o], t, s)]
    BY <1>6 DEF CmdApplyCreates, Becomes
  <2>. QED BY <1>4, <2>1, <2>2 DEF Adoptable
<1>7. CASE ~Occupied(t.name)
  <2>1. PICK s \in ScopedIds :
          /\ scoped[s] = Free
          /\ scoped' = [scoped EXCEPT ![s] =
                [live |-> TRUE, held |-> {value}, name |-> t.name]]
          /\ commands' = [commands EXCEPT ![o] = Marking(commands[o], t, s)]
    BY <1>7 DEF CmdApplyCreates, Becomes
  <2>2. scoped[s].held = {} BY <2>1 DEF Free
  <2>3. scoped'[s].name = t.name /\ \A u \in ScopedIds : u # s => scoped'[u] = scoped[u]
    BY <1>0, <2>1 DEF MigrationTypes
  <2>. QED BY <1>4, <2>1, <2>2, <2>3
<1>. QED BY <1>5, <1>6, <1>7

LEMMA CmdApplyMarksNames ==
    ASSUME MigrationIInv, NamesInv, \A p, q \in Operators : p = q, NEW o \in Operators, CmdApplyMarks(o)
    PROVE  NamesInv'
<1>0. MigrationTypes BY DEF MigrationIInv
<1>. DEFINE c == commands[o]
            r == c.run
            l == c.line
            e == [ledger[r][l] EXCEPT !.state = "MIGRATED", !.secret = c.secret,
                                      !.target = c.values[c.line]]
            todo == {t \in c.todo : t.line # c.line}
<1>1. c.cmd = "mark" /\ MarkMigrated(r, l, c.secret, c.values[c.line]) /\ scoped' = scoped
  BY DEF CmdApplyMarks, At
<1>2. r \in RunIds /\ l \in Lines BY <1>0, <1>1, CommandShape DEF MarkCommand, At
<1>3. commands'[o] = [cmd |-> "apply", run |-> r, values |-> c.values, todo |-> todo]
  BY <1>0 DEF CmdApplyMarks, Becomes, MigrationTypes
<1>4. /\ \A t \in todo : ledger[r][t.line].name = t.name
      /\ scoped[c.secret].name = ledger[r][l].name
  BY <1>1 DEF NamesInv
<1>. HIDE DEF todo
<1>5. commands'[o].cmd = "apply" /\ commands'[o].run = r /\ commands'[o].todo = todo BY <1>3
<1>6. \A t \in todo : t.line \in Lines
  BY <1>0, <1>1, CommandShape DEF MarkCommand, At, Todo, todo
<1>7. CASE UNCHANGED <<runs, ledger>> BY <1>1, <1>4, <1>5, <1>7 DEF NamesInv
<1>8. CASE ~UNCHANGED <<runs, ledger>>
  <2>1. ledger[r][l].state = "VALIDATED" /\ ledger' = [ledger EXCEPT ![r][l] = e]
    BY <1>1, <1>8 DEF MarkMigrated
  <2>2. ledger[r][l] \in LineRecord BY <1>0, <1>2, <2>1, LineShape DEF NoLine
  <2>3. e.secret = c.secret /\ e.name = ledger[r][l].name BY <2>2 DEF LineRecord
  <2>. HIDE DEF e
  <2>4. /\ ledger'[r][l] = e
        /\ \A x \in RunIds, k \in Lines : x # r \/ k # l => ledger'[x][k] = ledger[x][k]
    BY <1>0, <1>2, <2>1 DEF MigrationTypes
  <2>5. \A k \in Lines : ledger'[r][k].name = ledger[r][k].name BY <1>2, <2>3, <2>4
  <2>6. ASSUME NEW x \in RunIds, NEW k \in Lines, ledger'[x][k].state \in Imported
        PROVE  scoped'[ledger'[x][k].secret].name = ledger'[x][k].name
    <3>1. CASE x = r /\ k = l BY <1>1, <1>4, <2>3, <2>4, <3>1
    <3>2. CASE x # r \/ k # l BY <1>1, <2>4, <2>6, <3>2 DEF NamesInv
    <3>. QED BY <3>1, <3>2
  <2>7. \A t \in todo : ledger'[r][t.line].name = t.name BY <1>4, <1>6, <2>5
  <2>. QED BY <1>5, <2>6, <2>7 DEF NamesInv
<1>. QED BY <1>7, <1>8

LEMMA NamesStepOK ==
    ASSUME MigrationIInv, NamesInv, \A p, q \in Operators : p = q, [MigrationNext]_migrationVars
    PROVE  NamesInv'
<1>0. MigrationTypes /\ LedgerKept BY MigrationStepKept DEF MigrationIInv
<1>1. CASE UNCHANGED migrationVars BY <1>1 DEF migrationVars, NamesInv
<1>2. ASSUME NEW o \in Operators,
             \/ CmdPlanSubmits(o) \/ Interrupted(o) \/ CmdVerifyPosts(o) \/ CmdShred(o) \/ CmdShredRemoves(o)
             \/ \E r \in RunIds :
                  \/ CmdPlan(o, r) \/ CmdVerify(o, r) \/ PostMigrationAbort(o, r) \/ CmdShredFlips(o, r)
                  \/ \E l \in Lines, name \in FreeNames : CmdResolve(o, r, l, name)
      PROVE  NamesInv'
  <2>1. commands'[o].cmd \notin {"apply", "mark"}
    BY <1>0, <1>2 DEF CmdPlanSubmits, Interrupted, CmdVerifyPosts, CmdShred, CmdShredRemoves, CmdPlan, CmdVerify,
          PostMigrationAbort, CmdShredFlips, CmdResolve, Becomes, AtPrompt, MigrationTypes, At
  <2>2. CASE CmdApplyMarks(o) BY <2>2, CmdApplyMarksNames
  <2>3. CASE ~CmdApplyMarks(o)
    <3>1. \A p \in Operators : ~CmdApplyMarks(p) /\ commands'[p].cmd \notin {"apply", "mark"}
      BY <2>1, <2>3
    <3>2. \A s \in ScopedIds : scoped'[s].name = scoped[s].name
      <4>1. ASSUME NEW r \in RunIds, PostMigrationAbort(o, r), NEW s \in ScopedIds
            PROVE  scoped'[s].name = scoped[s].name
        <5>1. scoped'[s] = scoped[s] \/ scoped'[s] = [scoped[s] EXCEPT !.live = FALSE]
          BY <4>1 DEF PostMigrationAbort, AbortRun
        <5>2. scoped[s] \in ScopedRecord BY <1>0 DEF MigrationTypes
        <5>. QED BY <5>1, <5>2 DEF ScopedRecord
      <4>2. CASE UNCHANGED scoped BY <4>2
      <4>. QED BY <1>2, <4>1, <4>2 DEF CmdPlanSubmits, SubmitEntries, Interrupted, CmdVerifyPosts, VerifyRun,
               CmdShred, CmdShredRemoves, CmdPlan, StartRun, CmdVerify, CmdShredFlips, DisableLegacy,
               CmdResolve, ResolveEntry
    <3>. QED BY <1>0, <3>1, <3>2, RestingNames
  <2>. QED BY <2>2, <2>3
<1>3. ASSUME NEW h \in Heads, VaultAdvances(h) PROVE NamesInv' BY <1>3 DEF VaultAdvances, NamesInv
<1>. QED BY <1>1, <1>2, <1>3, CmdApplyNames, CmdApplyCreatesNames, CmdApplyMarksNames
         DEF MigrationNext, MigrationStep

LEMMA SoleDeletes ==
    ASSUME MigrationIInv, NamesInv, \A x, y \in RunIds : x = y, [MigrationNext]_migrationVars
    PROVE  [DeletedAlone]_migrationVars
<1>0. MigrationTypes BY DEF MigrationIInv
<1>1. SUFFICES ASSUME MigrationStep PROVE DeletedAlone BY DEF MigrationNext
<1>2. SUFFICES ASSUME NEW s \in ScopedIds, scoped[s].live, ~scoped'[s].live,
                      NEW x \in RunIds, NEW k \in Lines, ledger'[x][k].state \in Imported,
                      ledger'[x][k].secret = s
               PROVE  FALSE
  BY DEF DeletedAlone
<1>3. ASSUME NEW o \in Operators, NEW t \in commands[o].todo, CmdApplyCreates(o, t) PROVE FALSE
  <2>. DEFINE n == [live |-> TRUE, held |-> {commands[o].values[t.line]}, name |-> t.name]
  <2>1. scoped' = scoped \/ \E u \in ScopedIds : scoped' = [scoped EXCEPT ![u] = n]
    BY <1>3 DEF CmdApplyCreates
  <2>2. n.live = TRUE OBVIOUS
  <2>. HIDE DEF n
  <2>. QED BY <1>0, <1>2, <2>1, <2>2 DEF MigrationTypes
<1>4. ~UNCHANGED scoped BY <1>2
<1>5. PICK o \in Operators, r \in RunIds : PostMigrationAbort(o, r)
  <2>1. ASSUME NEW o \in Operators, \/ CmdPlanSubmits(o) \/ Interrupted(o) \/ CmdVerifyPosts(o)
                                    \/ CmdShred(o) \/ CmdShredRemoves(o) \/ CmdApplyMarks(o)
        PROVE  UNCHANGED scoped
    BY <2>1 DEF CmdPlanSubmits, SubmitEntries, Interrupted, CmdVerifyPosts, VerifyRun, CmdShred,
       CmdShredRemoves, CmdApplyMarks
  <2>2. ASSUME NEW o \in Operators, NEW r \in RunIds, CmdPlan(o, r) \/ CmdVerify(o, r) \/ CmdApply(o, r)
        PROVE  UNCHANGED scoped
    BY <2>2 DEF CmdPlan, StartRun, CmdVerify, CmdApply
  <2>3. ASSUME NEW o \in Operators, NEW r \in RunIds, CmdShredFlips(o, r) PROVE UNCHANGED scoped
    BY <2>3 DEF CmdShredFlips, DisableLegacy
  <2>4. ASSUME NEW o \in Operators, NEW r \in RunIds, NEW l \in Lines, NEW name \in FreeNames,
               CmdResolve(o, r, l, name)
        PROVE  UNCHANGED scoped
    BY <2>4 DEF CmdResolve, ResolveEntry
  <2>5. ASSUME NEW h \in Heads, VaultAdvances(h) PROVE UNCHANGED scoped BY <2>5 DEF VaultAdvances
  <2>. QED BY <1>1, <1>3, <1>4, <2>1, <2>2, <2>3, <2>4, <2>5 DEF MigrationStep
<1>6. PICK done \in SUBSET Lines : AbortRun(r, done) BY <1>5 DEF PostMigrationAbort
<1>7. PICK l \in done : ledger[r][l].secret = s BY <1>2, <1>6 DEF AbortRun
<1>8. ledger[r][l].state \in {"MIGRATED", "VERIFIED"} BY <1>6, <1>7 DEF AbortRun, In
<1>9. x = r BY <1>2
<1>10. ledger'[r][k] = IF k \in done THEN [ledger[r][k] EXCEPT !.state = "VALIDATED", !.secret = "none",
                                                              !.target = "none"] ELSE ledger[r][k]
  BY <1>0, <1>6 DEF AbortRun, MigrationTypes
<1>11. k \notin done
  <2>1. SUFFICES ASSUME k \in done PROVE FALSE OBVIOUS
  <2>2. ledger[r][k].state \in {"MIGRATED", "VERIFIED"} BY <1>6, <2>1 DEF AbortRun, In
  <2>3. ledger[r][k] \in LineRecord BY <1>0, <2>2, LineShape DEF NoLine
  <2>4. ledger'[r][k].state = "VALIDATED" BY <1>10, <2>1, <2>3 DEF LineRecord
  <2>. QED BY <1>2, <1>9, <2>4 DEF Imported
<1>12. ledger[r][k].state \in Imported /\ ledger[r][k].secret = s /\ l # k
  BY <1>2, <1>7, <1>9, <1>10, <1>11
<1>13. ledger[r][k].name = ledger[r][l].name BY <1>7, <1>8, <1>12 DEF NamesInv, Imported
<1>14. ClaimsApart(ledger[r]) BY DEF MigrationIInv, BooksInv
<1>. QED BY <1>7, <1>8, <1>12, <1>13, <1>14 DEF ClaimsApart, Claims, Imported

\* One person who migrates a vault in one run, whatever is interrupted, resolved,
\* aborted or captured meanwhile, as long as the plan's two requests both arrive
\* (migrate.rs, migration_ledger.rs): the legacy vault is destroyed only when every
\* value of its last snapshot is a live scoped secret.
THEOREM SoleMigrationLosesNothing ==
    ASSUME ~PlanHalfSeen, \A x, y \in RunIds : x = y, \A p, q \in Operators : p = q
    PROVE  MigrationSpec => []MigrationSound
<1>. DEFINE Inv == MigrationIInv /\ PlannedInv /\ ShredInv /\ BackedInv /\ NamesInv
<1>1. MigrationInit => Inv
  <2>1. MigrationInit => NamesInv
    <3>. SUFFICES ASSUME MigrationInit PROVE NamesInv OBVIOUS
    <3>1. \A r \in RunIds, l \in Lines : ledger[r][l].state = "none" BY DEF MigrationInit, NoLine
    <3>2. \A o \in Operators : commands[o].cmd = "none" BY DEF MigrationInit, AtPrompt
    <3>. QED BY <3>1, <3>2 DEF NamesInv, Imported
  <2>. QED BY <2>1, MigrationInitOK, ShredInitOK
<1>2. Inv /\ [MigrationNext]_migrationVars => Inv'
  <2>. SUFFICES ASSUME Inv, [MigrationNext]_migrationVars PROVE Inv' OBVIOUS
  <2>1. [DeletedAlone]_migrationVars BY SoleDeletes
  <2>. QED BY <2>1, MigrationStepOK, PlannedStepOK, ShredStepOK, BackedStepOK, NamesStepOK
<1>3. Inv => MigrationSound BY MigrationIInvBooks, ClearedIsKept DEF MigrationSound
<1>. QED BY <1>1, <1>2, <1>3, PTL DEF MigrationSpec

-----------------------------------------------------------------------------
(* The audit chain: the inductive invariant *)

Database == [events : Seq(Event), sessions : 0..2]
Damaged == [is |-> "damaged"]
StoredFile == Database \cup {NoFile, Damaged}
RowsTo(n) == [k \in 1..n |-> k]

\* The rows are in the order of their seconds, and each links to the row before it.
Chained(events) ==
    /\ \A j, k \in 1..Len(events) : j <= k => events[j].at <= events[k].at
    /\ \A k \in 1..Len(events) : events[k].prev = k - 1

ChainInv ==
    /\ auditStore \in Database /\ Len(auditStore.events) <= MaxEvents
    /\ Chained(auditStore.events)
    /\ \A k \in 1..Len(auditStore.events) : auditStore.events[k].at <= auditClock
    /\ auditClock \in 0..MaxAuditTime /\ auditSteps \in 0..MaxAuditSteps

\* A walk has the first rows, and goes on after the last one it has.
WalkInv ==
    /\ walk \in [cursor : 0..MaxEvents, got : Seq(1..MaxEvents),
                 state : {"walking", "complete"}, upTo : Nat]
    /\ Len(walk.got) <= Len(auditStore.events)
    /\ \A k \in 1..Len(walk.got) : walk.got[k] = k
    /\ walk.state = "walking" => walk.cursor = Len(walk.got)
    /\ walk.state = "complete" => Len(walk.got) = walk.upTo

\* What is copied or receipted was the database once, unless it was damaged.
BackupInv ==
    /\ past \subseteq Database /\ auditStore \in past
    /\ backup \in [phase : {"idle", "pinned", "copied", "receipted"},
                   snap : StoredFile, file : StoredFile, receipt : StoredFile]
    /\ backup.phase = "pinned" => backup.snap \in past
    /\ backup.file \in past \cup {NoFile, Damaged}
    /\ backup.receipt \in past \cup {NoFile}

DrillInv ==
    /\ drill \in [phase : {"idle", "checked", "copied", "validated", "revoked", "reported"},
                  file : StoredFile, was : StoredFile, report : BOOLEAN]
    /\ drill.phase = "copied" => drill.file \in past \cup {NoFile, Damaged}
    /\ drill.phase = "validated" => drill.was = drill.file /\ drill.file \in past
    /\ drill.phase \in {"revoked", "reported"} =>
           drill.was \in past /\ drill.file = [drill.was EXCEPT !.sessions = 0]
    /\ drill.report => drill.phase = "reported"

AuditIInv == ChainInv /\ WalkInv /\ BackupInv /\ DrillInv

\* The clock is never set back.
ClockRuns == auditClock' >= auditClock

-----------------------------------------------------------------------------
(* The audit chain: the order of the rows *)

LEMMA RowsAreSeq ==
    ASSUME NEW n \in Nat
    PROVE  /\ RowsTo(n) \in Seq(Nat) /\ Len(RowsTo(n)) = n
           /\ \A k \in 1..n : RowsTo(n)[k] = k
BY DEF RowsTo

LEMMA RankIsIndex ==
    ASSUME NEW e \in Seq(Event), Chained(e), NEW i \in 1..Len(e)
    PROVE  Rank(e, i) = i
<1>1. ASSUME NEW k \in 1..Len(e) PROVE e[k].at \in Nat
  <2>1. e[k] \in Event OBVIOUS
  <2>2. e[k].at \in 0..MaxAuditTime BY <2>1 DEF Event
  <2>. QED BY <2>2
<1>2. DOMAIN e = 1..Len(e) OBVIOUS
<1>3. ASSUME NEW j \in 1..Len(e) PROVE Before(e, j, i) <=> j <= i
  <2>1. j <= i => e[j].at <= e[i].at BY DEF Chained
  <2>2. i <= j => e[i].at <= e[j].at BY DEF Chained
  <2>. QED BY <1>1, <2>1, <2>2 DEF Before
<1>4. {j \in DOMAIN e : Before(e, j, i)} = 1..i BY <1>2, <1>3
<1>5. 1 \in Int /\ i \in Int /\ ~(1 > i) /\ i - 1 + 1 = i OBVIOUS
<1>6. Cardinality(1..i) = IF 1 > i THEN 0 ELSE i - 1 + 1 BY <1>5, FS_Interval
<1>. QED BY <1>4, <1>5, <1>6 DEF Rank

LEMMA OrderIsIndex ==
    ASSUME NEW e \in Seq(Event), Chained(e)
    PROVE  InOrder(e) = RowsTo(Len(e))
<1>1. DOMAIN e = 1..Len(e) OBVIOUS
<1>2. ASSUME NEW k \in 1..Len(e) PROVE (CHOOSE i \in 1..Len(e) : Rank(e, i) = k) = k
  BY RankIsIndex
<1>. QED BY <1>1, <1>2 DEF InOrder, RowsTo

LEMMA HeadIsLast ==
    ASSUME NEW e \in Seq(Event), Chained(e)
    PROVE  Head0(e) = Len(e)
<1>1. CASE e = <<>> BY <1>1 DEF Head0
<1>2. CASE e # <<>>
  <2>1. Len(e) \in Nat /\ Len(e) >= 1 BY <1>2
  <2>2. InOrder(e) = RowsTo(Len(e)) BY OrderIsIndex
  <2>3. RowsTo(Len(e))[Len(RowsTo(Len(e)))] = Len(e)
    <3>1. Len(RowsTo(Len(e))) = Len(e) BY <2>1, RowsAreSeq
    <3>. QED BY <2>1, <3>1 DEF RowsTo
  <2>. QED BY <1>2, <2>2, <2>3 DEF Head0, Last
<1>. QED BY <1>1, <1>2

LEMMA ChainedVerifies ==
    ASSUME NEW e \in Seq(Event), Chained(e)
    PROVE  VerifyChain(e)
<1>1. Len(e) \in Nat OBVIOUS
<1>2. DOMAIN RowsTo(Len(e)) = 1..Len(e) BY DEF RowsTo
<1>3. ASSUME NEW k \in 1..Len(e)
      PROVE  e[RowsTo(Len(e))[k]].prev = IF k = 1 THEN 0 ELSE RowsTo(Len(e))[k - 1]
  <2>1. e[k].prev = k - 1 BY DEF Chained
  <2>2. RowsTo(Len(e))[k] = k BY DEF RowsTo
  <2>3. k # 1 => k - 1 \in 1..Len(e) OBVIOUS
  <2>4. k # 1 => RowsTo(Len(e))[k - 1] = k - 1 BY <2>3 DEF RowsTo
  <2>. QED BY <2>1, <2>2, <2>4
<1>. QED BY <1>2, <1>3, OrderIsIndex DEF VerifyChain, LinkedFrom

-----------------------------------------------------------------------------
(* The audit chain: the pages *)

LEMMA RowsAfterRows ==
    ASSUME NEW e \in Seq(Event), Chained(e), NEW c \in 0..Len(e)
    PROVE  /\ RowsAfter(e, c) \in Seq(Nat) /\ Len(RowsAfter(e, c)) = Len(e) - c
           /\ \A i \in 1..Len(e) - c : RowsAfter(e, c)[i] = c + i
<1>. DEFINE n == Len(e)
<1>1. n \in Nat OBVIOUS
<1>2. RowsAfter(e, c) = SubSeq(RowsTo(n), c + 1, n)
  BY RankIsIndex, OrderIsIndex DEF RowsAfter
<1>3. \A i \in c + 1..n : RowsTo(n)[i] \in Nat BY DEF RowsTo
<1>4. /\ SubSeq(RowsTo(n), c + 1, n) \in Seq(Nat)
      /\ Len(SubSeq(RowsTo(n), c + 1, n)) = IF c + 1 <= n THEN n - (c + 1) + 1 ELSE 0
      /\ \A i \in 1..n - (c + 1) + 1 : SubSeq(RowsTo(n), c + 1, n)[i] = RowsTo(n)[c + 1 + i - 1]
  <2>1. c + 1 \in Int /\ n \in Int BY <1>1
  <2>. HIDE DEF n
  <2>. QED BY <1>3, <2>1, SubSeqProperties
<1>5. ASSUME NEW i \in 1..n - c PROVE SubSeq(RowsTo(n), c + 1, n)[i] = c + i
  <2>1. i \in 1..n - (c + 1) + 1 /\ c + i \in 1..n /\ c + 1 + i - 1 = c + i BY <1>1
  <2>2. SubSeq(RowsTo(n), c + 1, n)[i] = RowsTo(n)[c + i] BY <1>4, <2>1
  <2>. QED BY <2>1, <2>2 DEF RowsTo
<1>. HIDE DEF n
<1>6. Len(RowsAfter(e, c)) = n - c BY <1>1, <1>2, <1>4 DEF n
<1>. QED BY <1>2, <1>4, <1>5, <1>6 DEF n

LEMMA PageRows ==
    ASSUME ChainInv, WalkInv, walk.state = "walking",
           NEW n, n = Len(auditStore.events), NEW c, c = walk.cursor,
           NEW m, m = IF n - c < PageLimit THEN n - c ELSE PageLimit
    PROVE  LET page == AuditPage(walk.cursor) IN
           /\ c \in 0..n /\ m \in 0..n - c
           /\ page.rows \in Seq(1..MaxEvents) /\ Len(page.rows) = m
           /\ \A i \in 1..m : page.rows[i] = c + i
           /\ page.more = (n - c > PageLimit)
           /\ page.valid
<1>. DEFINE e == auditStore.events
            rows == RowsAfter(e, c)
            page == SubSeq(rows, 1, m)
<1>1. /\ e \in Seq(Event) /\ Chained(e) /\ n \in Nat /\ n <= MaxEvents /\ n = Len(e)
      /\ MaxEvents \in Nat /\ PageLimit \in Nat \ {0}
  BY AuditChainAssumption DEF ChainInv, Database
<1>2. c \in 0..n BY <1>1 DEF WalkInv
<1>3. m \in 0..n - c BY <1>1, <1>2
<1>4. rows \in Seq(Nat) /\ Len(rows) = n - c /\ \A i \in 1..n - c : rows[i] = c + i
  <2>1. c \in 0..Len(e) BY <1>1, <1>2
  <2>2. rows \in Seq(Nat) /\ Len(rows) = Len(e) - c /\ \A i \in 1..Len(e) - c : rows[i] = c + i
    BY <1>1, <2>1, RowsAfterRows
  <2>. QED BY <1>1, <2>2
<1>5. AuditPage(walk.cursor) =
        [rows |-> page, more |-> n - c > PageLimit, valid |-> LinkedFrom(e, page, c)]
  BY <1>1, <1>2, <1>4 DEF AuditPage
<1>. HIDE DEF rows, e
<1>6. ASSUME NEW i \in 1..m PROVE rows[i] \in 1..MaxEvents
  <2>1. i \in 1..n - c /\ c + i \in 1..MaxEvents BY <1>1, <1>2, <1>3
  <2>. QED BY <1>4, <2>1
<1>7. /\ page \in Seq(1..MaxEvents)
      /\ Len(page) = IF 1 <= m THEN m - 1 + 1 ELSE 0
      /\ \A i \in 1..m - 1 + 1 : page[i] = rows[1 + i - 1]
  <2>1. 1 \in Int /\ m \in Int BY <1>1, <1>2, <1>3
  <2>. QED BY <1>6, <2>1, SubSeqProperties
<1>. HIDE DEF page
<1>8. Len(page) = m BY <1>3, <1>7
<1>9. ASSUME NEW i \in 1..m PROVE page[i] = c + i
  <2>1. i \in 1..m - 1 + 1 /\ 1 + i - 1 = i /\ i \in 1..n - c BY <1>1, <1>2, <1>3
  <2>. QED BY <1>4, <1>7, <2>1
<1>10. LinkedFrom(e, page, c)
  <2>1. DOMAIN page = 1..m BY <1>7, <1>8
  <2>2. ASSUME NEW k \in 1..m
        PROVE  e[page[k]].prev = IF k = 1 THEN c ELSE page[k - 1]
    <3>1. c + k \in 1..n /\ (k # 1 => k - 1 \in 1..m) BY <1>1, <1>2, <1>3
    <3>2. e[c + k].prev = (c + k) - 1
      <4>1. \A x \in 1..Len(e) : e[x].prev = x - 1 BY <1>1 DEF Chained
      <4>. QED BY <1>1, <3>1, <4>1
    <3>3. k # 1 => page[k - 1] = c + k - 1 BY <1>1, <1>2, <1>3, <1>9, <3>1
    <3>4. page[k] = c + k BY <1>9
    <3>5. k = 1 => (c + k) - 1 = c BY <1>1, <1>2
    <3>6. e[page[k]].prev = (c + k) - 1 BY <3>2, <3>4
    <3>7. CASE k = 1 BY <3>5, <3>6, <3>7
    <3>8. CASE k # 1
      <4>1. page[k - 1] = (c + k) - 1 BY <1>1, <1>2, <1>3, <3>3, <3>8
      <4>. QED BY <3>6, <3>8, <4>1
    <3>. QED BY <3>7, <3>8
  <2>. QED BY <2>1, <2>2 DEF LinkedFrom
<1>. QED BY <1>2, <1>3, <1>5, <1>7, <1>8, <1>9, <1>10

-----------------------------------------------------------------------------
(* The audit chain: one lemma per step *)

LEMMA AppendChains ==
    ASSUME AuditIInv, AuditSecretEvent
    PROVE  /\ auditStore' \in Database /\ Len(auditStore'.events) <= MaxEvents
           /\ Len(auditStore'.events) >= Len(auditStore.events)
           /\ Chained(auditStore'.events)
           /\ \A k \in 1..Len(auditStore'.events) : auditStore'.events[k].at <= auditClock
<1>. DEFINE e == auditStore.events
            n == Len(e)
            new == [at |-> auditClock, prev |-> n]
            f == Append(e, new)
<1>1. /\ auditStore \in Database /\ e \in Seq(Event) /\ Chained(e) /\ n \in Nat /\ n < MaxEvents
      /\ \A k \in 1..n : e[k].at <= auditClock
      /\ auditClock \in 0..MaxAuditTime /\ MaxEvents \in Nat
  BY AuditChainAssumption DEF AuditIInv, ChainInv, Database, AuditSecretEvent
<1>2. auditStore' = [auditStore EXCEPT !.events = f] BY <1>1, HeadIsLast DEF AuditSecretEvent
<1>3. new \in Event BY <1>1 DEF Event
<1>. HIDE DEF e, new
<1>4. f \in Seq(Event) /\ Len(f) = n + 1 /\ (\A k \in 1..n : f[k] = e[k]) /\ f[n + 1] = new
  BY <1>1, <1>3, AppendProperties
<1>. HIDE DEF f
<1>5. auditStore' \in Database /\ auditStore'.events = f
  BY <1>1, <1>2, <1>4 DEF Database
<1>6. new.at = auditClock /\ new.prev = n BY DEF new
<1>7. ASSUME NEW k \in 1..n PROVE e[k].at \in Nat
  <2>1. e[k] \in Event BY <1>1 DEF n
  <2>. QED BY <2>1 DEF Event
<1>. HIDE DEF n
<1>8. ASSUME NEW k \in 1..n + 1 PROVE f[k].at <= auditClock
  <2>1. k \in 1..n \/ k = n + 1 BY <1>1
  <2>. QED BY <1>1, <1>4, <1>6, <2>1
<1>9. ASSUME NEW k \in 1..n + 1 PROVE f[k].prev = k - 1
  <2>1. k \in 1..n \/ k = n + 1 BY <1>1
  <2>2. k \in 1..n => e[k].prev = k - 1 BY <1>1 DEF Chained, n
  <2>. QED BY <1>1, <1>4, <1>6, <2>1, <2>2
<1>10. ASSUME NEW j \in 1..n + 1, NEW k \in 1..n + 1, j <= k PROVE f[j].at <= f[k].at
  <2>1. CASE k = n + 1 BY <1>4, <1>6, <1>8, <2>1
  <2>2. CASE k \in 1..n
    <3>1. j \in 1..n BY <1>1, <1>10, <2>2
    <3>2. e[j].at <= e[k].at BY <1>1, <1>10, <2>2, <3>1 DEF Chained, n
    <3>. QED BY <1>4, <2>2, <3>1, <3>2
  <2>. QED BY <1>1, <2>1, <2>2
<1>11. Chained(f) BY <1>4, <1>9, <1>10 DEF Chained
<1>. QED BY <1>1, <1>4, <1>5, <1>8, <1>11 DEF e, n

\* The database and the clock: a walk and a copy are left as they are.
LEMMA StoreKeeps ==
    ASSUME AuditIInv, past' = past \cup {auditStore'}, auditSteps' \in 0..MaxAuditSteps,
           UNCHANGED <<walk, backup, drill>>,
           auditStore' \in Database, Len(auditStore'.events) <= MaxEvents,
           Len(auditStore'.events) >= Len(auditStore.events), Chained(auditStore'.events),
           \A k \in 1..Len(auditStore'.events) : auditStore'.events[k].at <= auditClock',
           auditClock' \in 0..MaxAuditTime
    PROVE  AuditIInv'
<1>1. ChainInv' BY DEF ChainInv
<1>2. WalkInv'
  <2>1. Len(auditStore.events) \in Nat /\ Len(auditStore'.events) \in Nat /\ Len(walk.got) \in Nat
    BY DEF AuditIInv, ChainInv, WalkInv, Database
  <2>2. Len(walk.got) <= Len(auditStore'.events) BY <2>1 DEF AuditIInv, WalkInv
  <2>. QED BY <2>2 DEF AuditIInv, WalkInv
<1>3. BackupInv' BY DEF AuditIInv, BackupInv
<1>4. DrillInv' BY DEF AuditIInv, DrillInv
<1>. QED BY <1>1, <1>2, <1>3, <1>4 DEF AuditIInv

LEMMA EventKeeps ==
    ASSUME AuditIInv, AuditSecretEvent, past' = past \cup {auditStore'}, auditSteps' \in 0..MaxAuditSteps
    PROVE  AuditIInv'
BY AppendChains, StoreKeeps DEF AuditSecretEvent, AuditIInv, ChainInv

LEMMA SessionKeeps ==
    ASSUME AuditIInv, OpenSession, past' = past \cup {auditStore'}, auditSteps' \in 0..MaxAuditSteps
    PROVE  AuditIInv'
<1>1. auditStore' \in Database /\ auditStore'.events = auditStore.events
  BY DEF AuditIInv, ChainInv, Database, OpenSession
<1>2. Len(auditStore.events) \in Nat BY DEF AuditIInv, ChainInv, Database
<1>. QED BY <1>1, <1>2, StoreKeeps DEF OpenSession, AuditIInv, ChainInv

LEMMA ClockKeeps ==
    ASSUME AuditIInv, AuditClockTicks, ClockRuns, past' = past \cup {auditStore'},
           auditSteps' \in 0..MaxAuditSteps
    PROVE  AuditIInv'
<1>. DEFINE e == auditStore.events
<1>1. /\ auditStore' = auditStore /\ auditStore \in Database /\ Len(e) \in Nat
      /\ auditClock \in 0..MaxAuditTime /\ MaxAuditTime \in Nat /\ ClockSteps \in Nat
      /\ \A k \in 1..Len(e) : e[k].at <= auditClock
  BY AuditChainAssumption DEF AuditIInv, ChainInv, Database, AuditClockTicks
<1>2. auditClock' \in 0..MaxAuditTime BY <1>1 DEF AuditClockTicks
<1>3. ASSUME NEW k \in 1..Len(e) PROVE e[k].at <= auditClock'
  <2>1. e[k] \in Event BY <1>1 DEF Database
  <2>2. e[k].at \in Nat BY <2>1 DEF Event
  <2>3. e[k].at <= auditClock BY <1>1
  <2>. QED BY <1>1, <1>2, <2>2, <2>3 DEF ClockRuns
<1>. QED BY <1>1, <1>2, <1>3, StoreKeeps DEF AuditClockTicks, AuditIInv, ChainInv

LEMMA PageKeeps ==
    ASSUME AuditIInv, GetAuditExportPage, past' = past \cup {auditStore'},
           auditSteps' \in 0..MaxAuditSteps
    PROVE  AuditIInv'
<1>. DEFINE n == Len(auditStore.events)
            c == walk.cursor
            m == IF n - c < PageLimit THEN n - c ELSE PageLimit
            page == AuditPage(walk.cursor)
            got == walk.got \o page.rows
<1>1. ChainInv /\ WalkInv /\ walk.state = "walking" BY DEF AuditIInv, GetAuditExportPage
<1>2. /\ c \in 0..n /\ m \in 0..n - c
      /\ page.rows \in Seq(1..MaxEvents) /\ Len(page.rows) = m
      /\ \A i \in 1..m : page.rows[i] = c + i
      /\ page.valid
  <2>1. /\ n = Len(auditStore.events) /\ c = walk.cursor
        /\ page = AuditPage(walk.cursor)
        /\ m = IF n - c < PageLimit THEN n - c ELSE PageLimit
    OBVIOUS
  <2>. HIDE DEF n, c, m, page
  <2>. QED BY <1>1, <2>1, PageRows
<1>15. page.more <=> n - c > PageLimit
  <2>1. /\ n = Len(auditStore.events) /\ c = walk.cursor
        /\ page = AuditPage(walk.cursor)
        /\ m = IF n - c < PageLimit THEN n - c ELSE PageLimit
    OBVIOUS
  <2>. HIDE DEF n, c, m, page
  <2>. QED BY <1>1, <2>1, PageRows
<1>3. /\ walk.got \in Seq(1..MaxEvents) /\ c = Len(walk.got)
      /\ \A k \in 1..c : walk.got[k] = k
      /\ n \in Nat /\ n <= MaxEvents /\ MaxEvents \in Nat /\ PageLimit \in Nat \ {0}
  BY <1>1, AuditChainAssumption DEF WalkInv, ChainInv, Database
<1>4. /\ walk' = [walk EXCEPT !.got = got,
                              !.cursor = IF page.more THEN Last(page.rows) ELSE @,
                              !.state = IF page.more THEN @ ELSE "complete",
                              !.upTo = n]
      /\ UNCHANGED <<auditStore, auditClock, backup, drill>>
  BY <1>2 DEF GetAuditExportPage
<1>13. m = IF n - c < PageLimit THEN n - c ELSE PageLimit OBVIOUS
<1>14. walk.cursor = c /\ Len(auditStore.events) = n OBVIOUS
<1>. HIDE DEF page, n, c, m
<1>16. /\ got \in Seq(1..MaxEvents) /\ Len(got) = Len(walk.got) + Len(page.rows)
       /\ \A k \in 1..Len(walk.got) + Len(page.rows) :
              got[k] = IF k <= Len(walk.got) THEN walk.got[k] ELSE page.rows[k - Len(walk.got)]
  <2>1. \A s, t \in Seq(1..MaxEvents) :
          /\ s \o t \in Seq(1..MaxEvents) /\ Len(s \o t) = Len(s) + Len(t)
          /\ \A k \in 1..Len(s) + Len(t) : (s \o t)[k] = IF k <= Len(s) THEN s[k] ELSE t[k - Len(s)]
    BY ConcatProperties
  <2>2. page.rows \in Seq(1..MaxEvents) /\ walk.got \in Seq(1..MaxEvents) BY <1>2, <1>3
  <2>. QED BY <2>1, <2>2, Zenon
<1>. HIDE DEF got
<1>5. got \in Seq(1..MaxEvents) /\ Len(got) = c + m BY <1>2, <1>3, <1>16
<1>6. ASSUME NEW k \in 1..c + m PROVE got[k] = k
  <2>1. CASE k \in 1..c
    <3>1. k <= c /\ k \in 1..c + m BY <1>2, <1>3, <2>1
    <3>. QED BY <1>2, <1>3, <1>16, <2>1, <3>1
  <2>2. CASE k \notin 1..c
    <3>1. k - c \in 1..m /\ c + (k - c) = k BY <1>2, <1>3, <2>2
    <3>2. got[k] = page.rows[k - c] BY <1>2, <1>3, <1>16, <2>2
    <3>. QED BY <1>2, <3>1, <3>2
  <2>. QED BY <2>1, <2>2
<1>7. page.more => m = PageLimit /\ Last(page.rows) = c + m
  <2>1. page.more => m = PageLimit /\ m \in 1..m BY <1>2, <1>3, <1>13, <1>15
  <2>. QED BY <1>2, <2>1 DEF Last
<1>8. ~page.more => c + m = n
  <2>1. ~page.more => ~(n - c > PageLimit) BY <1>15, Zenon
  <2>2. ~(n - c > PageLimit) => c + m = n
    <3>1. c \in Nat /\ n \in Nat /\ PageLimit \in Nat /\ m \in Nat BY <1>2, <1>3
    <3>2. ~(n - c > PageLimit) => m = n - c BY <1>13, <3>1
    <3>. QED BY <3>1, <3>2
  <2>. QED BY <2>1, <2>2, Zenon
<1>9. ChainInv' BY <1>1, <1>4 DEF ChainInv
<1>10. BackupInv' BY <1>4 DEF AuditIInv, BackupInv
<1>11. DrillInv' BY <1>4 DEF AuditIInv, DrillInv
<1>12. WalkInv'
  <2>. DEFINE cur == IF page.more THEN Last(page.rows) ELSE c
              st == IF page.more THEN "walking" ELSE "complete"
  <2>1. cur \in 0..MaxEvents /\ (page.more => cur = c + m) BY <1>2, <1>3, <1>7
  <2>2. st \in {"walking", "complete"} /\ (page.more => st = "walking") /\ (~page.more => st = "complete")
    OBVIOUS
  <2>3. /\ walk'.got = got /\ walk'.cursor = cur /\ walk'.state = st /\ walk'.upTo = n
        /\ walk' = [cursor |-> cur, got |-> got, state |-> st, upTo |-> n]
    BY <1>1, <1>4, <1>14 DEF WalkInv
  <2>4. c + m <= n BY <1>2, <1>3
  <2>. HIDE DEF got, cur, st
  <2>5. walk' \in [cursor : 0..MaxEvents, got : Seq(1..MaxEvents),
                   state : {"walking", "complete"}, upTo : Nat]
    BY <1>3, <1>5, <2>1, <2>2, <2>3
  <2>6. walk'.state = "walking" => walk'.cursor = Len(walk'.got) BY <1>5, <2>1, <2>2, <2>3
  <2>7. walk'.state = "complete" => Len(walk'.got) = walk'.upTo BY <1>5, <1>8, <2>2, <2>3
  <2>8. Len(walk'.got) <= Len(auditStore'.events) BY <1>4, <1>5, <1>14, <2>3, <2>4
  <2>9. \A k \in 1..Len(walk'.got) : walk'.got[k] = k BY <1>5, <1>6, <2>3
  <2>. QED BY <2>5, <2>6, <2>7, <2>8, <2>9 DEF WalkInv
<1>. QED BY <1>9, <1>10, <1>11, <1>12 DEF AuditIInv

-----------------------------------------------------------------------------
(* The audit chain: backups and rehearsals *)

BackupStep == PinSource \/ CopyConsistent \/ WriteReceipt \/ BackupFails \/ DamageBackup
DrillStep ==
    CheckBackup \/ CopyBackup \/ ValidateCopy \/ RevokeCopied \/ WriteReport \/ RehearsalFails

\* A file with events in it is neither missing nor damaged.
LEMMA ValidIsPast ==
    ASSUME NEW f \in past \cup {NoFile, Damaged}, ValidDatabase(f) PROVE f \in past
<1>1. DOMAIN NoFile = {"is"} /\ DOMAIN Damaged = {"is"} BY DEF NoFile, Damaged
<1>2. "events" \in DOMAIN f BY DEF ValidDatabase
<1>. QED BY <1>1, <1>2

LEMMA BackupKeeps ==
    ASSUME AuditIInv, BackupStep, past' = past \cup {auditStore'}, auditSteps' \in 0..MaxAuditSteps
    PROVE  AuditIInv'
<1>1. UNCHANGED <<auditStore, auditClock, walk, drill>>
  BY DEF BackupStep, PinSource, CopyConsistent, WriteReceipt, BackupFails, DamageBackup
<1>2. ChainInv' BY <1>1 DEF AuditIInv, ChainInv
<1>3. WalkInv' BY <1>1 DEF AuditIInv, WalkInv
<1>4. past' = past BY <1>1 DEF AuditIInv, BackupInv
<1>5. DrillInv' BY <1>1, <1>4 DEF AuditIInv, DrillInv
<1>6. NoFile \in StoredFile /\ Damaged \in StoredFile /\ Damaged # NoFile
      /\ past \subseteq StoredFile /\ auditStore \in past /\ past \subseteq Database
  BY DEF AuditIInv, BackupInv, StoredFile, NoFile, Damaged
<1>7. BackupInv'
  <2>1. CASE PinSource BY <1>1, <1>4, <1>6, <2>1 DEF PinSource, AuditIInv, BackupInv
  <2>2. CASE CopyConsistent BY <1>1, <1>4, <1>6, <2>2 DEF CopyConsistent, AuditIInv, BackupInv
  <2>3. CASE WriteReceipt
    <3>1. backup.file \in past BY <2>3, ValidIsPast DEF WriteReceipt, AuditIInv, BackupInv
    <3>. QED BY <1>1, <1>4, <1>6, <2>3, <3>1 DEF WriteReceipt, AuditIInv, BackupInv
  <2>4. CASE BackupFails BY <1>1, <1>4, <1>6, <2>4 DEF BackupFails, AuditIInv, BackupInv
  <2>5. CASE DamageBackup
    <3>1. backup' = [backup EXCEPT !.file = Damaged] BY <2>5 DEF DamageBackup, Damaged
    <3>. QED BY <1>1, <1>4, <1>6, <3>1 DEF AuditIInv, BackupInv
  <2>. QED BY <2>1, <2>2, <2>3, <2>4, <2>5 DEF BackupStep
<1>. QED BY <1>2, <1>3, <1>5, <1>7 DEF AuditIInv

LEMMA DrillKeeps ==
    ASSUME AuditIInv, DrillStep, past' = past \cup {auditStore'}, auditSteps' \in 0..MaxAuditSteps
    PROVE  AuditIInv'
<1>1. UNCHANGED <<auditStore, auditClock, walk, backup>>
  BY DEF DrillStep, CheckBackup, CopyBackup, ValidateCopy, RevokeCopied, Rehearse, WriteReport,
         RehearsalFails
<1>2. ChainInv' BY <1>1 DEF AuditIInv, ChainInv
<1>3. WalkInv' BY <1>1 DEF AuditIInv, WalkInv
<1>4. past' = past BY <1>1 DEF AuditIInv, BackupInv
<1>5. BackupInv' BY <1>1, <1>4 DEF AuditIInv, BackupInv
<1>6. /\ NoFile \in StoredFile /\ Damaged \in StoredFile /\ past \subseteq StoredFile
      /\ backup.file \in past \cup {NoFile, Damaged} /\ backup.file \in StoredFile
      /\ backup.receipt \in past \cup {NoFile}
  BY DEF AuditIInv, BackupInv, StoredFile
<1>7. DrillInv'
  <2>1. CASE CheckBackup
    <3>1. drill' = [drill EXCEPT !.phase = "checked", !.file = NoFile, !.was = NoFile]
          /\ drill.phase = "idle"
      BY <2>1 DEF CheckBackup, Rehearse
    <3>. QED BY <1>4, <1>6, <3>1 DEF AuditIInv, DrillInv
  <2>2. CASE CopyBackup
    <3>1. drill' = [drill EXCEPT !.phase = "copied", !.file = backup.file, !.was = backup.file]
          /\ drill.phase = "checked"
      BY <2>2 DEF CopyBackup, Rehearse
    <3>. QED BY <1>4, <1>6, <3>1 DEF AuditIInv, DrillInv
  <2>3. CASE ValidateCopy
    <3>1. /\ drill' = [drill EXCEPT !.phase = "validated", !.file = drill.file, !.was = drill.file]
          /\ drill.phase = "copied" /\ drill.file = backup.receipt /\ backup.receipt # NoFile
      BY <2>3 DEF ValidateCopy, Rehearse, DigestMatches
    <3>. QED BY <1>4, <1>6, <3>1 DEF AuditIInv, DrillInv
  <2>4. CASE RevokeCopied
    <3>1. /\ drill' = [drill EXCEPT !.phase = "revoked", !.file = [drill.file EXCEPT !.sessions = 0],
                                    !.was = drill.was]
          /\ drill.phase = "validated"
      BY <2>4 DEF RevokeCopied, Rehearse
    <3>2. drill.file \in Database /\ drill.was = drill.file /\ drill.file \in past
      BY <3>1 DEF AuditIInv, DrillInv, BackupInv
    <3>3. [drill.file EXCEPT !.sessions = 0] \in StoredFile BY <3>2 DEF Database, StoredFile
    <3>. QED BY <1>4, <1>6, <3>1, <3>2, <3>3 DEF AuditIInv, DrillInv
  <2>5. CASE WriteReport BY <1>4, <2>5 DEF WriteReport, AuditIInv, DrillInv
  <2>6. CASE RehearsalFails BY <1>4, <1>6, <2>6 DEF RehearsalFails, AuditIInv, DrillInv
  <2>. QED BY <2>1, <2>2, <2>3, <2>4, <2>5, <2>6 DEF DrillStep
<1>. QED BY <1>2, <1>3, <1>5, <1>7 DEF AuditIInv

-----------------------------------------------------------------------------
(* The audit chain: the theorem *)

LEMMA AuditStarts == ASSUME AuditInit PROVE AuditIInv
<1>1. /\ {ClockSteps, MaxEvents, MaxAuditTime, MaxAuditSteps} \subseteq Nat
      /\ ClockSteps <= MaxAuditTime
  BY AuditChainAssumption
<1>2. ChainInv BY <1>1 DEF AuditInit, ChainInv, Database, Chained
<1>3. WalkInv BY <1>1 DEF AuditInit, WalkInv
<1>4. NoFile \in StoredFile BY DEF StoredFile
<1>5. BackupInv BY <1>2, <1>4 DEF AuditInit, BackupInv, ChainInv
<1>6. DrillInv BY <1>4 DEF AuditInit, DrillInv
<1>. QED BY <1>2, <1>3, <1>5, <1>6 DEF AuditIInv

LEMMA AuditIInvSound == ASSUME AuditIInv PROVE AuditSound
<1>. DEFINE e == auditStore.events
            g == walk.got
<1>1. e \in Seq(Event) /\ Chained(e) BY DEF AuditIInv, ChainInv, Database
<1>2. ChainVerifies BY <1>1, ChainedVerifies DEF ChainVerifies
<1>3. AuditTypeOK
  BY DEF AuditTypeOK, AuditIInv, ChainInv, Database, WalkInv, BackupInv, DrillInv
<1>4. /\ g \in Seq(1..MaxEvents) /\ Len(g) \in 0..Len(e) /\ Len(e) \in 0..MaxEvents
      /\ MaxEvents \in Nat
      /\ \A k \in 1..Len(g) : g[k] = k
  BY <1>1, AuditChainAssumption DEF AuditIInv, ChainInv, WalkInv
<1>5. g = SubSeq(InOrder(e), 1, Len(g))
  <2>1. InOrder(e) = RowsTo(Len(e)) BY <1>1, OrderIsIndex
  <2>2. \A k \in 1..Len(g) : RowsTo(Len(e))[k] = k /\ RowsTo(Len(e))[k] \in 1..MaxEvents
    <3>1. \A k \in 1..Len(g) : RowsTo(Len(e))[k] = k BY <1>4 DEF RowsTo
    <3>. QED BY <1>4, <3>1
  <2>. DEFINE s == SubSeq(RowsTo(Len(e)), 1, Len(g))
  <2>3. /\ s \in Seq(1..MaxEvents) /\ Len(s) = IF 1 <= Len(g) THEN Len(g) - 1 + 1 ELSE 0
        /\ \A k \in 1..Len(g) - 1 + 1 : s[k] = RowsTo(Len(e))[1 + k - 1]
    <3>1. 1 \in Int /\ Len(g) \in Int BY <1>4
    <3>. QED BY <2>2, <3>1, SubSeqProperties
  <2>. HIDE DEF s
  <2>4. Len(s) = Len(g) BY <1>4, <2>3
  <2>5. ASSUME NEW k \in 1..Len(g) PROVE s[k] = g[k]
    <3>1. k \in 1..Len(g) - 1 + 1 /\ 1 + k - 1 = k BY <1>4
    <3>. QED BY <1>4, <2>2, <2>3, <3>1
  <2>6. g = s BY <1>4, <2>3, <2>4, <2>5, SeqEqual
  <2>. QED BY <2>1, <2>6 DEF s
<1>6. WalkIsPrefix BY <1>5 DEF WalkIsPrefix, AuditIInv, WalkInv
<1>7. ReportedIsReal BY DEF ReportedIsReal, AuditIInv, DrillInv
<1>. QED BY <1>2, <1>3, <1>6, <1>7 DEF AuditSound

\* THEOREM (audit_secret_event, verify_chain, verify_and_export_audit_page,
\* backup_accounts, rehearse_restore).  As long as the clock of the host is not
\* set back, for any number of events, sessions, pages and seconds: the chain the
\* writers leave behind verifies, an export taken page by page between appends is
\* the beginning of the chain and complete when it says so, and a rehearsal
\* reports success only for a copy that was the database at one moment.
THEOREM AuditTrailSound == AuditSpec /\ [][ClockRuns]_auditVars => []AuditSound
<1>1. AuditInit => AuditIInv BY AuditStarts
<1>2. AuditIInv /\ [AuditNext]_auditVars /\ [ClockRuns]_auditVars => AuditIInv'
  <2>1. CASE UNCHANGED auditVars
    BY <2>1 DEF auditVars, AuditIInv, ChainInv, WalkInv, BackupInv, DrillInv
  <2>2. ASSUME AuditIInv, AuditNext, ClockRuns PROVE AuditIInv'
    <3>1. past' = past \cup {auditStore'} /\ auditSteps' \in 0..MaxAuditSteps
      BY <2>2, AuditChainAssumption DEF AuditNext, AuditIInv, ChainInv
    <3>2. \/ AuditSecretEvent \/ OpenSession \/ AuditClockTicks \/ GetAuditExportPage
          \/ BackupStep \/ DrillStep
      BY <2>2 DEF AuditNext, AuditStep, BackupStep, DrillStep
    <3>. QED BY <2>2, <3>1, <3>2, EventKeeps, SessionKeeps, ClockKeeps, PageKeeps, BackupKeeps,
                DrillKeeps
  <2>3. UNCHANGED auditVars => auditClock' = auditClock BY DEF auditVars
  <2>. QED BY <2>1, <2>2
<1>3. AuditIInv => AuditSound BY AuditIInvSound
<1>. QED BY <1>1, <1>2, <1>3, PTL DEF AuditSpec
=============================================================================
