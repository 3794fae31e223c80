------------------------------ MODULE Vouchers ------------------------------
(***************************************************************************)
(* Object puts under write vouchers, repair pushes and leases of one       *)
(* operator (services/operator/src/state.rs, crates/storage/src/           *)
(* vouchers.rs).  A put looks for the object, charges the voucher and      *)
(* writes the ledger, writes the object, and gives the charge back if it   *)
(* stored nothing new.  The ledger's mutex makes a charge and its file one *)
(* step, the stripe lock makes an object write one.                        *)
(***************************************************************************)
EXTENDS Naturals, FiniteSets, FiniteSetsExt

CONSTANTS
    Putters,            \* puts served at the same time
    Objects, SizeOf,    \* content addresses and their sizes
    Holders, Grants,    \* vouchers of this operator: holder, quota, expiry
    NoGrant,
    MustPay,            \* vouchers_required
    MaxQuota, UserQuota,\* largest quota honoured; cap per holder, 0 for none
    Vaults, NoVault, MaxLeases, MaxTerm,
    MaxDay,             \* bound on the calendar
    MaxPuts,            \* bound on puts
    VoucherFaults       \* bound on failed writes and crashes

ASSUME VouchersAssumption ==
    /\ SizeOf \in [Objects -> Nat \ {0}]
    /\ IsFiniteSet(Putters) /\ IsFiniteSet(Objects) /\ IsFiniteSet(Grants)
    /\ \A g \in Grants : /\ g.holder \in Holders /\ g.quota \in Nat \ {0}
                         /\ g.expires \in Nat
    /\ NoGrant \notin Grants /\ NoVault \notin Vaults
    /\ MustPay \in BOOLEAN
    /\ MaxQuota \in Nat /\ UserQuota \in Nat /\ MaxLeases \in Nat /\ MaxTerm \in Nat
    /\ MaxDay \in Nat /\ MaxPuts \in Nat /\ VoucherFaults \in Nat

VARIABLES
    spent, spentFile,       \* VoucherLedger.spent: the charge of each grant
    total, totalFile,       \* VoucherLedger.holder_spent
    objects,                \* data_dir/objects
    lease, owner,           \* data_dir/leases: receipts and their .owner files
    putter,                 \* the put each request is in
    day, puts, voucherFaults,
    payer,                  \* history: the voucher under which an object was stored
    unsynced,               \* history: objects renamed into place by a put that failed
    promised,               \* history: lease terms answered to a vault
    lapsed                  \* history: a charge was pruned or a fault happened

vouchersVars == <<spent, spentFile, total, totalFile, objects, lease, owner, putter, day, puts,
                  voucherFaults, payer, unsynced, promised, lapsed>>

ledgerVars == <<spent, spentFile, total, totalFile>>
leaseVars == <<lease, owner, promised>>

Presented == Grants \cup {NoGrant}
LeaseIds == 1..MaxLeases
Put == [pc : {"authorize", "write", "release"}, object : Objects, grant : Presented,
        bytes : Nat, ok : BOOLEAN]
NoPut == [pc |-> "idle"]

VouchersTypeOK ==
    /\ spent \in [Grants -> Nat] /\ spentFile \in [Grants -> Nat]
    /\ total \in [Holders -> Nat] /\ totalFile \in [Holders -> Nat]
    /\ objects \subseteq Objects /\ unsynced \subseteq objects
    /\ payer \in [Objects -> Presented]
    /\ lease \in [LeaseIds -> 0..MaxTerm]
    /\ owner \in [LeaseIds -> Vaults \cup {NoVault}]
    /\ putter \in [Putters -> Put \cup {NoPut}]
    /\ day \in 0..MaxDay /\ puts \in 0..MaxPuts /\ voucherFaults \in 0..VoucherFaults
    /\ promised \in [LeaseIds -> 0..MaxTerm] /\ lapsed \in BOOLEAN

VouchersInit ==
    /\ spent = [g \in Grants |-> 0] /\ spentFile = spent
    /\ total = [h \in Holders |-> 0] /\ totalFile = total
    /\ objects = {} /\ unsynced = {} /\ payer = [o \in Objects |-> NoGrant]
    /\ lease = [l \in LeaseIds |-> 0] /\ owner = [l \in LeaseIds |-> NoVault]
    /\ promised = lease
    /\ putter = [p \in Putters |-> NoPut]
    /\ day = 0 /\ puts = 0 /\ voucherFaults = 0 /\ lapsed = FALSE

\* The sum of size over S: its bytes, counted one by one.
Bytes(size, S) == Cardinality(UNION {{x} \X (1..size[x]) : x \in S})

\* prune_expired keeps entries whose voucher may still be used; totals stay.  (A grant
\* without an entry and one with an empty entry behave alike: both are 0.)
Pruned == [g \in Grants |-> IF g.expires < day THEN 0 ELSE spent[g]]

\* Mutant: only the voucher's own quota is looked at.
MayConsumeNoUserCap(g, bytes) ==
    day <= g.expires /\ g.quota <= MaxQuota /\ spent[g] + bytes <= g.quota

\* try_consume: expiry, the largest quota, the voucher's quota, the holder's cap.
MayConsume(g, bytes) ==
    /\ day <= g.expires /\ g.quota <= MaxQuota
    /\ spent[g] + bytes <= g.quota
    /\ UserQuota > 0 => total[g.holder] + bytes <= UserQuota

Consumed(g, bytes) == [Pruned EXCEPT ![g] = spent[g] + bytes]

\* release gives back at most what the entry holds; a pruned entry gives nothing back.
Released(g, bytes) ==
    LET back == Min({bytes, spent[g]})
    IN  [spent |-> [spent EXCEPT ![g] = @ - back],
         total |-> [total EXCEPT ![g.holder] = IF @ > back THEN @ - back ELSE 0]]

VoucherFault == /\ voucherFaults < VoucherFaults
                /\ voucherFaults' = voucherFaults + 1
                /\ lapsed' = TRUE

\* The ledger goes to its file as s and t; a failed write may have renamed it already.
LedgerWritten(s, t) == spentFile' = s /\ totalFile' = t
LedgerWriteFails(s, t) ==
    /\ VoucherFault
    /\ \/ LedgerWritten(s, t) \/ UNCHANGED <<spentFile, totalFile>>

-----------------------------------------------------------------------------
(* put_object_with_voucher *)

\* object_matches: an object that is there already costs nothing.
BeginPut(p, o, g) ==
    /\ putter[p] = NoPut /\ puts < MaxPuts
    /\ putter' = [putter EXCEPT ![p] = [pc |-> "authorize", object |-> o, grant |-> g,
            bytes |-> IF o \in objects THEN 0 ELSE SizeOf[o], ok |-> TRUE]]
    /\ puts' = puts + 1
    /\ UNCHANGED <<ledgerVars, leaseVars, objects, day, voucherFaults, payer, unsynced, lapsed>>

\* Mutant: the charge reaches the file only with the next write.
AuthorizeInMemory(p) ==
    LET put == putter[p]
    IN  /\ put.pc = "authorize" /\ put.grant # NoGrant
        /\ MayConsume(put.grant, put.bytes)
        /\ spent' = Consumed(put.grant, put.bytes)
        /\ total' = [total EXCEPT ![put.grant.holder] = @ + put.bytes]
        /\ putter' = [putter EXCEPT ![p].pc = "write"]
        /\ lapsed' = (lapsed \/ Pruned # spent)
        /\ UNCHANGED <<spentFile, totalFile, leaseVars, objects, day, puts, voucherFaults,
                       payer, unsynced>>

\* authorize_write with a voucher that has room: the charge is durable before the put goes on.
Authorize(p) ==
    LET put == putter[p]
    IN  /\ put.pc = "authorize" /\ put.grant # NoGrant
        /\ MayConsume(put.grant, put.bytes)
        /\ spent' = Consumed(put.grant, put.bytes)
        /\ total' = [total EXCEPT ![put.grant.holder] = @ + put.bytes]
        /\ LedgerWritten(spent', total')
        /\ putter' = [putter EXCEPT ![p].pc = "write"]
        /\ lapsed' = (lapsed \/ Pruned # spent)
        /\ UNCHANGED <<leaseVars, objects, day, puts, voucherFaults, payer, unsynced>>

\* The ledger cannot be written: the charge is taken back and the put refused.
AuthorizeFails(p) ==
    LET put == putter[p]
        s == Consumed(put.grant, put.bytes)
        t == [total EXCEPT ![put.grant.holder] = @ + put.bytes]
    IN  /\ put.pc = "authorize" /\ put.grant # NoGrant
        /\ MayConsume(put.grant, put.bytes)
        /\ LedgerWriteFails(s, t)
        /\ spent' = [s EXCEPT ![put.grant] = @ - put.bytes]
        /\ UNCHANGED total
        /\ putter' = [putter EXCEPT ![p] = NoPut]
        /\ UNCHANGED <<leaseVars, objects, day, puts, payer, unsynced>>

\* No voucher: refused if one is required; and a voucher without room is refused.
Unauthorized(p) ==
    LET put == putter[p]
    IN  /\ put.pc = "authorize"
        /\ \/ /\ put.grant = NoGrant
              /\ putter' = [putter EXCEPT ![p] =
                      IF MustPay THEN NoPut ELSE [put EXCEPT !.pc = "write"]]
              /\ UNCHANGED <<spent, lapsed>>
           \/ /\ put.grant # NoGrant /\ ~MayConsume(put.grant, put.bytes)
              /\ putter' = [putter EXCEPT ![p] = NoPut]
              /\ spent' = Pruned
              /\ lapsed' = (lapsed \/ Pruned # spent)
        /\ UNCHANGED <<spentFile, total, totalFile, leaseVars, objects, day, puts,
                       voucherFaults, payer, unsynced>>

\* Mutant: every put that succeeds gives its charge back.
WriteObjectAlwaysReleases(p) ==
    LET put == putter[p]
    IN  /\ put.pc = "write"
        /\ objects' = objects \cup {put.object}
        /\ putter' = [putter EXCEPT ![p].pc = "release"]
        /\ payer' = IF put.object \in objects THEN payer ELSE [payer EXCEPT ![put.object] = put.grant]
        /\ UNCHANGED <<ledgerVars, leaseVars, day, puts, voucherFaults, unsynced, lapsed>>

\* put_object_inner: written if absent; otherwise the charge is given back.
WriteObject(p) ==
    LET put == putter[p]
    IN  /\ put.pc = "write"
        /\ \/ /\ put.object \notin objects
              /\ objects' = objects \cup {put.object}
              /\ payer' = [payer EXCEPT ![put.object] = put.grant]
              /\ putter' = [putter EXCEPT ![p] = NoPut]
           \/ /\ put.object \in objects
              /\ putter' = [putter EXCEPT ![p] =
                      IF put.grant = NoGrant THEN NoPut ELSE [put EXCEPT !.pc = "release"]]
              /\ UNCHANGED <<objects, payer>>
        /\ UNCHANGED <<ledgerVars, leaseVars, day, puts, voucherFaults, unsynced, lapsed>>

\* The body is too long or does not match its address, or the write fails, perhaps
\* behind the rename: the charge is given back.
WriteObjectFails(p) ==
    LET put == putter[p]
    IN  /\ put.pc = "write"
        /\ putter' = [putter EXCEPT ![p] =
                IF put.grant = NoGrant THEN NoPut ELSE [put EXCEPT !.pc = "release", !.ok = FALSE]]
        /\ \/ UNCHANGED <<objects, unsynced, payer, voucherFaults, lapsed>>
           \/ /\ put.object \notin objects /\ VoucherFault
              /\ objects' = objects \cup {put.object}
              /\ unsynced' = unsynced \cup {put.object}
              /\ payer' = [payer EXCEPT ![put.object] = put.grant]
        /\ UNCHANGED <<ledgerVars, leaseVars, day, puts>>

ReleaseWrite(p) ==
    LET put == putter[p]
        after == Released(put.grant, put.bytes)
    IN  /\ put.pc = "release"
        /\ spent' = after.spent /\ total' = after.total
        /\ putter' = [putter EXCEPT ![p] = NoPut]
        /\ \/ LedgerWritten(after.spent, after.total) /\ UNCHANGED <<voucherFaults, lapsed>>
           \/ LedgerWriteFails(after.spent, after.total)
        /\ UNCHANGED <<leaseVars, objects, day, puts, payer, unsynced>>

\* put_repair_object: no voucher; bounded by the repair budget, which refills with time.
PutRepairObject(o) ==
    /\ o \notin objects
    /\ puts < MaxPuts /\ puts' = puts + 1
    /\ objects' = objects \cup {o}
    /\ UNCHANGED <<ledgerVars, leaseVars, putter, day, voucherFaults, payer, unsynced, lapsed>>

-----------------------------------------------------------------------------
(* Leases: a term is the number of days still covered, counted from day 0 *)

\* create_lease_inner writes the receipt, record_lease_owner behind it the owner file;
\* a crash or failure between them leaves a lease nobody can renew.
CreateLease(l, v, term) ==
    /\ lease[l] = 0 /\ term > 0 /\ day + term <= MaxTerm
    /\ \A k \in LeaseIds : k < l => lease[k] > 0
    /\ lease' = [lease EXCEPT ![l] = day + term]
    /\ \/ /\ owner' = [owner EXCEPT ![l] = v]
          /\ promised' = [promised EXCEPT ![l] = day + term]
          /\ UNCHANGED <<voucherFaults, lapsed>>
       \/ VoucherFault /\ UNCHANGED <<owner, promised>>
    /\ UNCHANGED <<ledgerVars, objects, putter, day, puts, payer, unsynced>>

\* Mutant: the new term starts today, also while the old one runs.
RenewLeaseFromToday(l, v, days) ==
    /\ lease[l] > 0 /\ owner[l] = v /\ days > 0 /\ day + days <= MaxTerm
    /\ lease' = [lease EXCEPT ![l] = day + days]
    /\ promised' = [promised EXCEPT ![l] = Max({@, lease'[l]})]
    /\ UNCHANGED <<voucherFaults, lapsed>>
    /\ UNCHANGED <<ledgerVars, owner, objects, putter, day, puts, payer, unsynced>>

\* renew_lease_inner for the owning vault: the days are added behind the current
\* term, or behind today if it has run out.  Lease ids are striped: one step.
RenewLease(l, v, days) ==
    LET until == Max({lease[l], day}) + days
    IN  /\ lease[l] > 0 /\ owner[l] = v /\ days > 0 /\ until <= MaxTerm
        /\ lease' = [lease EXCEPT ![l] = until]
        /\ \/ promised' = [promised EXCEPT ![l] = until] /\ UNCHANGED <<voucherFaults, lapsed>>
           \/ VoucherFault /\ UNCHANGED promised
        /\ UNCHANGED <<ledgerVars, owner, objects, putter, day, puts, payer, unsynced>>

-----------------------------------------------------------------------------
(* The environment *)

\* load_voucher_ledger: a total is at least the sum of its holder's live charges.
LoadedTotal(h) == Max({totalFile[h], Bytes(spentFile, {g \in Grants : g.holder = h})})

VouchersCrash ==
    /\ VoucherFault
    /\ spent' = spentFile
    /\ total' = [h \in Holders |-> LoadedTotal(h)]
    /\ putter' = [p \in Putters |-> NoPut]
    /\ UNCHANGED <<spentFile, totalFile, leaseVars, objects, day, puts, payer, unsynced>>

NextDay ==
    /\ day < MaxDay /\ day' = day + 1
    /\ UNCHANGED <<ledgerVars, leaseVars, objects, putter, puts, voucherFaults, payer, unsynced,
                   lapsed>>

VouchersNext ==
    \/ \E p \in Putters :
          \/ \E o \in Objects, g \in Presented : BeginPut(p, o, g)
          \/ Authorize(p) \/ AuthorizeFails(p) \/ Unauthorized(p)
          \/ WriteObject(p) \/ WriteObjectFails(p) \/ ReleaseWrite(p)
    \/ \E o \in Objects : PutRepairObject(o)
    \/ \E l \in LeaseIds, v \in Vaults, n \in 1..MaxTerm : CreateLease(l, v, n) \/ RenewLease(l, v, n)
    \/ VouchersCrash \/ NextDay

VouchersSpec == VouchersInit /\ [][VouchersNext]_vouchersVars

-----------------------------------------------------------------------------
(* Properties *)

StoredUnder(G) == Bytes(SizeOf, {o \in objects \ unsynced : payer[o] \in G})

\* The bytes stored under a voucher never exceed its quota, nor those of a holder its
\* cap, whatever puts overlap, fail, are repeated or are cut off by a crash
\* (authorize_write makes a charge durable before the object is written).  Objects
\* that a failed put had already renamed into place are exempt: their charge is
\* given back although they stay.
QuotaRespected ==
    /\ \A g \in Grants : StoredUnder({g}) <= g.quota
    /\ UserQuota > 0 => \A h \in Holders :
          StoredUnder({g \in Grants : g.holder = h}) <= UserQuota

\* Without faults and expiries, a holder is charged for exactly the bytes stored: the
\* loser of two puts of one object gets its charge back (put_object_with_voucher).
ChargesExact ==
    (~lapsed /\ \A p \in Putters : putter[p] = NoPut) =>
        \A g \in Grants : spent[g] = StoredUnder({g})

\* A term that was answered to a vault is on disk with its owner and never shortened:
\* renewals add up (renew_lease_inner).
LeasesKept == \A l \in LeaseIds : promised[l] > 0 => lease[l] >= promised[l] /\ owner[l] # NoVault

\* What the voucher ledger and the leases promise, whatever puts overlap, fail or are
\* cut off by a crash (put_object_with_voucher, renew_lease_inner).
VouchersSound == VouchersTypeOK /\ QuotaRespected /\ ChargesExact /\ LeasesKept
=============================================================================
