----------------------------- MODULE Anchoring -----------------------------
(***************************************************************************)
(* Anchoring a vault's head on the chain and watching it there:            *)
(* apps/cli/src/commands/anchor.rs and feed.rs, crates/storage/src/        *)
(* chain.rs, the relayed checkpoints of services/operator/src/state.rs and *)
(* the finality watch of apps/cli/src/dashboard/finality.rs. The registry  *)
(* contract and the chain are external: transactions are mined, publish a  *)
(* commitment once, and may be dropped by a reorganisation. A commitment   *)
(* is a head and a salt; preimages and signatures are taken as sound.      *)
(***************************************************************************)
EXTENDS Naturals, FiniteSets

CONSTANTS AnchoredHeads, Salts,
          Txs, TxPublishes,  \* transactions and the commitment each publishes
          RevertedTxs,       \* transactions that fail on the chain
          NoTx,
          RelayClaims,       \* what relayers may claim: confirmed transactions and their blocks
          AnchorCommands, Refreshers,
          Confirmations,     \* blocks that make a receipt deeply confirmed
          MaxBlock, MaxReorgs, MaxAnchors, MaxRefreshes

ASSUME AnchoringAssumption ==
  /\ RevertedTxs \subseteq Txs /\ NoTx \notin Txs
  /\ TxPublishes \in [Txs -> AnchoredHeads \X Salts]
  /\ Confirmations \in Nat \ {0} /\ MaxBlock \in Nat \ {0}
  /\ RelayClaims \subseteq Txs \X (1..MaxBlock)

VARIABLES
  chain,     \* tip and the block of each mined transaction, 0 if none
  evidence,  \* checkpoint_evidence: commitment -> transaction, block and contract
  anchoring, \* running anchor commands
  relayed,   \* the operator's relayed checkpoints
  feed,      \* transactions of the published feed
  cache,     \* the dashboard's finality cache
  refreshes, \* refreshes of it in flight
  anchorPast, \* history: events the registry emitted, transactions that succeeded, and
             \* those recorded without a check against the registry
  anchorWork \* counters

anchoringVars ==
  <<chain, evidence, anchoring, relayed, feed, cache, refreshes, anchorPast, anchorWork>>

Commitments == AnchoredHeads \X Salts
NoEvidence == [tx |-> NoTx, block |-> 0, known |-> FALSE, registry |-> FALSE]
Evidence(t, b, registry) == [tx |-> t, block |-> b, known |-> TRUE, registry |-> registry]
NotRelayed == [queued |-> FALSE, tx |-> NoTx, block |-> 0]
Queued == [queued |-> TRUE, tx |-> NoTx, block |-> 0]
NoAnchor == [stage |-> "idle"]
NoRefresh == [stage |-> "idle"]
Statuses == {"none", "pending", "unknown", "failed", "confirmed", "deeply_confirmed",
             "reorg_suspected"}

AnchoringInit ==
  /\ chain = [tip |-> 1, mined |-> [t \in Txs |-> 0]]
  /\ evidence = [c \in Commitments |-> NoEvidence]
  /\ anchoring = [a \in AnchorCommands |-> NoAnchor]
  /\ relayed = [c \in Commitments |-> NotRelayed]
  /\ feed = {}
  /\ cache = [fresh |-> FALSE, status |-> [t \in Txs |-> "none"],
              deep |-> [t \in Txs |-> 0], reported |-> [t \in Txs |-> 0],
              observed |-> [t \in Txs |-> 0], raced |-> FALSE]
  /\ refreshes = [r \in Refreshers |-> NoRefresh]
  /\ anchorPast = [proven |-> {}, landed |-> {}, loose |-> {}]
  /\ anchorWork = [reorgs |-> 0, anchors |-> 0, refreshes |-> 0]

-----------------------------------------------------------------------------
(* The chain (external) *)

Publishers(c) == {t \in Txs \ RevertedTxs : chain.mined[t] # 0 /\ TxPublishes[t] = c}

\* The transaction that emitted CommitmentPublished: the first to publish.
Emitter(t, c) ==
  t \in Publishers(c) /\ \A u \in Publishers(c) : chain.mined[t] <= chain.mined[u]

MineTx(t) ==
  /\ chain.mined[t] = 0 /\ chain.tip < MaxBlock
  /\ chain' = [tip |-> chain.tip + 1, mined |-> [chain.mined EXCEPT ![t] = chain.tip + 1]]
  /\ anchorPast' = [anchorPast EXCEPT
       !.proven = @ \cup (IF t \notin RevertedTxs /\ Publishers(TxPublishes[t]) = {}
                          THEN {<<t, TxPublishes[t], chain.tip + 1>>} ELSE {}),
       !.landed = @ \cup (IF t \notin RevertedTxs THEN {<<t, chain.tip + 1>>} ELSE {})]
  /\ UNCHANGED <<evidence, anchoring, relayed, feed, cache, refreshes, anchorWork>>

MineBlock ==
  /\ chain.tip < MaxBlock
  /\ chain' = [chain EXCEPT !.tip = @ + 1]
  /\ UNCHANGED <<evidence, anchoring, relayed, feed, cache, refreshes, anchorPast, anchorWork>>

\* A reorganisation drops a transaction no other one's event rests on.
Reorg(t) ==
  /\ chain.mined[t] # 0 /\ anchorWork.reorgs < MaxReorgs
  /\ Publishers(TxPublishes[t]) \subseteq {t}
  /\ chain' = [chain EXCEPT !.mined[t] = 0]
  /\ anchorWork' = [anchorWork EXCEPT !.reorgs = @ + 1]
  /\ UNCHANGED <<evidence, anchoring, relayed, feed, cache, refreshes, anchorPast>>

-----------------------------------------------------------------------------
(* What the chain client concludes *)

\* get_transaction_receipt: mined, successful.
ReceiptOk(t) == t # NoTx /\ chain.mined[t] # 0 /\ t \notin RevertedTxs

ReceiptUnbound(t, c) == TRUE

\* receipt_binds_commitment: the registry's publication log for c.
ReceiptBinds(t, c) == Emitter(t, c)

\* query_first_seen_block.
FirstSeen(c) == {chain.mined[t] : t \in {u \in Publishers(c) : Emitter(u, c)}}

\* evaluate_anchor_confirmation, verify_evidence.
ReceiptVerified(t, c) == ReceiptOk(t) /\ ReceiptBinds(t, c) /\ FirstSeen(c) # {}

\* What cmd_anchor asks of a receipt.  Without a contract (the zero address, which
\* is the default) neither the log nor the registry is looked at.
Confirmed(t, c, registry) ==
  ReceiptOk(t) /\ (registry => ReceiptBinds(t, c) /\ FirstSeen(c) # {})

-----------------------------------------------------------------------------
(* cmd_anchor *)

\* get_checkpoint_evidence: the row of the head with the highest block.
Recorded(h) ==
  {c \in Commitments : c[1] = h /\ evidence[c].known
     /\ \A d \in Commitments : d[1] = h /\ evidence[d].known
                               => evidence[d].block <= evidence[c].block}

\* The commitment of the head is reused, or a fresh salt is drawn; a registry
\* contract is configured or not.
AnchorBegin(a, c, registry) ==
  /\ anchoring[a] = NoAnchor /\ anchorWork.anchors < MaxAnchors
  /\ IF Recorded(c[1]) # {} THEN c \in Recorded(c[1])
     ELSE \A b \in AnchorCommands : anchoring[b] # NoAnchor => anchoring[b].of # c
  /\ anchoring' = [anchoring EXCEPT ![a] = [stage |-> "begun", of |-> c, registry |-> registry]]
  /\ anchorWork' = [anchorWork EXCEPT !.anchors = @ + 1]
  /\ UNCHANGED <<chain, evidence, relayed, feed, cache, refreshes, anchorPast>>

\* save_checkpoint_evidence: INSERT OR REPLACE.
SaveEvidence(a, t, b) ==
  /\ evidence' = [evidence EXCEPT ![anchoring[a].of] = Evidence(t, b, anchoring[a].registry)]
  /\ anchoring' = [anchoring EXCEPT ![a] = NoAnchor]

\* t is recorded on the word of somebody else than the registry.
Loosely(t) == anchorPast' = [anchorPast EXCEPT !.loose = @ \cup {t}]

\* A transaction whose receipt passes is recorded with the receipt's block.
SaveConfirmed(a, t) ==
  /\ Confirmed(t, anchoring[a].of, anchoring[a].registry)
  /\ SaveEvidence(a, t, chain.mined[t])
  /\ IF anchoring[a].registry THEN UNCHANGED anchorPast ELSE Loosely(t)
  /\ UNCHANGED <<chain, relayed, feed, cache, refreshes, anchorWork>>

\* --raw-tx: send_raw_transaction, then wait_for_receipt.
Broadcast(a, t) ==
  /\ anchoring[a].stage = "begun"
  /\ anchoring' = [anchoring EXCEPT ![a] =
       [stage |-> "waiting", of |-> @.of, registry |-> @.registry, tx |-> t]]
  /\ UNCHANGED <<chain, evidence, relayed, feed, cache, refreshes, anchorPast, anchorWork>>

AnchorRawTx(a) == anchoring[a].stage = "waiting" /\ SaveConfirmed(a, anchoring[a].tx)

\* --tx-hash.
AnchorTx(a, t) == anchoring[a].stage = "begun" /\ SaveConfirmed(a, t)

\* No receipt (in time), a reverted or unrelated transaction, or no answer.
AnchorFails(a) ==
  /\ anchoring[a] # NoAnchor
  /\ anchoring' = [anchoring EXCEPT ![a] = NoAnchor]
  /\ UNCHANGED <<chain, evidence, relayed, feed, cache, refreshes, anchorPast, anchorWork>>

\* A relayer's answer is recorded with the transaction it names, and with the
\* block it names if the receipt passes.
SaveAnswer(a, t, b) ==
  SaveEvidence(a, t, IF Confirmed(t, anchoring[a].of, anchoring[a].registry) THEN b ELSE 0)

\* --auto-relay: the draft carries no transaction, so the operator only queues
\* it, or answers what it has confirmed before.
AnchorRelay(a) ==
  /\ anchoring[a].stage = "begun"
  /\ LET c == anchoring[a].of IN
     /\ relayed' = [relayed EXCEPT ![c] = IF @.queued THEN @ ELSE Queued]
     /\ SaveAnswer(a, relayed[c].tx, relayed[c].block)
  /\ UNCHANGED <<chain, feed, cache, refreshes, anchorPast, anchorWork>>

\* --relayer-url: another relayer may name any transaction and block.
AnchorRelayClaim(a, t, b) ==
  /\ anchoring[a].stage = "begun" /\ <<t, b>> \in RelayClaims
  /\ SaveAnswer(a, t, b)
  /\ IF anchoring[a].registry /\ Confirmed(t, anchoring[a].of, TRUE) THEN UNCHANGED anchorPast
     ELSE Loosely(t)
  /\ UNCHANGED <<chain, relayed, feed, cache, refreshes, anchorWork>>

\* Neither: what the registry knows, or the current block.
AnchorPlain(a) ==
  /\ anchoring[a].stage = "begun"
  /\ LET seen == IF anchoring[a].registry THEN FirstSeen(anchoring[a].of) ELSE {} IN
     SaveEvidence(a, NoTx, IF seen = {} THEN chain.tip ELSE CHOOSE b \in seen : TRUE)
  /\ UNCHANGED <<chain, relayed, feed, cache, refreshes, anchorPast, anchorWork>>

-----------------------------------------------------------------------------
(* The operator's relay *)

\* post_relayer_checkpoint, relay_checkpoint.
RelayCheckpoint(c) ==
  /\ ~relayed[c].queued
  /\ relayed' = [relayed EXCEPT ![c] = Queued]
  /\ UNCHANGED <<chain, evidence, anchoring, feed, cache, refreshes, anchorPast, anchorWork>>

\* confirm_relayed_checkpoint, after verify_evidence of evidence naming t and the
\* operator's own registry.
ConfirmRelayed(c, t) ==
  /\ relayed[c].queued
  /\ ReceiptVerified(t, c)
  /\ relayed' = [relayed EXCEPT ![c] = [queued |-> TRUE, tx |-> t, block |-> chain.mined[t]]]
  /\ UNCHANGED <<chain, evidence, anchoring, feed, cache, refreshes, anchorPast, anchorWork>>

-----------------------------------------------------------------------------
(* The public feed and its finality *)

\* cmd_publish_public_feed.
PublishFeed ==
  /\ feed' = {evidence[c].tx : c \in {d \in Commitments : evidence[d].known}} \ {NoTx}
  /\ feed' # feed
  /\ UNCHANGED <<chain, evidence, anchoring, relayed, cache, refreshes, anchorPast, anchorWork>>

\* load_public_feed_with_finality: the feed, the memory of deep receipts and the
\* tip are read; 0 when the tip could not be had.
RefreshBegin(r, tip) ==
  /\ refreshes[r] = NoRefresh /\ ~cache.fresh
  /\ anchorWork.refreshes < MaxRefreshes
  /\ tip \in {chain.tip, 0}
  /\ refreshes' = [refreshes EXCEPT ![r] =
       [stage |-> "begun", feed |-> feed, prev |-> cache.deep, tip |-> tip]]
  /\ anchorWork' = [anchorWork EXCEPT !.refreshes = @ + 1]
  /\ UNCHANGED <<chain, evidence, anchoring, relayed, feed, cache, anchorPast>>

\* classify_receipt_result, checkpoint_finality.
CheckpointFinality(t, tip, failed) ==
  IF failed THEN "unknown"
  ELSE IF chain.mined[t] = 0 THEN "pending"
  ELSE IF t \in RevertedTxs THEN "failed"
  ELSE IF tip >= chain.mined[t] + Confirmations THEN "deeply_confirmed" ELSE "confirmed"

RefreshObserve(r, failed) ==
  /\ refreshes[r].stage = "begun"
  /\ failed \subseteq refreshes[r].feed
  /\ refreshes' = [refreshes EXCEPT ![r] =
       [stage |-> "observed", feed |-> refreshes[r].feed, prev |-> refreshes[r].prev,
        status |-> [t \in Txs |-> IF t \in refreshes[r].feed
                      THEN CheckpointFinality(t, refreshes[r].tip, t \in failed)
                      ELSE "none"],
        block |-> [t \in Txs |-> IF t \in refreshes[r].feed \ failed
                                 THEN chain.mined[t] ELSE 0]]]
  /\ UNCHANGED <<chain, evidence, anchoring, relayed, feed, cache, anchorPast, anchorWork>>

\* detect_reorg_suspects.
ReorgSuspects(f) ==
  {t \in f.feed : f.prev[t] # 0 /\ f.status[t] # "deeply_confirmed"
                  /\ f.block[t] # f.prev[t]}

NextDeepForgets(f) ==
  [t \in Txs |-> IF f.status[t] = "deeply_confirmed" THEN f.block[t] ELSE 0]

\* Deep receipts, and those of the feed that were deep before.
NextDeep(f) ==
  [t \in Txs |-> IF f.status[t] = "deeply_confirmed" THEN f.block[t]
                 ELSE IF t \in f.feed THEN f.prev[t] ELSE 0]

RefreshStore(r) ==
  LET f == refreshes[r]
      status == [t \in Txs |-> IF t \in ReorgSuspects(f) THEN "reorg_suspected"
                               ELSE f.status[t]] IN
  /\ f.stage = "observed"
  /\ cache' = [fresh |-> TRUE, status |-> status, deep |-> NextDeep(f),
               observed |-> f.block,
               reported |-> [t \in Txs |->
                 IF f.status[t] = "deeply_confirmed" THEN f.block[t]
                 ELSE IF t \in f.feed THEN cache.reported[t] ELSE 0],
               raced |-> cache.raced \/ f.prev # cache.deep]
  /\ refreshes' = [refreshes EXCEPT ![r] = NoRefresh]
  /\ UNCHANGED <<chain, evidence, anchoring, relayed, feed, anchorPast, anchorWork>>

CacheExpires ==
  /\ cache.fresh
  /\ cache' = [cache EXCEPT !.fresh = FALSE]
  /\ UNCHANGED <<chain, evidence, anchoring, relayed, feed, refreshes, anchorPast, anchorWork>>

AnchoringNext ==
  \/ \E t \in Txs : MineTx(t) \/ Reorg(t)
  \/ MineBlock
  \/ \E a \in AnchorCommands :
       \/ \E c \in Commitments, registry \in BOOLEAN : AnchorBegin(a, c, registry)
       \/ \E t \in Txs : AnchorTx(a, t) \/ Broadcast(a, t)
       \/ AnchorRawTx(a)
       \/ AnchorFails(a) \/ AnchorRelay(a) \/ AnchorPlain(a)
       \/ \E t \in Txs, b \in 1..MaxBlock : AnchorRelayClaim(a, t, b)
  \/ \E c \in Commitments : RelayCheckpoint(c) \/ \E t \in Txs : ConfirmRelayed(c, t)
  \/ PublishFeed
  \/ \E r \in Refreshers :
       \/ \E tip \in 0..MaxBlock : RefreshBegin(r, tip)
       \/ \E failed \in SUBSET Txs : RefreshObserve(r, failed)
       \/ RefreshStore(r)
  \/ CacheExpires

AnchoringSpec == AnchoringInit /\ [][AnchoringNext]_anchoringVars

-----------------------------------------------------------------------------
\* Types of the evidence, the relay, the cache and the refreshes.
AnchoringTypeOK ==
  /\ chain.tip \in 1..MaxBlock /\ chain.mined \in [Txs -> 0..MaxBlock]
  /\ \A c \in Commitments : /\ evidence[c].tx \in Txs \cup {NoTx}
                            /\ evidence[c].block \in 0..MaxBlock
                            /\ relayed[c].tx \in Txs \cup {NoTx}
  /\ feed \subseteq Txs
  /\ cache.status \in [Txs -> Statuses] /\ cache.deep \in [Txs -> 0..MaxBlock]
  /\ \A r \in Refreshers : refreshes[r].stage \in {"idle", "begun", "observed"}

\* Nothing is called anchored on a client's or a relayer's word
\* (evaluate_anchor_confirmation, confirm_relayed_checkpoint, cmd_anchor): a
\* confirmed relay is one the registry's own log bound to that very commitment, in
\* the block it names; evidence with transaction and block names a transaction the
\* log once bound to it, or, where no registry was configured, one that merely
\* succeeded; its block is that of the receipt unless a relayer named it.  The feed
\* reports as deeply confirmed only what succeeded in the block shown; the log
\* bound it once, unless it was recorded without a registry or from a relayer's
\* answer that could not be confirmed.
AnchorsBacked ==
  LET bound(t, c, b) == <<t, c, b>> \in anchorPast.proven
      succeeded(t, b) == <<t, b>> \in anchorPast.landed IN
  /\ \A c \in Commitments :
       relayed[c].tx # NoTx => bound(relayed[c].tx, c, relayed[c].block)
  /\ \A c \in Commitments : LET e == evidence[c] IN
       e.tx # NoTx /\ e.block # 0 =>
         \E b \in 1..MaxBlock :
            /\ IF e.registry THEN bound(e.tx, c, b) ELSE succeeded(e.tx, b)
            /\ e.block = b \/ <<e.tx, e.block>> \in RelayClaims
  /\ \A t \in Txs : cache.reported[t] # 0 =>
       /\ succeeded(t, cache.reported[t])
       /\ t \in anchorPast.loose \/ \E c \in Commitments, b \in 1..MaxBlock : bound(t, c, b)

\* The reorg alarm is sticky (detect_reorg_suspects and the memory kept in
\* load_public_feed_with_finality): a checkpoint of the feed that was once shown
\* as deeply confirmed and is not any more, its receipt gone or moved, is shown
\* as suspected by every later refresh until it is deep again. Refreshes that
\* overlap replace each other's memory: the promise is kept only while each
\* refresh replaces the memory it has read.
AlarmSticky ==
  cache.raced \/
  \A t \in Txs :
    /\ cache.status[t] \notin {"none", "deeply_confirmed"}
    /\ cache.reported[t] # 0 /\ cache.observed[t] # cache.reported[t]
    => cache.status[t] = "reorg_suspected"
=============================================================================
