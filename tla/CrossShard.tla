----------------------------- MODULE CrossShard -----------------------------
(***************************************************************************)
(* The life of a transaction: the client injects it, the committee of its  *)
(* shard packages it, the shard executes it, Layer1 confirms the block's   *)
(* time beacon (TB), and the client takes the next step of a cross-shard   *)
(* transaction: its second half or, past the deadline, its rollback.       *)
(*                                                                         *)
(* Every message travels on its own: a batch of transactions (client to    *)
(* committee), the receipts of a block (committee to client) and a block   *)
(* (committee to shard) are sent by goroutines that nothing orders.  A     *)
(* queue of which only the length and the members matter is a set.         *)
(*                                                                         *)
(* Two properties of the environment are parameters, so that what depends  *)
(* on them can be seen:                                                    *)
(*   ReceiptsInTime  a block's receipts reach the client before the client *)
(*                   is told that Layer1 confirmed the block's TB;         *)
(*   BeaconsInOrder  Layer1 confirms the TBs of one shard in the order of  *)
(*                   their heights, with none missing.                     *)
(***************************************************************************)
EXTENDS PoolRules

CONSTANTS
    MaxBlockSize,    \* transactions in a block
    InjectSpeed,     \* transactions the client sends per round of its loop
    ExitMode,        \* 0: stop when the queues are empty, 1: when all is injected
    MaxHeight,       \* bound: no committee starts an EMPTY block above this height
    ReceiptsInTime,
    BeaconsInOrder

ASSUME CrossShardAssumption ==
    /\ MaxBlockSize \in Nat \ {0}
    /\ InjectSpeed \in Nat \ {0}
    /\ ExitMode \in {0, 1}
    /\ MaxHeight \in Nat
    /\ ReceiptsInTime \in BOOLEAN
    /\ BeaconsInOrder \in BOOLEAN

VARIABLES
    \* the client
    injected,                    \* the transactions sendPendingTxs has sent
    cross2_txs,                  \* second halves waiting to be sent
    cross_tx_expired,            \* transactions waiting to be rolled back
    cross1_confirm_height_map,   \* Tx -> height, or Absent
    tx_reply,                    \* receipts waiting for their TB
    tbs,                         \* Shard -> heights of the TBs known to be confirmed
    shard_cur_heights,           \* Shard -> the highest of them
    loopAt, budget,              \* where the injection loop is; what it may still send
    clientUp,                    \* FALSE once log.Error has ended the process
    \* messages under way: batches of transactions, the receipts of a block, blocks
    txNet, receiptNet, blockNet,
    \* the committees' leaders
    pool,                        \* Shard -> the transactions in the pool
    workerAt, curHeight, packed, \* the worker's step, and the block it is making
    gotEnoughReply,              \* Shard -> sequence numbers PBFT has finished
    \* the storage shards
    chainHeight,                 \* Shard -> number of the current block
    executed,                    \* Shard -> the transactions applied to the state
    \* Layer1
    submitted,                   \* TBs sent to the contract, as <<shard, height>>
    \* history
    issued                       \* every receipt a committee has sent

clientVars == <<injected, cross2_txs, cross_tx_expired, cross1_confirm_height_map,
                tx_reply, tbs, shard_cur_heights, loopAt, budget, clientUp>>
workerVars == <<workerAt, curHeight, packed, gotEnoughReply>>
shardVars  == <<chainHeight, executed>>
vars == <<clientVars, txNet, receiptNet, blockNet, pool, workerVars, shardVars,
          submitted, issued>>

Absent == -1

Block == [ShardID : Shard, Number : Nat, Transactions : SUBSET Transaction]

\* The types: the client's queues and maps, messages, pools, workers, chains and Layer1.
DataOK ==
    /\ injected \subseteq Tx
    /\ cross2_txs \subseteq Transaction
    /\ cross_tx_expired \subseteq Tx
    /\ cross1_confirm_height_map \in [Tx -> Nat \cup {Absent}]
    /\ tx_reply \subseteq TXReceipt
    /\ tbs \in [Shard -> SUBSET Nat]
    /\ shard_cur_heights \in [Shard -> Nat]
    /\ loopAt \in {"rollback", "cross2", "pending", "stopped"}
    /\ clientUp \in BOOLEAN
    /\ txNet \subseteq SUBSET Transaction
    /\ receiptNet \subseteq SUBSET TXReceipt
    /\ blockNet \subseteq Block
    /\ pool \in [Shard -> SUBSET Transaction]
    /\ workerAt \in [Shard -> {"idle", "pbft", "multisign"}]
    /\ curHeight \in [Shard -> Nat]
    /\ packed \in [Shard -> SUBSET Transaction]
    /\ gotEnoughReply \in [Shard -> SUBSET Nat]
    /\ chainHeight \in [Shard -> Nat]
    /\ executed \in [Shard -> SUBSET Transaction]
    /\ submitted \subseteq Shard \X Nat
    /\ issued \subseteq TXReceipt

\* With them, that of the budget: a round of the client never overspends it.
TypeOK == DataOK /\ budget \in Nat

Init ==
    /\ injected = {}
    /\ cross2_txs = {}
    /\ cross_tx_expired = {}
    /\ cross1_confirm_height_map = [t \in Tx |-> Absent]
    /\ tx_reply = {}
    /\ tbs = [s \in Shard |-> {}]
    /\ shard_cur_heights = [s \in Shard |-> 0]
    /\ loopAt = "rollback"
    /\ budget = 0
    /\ clientUp = TRUE
    /\ txNet = {}
    /\ receiptNet = {}
    /\ blockNet = {}
    /\ pool = [s \in Shard |-> {}]
    /\ workerAt = [s \in Shard |-> "idle"]
    /\ curHeight = [s \in Shard |-> 0]
    /\ packed = [s \in Shard |-> {}]
    /\ gotEnoughReply = [s \in Shard |-> {}]
    /\ chainHeight = [s \in Shard |-> 0]
    /\ executed = [s \in Shard |-> {}]
    /\ submitted = {}
    /\ issued = {}

-----------------------------------------------------------------------------
(* The client's injection loop: one round sends rollbacks, then second     *)
(* halves, then new transactions, InjectSpeed of them in all.              *)

\* One message per shard that is sent anything.
Messages(txs) == {{tx \in txs : Destination(tx) = s} : s \in Shard} \ {{}}

sendRollbackTxs ==
    /\ clientUp /\ loopAt = "rollback"
    /\ \E batch \in SUBSET cross_tx_expired :
          /\ Cardinality(batch) = Minimum(InjectSpeed, Cardinality(cross_tx_expired))
          /\ txNet' = txNet \cup Messages({RollbackOf(t) : t \in batch})
          /\ cross_tx_expired' = cross_tx_expired \ batch
          /\ budget' = InjectSpeed - Cardinality(batch)
    /\ loopAt' = "cross2"
    /\ UNCHANGED <<injected, cross2_txs, cross1_confirm_height_map, tx_reply, tbs,
                   shard_cur_heights, clientUp, receiptNet, blockNet, pool,
                   workerVars, shardVars, submitted, issued>>

sendCross2Txs ==
    /\ clientUp /\ loopAt = "cross2"
    /\ \E batch \in SUBSET cross2_txs :
          /\ Cardinality(batch) = Minimum(budget, Cardinality(cross2_txs))
          /\ txNet' = txNet \cup Messages(batch)
          /\ cross2_txs' = cross2_txs \ batch
          /\ budget' = budget - Cardinality(batch)
    /\ loopAt' = "pending"
    /\ UNCHANGED <<injected, cross_tx_expired, cross1_confirm_height_map, tx_reply,
                   tbs, shard_cur_heights, clientUp, receiptNet, blockNet, pool,
                   workerVars, shardVars, submitted, issued>>

\* All the client's queues are empty and everything has been injected.
CanStopV1(allSent) ==
    /\ allSent
    /\ tx_reply = {} /\ cross_tx_expired = {} /\ cross2_txs = {}
    /\ \A t \in Tx : cross1_confirm_height_map[t] = Absent

\* The last call of a round, and the loop's decision to go on or to stop.
sendPendingTxs ==
    /\ clientUp /\ loopAt = "pending"
    /\ \E batch \in SUBSET (Tx \ injected) :
          /\ Cardinality(batch) = Minimum(budget, Cardinality(Tx \ injected))
          /\ txNet' = txNet \cup Messages({FirstHalf(t) : t \in batch})
          /\ injected' = injected \cup batch
          /\ loopAt' = IF \/ ExitMode = 1 /\ injected' = Tx
                          \/ CanStopV1(injected' = Tx)
                       THEN "stopped" ELSE "rollback"
    /\ UNCHANGED <<cross2_txs, cross_tx_expired, cross1_confirm_height_map, tx_reply,
                   tbs, shard_cur_heights, budget, clientUp, receiptNet, blockNet,
                   pool, workerVars, shardVars, submitted, issued>>

-----------------------------------------------------------------------------
(* The committee: its pool, and its leader's worker.                       *)

HandleClientSendtx(txs) ==
    /\ txNet' = txNet \ {txs}
    /\ pool' = [s \in Shard |-> pool[s] \cup {tx \in txs : Destination(tx) = s}]
    /\ UNCHANGED <<clientVars, receiptNet, blockNet, workerVars, shardVars,
                   submitted, issued>>

\* The worker asks its shard for the current height, which may be that of before its own
\* last block, still under way, and takes a block's worth of transactions out of the pool.
commitStart(s) ==
    /\ workerAt[s] = "idle"
    /\ chainHeight[s] < MaxHeight \/ pool[s] # {}
    /\ \E txs \in SUBSET pool[s] : \E dropped \in SUBSET LateIn(pool[s], chainHeight[s] + 1) :
          LET rest == pool[s] \ (txs \cup dropped)
          IN  /\ Selection(pool[s], chainHeight[s] + 1, MaxBlockSize, txs, rest)
              /\ packed' = [packed EXCEPT ![s] = txs]
              /\ pool' = [pool EXCEPT ![s] = rest]
    /\ curHeight' = [curHeight EXCEPT ![s] = chainHeight[s] + 1]
    /\ workerAt' = [workerAt EXCEPT ![s] = "pbft"]
    /\ UNCHANGED <<clientVars, txNet, receiptNet, blockNet, gotEnoughReply, shardVars,
                   submitted, issued>>

ReceiptsOf(s, height, txs) ==
    {[TxID |-> tx.id, TxStatus |-> StatusOf(tx.TXtype), ShardID |-> s,
      BlockHeight |-> height] : tx \in txs}

\* Mutant: PBFT takes no notice of a sequence number having been decided.
commitEnd_NoSequenceCheck(s) ==
    /\ workerAt[s] = "pbft"
    /\ gotEnoughReply' = [gotEnoughReply EXCEPT ![s] = @ \cup {curHeight[s]}]
    /\ blockNet' = blockNet \cup {[ShardID |-> s, Number |-> curHeight[s],
                                   Transactions |-> packed[s]]}
    /\ receiptNet' = receiptNet \cup ({ReceiptsOf(s, curHeight[s], packed[s])} \ {{}})
    /\ issued' = issued \cup ReceiptsOf(s, curHeight[s], packed[s])
    /\ packed' = [packed EXCEPT ![s] = {}]
    /\ workerAt' = [workerAt EXCEPT ![s] = "multisign"]
    /\ UNCHANGED <<clientVars, txNet, pool, curHeight, shardVars, submitted>>

\* PBFT finishes, at most once per sequence number, and the sequence number is the
\* block's height: the replies to a second block of that height are ignored and its
\* worker waits for ever.  Then the block goes to the shard and the receipts to the
\* client.
commitEnd(s) ==
    /\ workerAt[s] = "pbft"
    /\ curHeight[s] \notin gotEnoughReply[s]
    /\ gotEnoughReply' = [gotEnoughReply EXCEPT ![s] = @ \cup {curHeight[s]}]
    /\ blockNet' = blockNet \cup {[ShardID |-> s, Number |-> curHeight[s],
                                   Transactions |-> packed[s]]}
    /\ receiptNet' = receiptNet \cup ({ReceiptsOf(s, curHeight[s], packed[s])} \ {{}})
    /\ issued' = issued \cup ReceiptsOf(s, curHeight[s], packed[s])
    /\ packed' = [packed EXCEPT ![s] = {}]
    /\ workerAt' = [workerAt EXCEPT ![s] = "multisign"]
    /\ UNCHANGED <<clientVars, txNet, pool, curHeight, shardVars, submitted>>

\* The committee has signed the block's TB, and the leader sends it to Layer1.
broadcastTbInCommittee(s) ==
    /\ workerAt[s] = "multisign"
    /\ submitted' = submitted \cup {<<s, curHeight[s]>>}
    /\ workerAt' = [workerAt EXCEPT ![s] = "idle"]
    /\ UNCHANGED <<clientVars, txNet, receiptNet, blockNet, pool, curHeight, packed,
                   gotEnoughReply, shardVars, issued>>

-----------------------------------------------------------------------------
(* The storage shard appends the block it is sent, whatever its number,    *)
(* and executes it.                                                        *)

HandleComSendBlock(b) ==
    /\ blockNet' = blockNet \ {b}
    /\ chainHeight' = [chainHeight EXCEPT ![b.ShardID] = b.Number]
    /\ executed' = [executed EXCEPT ![b.ShardID] = @ \cup b.Transactions]
    /\ UNCHANGED <<clientVars, txNet, receiptNet, pool, workerVars, submitted, issued>>

-----------------------------------------------------------------------------
(* The client hears from the committees and from Layer1.                   *)

AddTXReceipts(receipts) ==
    /\ clientUp
    /\ receiptNet' = receiptNet \ {receipts}
    /\ tx_reply' = tx_reply \cup receipts
    /\ UNCHANGED <<injected, cross2_txs, cross_tx_expired, cross1_confirm_height_map,
                   tbs, shard_cur_heights, loopAt, budget, clientUp, txNet, blockNet,
                   pool, workerVars, shardVars, submitted, issued>>

\* The TBs of S are confirmed.  What the two parameters promise about them.
ConfirmedNext(S) ==
    /\ ReceiptsInTime =>
          \A sh \in S : \A receipts \in receiptNet : \A r \in receipts :
              r.ShardID = sh[1] => r.BlockHeight > sh[2]
    /\ BeaconsInOrder =>
          \A sh \in S : \A h \in 1 .. sh[2] :
              h \in tbs[sh[1]] \/ <<sh[1], h>> \in S

IdsWith(receipts, status) == {r.TxID : r \in {q \in receipts : q.TxStatus = status}}

KnownAfter(S) == [s \in Shard |-> tbs[s] \cup {sh[2] : sh \in {x \in S : x[1] = s}}]

\* h is the highest height of shard s the client has heard of, S included.
IsHighest(h, s, S) ==
    /\ h = shard_cur_heights[s] \/ <<s, h>> \in S
    /\ h >= shard_cur_heights[s]
    /\ \A sh \in S : sh[1] = s => h >= sh[2]

\* Mutant: a receipt is acted on as soon as it is there.
Ready_Unconfirmed(S) == tx_reply

\* Receipts of blocks whose TB is confirmed.
Ready(S) == {r \in tx_reply : r.BlockHeight \in KnownAfter(S)[r.ShardID]}

\* Mutant: a completed second half is continued like a first half.
FirstDone_BothHalves(S) ==
    IdsWith(Ready(S), "CrossTXType1Success") \cup IdsWith(Ready(S), "CrossTXType2Success")

FirstDone(S)  == IdsWith(Ready(S), "CrossTXType1Success")
SecondDone(S) == IdsWith(Ready(S), "CrossTXType2Success")

\* Mutant: the confirmed first half is not recorded.
MapAfterReceipts_NotRecorded(S, cur) ==
    [t \in Tx |-> IF t \in SecondDone(S) THEN Absent ELSE cross1_confirm_height_map[t]]

\* The map after processTXReceipts; cur is the new shard_cur_heights.
MapAfterReceipts(S, cur) ==
    [t \in Tx |-> IF t \in FirstDone(S) THEN cur[Recipient_sid[t]]
                  ELSE IF t \in SecondDone(S) THEN Absent
                  ELSE cross1_confirm_height_map[t]]

\* Mutant: the deadline is counted in blocks of the sender's shard.
Expired_SenderHeight(S, cur) ==
    {t \in Tx : LET confirmHeight == MapAfterReceipts(S, cur)[t]
                IN  /\ confirmHeight # Absent
                    /\ cur[Sender_sid[t]] > confirmHeight + RollbackHeight}

\* What checkExpiredTXs moves out of that map.
Expired(S, cur) ==
    {t \in Tx : LET confirmHeight == MapAfterReceipts(S, cur)[t]
                IN  /\ confirmHeight # Absent
                    /\ cur[Recipient_sid[t]] > confirmHeight + RollbackHeight}

processTXReceipts(S, cur) ==
    IF \A t \in SecondDone(S) : cross1_confirm_height_map[t] # Absent
    THEN /\ tx_reply' = tx_reply \ Ready(S)
         /\ cross2_txs' = cross2_txs \cup
                          {SecondHalf(t, cur[Recipient_sid[t]]) : t \in FirstDone(S)}
         /\ cross1_confirm_height_map' =
               [t \in Tx |-> IF t \in Expired(S, cur) THEN Absent
                             ELSE MapAfterReceipts(S, cur)[t]]
         /\ cross_tx_expired' = cross_tx_expired \cup Expired(S, cur)
         /\ clientUp' = clientUp
    ELSE /\ clientUp' = FALSE     \* log.Error ends the process
         /\ UNCHANGED <<tx_reply, cross2_txs, cross1_confirm_height_map, cross_tx_expired>>

\* Record the TBs; handle the receipts of confirmed blocks; then look for second
\* halves that are past their deadline.
AddTBs(S) ==
    /\ clientUp
    /\ ConfirmedNext(S)
    /\ \E cur \in [Shard -> {sh[2] : sh \in S} \cup {shard_cur_heights[s] : s \in Shard}] :
          /\ \A s \in Shard : IsHighest(cur[s], s, S)
          /\ shard_cur_heights' = cur
          /\ processTXReceipts(S, cur)
    /\ tbs' = KnownAfter(S)
    /\ UNCHANGED <<injected, loopAt, budget, txNet, receiptNet, blockNet, pool,
                   workerVars, shardVars, submitted, issued>>

Unconfirmed == {sh \in submitted : sh[2] \notin tbs[sh[1]]}

Next ==
    \/ sendRollbackTxs
    \/ sendCross2Txs
    \/ sendPendingTxs
    \/ \E txs \in txNet : HandleClientSendtx(txs)
    \/ \E s \in Shard : commitStart(s)
    \/ \E s \in Shard : commitEnd(s)
    \/ \E s \in Shard : broadcastTbInCommittee(s)
    \/ \E b \in blockNet : HandleComSendBlock(b)
    \/ \E receipts \in receiptNet : AddTXReceipts(receipts)
    \/ \E S \in (SUBSET Unconfirmed) \ {{}} : AddTBs(S)

Spec == Init /\ [][Next]_vars

\* The injection loop keeps running, the workers' timers keep firing, and messages
\* and confirmations arrive in the end.
Fairness ==
    /\ WF_vars(sendRollbackTxs) /\ WF_vars(sendCross2Txs) /\ WF_vars(sendPendingTxs)
    /\ WF_vars(\E txs \in txNet : HandleClientSendtx(txs))
    /\ WF_vars(\E b \in blockNet : HandleComSendBlock(b))
    /\ WF_vars(\E receipts \in receiptNet : AddTXReceipts(receipts))
    /\ WF_vars(\E S \in (SUBSET Unconfirmed) \ {{}} : AddTBs(S))
    /\ \A s \in Shard : /\ WF_vars(commitStart(s))
                        /\ WF_vars(commitEnd(s))
                        /\ WF_vars(broadcastTbInCommittee(s))

FairSpec == Spec /\ Fairness

-----------------------------------------------------------------------------
(* Properties.                                                             *)

Included(t, status) == \E r \in issued : r.TxID = t /\ r.TxStatus = status

Debited(t)    == Included(t, "CrossTXType1Success")
Credited(t)   == Included(t, "CrossTXType2Success")
RolledBack(t) == Included(t, "RollbackSuccess")
Settled(t)    == Credited(t) \/ RolledBack(t)

\* A cross-shard transaction is never both completed and rolled back: the pool's
\* deadline (txpool.go Pending) and the client's (checkExpiredTXs) agree, although
\* they are computed from heights known at different times and places.
Atomicity == \A t \in Tx : ~(Credited(t) /\ RolledBack(t))

\* No half of a transaction, and no rollback, is included in two blocks.
AtMostOnce ==
    \A r1, r2 \in issued :
        r1.TxID = r2.TxID /\ r1.TxStatus = r2.TxStatus => r1 = r2

\* The client handles the receipt of a second half only for a transaction it still
\* waits for: the check of processTXReceipts that would end the process never fires.
ConfirmedIsNotExpired == clientUp

\* A second half or a rollback is included only after the first half was included
\* and Layer1 confirmed the TB of its block.
DebitFirst ==
    \A r \in issued :
        r.TxStatus \in {"CrossTXType2Success", "RollbackSuccess"} =>
            \E d \in issued :
                /\ d.TxID = r.TxID /\ d.TxStatus = "CrossTXType1Success"
                /\ d.BlockHeight \in tbs[Sender_sid[r.TxID]]

\* A debited transaction that is not settled is never forgotten: its receipt is on
\* its way or kept, or the client still counts its deadline, or its rollback is
\* queued, under way, pooled or being packed.  Dropping the second half (Pending)
\* never drops the last trace of the transaction.
NeverForgotten ==
    \A t \in Tx : Debited(t) /\ ~Settled(t) =>
        \/ \E r \in tx_reply \cup (UNION receiptNet) :
              r.TxID = t /\ r.TxStatus = "CrossTXType1Success"
        \/ cross1_confirm_height_map[t] # Absent
        \/ t \in cross_tx_expired
        \/ RollbackOf(t) \in UNION txNet
        \/ RollbackOf(t) \in pool[Sender_sid[t]] \cup packed[Sender_sid[t]]

\* A block under way to a shard is the only one, and the next of the shard's chain: the
\* shard appends what it is sent without a check, and the worker that read the height
\* before its last block was written is held up by PBFT, as HandleReply ignores a
\* sequence number that has been decided.
BlocksContinueChain ==
    \A b \in blockNet :
        /\ b.Number = chainHeight[b.ShardID] + 1
        /\ \A c \in blockNet : c.ShardID = b.ShardID => c = b

\* The worker of s waits for PBFT to decide a height it has decided already.
WaitsForEver(s) == workerAt[s] = "pbft" /\ curHeight[s] \in gotEnoughReply[s]

\* The client has the second half or the rollback of t ready to be sent.
Unsent(t) == t \in cross_tx_expired \/ \E x \in cross2_txs : x.id = t

\* Every debited transaction is credited or rolled back in the end.  The two ways out:
\* the injection loop has stopped, and what would settle it stays in the client's queue;
\* and a worker of one of its shards has read a stale height (commitStart).
EventuallySettled ==
    \A t \in Tx : Debited(t) ~>
        \/ Settled(t)
        \/ loopAt = "stopped" /\ Unsent(t)
        \/ WaitsForEver(Sender_sid[t]) \/ WaitsForEver(Recipient_sid[t])

\* client.go, CanStopV1: the loop ends when all transactions have been executed.
StoppedWhenAllExecuted ==
    loopAt = "stopped" =>
        \A t \in Tx : IF Sender_sid[t] = Recipient_sid[t]
                      THEN Included(t, "IntraSuccess") ELSE Settled(t)
=============================================================================
