---------------------------- MODULE CrossShardInv ----------------------------
(***************************************************************************)
(* The inductive invariant of CrossShard, in three layers: where a         *)
(* transaction and a receipt can be (Places), which stage of its life a    *)
(* cross-shard transaction is in (Stages), and what the two deadlines, the *)
(* pool's and the client's, know of each other (Deadlines).                *)
(***************************************************************************)
EXTENDS CrossShard

\* Transactions that may still be included in a block.
Alive ==
    cross2_txs \cup (UNION txNet) \cup (UNION {pool[s] : s \in Shard})
               \cup (UNION {packed[s] : s \in Shard})

\* Receipts the client has not acted on.
Awaited == tx_reply \cup (UNION receiptNet)

Places ==
    /\ \A x \in cross2_txs : x.TXtype = CrossTXType2
    /\ \A s \in Shard : \A x \in pool[s] \cup packed[s] : Destination(x) = s
    /\ \A x \in cross2_txs : \A m \in txNet : x \notin m
    /\ \A x \in cross2_txs \cup (UNION txNet) : \A s \in Shard : x \notin pool[s]
    /\ \A s \in Shard : \A x \in packed[s] :
          /\ x \notin cross2_txs
          /\ \A m \in txNet : x \notin m
          /\ \A u \in Shard : x \notin pool[u]
    /\ \A m1, m2 \in txNet : \A x \in m1 \cap m2 : m1 = m2
    /\ \A s \in Shard : packed[s] # {} => workerAt[s] = "pbft"
    /\ Awaited \subseteq issued
    /\ \A m \in receiptNet : \A r \in m : r \notin tx_reply
    /\ \A m1, m2 \in receiptNet : \A r \in m1 \cap m2 : m1 = m2

HasSecondHalf(t) == \E x \in Alive : x.id = t /\ x.TXtype = CrossTXType2

\* t is to be rolled back, or has been.
RollingBack(t) == t \in cross_tx_expired \/ RollbackOf(t) \in Alive \/ RolledBack(t)

\* The client has acted on the receipt of t's first half.
Continued(t) ==
    \/ cross1_confirm_height_map[t] # Absent
    \/ HasSecondHalf(t)
    \/ Credited(t)
    \/ RollingBack(t)

\* The receipts of t's first half.
FirstReceipts(t) == {r \in issued : r.TxID = t /\ r.TxStatus = "CrossTXType1Success"}

\* What may still be included has not been included.
NotYetIncluded == \A x \in Alive : ~Included(x.id, StatusOf(x.TXtype))

\* First halves and rollbacks have one form each; first halves are injected ones.
Forms ==
    /\ \A x \in Alive : x.TXtype \in {IntraTXType, CrossTXType1} =>
          x = FirstHalf(x.id) /\ x.id \in injected
    /\ \A x \in Alive : x.TXtype = RollbackTXType => x = RollbackOf(x.id)
    /\ \A r \in issued : r.TxStatus \in {"IntraSuccess", "CrossTXType1Success"} =>
          r.TxID \in injected

ReceiptShard ==
    \A r \in issued :
        r.ShardID = IF r.TxStatus = "CrossTXType2Success" THEN Recipient_sid[r.TxID]
                                                          ELSE Sender_sid[r.TxID]

\* The client acts on the receipt of a first half once, after its TB is confirmed.
ContinuedOnce ==
    \A t \in Tx : Continued(t) =>
        /\ Debited(t)
        /\ \A r \in FirstReceipts(t) : r \notin Awaited /\ r.BlockHeight \in tbs[r.ShardID]

OneSecondHalf ==
    \A x, y \in Alive :
        x.id = y.id /\ x.TXtype = CrossTXType2 /\ y.TXtype = CrossTXType2 => x = y

\* The client's deadline and the one the second half carries are the same.
SameDeadline ==
    \A x \in Alive : x.TXtype = CrossTXType2 /\ cross1_confirm_height_map[x.id] # Absent
        => x.Cross1ConfirmHeight = cross1_confirm_height_map[x.id]

\* A transaction is given up once.
GivenUpOnce ==
    /\ \A t \in Tx : RollingBack(t) => cross1_confirm_height_map[t] = Absent
    /\ \A t \in cross_tx_expired : RollbackOf(t) \notin Alive /\ ~RolledBack(t)

Remembered ==
    /\ \A t \in Tx : Debited(t) /\ ~Settled(t) =>
          Continued(t) \/ \E r \in FirstReceipts(t) : r \in Awaited
    /\ \A t \in Tx : HasSecondHalf(t) => cross1_confirm_height_map[t] # Absent \/ RollingBack(t)

Stages ==
    /\ NotYetIncluded
    /\ Forms
    /\ ReceiptShard
    /\ AtMostOnce
    /\ ContinuedOnce
    /\ OneSecondHalf
    /\ SameDeadline
    /\ GivenUpOnce
    /\ Remembered

Heights ==
    /\ \A s \in Shard : tbs[s] \subseteq gotEnoughReply[s]
    /\ \A sh \in submitted : sh[2] >= 1 /\ sh[2] \in gotEnoughReply[sh[1]]
    /\ \A s \in Shard : workerAt[s] # "idle" => curHeight[s] >= 1
    /\ \A s \in Shard : workerAt[s] = "multisign" => curHeight[s] \in gotEnoughReply[s]
    /\ \A s \in Shard : \A x \in packed[s] : ~Late(x, curHeight[s])

\* The client knows the TBs of each shard up to some height.
KnownUpTo == \A s \in Shard : tbs[s] = 1 .. shard_cur_heights[s]

\* While the receipt of a second half is awaited, the client still counts its deadline,
\* and the block is within it.
AwaitedInTime ==
    \A r \in Awaited : r.TxStatus = "CrossTXType2Success" =>
        /\ r.BlockHeight \notin tbs[r.ShardID]
        /\ cross1_confirm_height_map[r.TxID] # Absent
        /\ r.BlockHeight >= 1
        /\ r.BlockHeight <= cross1_confirm_height_map[r.TxID] + RollbackHeight

\* The client stops counting once it has acted on the receipt.
CountedWhileAwaited ==
    \A r \in issued : r.TxStatus = "CrossTXType2Success" =>
        r \in Awaited \/ cross1_confirm_height_map[r.TxID] = Absent

Exclusive == \A t \in Tx : Credited(t) => ~RollingBack(t)

\* A second half the client has given up is too late for every block to come.
TooLate ==
    \A x \in Alive : x.TXtype = CrossTXType2 /\ cross1_confirm_height_map[x.id] = Absent
        => shard_cur_heights[Recipient_sid[x.id]] > Deadline(x)

\* Needs ReceiptsInTime and BeaconsInOrder.
Deadlines ==
    /\ clientUp
    /\ KnownUpTo
    /\ AwaitedInTime
    /\ CountedWhileAwaited
    /\ Exclusive
    /\ TooLate

\* The inductive invariant: transactions and receipts are in one place, every
\* transaction is in one stage, and the two deadlines agree.
IInv == DataOK /\ Places /\ Stages /\ Heights /\ Deadlines

\* What makes the blocks continue their chains, whatever is late: PBFT has decided every
\* height of the chain and of the block under way, and the height a worker has read is
\* never above the chain's.
DecidedInOrder ==
    /\ \A s \in Shard : workerAt[s] = "pbft" =>
          curHeight[s] > 0 /\ curHeight[s] <= chainHeight[s] + 1
    /\ \A s \in Shard : \A h \in Nat : 0 < h /\ h <= chainHeight[s] => h \in gotEnoughReply[s]
    /\ \A b \in blockNet : b.Number \in gotEnoughReply[b.ShardID]
    /\ BlocksContinueChain
=============================================================================
