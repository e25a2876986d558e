----------------------- MODULE CrossShardStageProofs ------------------------
(***************************************************************************)
(* Proofs about CrossShard, part 1: what its operators return, the types   *)
(* of its data, what each action does to the transactions and receipts     *)
(* that are alive and to the stages of their lives (Places and Stages of   *)
(* CrossShardInv, which are inductive), and what follows from those alone, *)
(* whatever the order and delay of messages.  As in part 2, the results    *)
(* hold for every number of shards and transactions, every block size,     *)
(* injection speed and deadline, and without MaxHeight being of any        *)
(* consequence.                                                            *)
(***************************************************************************)
EXTENDS CrossShardInv, TLAPS

-----------------------------------------------------------------------------
(* Facts about the operators of CoreTypes.                                 *)

\* The forms the client gives a transaction (send.go, get.go) are transactions.
LEMMA FormsType ==
    ASSUME NEW t \in Tx, NEW h \in Nat
    PROVE  /\ FirstHalf(t) \in Transaction
           /\ SecondHalf(t, h) \in Transaction
           /\ RollbackOf(t) \in Transaction
BY Zenon DEF FirstHalf, SecondHalf, RollbackOf, Transaction, TXTypes, CrossTXType2,
   RollbackTXType

\* A block gives each type of transaction a status of its own (worker.go,
\* executeTransactions).
LEMMA StatusValues ==
    /\ StatusOf(IntraTXType) = "IntraSuccess"
    /\ StatusOf(CrossTXType1) = "CrossTXType1Success"
    /\ StatusOf(CrossTXType2) = "CrossTXType2Success"
    /\ StatusOf(RollbackTXType) = "RollbackSuccess"
BY DEF StatusOf, IntraTXType, CrossTXType1, CrossTXType2, RollbackTXType

\* The status of a type (StatusOf) is a status.
LEMMA StatusType ==
    ASSUME NEW type \in TXTypes
    PROVE  StatusOf(type) \in Statuses
BY StatusValues DEF TXTypes, Statuses

\* Every transaction is sent to a shard that exists.
LEMMA DestinationType ==
    ASSUME NEW tx \in Transaction
    PROVE  Destination(tx) \in Shard
BY TypesAssumption, Zenon DEF Destination, Transaction

\* Splitting a batch by destination loses nothing and invents nothing.
LEMMA MessagesSplit ==
    ASSUME NEW txs \in SUBSET Transaction
    PROVE  /\ Messages(txs) \subseteq SUBSET txs
           /\ \A tx \in txs : \E m \in Messages(txs) : tx \in m
           /\ \A m1, m2 \in Messages(txs) : \A tx \in m1 \cap m2 : m1 = m2
<1>2. ASSUME NEW tx \in txs PROVE \E m \in Messages(txs) : tx \in m
  <2>2. {x \in txs : Destination(x) = Destination(tx)} \in Messages(txs)
    BY DestinationType, Zenon DEF Messages
  <2> QED
    BY <2>2
<1> QED
  BY <1>2, Zenon DEF Messages

-----------------------------------------------------------------------------
(* Type correctness.                                                       *)

\* The initial state is well typed.
LEMMA DataInit == Init => DataOK
BY DEF Init, DataOK, Absent

\* Every step keeps the types.
LEMMA DataNext == DataOK /\ [Next]_vars => DataOK'
<1> SUFFICES ASSUME DataOK, [Next]_vars
             PROVE  DataOK'
  BY Zenon
<1> USE TypesAssumption, CrossShardAssumption
<1>1. CASE sendRollbackTxs
  <2>1. PICK batch \in SUBSET cross_tx_expired :
           /\ txNet' = txNet \cup Messages({RollbackOf(t) : t \in batch})
           /\ cross_tx_expired' = cross_tx_expired \ batch
    BY <1>1, Zenon DEF sendRollbackTxs
  <2>3. txNet' \subseteq SUBSET Transaction
    BY <2>1, MessagesSplit, FormsType DEF DataOK
  <2> QED
    BY <1>1, <2>3, Zenon DEF sendRollbackTxs, DataOK, workerVars, shardVars
<1>2. CASE sendCross2Txs
  <2>1. PICK batch \in SUBSET cross2_txs :
           /\ txNet' = txNet \cup Messages(batch)
           /\ cross2_txs' = cross2_txs \ batch
    BY <1>2, Zenon DEF sendCross2Txs
  <2>2. txNet' \subseteq SUBSET Transaction
    BY <2>1, MessagesSplit DEF DataOK
  <2> QED
    BY <1>2, <2>2, Zenon DEF sendCross2Txs, DataOK, workerVars, shardVars
<1>3. CASE sendPendingTxs
  <2>1. PICK batch \in SUBSET (Tx \ injected) :
           /\ txNet' = txNet \cup Messages({FirstHalf(t) : t \in batch})
           /\ injected' = injected \cup batch
           /\ loopAt' \in {"stopped", "rollback"}
    BY <1>3, Zenon DEF sendPendingTxs
  <2>2. {FirstHalf(t) : t \in batch} \in SUBSET Transaction
    BY FormsType
  <2>3. txNet' \subseteq SUBSET Transaction
    BY <2>1, <2>2, MessagesSplit DEF DataOK
  <2> QED
    BY <1>3, <2>3, Zenon DEF sendPendingTxs, DataOK, workerVars, shardVars
<1>4. ASSUME NEW txs \in txNet, HandleClientSendtx(txs) PROVE DataOK'
  BY <1>4 DEF HandleClientSendtx, DataOK, clientVars, workerVars, shardVars
<1>5. ASSUME NEW s \in Shard, commitStart(s) PROVE DataOK'
  BY <1>5 DEF commitStart, DataOK, clientVars, shardVars
<1>6. ASSUME NEW s \in Shard, commitEnd(s) PROVE DataOK'
  <2>1. ReceiptsOf(s, curHeight[s], packed[s]) \subseteq TXReceipt
    BY StatusType DEF ReceiptsOf, TXReceipt, DataOK, Transaction
  <2>2. [ShardID |-> s, Number |-> curHeight[s], Transactions |-> packed[s]] \in Block
    BY Zenon DEF DataOK, Block
  <2> QED
    BY <1>6, <2>1, <2>2 DEF commitEnd, DataOK, clientVars, shardVars
<1>7. ASSUME NEW s \in Shard, broadcastTbInCommittee(s) PROVE DataOK'
  BY <1>7 DEF broadcastTbInCommittee, DataOK, clientVars, shardVars
<1>8. ASSUME NEW b \in blockNet, HandleComSendBlock(b) PROVE DataOK'
  BY <1>8 DEF HandleComSendBlock, DataOK, clientVars, workerVars, Block
<1>9. ASSUME NEW receipts \in receiptNet, AddTXReceipts(receipts) PROVE DataOK'
  BY <1>9, Zenon DEF AddTXReceipts, DataOK, workerVars, shardVars
<1>10. ASSUME NEW S \in SUBSET Unconfirmed, AddTBs(S) PROVE DataOK'
  <2>1. PICK cur : /\ cur \in [Shard -> {sh[2] : sh \in S} \cup {shard_cur_heights[s] : s \in Shard}]
                   /\ shard_cur_heights' = cur
                   /\ processTXReceipts(S, cur)
    BY <1>10, Zenon DEF AddTBs
  <2>2. S \subseteq Shard \X Nat
    BY Zenon DEF Unconfirmed, DataOK
  <2>3. cur \in [Shard -> Nat]
    BY <2>1, <2>2 DEF DataOK
  <2>4. KnownAfter(S) \in [Shard -> SUBSET Nat]
    BY <2>2 DEF KnownAfter, DataOK
  <2>5. FirstDone(S) \subseteq Tx
    BY DEF FirstDone, IdsWith, Ready, DataOK, TXReceipt
  <2>7. {SecondHalf(t, cur[Recipient_sid[t]]) : t \in FirstDone(S)} \subseteq Transaction
    BY <2>3, <2>5, FormsType
  <2>8. /\ cross2_txs' \subseteq Transaction
        /\ tx_reply' \subseteq TXReceipt
        /\ cross1_confirm_height_map' \in [Tx -> Nat \cup {Absent}]
        /\ cross_tx_expired' \subseteq Tx
        /\ clientUp' \in BOOLEAN
    <3>1. CASE \A t \in SecondDone(S) : cross1_confirm_height_map[t] # Absent
      <4>2. /\ tx_reply' = tx_reply \ Ready(S)
            /\ cross2_txs' = cross2_txs \cup
                             {SecondHalf(t, cur[Recipient_sid[t]]) : t \in FirstDone(S)}
            /\ cross1_confirm_height_map' =
                   [t \in Tx |-> IF t \in Expired(S, cur) THEN Absent
                                 ELSE MapAfterReceipts(S, cur)[t]]
            /\ cross_tx_expired' = cross_tx_expired \cup Expired(S, cur)
            /\ clientUp' = clientUp
        BY <3>1, <2>1, Zenon DEF processTXReceipts
      <4> QED
        BY <2>3, <2>7, <4>2, Zenon DEF DataOK, MapAfterReceipts, Expired
    <3>2. CASE ~(\A t \in SecondDone(S) : cross1_confirm_height_map[t] # Absent)
      BY <3>2, <2>1, Zenon DEF processTXReceipts, DataOK
    <3> QED
      BY <3>1, <3>2, Zenon
  <2> QED
    BY <1>10, <2>1, <2>3, <2>4, <2>8, Zenon DEF AddTBs, DataOK, workerVars, shardVars
<1>11. CASE UNCHANGED vars
  BY <1>11, Zenon DEF vars, DataOK, clientVars, workerVars, shardVars
<1> QED
  BY <1>1, <1>2, <1>3, <1>4, <1>5, <1>6, <1>7, <1>8, <1>9, <1>10, <1>11, Zenon DEF Next

-----------------------------------------------------------------------------
(* What each action does to the transactions that are alive.               *)

\* A client loop step that adds the transactions of `new` to the network and takes
\* `sent` out of cross2_txs.
LEMMA SendEffect ==
    ASSUME DataOK, Places, NEW new \in SUBSET Transaction, NEW sent \in SUBSET cross2_txs,
           sent \subseteq new,
           \A x \in new \ sent : x \notin Alive,
           txNet' = txNet \cup Messages(new),
           cross2_txs' = cross2_txs \ sent,
           UNCHANGED <<pool, packed, workerAt, tx_reply, receiptNet, issued>>
    PROVE  Places' /\ Alive' = Alive \cup new /\ Awaited' = Awaited
BY MessagesSplit DEF Alive, Awaited, Places

\* What HandleClientSendtx moves from the network to a pool: no transaction appears or is lost.
LEMMA HandleClientSendtxEffect ==
    ASSUME DataOK, Places, NEW txs \in txNet, HandleClientSendtx(txs)
    PROVE  Places' /\ Alive' = Alive /\ Awaited' = Awaited
<1>1. /\ txNet' = txNet \ {txs}
      /\ pool' = [s \in Shard |-> pool[s] \cup {tx \in txs : Destination(tx) = s}]
      /\ UNCHANGED <<cross2_txs, packed, workerAt, tx_reply, receiptNet, issued>>
  BY Zenon DEF HandleClientSendtx, clientVars, workerVars
<1>4. Alive' = Alive
  BY <1>1, DestinationType DEF Alive, DataOK
<1> QED
  BY <1>1, <1>4 DEF Places, Awaited

\* What commitStart takes out of the pool (Pending): only late second halves are dropped.
LEMMA commitStartEffect ==
    ASSUME DataOK, Places, NEW s \in Shard, commitStart(s)
    PROVE  Places' /\ Alive' \subseteq Alive /\ Awaited' = Awaited
           /\ \A x \in Alive : x.TXtype # CrossTXType2 => x \in Alive'
<1>1. PICK txs \in SUBSET pool[s], dropped \in SUBSET LateIn(pool[s], chainHeight[s] + 1) :
          /\ packed' = [packed EXCEPT ![s] = txs]
          /\ pool' = [pool EXCEPT ![s] = pool[s] \ (txs \cup dropped)]
  BY Zenon DEF commitStart
<1>2. /\ workerAt[s] = "idle"
      /\ workerAt' = [workerAt EXCEPT ![s] = "pbft"]
      /\ UNCHANGED <<cross2_txs, txNet, tx_reply, receiptNet, issued>>
  BY Zenon DEF commitStart, clientVars
<1>3. packed[s] = {}
  BY <1>2, Zenon DEF Places
<1>5. Awaited' = Awaited
  BY <1>2, Zenon DEF Awaited
<1>6. \A u \in Shard : pool'[u] \cup packed'[u] \subseteq pool[u] \cup packed[u]
  BY <1>1, Zenon DEF DataOK
<1>7. \A u \in Shard : \A x \in pool[u] \cup packed[u] :
          x.TXtype # CrossTXType2 => x \in pool'[u] \cup packed'[u]
  BY <1>1, <1>3, Zenon DEF DataOK, LateIn, Late
<1>8. Alive' \subseteq Alive
  BY <1>2, <1>6 DEF Alive
<1>9. \A x \in Alive : x.TXtype # CrossTXType2 => x \in Alive'
  BY <1>2, <1>7 DEF Alive
<1>10. \A u \in Shard : \A x \in packed'[u] :
          /\ x \notin cross2_txs'
          /\ \A m \in txNet' : x \notin m
          /\ \A v \in Shard : x \notin pool'[v]
  <2> SUFFICES ASSUME NEW u \in Shard, NEW x \in packed'[u]
               PROVE  /\ x \notin cross2_txs
                      /\ \A m \in txNet : x \notin m
                      /\ \A v \in Shard : x \notin pool'[v]
    BY <1>2, Zenon
  <2>1. CASE u = s
    <3>1. x \in txs /\ x \in pool[s]
      BY <1>1, <2>1, Zenon DEF DataOK
    <3>2. x \notin pool'[s]
      BY <1>1, <3>1, Zenon DEF DataOK
    <3> QED
      BY <1>6, <3>1, <3>2 DEF Places
  <2>2. CASE u # s
    BY <1>1, <2>2 DEF Places
  <2> QED
    BY <2>1, <2>2, Zenon
<1>11. \A u \in Shard : packed'[u] # {} => workerAt'[u] = "pbft"
  BY <1>1, <1>2 DEF Places, DataOK
<1>12. \A x \in cross2_txs' \cup (UNION txNet') : \A u \in Shard : x \notin pool'[u]
  <2>1. \A u \in Shard : pool'[u] \subseteq pool[u]
    BY <1>1, Zenon DEF DataOK
  <2> QED
    BY <1>2, <2>1 DEF Places
<1>13. \A u \in Shard : \A x \in pool'[u] \cup packed'[u] : Destination(x) = u
  BY <1>6, Zenon DEF Places
<1> QED
  BY <1>2, <1>5, <1>8, <1>9, <1>10, <1>11, <1>12, <1>13 DEF Places

\* The receipts of a block: one for each of its transactions.
LEMMA commitEndEffect ==
    ASSUME DataOK, Places, Stages, NEW s \in Shard, commitEnd(s)
    PROVE  LET new == ReceiptsOf(s, curHeight[s], packed[s])
           IN  /\ Places'
               /\ Alive' = Alive \ packed[s]
               /\ Awaited' = Awaited \cup new
               /\ issued' = issued \cup new
               /\ packed[s] \subseteq Alive
               /\ \A r \in new : r \notin issued
<1> DEFINE new == ReceiptsOf(s, curHeight[s], packed[s])
<1>1. /\ packed' = [packed EXCEPT ![s] = {}]
      /\ issued' = issued \cup new
      /\ receiptNet' = receiptNet \cup ({new} \ {{}})
      /\ workerAt' = [workerAt EXCEPT ![s] = "multisign"]
      /\ UNCHANGED <<cross2_txs, txNet, tx_reply, pool>>
  BY Zenon DEF commitEnd, clientVars
<1>2. packed[s] \subseteq Alive
  BY Zenon DEF Alive
<1>3. \A r \in new : r \notin issued
  BY <1>2 DEF ReceiptsOf, Stages, NotYetIncluded, Included
<1>4. Awaited' = Awaited \cup new
  BY <1>1, Zenon DEF Awaited
<1>6. Alive' = Alive \ packed[s]
  BY <1>1 DEF DataOK, Places, Alive
<1> HIDE DEF new
<1>9. \A u \in Shard : packed'[u] \subseteq packed[u] /\ (packed'[u] # {} => workerAt'[u] = "pbft")
  BY <1>1 DEF Places, DataOK
<1>10. Places'
  BY <1>1, <1>3, <1>9 DEF Places, Awaited
<1> QED
  BY <1>1, <1>2, <1>3, <1>4, <1>6, <1>10, Zenon DEF new

\* AddTXReceipts moves receipts from the network to tx_reply and nothing else.
LEMMA AddTXReceiptsEffect ==
    ASSUME DataOK, Places, NEW receipts \in receiptNet, AddTXReceipts(receipts)
    PROVE  Places' /\ Alive' = Alive /\ Awaited' = Awaited
BY DEF AddTXReceipts, workerVars, Alive, Awaited, Places

-----------------------------------------------------------------------------
(* The stages of a transaction's life, action by action.                   *)

stageVars == <<issued, cross1_confirm_height_map, cross_tx_expired, injected, tbs>>

\* A step that moves transactions and receipts, and makes none, keeps Stages.
LEMMA StagesSame ==
    ASSUME DataOK, Stages, Alive' = Alive, Awaited' = Awaited,
           UNCHANGED <<issued, cross1_confirm_height_map, cross_tx_expired, injected>>,
           \A s \in Shard : tbs[s] \subseteq tbs'[s]
    PROVE  Stages'
<1>1. \A t : /\ (\A st : Included(t, st)' <=> Included(t, st))
             /\ Debited(t)' <=> Debited(t)
             /\ Credited(t)' <=> Credited(t)
             /\ RolledBack(t)' <=> RolledBack(t)
             /\ Settled(t)' <=> Settled(t)
  BY Zenon DEF Included, Debited, Credited, RolledBack, Settled
<1>2. \A t : /\ HasSecondHalf(t)' <=> HasSecondHalf(t)
             /\ RollingBack(t)' <=> RollingBack(t)
             /\ Continued(t)' <=> Continued(t)
             /\ FirstReceipts(t)' = FirstReceipts(t)
  BY <1>1, Zenon DEF HasSecondHalf, RollingBack, Continued, FirstReceipts
<1>5. ContinuedOnce'
  BY <1>1, <1>2, Zenon DEF FirstReceipts, DataOK, TXReceipt, Stages, ContinuedOnce
<1>6. OneSecondHalf' /\ SameDeadline'
  BY Zenon DEF Stages, OneSecondHalf, SameDeadline
<1>7. GivenUpOnce' /\ Remembered'
  BY <1>1, <1>2, Zenon DEF Stages, GivenUpOnce, Remembered
<1> QED
  BY <1>1, <1>5, <1>6, <1>7, Zenon DEF Stages, NotYetIncluded, Forms, ReceiptShard, AtMostOnce

\* Packing a block only lets second halves that are late disappear.
LEMMA StagesCommitStart ==
    ASSUME DataOK, Stages, Alive' \subseteq Alive, Awaited' = Awaited,
           \A x \in Alive : x.TXtype # CrossTXType2 => x \in Alive',
           UNCHANGED stageVars
    PROVE  Stages'
<1> USE DEF stageVars
<1>1. \A t : /\ (\A st : Included(t, st)' <=> Included(t, st))
             /\ Debited(t)' <=> Debited(t)
             /\ Credited(t)' <=> Credited(t)
             /\ RolledBack(t)' <=> RolledBack(t)
             /\ Settled(t)' <=> Settled(t)
  BY Zenon DEF Included, Debited, Credited, RolledBack, Settled
<1>2. \A t : RollbackOf(t) \in Alive' <=> RollbackOf(t) \in Alive
  BY Zenon DEF RollbackOf, RollbackTXType, CrossTXType2
<1>3. \A t : /\ HasSecondHalf(t)' => HasSecondHalf(t)
             /\ RollingBack(t)' <=> RollingBack(t)
             /\ FirstReceipts(t)' = FirstReceipts(t)
  BY <1>1, <1>2, Zenon DEF HasSecondHalf, RollingBack, FirstReceipts
<1>4. \A t \in Tx : Continued(t)' <=> Continued(t)
  BY <1>1, <1>3, Zenon DEF Continued, Stages, Remembered
<1>8. OneSecondHalf' /\ SameDeadline'
  BY Zenon DEF Stages, OneSecondHalf, SameDeadline
<1>9. GivenUpOnce'
  BY <1>1, <1>3, Zenon DEF Stages, GivenUpOnce
<1>10. Remembered'
  BY <1>1, <1>3, <1>4, Zenon DEF Stages, Remembered
<1> QED
  BY <1>1, <1>3, <1>4, <1>8, <1>9, <1>10, Zenon DEF Stages, NotYetIncluded, Forms,
     ReceiptShard, AtMostOnce, ContinuedOnce

\* Sending rollbacks: what was expired is now alive as a rollback.
LEMMA StagesRollback ==
    ASSUME DataOK, Stages, NEW batch \in SUBSET cross_tx_expired,
           Alive' = Alive \cup {RollbackOf(t) : t \in batch}, Awaited' = Awaited,
           cross_tx_expired' = cross_tx_expired \ batch,
           UNCHANGED <<issued, cross1_confirm_height_map, injected, tbs>>
    PROVE  Stages'
<1>1. \A t : /\ (\A st : Included(t, st)' <=> Included(t, st))
             /\ Debited(t)' <=> Debited(t)
             /\ Credited(t)' <=> Credited(t)
             /\ RolledBack(t)' <=> RolledBack(t)
             /\ Settled(t)' <=> Settled(t)
  BY Zenon DEF Included, Debited, Credited, RolledBack, Settled
<1>3. \A t \in Tx : RollbackOf(t) \in Alive' <=> RollbackOf(t) \in Alive \/ t \in batch
  BY Zenon DEF RollbackOf
<1>4. \A x \in Alive' : x.TXtype # RollbackTXType => x \in Alive
  BY DEF RollbackOf
<1>5. \A t \in Tx : /\ HasSecondHalf(t)' <=> HasSecondHalf(t)
                    /\ RollingBack(t)' <=> RollingBack(t)
                    /\ FirstReceipts(t)' = FirstReceipts(t)
  BY <1>1, <1>3, <1>4, Zenon DEF HasSecondHalf, CrossTXType2, RollbackTXType, RollingBack,
     FirstReceipts
<1>6. \A t \in Tx : Continued(t)' <=> Continued(t)
  BY <1>1, <1>5, Zenon DEF Continued
<1>7. NotYetIncluded'
  BY StatusValues DEF Stages, GivenUpOnce, RolledBack, RollbackOf, NotYetIncluded, Included
<1>9. ReceiptShard' /\ AtMostOnce'
  BY Zenon DEF Stages, ReceiptShard, AtMostOnce
<1>10. ContinuedOnce'
  BY <1>1, <1>5, <1>6, Zenon DEF Stages, ContinuedOnce
<1>11. OneSecondHalf' /\ SameDeadline'
  BY <1>4, Zenon DEF Stages, OneSecondHalf, SameDeadline, CrossTXType2, RollbackTXType
<1>12. GivenUpOnce'
  BY <1>1, <1>3, <1>5, Zenon DEF Stages, GivenUpOnce, DataOK
<1>13. Remembered'
  BY <1>1, <1>5, <1>6, Zenon DEF Stages, Remembered
<1> QED
  BY <1>7, <1>9, <1>10, <1>11, <1>12, <1>13 DEF Stages, Forms, RollbackOf, RollbackTXType,
     IntraTXType, CrossTXType1

\* Injecting new transactions.
LEMMA StagesPending ==
    ASSUME DataOK, Stages, NEW batch \in SUBSET (Tx \ injected),
           Alive' = Alive \cup {FirstHalf(t) : t \in batch}, Awaited' = Awaited,
           injected' = injected \cup batch,
           UNCHANGED <<issued, cross1_confirm_height_map, cross_tx_expired, tbs>>
    PROVE  Stages'
<1>1. \A t : /\ (\A st : Included(t, st)' <=> Included(t, st))
             /\ Debited(t)' <=> Debited(t)
             /\ Credited(t)' <=> Credited(t)
             /\ RolledBack(t)' <=> RolledBack(t)
             /\ Settled(t)' <=> Settled(t)
  BY Zenon DEF Included, Debited, Credited, RolledBack, Settled
<1>2. \A t : /\ FirstHalf(t).id = t
             /\ FirstHalf(t).TXtype \in {IntraTXType, CrossTXType1}
  BY Zenon DEF FirstHalf
<1>3. \A x \in Alive' : x \in Alive \/ \E t \in batch : x = FirstHalf(t)
  BY Zenon
<1>4. \A x \in Alive' : x.TXtype \notin {IntraTXType, CrossTXType1} => x \in Alive
  BY <1>2, <1>3
<1>5. \A t : /\ HasSecondHalf(t)' <=> HasSecondHalf(t)
             /\ RollbackOf(t) \in Alive' <=> RollbackOf(t) \in Alive
             /\ RollingBack(t)' <=> RollingBack(t)
             /\ FirstReceipts(t)' = FirstReceipts(t)
  BY <1>1, <1>4, Zenon DEF HasSecondHalf, CrossTXType2, IntraTXType, CrossTXType1, RollbackOf,
     RollbackTXType, FirstReceipts, RollingBack
<1>6. \A t \in Tx : Continued(t)' <=> Continued(t)
  BY <1>1, <1>5, Zenon DEF Continued
<1>7. NotYetIncluded'
  BY <1>2, StatusValues DEF Stages, Forms, Included, NotYetIncluded
<1>8. Forms'
  BY <1>2 DEF Stages, Forms, RollbackTXType, IntraTXType, CrossTXType1
<1>11. OneSecondHalf' /\ SameDeadline'
  BY <1>4, Zenon DEF Stages, OneSecondHalf, SameDeadline, CrossTXType2, IntraTXType,
     CrossTXType1
<1> QED
  BY <1>1, <1>5, <1>6, <1>7, <1>8, <1>11, Zenon DEF Stages, ReceiptShard, AtMostOnce,
     GivenUpOnce, Remembered, ContinuedOnce

\* What can still be included is determined by its identifier and its type.
LEMMA UniqueAlive ==
    ASSUME DataOK, Stages, NEW x \in Alive, NEW y \in Alive, x.id = y.id, x.TXtype = y.TXtype,
           x \in Transaction
    PROVE  x = y
BY Zenon DEF Stages, Forms, OneSecondHalf, Transaction, TXTypes

\* What is alive (queued, under way, pooled or being packed) is a set of transactions.
LEMMA AliveType ==
    ASSUME DataOK PROVE Alive \subseteq Transaction
BY DEF DataOK, Alive

\* The status of a receipt tells the type of the transaction.
LEMMA StatusInjective ==
    ASSUME NEW type1 \in TXTypes, NEW type2 \in TXTypes
    PROVE  /\ StatusOf(type1) = StatusOf(type2) => type1 = type2
           /\ StatusOf(type1) = "IntraSuccess" <=> type1 = IntraTXType
           /\ StatusOf(type1) = "CrossTXType1Success" <=> type1 = CrossTXType1
           /\ StatusOf(type1) = "CrossTXType2Success" <=> type1 = CrossTXType2
           /\ StatusOf(type1) = "RollbackSuccess" <=> type1 = RollbackTXType
BY StatusValues DEF TXTypes, IntraTXType, CrossTXType1, CrossTXType2, RollbackTXType

\* A sealed block turns the transactions of P into receipts.
LEMMA StagesCommitEnd ==
    ASSUME DataOK, Stages, NEW s \in Shard, NEW h \in Nat, NEW P \in SUBSET Alive,
           \A x \in P : Destination(x) = s,
           Alive' = Alive \ P,
           Awaited' = Awaited \cup ReceiptsOf(s, h, P),
           issued' = issued \cup ReceiptsOf(s, h, P),
           UNCHANGED <<cross1_confirm_height_map, cross_tx_expired, injected, tbs>>
    PROVE  Stages'
<1> DEFINE new == ReceiptsOf(s, h, P)
<1>1. \A r \in new : \E x \in P :
          /\ r.TxID = x.id /\ r.TxStatus = StatusOf(x.TXtype)
          /\ r.ShardID = s /\ r.BlockHeight = h
          /\ r = [TxID |-> x.id, TxStatus |-> StatusOf(x.TXtype), ShardID |-> s, BlockHeight |-> h]
  BY DEF ReceiptsOf
<1>2. \A x \in P : \E r \in new : r.TxID = x.id /\ r.TxStatus = StatusOf(x.TXtype)
  <2>1. \A x \in P : [TxID |-> x.id, TxStatus |-> StatusOf(x.TXtype), ShardID |-> s,
                      BlockHeight |-> h] \in new
    BY Zenon DEF ReceiptsOf
  <2> QED
    BY <2>1, Zenon
<1>3. \A x \in Alive : x \in Transaction /\ x.TXtype \in TXTypes /\ x.id \in Tx
  BY AliveType, Zenon DEF Transaction
<1>4. issued' = issued \cup new /\ Awaited' = Awaited \cup new
  BY Zenon
<1> HIDE DEF new
<1>5. \A r \in issued, x \in Alive : r.TxID = x.id => r.TxStatus # StatusOf(x.TXtype)
  BY Zenon DEF Stages, NotYetIncluded, Included
<1>8. NotYetIncluded'
  BY <1>1, <1>3, <1>4, <1>5, UniqueAlive, StatusInjective, SMTT(30) DEF NotYetIncluded,
     Included
<1>9. Forms'
  BY <1>1, <1>3, <1>4, StatusInjective, SMTT(30) DEF Stages, Forms
<1>10. ReceiptShard'
  <2>1. ASSUME NEW r \in new
        PROVE r.ShardID = IF r.TxStatus = "CrossTXType2Success" THEN Recipient_sid[r.TxID]
                                                                ELSE Sender_sid[r.TxID]
    <3>1. PICK x \in P : r.TxID = x.id /\ r.TxStatus = StatusOf(x.TXtype) /\ r.ShardID = s
      BY <1>1, <2>1, Zenon
    <3>2. s = Destination(x) /\ (r.TxStatus = "CrossTXType2Success" <=> x.TXtype = CrossTXType2)
      BY <1>3, <3>1, StatusInjective, Zenon
    <3> QED
      BY <3>1, <3>2 DEF Destination
  <2> QED
    BY <1>4, <2>1, ZenonT(30) DEF Stages, ReceiptShard
<1>11. AtMostOnce'
  BY <1>1, <1>4, <1>5, SMTT(30) DEF Stages, AtMostOnce
<1>12. \A t \in Tx : /\ Credited(t)' => Credited(t) \/ HasSecondHalf(t)
                     /\ RolledBack(t)' => RolledBack(t) \/ RollbackOf(t) \in Alive
                     /\ Credited(t) => Credited(t)'
                     /\ RolledBack(t) => RolledBack(t)'
                     /\ Debited(t) => Debited(t)'
  <2>1. ASSUME NEW t \in Tx, Credited(t)' PROVE Credited(t) \/ HasSecondHalf(t)
    <3>1. PICK r \in issued' : r.TxID = t /\ r.TxStatus = "CrossTXType2Success"
      BY <2>1, Zenon DEF Credited, Included
    <3>2. CASE r \in issued
      BY <3>1, <3>2, Zenon DEF Credited, Included
    <3>3. CASE r \in new
      <4>1. PICK x \in P : r.TxID = x.id /\ r.TxStatus = StatusOf(x.TXtype)
        BY <1>1, <3>3, Zenon
      <4>2. x \in Alive /\ x.TXtype = CrossTXType2
        BY <1>3, <3>1, <4>1, StatusInjective, Zenon
      <4> QED
        BY <3>1, <4>1, <4>2, Zenon DEF HasSecondHalf
    <3> QED
      BY <1>4, <3>2, <3>3, Zenon
  <2>2. ASSUME NEW t \in Tx, RolledBack(t)' PROVE RolledBack(t) \/ RollbackOf(t) \in Alive
    <3>1. PICK r \in issued' : r.TxID = t /\ r.TxStatus = "RollbackSuccess"
      BY <2>2, Zenon DEF RolledBack, Included
    <3>2. CASE r \in issued
      BY <3>1, <3>2, Zenon DEF RolledBack, Included
    <3>3. CASE r \in new
      BY <1>1, <1>3, <3>1, <3>3, StatusInjective, SMTT(30) DEF Stages, Forms
    <3> QED
      BY <1>4, <3>2, <3>3, Zenon
  <2> QED
    BY <2>1, <2>2, Zenon DEF Credited, RolledBack, Debited, Included
<1>13. \A t \in Tx : /\ RollingBack(t)' <=> RollingBack(t)
                     /\ Continued(t)' => Continued(t)
                     /\ HasSecondHalf(t)' => HasSecondHalf(t)
  BY <1>2, <1>4, <1>12, StatusValues, SMTT(30) DEF RollingBack, RolledBack, Included,
     RollbackOf, HasSecondHalf, Continued
<1>14. ContinuedOnce'
  <2>1. ASSUME NEW t \in Tx, Continued(t)
        PROVE  /\ Debited(t)'
               /\ \A r \in FirstReceipts(t)' : r \notin Awaited' /\ r.BlockHeight \in tbs'[r.ShardID]
    <3>1. /\ Debited(t)
          /\ \A r \in FirstReceipts(t) : r \notin Awaited /\ r.BlockHeight \in tbs[r.ShardID]
      BY <2>1, Zenon DEF Stages, ContinuedOnce
    <3>2. PICK d \in issued : d.TxID = t /\ d.TxStatus = "CrossTXType1Success"
      BY <3>1, Zenon DEF Debited, Included
    <3>4. \A r \in FirstReceipts(t)' : r \in FirstReceipts(t) /\ r \notin new
      BY <1>1, <1>4, <1>5, <3>2 DEF FirstReceipts
    <3> QED
      BY <1>4, <1>12, <3>1, <3>4, Zenon
  <2> QED
    BY <1>13, <2>1, Zenon DEF ContinuedOnce
<1>16. GivenUpOnce'
  BY <1>12, <1>13, Zenon DEF Stages, GivenUpOnce, DataOK
<1>17. Remembered'
  <2>1. ASSUME NEW t \in Tx, Debited(t)', ~Settled(t)'
        PROVE  Continued(t)' \/ \E r \in FirstReceipts(t)' : r \in Awaited'
    <3>2. CASE Debited(t)
      <4>1. CASE \E r \in FirstReceipts(t) : r \in Awaited
        BY <4>1, Zenon DEF FirstReceipts
      <4>2. CASE Continued(t)
        <5>1. CASE HasSecondHalf(t)
          BY <1>2, <1>4, <5>1, StatusValues, Zenon DEF HasSecondHalf, Credited, Included,
             Continued
        <5>2. CASE ~HasSecondHalf(t)
          BY <1>12, <1>13, <4>2, <5>2, Zenon DEF Continued
        <5> QED
          BY <5>1, <5>2, Zenon
      <4> QED
        BY <1>12, <2>1, <3>2, <4>1, <4>2, Zenon DEF Stages, Remembered, Settled
    <3>3. CASE ~Debited(t)
      BY <2>1, <3>3, Zenon DEF Debited, Included, FirstReceipts
    <3> QED
      BY <3>2, <3>3, Zenon
  <2> QED
    BY <1>13, <2>1, Zenon DEF Remembered, Stages
<1> QED
  BY <1>8, <1>9, <1>10, <1>11, <1>14, <1>16, <1>17, Zenon DEF Stages, OneSecondHalf,
     SameDeadline

-----------------------------------------------------------------------------
(* What AddTBs does to the transactions that are alive.                    *)

\* The first halves a confirmation continues have not been continued before.
LEMMA FirstDoneFacts ==
    ASSUME DataOK, Places, Stages, NEW S, NEW t \in FirstDone(S)
    PROVE  /\ t \in Tx
           /\ ~Continued(t)
           /\ \E r \in Ready(S) : r \in FirstReceipts(t)
<1>1. PICK r \in Ready(S) : r.TxID = t /\ r.TxStatus = "CrossTXType1Success"
  BY Zenon DEF FirstDone, IdsWith
<1>3. r \in Awaited
  BY Zenon DEF Awaited, Ready
<1>4. r \in issued /\ r \in TXReceipt
  BY <1>3, Zenon DEF Places, DataOK
<1> QED
  BY <1>1, <1>3, <1>4, Zenon DEF Stages, ContinuedOnce, TXReceipt, FirstReceipts

\* What AddTBs does to the queues of the client: processTXReceipts and checkExpiredTXs in one step.
LEMMA AddTBsEffect ==
    ASSUME DataOK, Places, Stages, NEW S \in SUBSET Unconfirmed,
           NEW cur \in [Shard -> Nat], processTXReceipts(S, cur),
           \A t \in SecondDone(S) : cross1_confirm_height_map[t] # Absent,
           UNCHANGED <<txNet, receiptNet, pool, packed, workerAt, issued>>
    PROVE  /\ Places'
           /\ Alive' = Alive \cup {SecondHalf(t, cur[Recipient_sid[t]]) : t \in FirstDone(S)}
           /\ Awaited' = Awaited \ Ready(S)
<1> DEFINE new == {SecondHalf(t, cur[Recipient_sid[t]]) : t \in FirstDone(S)}
<1>1. /\ tx_reply' = tx_reply \ Ready(S)
      /\ cross2_txs' = cross2_txs \cup new
  BY Zenon DEF processTXReceipts
<1>2. \A x \in new : x.TXtype = CrossTXType2 /\ x.id \in FirstDone(S)
  BY DEF SecondHalf
<1> HIDE DEF new
<1>5. Awaited' = Awaited \ Ready(S)
  BY <1>1, Zenon DEF Places, Ready, Awaited
<1>6. \A x \in new : /\ \A m \in txNet : x \notin m
                     /\ \A s \in Shard : x \notin pool[s] /\ x \notin packed[s]
  BY <1>2, FirstDoneFacts DEF Alive, Continued, HasSecondHalf
<1>7. Places'
  BY <1>1, <1>2, <1>5, <1>6 DEF Places
<1> QED
  BY <1>1, <1>5, <1>7 DEF new, Alive

-----------------------------------------------------------------------------
(* The stages of a transaction's life: confirmed TBs.                      *)

\* Confirmed TBs: first halves are continued, second halves settled, late ones expired.
LEMMA StagesAddTBs ==
    ASSUME DataOK, Places, Stages, NEW S \in SUBSET Unconfirmed,
           NEW cur \in [Shard -> Nat], processTXReceipts(S, cur),
           \A t \in SecondDone(S) : cross1_confirm_height_map[t] # Absent,
           Alive' = Alive \cup {SecondHalf(t, cur[Recipient_sid[t]]) : t \in FirstDone(S)},
           Awaited' = Awaited \ Ready(S),
           tbs' = KnownAfter(S),
           UNCHANGED <<injected, issued>>
    PROVE  Stages'
<1> DEFINE first  == FirstDone(S)
           second == SecondDone(S)
           gone   == Expired(S, cur)
           after  == MapAfterReceipts(S, cur)
<1>1. /\ cross1_confirm_height_map' = [t \in Tx |-> IF t \in gone THEN Absent ELSE after[t]]
      /\ cross_tx_expired' = cross_tx_expired \cup gone
  BY Zenon DEF processTXReceipts
<1>2. \A t \in Tx : /\ t \in first => after[t] = cur[Recipient_sid[t]]
                    /\ t \notin first /\ t \in second => after[t] = Absent
                    /\ t \notin first /\ t \notin second => after[t] = cross1_confirm_height_map[t]
  BY Zenon DEF MapAfterReceipts
<1>3. \A t \in gone : /\ t \in Tx /\ after[t] # Absent
                      /\ cur[Recipient_sid[t]] > after[t] + RollbackHeight
  BY Zenon DEF Expired
<1>4. \A t \in first : t \in Tx /\ ~Continued(t) /\ cur[Recipient_sid[t]] \in Nat
  BY FirstDoneFacts, TypesAssumption, Zenon
<1>5. \A t \in first : t \notin gone
  BY <1>2, <1>3, <1>4, TypesAssumption
<1>6. \A t \in first : Debited(t) /\ \E r \in Ready(S) : r \in FirstReceipts(t)
  BY FirstDoneFacts DEF FirstReceipts, Debited, Included
<1>7. \A t \in second : Credited(t)
  BY Zenon DEF SecondDone, IdsWith, Ready, Credited, Included, Places, Awaited
<1>8. \A t \in gone : cross1_confirm_height_map[t] # Absent /\ ~RollingBack(t)
  BY <1>2, <1>3, <1>5, Zenon DEF Stages, GivenUpOnce
<1> DEFINE new == {SecondHalf(t, cur[Recipient_sid[t]]) : t \in first}
<1>9. \A x \in new : /\ x.id \in first /\ x.TXtype = CrossTXType2
                     /\ x.Cross1ConfirmHeight = cur[Recipient_sid[x.id]]
                     /\ x = SecondHalf(x.id, cur[Recipient_sid[x.id]])
  BY DEF SecondHalf
<1>10. \A t \in first : \E x \in new : x.id = t
  <2>1. \A t \in first : SecondHalf(t, cur[Recipient_sid[t]]) \in new
    BY Zenon
  <2> QED
    BY <2>1, Zenon DEF SecondHalf
<1>11. Alive' = Alive \cup new
  BY Zenon
<1> HIDE DEF first, second, gone, after, new
<1>14. \A t : /\ (\A st : Included(t, st)' <=> Included(t, st))
              /\ Debited(t)' <=> Debited(t)
              /\ Credited(t)' <=> Credited(t)
              /\ RolledBack(t)' <=> RolledBack(t)
              /\ Settled(t)' <=> Settled(t)
              /\ FirstReceipts(t)' = FirstReceipts(t)
  BY Zenon DEF Included, Debited, Credited, RolledBack, Settled, FirstReceipts
<1>15. \A t \in Tx : RollbackOf(t) \in Alive' <=> RollbackOf(t) \in Alive
  BY <1>9, <1>11, Zenon DEF RollbackOf, RollbackTXType, CrossTXType2
<1>16. \A t \in Tx : /\ RollingBack(t)' <=> RollingBack(t) \/ t \in gone
                     /\ HasSecondHalf(t)' <=> HasSecondHalf(t) \/ t \in first
  <2>2. \A t \in Tx : HasSecondHalf(t)' <=> HasSecondHalf(t) \/ t \in first
    BY <1>9, <1>10, <1>11 DEF HasSecondHalf
  <2> QED
    BY <1>1, <1>14, <1>15, <2>2, Zenon DEF RollingBack
<1>17. \A t \in Tx : Continued(t)' <=> Continued(t) \/ t \in first
  <2>1. ASSUME NEW t \in Tx, Continued(t)' PROVE Continued(t) \/ t \in first
    BY <1>1, <1>2, <1>8, <1>14, <1>16, <2>1, Zenon DEF Continued
  <2>2. ASSUME NEW t \in Tx, Continued(t) \/ t \in first PROVE Continued(t)'
    BY <1>1, <1>2, <1>7, <1>14, <1>16, <2>2, Zenon DEF Continued
  <2> QED
    BY <2>1, <2>2, Zenon
<1>18. NotYetIncluded'
  <2>2. ASSUME NEW x \in Alive' PROVE ~\E r \in issued : r.TxID = x.id /\ r.TxStatus = StatusOf(x.TXtype)
    <3>1. CASE x \in Alive
      BY <3>1, Zenon DEF Stages, NotYetIncluded, Included
    <3>2. CASE x \in new
      BY <1>4, <1>9, <3>2, StatusValues, Zenon DEF Credited, Included, Continued
    <3> QED
      BY <1>11, <3>1, <3>2, Zenon
  <2> QED
    BY <2>2, Zenon DEF NotYetIncluded, Included
<1>19. Forms'
  BY <1>9, <1>11, Zenon DEF Stages, Forms, CrossTXType2, RollbackTXType, IntraTXType,
     CrossTXType1
<1>21. ContinuedOnce'
  <2>1. ASSUME NEW t \in Tx, Continued(t)
        PROVE  Debited(t) /\ \A r \in FirstReceipts(t) : r \notin Awaited' /\ r.BlockHeight \in tbs'[r.ShardID]
    BY <2>1, Zenon DEF FirstReceipts, DataOK, TXReceipt, Stages, ContinuedOnce, KnownAfter
  <2>2. ASSUME NEW t \in Tx, t \in first
        PROVE  Debited(t) /\ \A r \in FirstReceipts(t) : r \notin Awaited' /\ r.BlockHeight \in tbs'[r.ShardID]
    BY <1>6, <2>2 DEF Stages, AtMostOnce, FirstReceipts, Ready
  <2> QED
    BY <1>14, <1>17, <2>1, <2>2, Zenon DEF ContinuedOnce
<1>22. OneSecondHalf'
  BY <1>4, <1>9, <1>11 DEF Stages, OneSecondHalf, Continued, HasSecondHalf
<1>23. SameDeadline'
  <2>1. ASSUME NEW x \in Alive, x.TXtype = CrossTXType2, cross1_confirm_height_map'[x.id] # Absent
        PROVE  x.Cross1ConfirmHeight = cross1_confirm_height_map'[x.id]
    <3>2. x.id \notin first
      BY <1>4, <2>1, Zenon DEF Continued, HasSecondHalf
    <3> QED
      BY <1>1, <1>2, <2>1, <3>2, AliveType, Zenon DEF Stages, SameDeadline, Transaction
  <2>2. ASSUME NEW x \in new PROVE x.Cross1ConfirmHeight = cross1_confirm_height_map'[x.id]
    BY <1>1, <1>2, <1>4, <1>5, <1>9, Zenon
  <2> QED
    BY <1>11, <2>1, <2>2, Zenon DEF SameDeadline
<1>24. GivenUpOnce'
  <2>1. ASSUME NEW t \in Tx, RollingBack(t)' PROVE cross1_confirm_height_map'[t] = Absent
    BY <1>1, <1>2, <1>4, <1>16, <2>1, Zenon DEF Continued, Stages, GivenUpOnce
  <2>2. \A t \in cross_tx_expired' : RollbackOf(t) \notin Alive' /\ ~RolledBack(t)'
    BY <1>1, <1>3, <1>8, <1>14, <1>15, Zenon DEF RollingBack, Stages, GivenUpOnce, DataOK
  <2> QED
    BY <2>1, <2>2, Zenon DEF GivenUpOnce
<1>25. Remembered'
  <2>1. ASSUME NEW t \in Tx, Debited(t), ~Settled(t), ~Continued(t)'
        PROVE  \E r \in FirstReceipts(t) : r \in Awaited'
    BY <1>17, <2>1 DEF Stages, Remembered, first, FirstDone, IdsWith, FirstReceipts
  <2>2. ASSUME NEW t \in Tx, HasSecondHalf(t)'
        PROVE  cross1_confirm_height_map'[t] # Absent \/ RollingBack(t)'
    <3>1. CASE t \in first
      BY <1>1, <1>2, <1>4, <1>5, <3>1 DEF Absent
    <3>2. CASE HasSecondHalf(t) /\ t \notin first
      <4>1. ~Credited(t)
        BY <3>2, StatusValues, Zenon DEF HasSecondHalf, Stages, NotYetIncluded, Credited
      <4> QED
        BY <1>1, <1>2, <1>7, <1>16, <3>2, <4>1, Zenon DEF Stages, Remembered
    <3> QED
      BY <1>16, <2>2, <3>1, <3>2, Zenon
  <2> QED
    BY <1>14, <2>1, <2>2, Zenon DEF Remembered
<1> QED
  BY <1>18, <1>19, <1>21, <1>22, <1>23, <1>24, <1>25, Zenon DEF Stages, ReceiptShard,
     AtMostOnce

-----------------------------------------------------------------------------
(* Places and Stages are inductive, whatever the environment does.         *)

\* Nothing is alive or awaited at first, so Places and Stages hold.
LEMMA StagesInit == Init => Places /\ Stages
<1> SUFFICES ASSUME Init PROVE Places /\ Stages
  OBVIOUS
<1>1. Alive = {} /\ Awaited = {}
  BY Zenon DEF Init, Alive, Awaited
<1>2. \A t, st : ~Included(t, st)
  BY Zenon DEF Init, Included
<1>3. \A t \in Tx : /\ ~Continued(t) /\ ~RollingBack(t) /\ ~HasSecondHalf(t)
                    /\ ~Debited(t)
  BY <1>1, <1>2, Zenon DEF Init, Continued, RollingBack, HasSecondHalf, Debited, Credited,
     RolledBack
<1>5. Stages
  BY <1>1, <1>3, Zenon DEF Init, Stages, NotYetIncluded, Forms, ReceiptShard, AtMostOnce,
     ContinuedOnce, OneSecondHalf, SameDeadline, GivenUpOnce, Remembered
<1> QED
  BY <1>1, <1>5, Zenon DEF Init, Places

\* Where no place of a transaction or of a receipt changes, the same ones are alive.
LEMMA SameAlive ==
  ASSUME UNCHANGED <<cross2_txs, txNet, pool, packed, tx_reply, receiptNet>>
  PROVE  Alive' = Alive /\ Awaited' = Awaited
BY DEF Alive, Awaited

\* Every step keeps Places and Stages: one case per action.
LEMMA StagesNext == DataOK /\ Places /\ Stages /\ [Next]_vars => Places' /\ Stages'
<1> SUFFICES ASSUME DataOK, Places, Stages, [Next]_vars
             PROVE  Places' /\ Stages'
  BY Zenon
<1>1. CASE sendRollbackTxs
  <2>1. PICK batch \in SUBSET cross_tx_expired :
           /\ txNet' = txNet \cup Messages({RollbackOf(t) : t \in batch})
           /\ cross_tx_expired' = cross_tx_expired \ batch
    BY <1>1, Zenon DEF sendRollbackTxs
  <2>2. UNCHANGED <<cross2_txs, pool, packed, workerAt, tx_reply, receiptNet, issued,
                    cross1_confirm_height_map, injected, tbs>>
    BY <1>1, Zenon DEF sendRollbackTxs, workerVars
  <2> DEFINE new == {RollbackOf(t) : t \in batch}
  <2>3. new \in SUBSET Transaction
    BY FormsType DEF DataOK
  <2>4. \A x \in new : x \notin Alive
    BY Zenon DEF Stages, GivenUpOnce
  <2>5. Places' /\ Alive' = Alive \cup new /\ Awaited' = Awaited
    <3> HIDE DEF new
    <3>2. /\ {} \in SUBSET cross2_txs
          /\ {} \subseteq new
          /\ \A x \in new \ {} : x \notin Alive
      BY <2>4
    <3> QED
      BY <2>1, <2>2, <2>3, <3>2, SendEffect, Zenon DEF new
  <2> QED
    BY <2>1, <2>2, <2>5, StagesRollback, Zenon
<1>2. CASE sendCross2Txs
  <2>1. PICK batch \in SUBSET cross2_txs :
           /\ txNet' = txNet \cup Messages(batch)
           /\ cross2_txs' = cross2_txs \ batch
    BY <1>2, Zenon DEF sendCross2Txs
  <2>2. UNCHANGED <<pool, packed, workerAt, tx_reply, receiptNet, issued,
                    cross1_confirm_height_map, cross_tx_expired, injected, tbs>>
    BY <1>2, Zenon DEF sendCross2Txs, workerVars
  <2>3. batch \in SUBSET Transaction
    BY Zenon DEF DataOK
  <2>4. Places' /\ Alive' = Alive \cup batch /\ Awaited' = Awaited
    BY <2>1, <2>2, <2>3, SendEffect, Zenon
  <2> QED
    BY <2>2, <2>4, StagesSame, Zenon DEF Alive
<1>3. CASE sendPendingTxs
  <2>1. PICK batch \in SUBSET (Tx \ injected) :
           /\ txNet' = txNet \cup Messages({FirstHalf(t) : t \in batch})
           /\ injected' = injected \cup batch
    BY <1>3, Zenon DEF sendPendingTxs
  <2>2. UNCHANGED <<cross2_txs, pool, packed, workerAt, tx_reply, receiptNet, issued,
                    cross1_confirm_height_map, cross_tx_expired, tbs>>
    BY <1>3, Zenon DEF sendPendingTxs, workerVars
  <2> DEFINE new == {FirstHalf(t) : t \in batch}
  <2>3. new \in SUBSET Transaction
    BY FormsType, Zenon
  <2>4. \A x \in new : x \notin Alive
    BY DEF Stages, Forms, FirstHalf
  <2>5. Places' /\ Alive' = Alive \cup new /\ Awaited' = Awaited
    <3> HIDE DEF new
    <3>2. /\ {} \in SUBSET cross2_txs
          /\ {} \subseteq new
          /\ \A x \in new \ {} : x \notin Alive
      BY <2>4
    <3> QED
      BY <2>1, <2>2, <2>3, <3>2, SendEffect, Zenon DEF new
  <2> QED
    BY <2>1, <2>2, <2>5, StagesPending, Zenon
<1>4. ASSUME NEW txs \in txNet, HandleClientSendtx(txs) PROVE Places' /\ Stages'
  BY <1>4, HandleClientSendtxEffect, StagesSame, Zenon DEF HandleClientSendtx, clientVars
<1>5. ASSUME NEW s \in Shard, commitStart(s) PROVE Places' /\ Stages'
  BY <1>5, commitStartEffect, StagesCommitStart, Zenon DEF commitStart, clientVars, stageVars
<1>6. ASSUME NEW s \in Shard, commitEnd(s) PROVE Places' /\ Stages'
  <2>2. curHeight[s] \in Nat /\ \A x \in packed[s] : Destination(x) = s
    BY Zenon DEF DataOK, Places
  <2> QED
    BY <1>6, <2>2, commitEndEffect, StagesCommitEnd, Zenon DEF commitEnd, clientVars
<1>7. ASSUME NEW s \in Shard, broadcastTbInCommittee(s) PROVE Places' /\ Stages'
  <2>1. /\ UNCHANGED <<cross2_txs, txNet, pool, packed, tx_reply, receiptNet, issued,
                       cross1_confirm_height_map, cross_tx_expired, injected, tbs>>
        /\ workerAt[s] = "multisign" /\ workerAt' = [workerAt EXCEPT ![s] = "idle"]
    BY <1>7, Zenon DEF broadcastTbInCommittee, clientVars
  <2>2. Alive' = Alive /\ Awaited' = Awaited
    BY <2>1, SameAlive, Zenon
  <2>3. Places'
    <3>1. \A u \in Shard : packed'[u] # {} => workerAt'[u] = "pbft"
      BY <2>1 DEF Places
    <3> QED
      BY <2>1, <2>2, <3>1, ZenonT(30) DEF Places
  <2> QED
    BY <2>1, <2>2, <2>3, StagesSame, Zenon
<1>8. ASSUME NEW b \in blockNet, HandleComSendBlock(b) PROVE Places' /\ Stages'
  <2>1. UNCHANGED <<cross2_txs, txNet, pool, packed, workerAt, tx_reply, receiptNet, issued,
                    cross1_confirm_height_map, cross_tx_expired, injected, tbs>>
    BY <1>8, Zenon DEF HandleComSendBlock, clientVars, workerVars
  <2>2. Alive' = Alive /\ Awaited' = Awaited
    BY <2>1, SameAlive, Zenon
  <2>3. Places'
    BY <2>1, <2>2 DEF Places
  <2> QED
    BY <2>1, <2>2, <2>3, StagesSame, Zenon
<1>9. ASSUME NEW receipts \in receiptNet, AddTXReceipts(receipts) PROVE Places' /\ Stages'
  BY <1>9, AddTXReceiptsEffect, StagesSame, Zenon DEF AddTXReceipts
<1>10. ASSUME NEW S \in SUBSET Unconfirmed, AddTBs(S) PROVE Places' /\ Stages'
  <2>1. PICK cur : /\ cur \in [Shard -> {sh[2] : sh \in S} \cup {shard_cur_heights[s] : s \in Shard}]
                   /\ processTXReceipts(S, cur)
    BY <1>10, Zenon DEF AddTBs
  <2>2. /\ tbs' = KnownAfter(S)
        /\ UNCHANGED <<injected, txNet, receiptNet, pool, packed, workerAt, issued>>
    BY <1>10, Zenon DEF AddTBs, workerVars
  <2>3. cur \in [Shard -> Nat]
    BY <2>1 DEF Unconfirmed, DataOK
  <2>4. CASE \A t \in SecondDone(S) : cross1_confirm_height_map[t] # Absent
    BY <2>1, <2>2, <2>3, <2>4, AddTBsEffect, StagesAddTBs, Zenon
  <2>5. CASE ~\A t \in SecondDone(S) : cross1_confirm_height_map[t] # Absent
    <3>1. UNCHANGED <<tx_reply, cross2_txs, cross1_confirm_height_map, cross_tx_expired>>
      BY <2>1, <2>5, Zenon DEF processTXReceipts
    <3>2. Alive' = Alive /\ Awaited' = Awaited
      BY <2>2, <3>1, SameAlive, Zenon
    <3>3. Places'
      BY <2>2, <3>1, <3>2 DEF Places
    <3> QED
      BY <2>2, <3>1, <3>2, <3>3, StagesSame, Zenon DEF KnownAfter
  <2> QED
    BY <2>4, <2>5, Zenon
<1>11. CASE UNCHANGED vars
  <2>1. UNCHANGED <<cross2_txs, txNet, pool, packed, workerAt, tx_reply, receiptNet, issued,
                    cross1_confirm_height_map, cross_tx_expired, injected, tbs>>
    BY <1>11, Zenon DEF vars, clientVars, workerVars
  <2>2. Alive' = Alive /\ Awaited' = Awaited
    BY <2>1 DEF Alive, Awaited
  <2>3. Places'
    BY <2>1, <2>2 DEF Places
  <2> QED
    BY <2>1, <2>2, <2>3, StagesSame, Zenon
<1> QED
  BY <1>1, <1>2, <1>3, <1>4, <1>5, <1>6, <1>7, <1>8, <1>9, <1>10, <1>11, Zenon DEF Next

\* Types, Places and Stages hold in every reachable state, whatever the environment does.
LEMMA StagesInvariant == Spec => [](DataOK /\ Places /\ Stages)
BY DataInit, DataNext, StagesInit, StagesNext, PTL DEF Spec

\* No half of a transaction and no rollback is included in two blocks, whatever is
\* delayed, reordered or lost: the pools, the worker and the client hand a transaction
\* on exactly once.
THEOREM IncludedAtMostOnce == Spec => []AtMostOnce
<1>1. Stages => AtMostOnce
  BY Zenon DEF Stages
<1> QED
  BY <1>1, StagesInvariant, PTL

\* A second half or a rollback is included only after the first half was included and
\* the client learned that Layer1 confirmed the TB of its block.
THEOREM DebitedFirst == Spec => []DebitFirst
<1>1. DataOK /\ Stages => DebitFirst
  <2> SUFFICES ASSUME DataOK, Stages, NEW r \in issued,
                      r.TxStatus \in {"CrossTXType2Success", "RollbackSuccess"}
               PROVE  \E d \in issued :
                         /\ d.TxID = r.TxID /\ d.TxStatus = "CrossTXType1Success"
                         /\ d.BlockHeight \in tbs[Sender_sid[r.TxID]]
    BY Zenon DEF DebitFirst
  <2>2. Continued(r.TxID)
    BY Zenon DEF Continued, RollingBack, Credited, RolledBack, Included
  <2>3. /\ Debited(r.TxID)
        /\ \A d \in FirstReceipts(r.TxID) : d.BlockHeight \in tbs[d.ShardID]
    BY <2>2, Zenon DEF Stages, ContinuedOnce, DataOK, TXReceipt
  <2>4. PICK d \in issued : d.TxID = r.TxID /\ d.TxStatus = "CrossTXType1Success"
    BY <2>3, Zenon DEF Debited, Included
  <2> QED
    BY <2>3, <2>4, Zenon DEF FirstReceipts, Stages, ReceiptShard
<1> QED
  BY <1>1, StagesInvariant, PTL

\* A debited transaction that is not settled always has a trace that leads to its
\* settlement, also after the pool has dropped its late second half.
THEOREM DebitsNeverForgotten == Spec => []NeverForgotten
<1>1. DataOK /\ Places /\ Stages => NeverForgotten
  <2> SUFFICES ASSUME DataOK, Places, Stages, NEW t \in Tx, Debited(t), ~Settled(t)
               PROVE  \/ \E r \in tx_reply \cup (UNION receiptNet) :
                            r.TxID = t /\ r.TxStatus = "CrossTXType1Success"
                      \/ cross1_confirm_height_map[t] # Absent
                      \/ t \in cross_tx_expired
                      \/ RollbackOf(t) \in UNION txNet
                      \/ RollbackOf(t) \in pool[Sender_sid[t]] \cup packed[Sender_sid[t]]
    BY Zenon DEF NeverForgotten
  <2>1. CASE \E r \in FirstReceipts(t) : r \in Awaited
    BY <2>1, Zenon DEF FirstReceipts, Awaited
  <2>2. CASE Continued(t)
    <3>2. CASE RollbackOf(t) \in Alive
      BY <3>2 DEF RollbackOf, Destination, RollbackTXType, CrossTXType2, Alive, Places
    <3> QED
      BY <2>2, <3>2, Zenon DEF Stages, Remembered, Continued, RollingBack, Settled
  <2> QED
    BY <2>1, <2>2, Zenon DEF Stages, Remembered
<1> QED
  BY <1>1, StagesInvariant, PTL
=============================================================================
