-------------------------- MODULE CrossShardProofs --------------------------
(***************************************************************************)
(* Proofs about CrossShard, part 2: heights; deadlines, and the atomicity  *)
(* of cross-shard transactions when receipts are in time and time beacons  *)
(* in order; that blocks continue their chains, whatever is late; and type *)
(* correctness.                                                            *)
(***************************************************************************)
EXTENDS CrossShardStageProofs

-----------------------------------------------------------------------------
(* Heights, whatever the environment does.                                 *)

\* No TB is known or submitted at first, so Heights holds.
LEMMA HeightsInit == Init => Heights
BY DEF Init, Heights

\* Every step keeps Heights.
LEMMA HeightsNext == DataOK /\ Places /\ Heights /\ [Next]_vars => Heights'
<1> SUFFICES ASSUME DataOK, Places, Heights, [Next]_vars
             PROVE  Heights'
  BY Zenon
<1>1. ASSUME UNCHANGED <<tbs, submitted, workerVars>> PROVE Heights'
  BY <1>1, Zenon DEF Heights, workerVars
<1>2. CASE sendRollbackTxs
  BY <1>1, <1>2, Zenon DEF sendRollbackTxs
<1>3. CASE sendCross2Txs
  BY <1>1, <1>3, Zenon DEF sendCross2Txs
<1>4. CASE sendPendingTxs
  BY <1>1, <1>4, Zenon DEF sendPendingTxs
<1>5. ASSUME NEW txs \in txNet, HandleClientSendtx(txs) PROVE Heights'
  BY <1>1, <1>5, Zenon DEF HandleClientSendtx, clientVars
<1>6. ASSUME NEW s \in Shard, commitStart(s) PROVE Heights'
  <2>1. PICK txs \in SUBSET pool[s], dropped \in SUBSET LateIn(pool[s], chainHeight[s] + 1) :
            /\ Selection(pool[s], chainHeight[s] + 1, MaxBlockSize, txs,
                         pool[s] \ (txs \cup dropped))
            /\ packed' = [packed EXCEPT ![s] = txs]
    BY <1>6, Zenon DEF commitStart
  <2>2. /\ curHeight' = [curHeight EXCEPT ![s] = chainHeight[s] + 1]
        /\ workerAt' = [workerAt EXCEPT ![s] = "pbft"]
        /\ UNCHANGED <<tbs, submitted, gotEnoughReply>>
    BY <1>6, Zenon DEF commitStart, clientVars
  <2>4. \A u \in Shard : \A x \in packed'[u] : ~Late(x, curHeight'[u])
    BY <2>1, <2>2, Zenon DEF Heights, DataOK, Selection, LateIn
  <2> QED
    BY <2>2, <2>4 DEF Heights, DataOK
<1>7. ASSUME NEW s \in Shard, commitEnd(s) PROVE Heights'
  <2> QED
    BY <1>7, Zenon DEF Heights, DataOK, commitEnd, clientVars
<1>8. ASSUME NEW s \in Shard, broadcastTbInCommittee(s) PROVE Heights'
  BY <1>8 DEF broadcastTbInCommittee, clientVars, Heights
<1>9. ASSUME NEW b \in blockNet, HandleComSendBlock(b) PROVE Heights'
  BY <1>1, <1>9, Zenon DEF HandleComSendBlock, clientVars
<1>10. ASSUME NEW receipts \in receiptNet, AddTXReceipts(receipts) PROVE Heights'
  BY <1>1, <1>10, Zenon DEF AddTXReceipts
<1>11. ASSUME NEW S \in SUBSET Unconfirmed, AddTBs(S) PROVE Heights'
  BY <1>11 DEF AddTBs, Unconfirmed, KnownAfter, Heights, workerVars
<1>12. CASE UNCHANGED vars
  BY <1>1, <1>12, Zenon DEF vars, clientVars
<1> QED
  BY <1>2, <1>3, <1>4, <1>5, <1>6, <1>7, <1>8, <1>9, <1>10, <1>11, <1>12, Zenon DEF Next

-----------------------------------------------------------------------------
(* The two deadlines, when receipts come in time and TBs in order.         *)

\* No deadline runs at first.
LEMMA DeadlinesInit == Init => Deadlines
<1> SUFFICES ASSUME Init PROVE Deadlines
  OBVIOUS
<1>1. Alive = {} /\ Awaited = {}
  BY Zenon DEF Init, Alive, Awaited
<1>2. \A t : ~Credited(t)
  BY Zenon DEF Init, Credited, Included
<1>3. KnownUpTo
  BY DEF Init, KnownUpTo
<1> QED
  BY <1>1, <1>2, <1>3, Zenon DEF Init, Deadlines, AwaitedInTime, CountedWhileAwaited,
     Exclusive, TooLate

\* A step with no new second half, rollback, receipt or confirmed TB keeps Deadlines.
LEMMA DeadlinesSame ==
    ASSUME Deadlines, Awaited' = Awaited,
           \A x \in Alive' : x.TXtype = CrossTXType2 => x \in Alive,
           \A t \in Tx : RollingBack(t)' => RollingBack(t),
           UNCHANGED <<issued, cross1_confirm_height_map, clientUp, tbs, shard_cur_heights>>
    PROVE  Deadlines'
BY Zenon DEF Credited, Included, Deadlines, Exclusive, TooLate, KnownUpTo, AwaitedInTime,
   CountedWhileAwaited

\* A block whose second halves are in time: PBFT has not decided its height yet, so the
\* client cannot have seen that height confirmed and has not given them up.
LEMMA DeadlinesCommitEnd ==
    ASSUME DataOK, Places, Stages, Heights, Deadlines, NEW s \in Shard, commitEnd(s)
    PROVE  Deadlines'
<1> DEFINE new == ReceiptsOf(s, curHeight[s], packed[s])
           h == curHeight[s]
<1>1. /\ Alive' = Alive \ packed[s]
      /\ Awaited' = Awaited \cup new
      /\ issued' = issued \cup new
      /\ packed[s] \subseteq Alive
  BY commitEndEffect, Zenon
<1>2. /\ workerAt[s] = "pbft" /\ h \notin gotEnoughReply[s]
      /\ UNCHANGED <<cross1_confirm_height_map, cross_tx_expired, clientUp, tbs,
                     shard_cur_heights>>
  BY Zenon DEF commitEnd, clientVars
<1>3. h >= 1 /\ h \notin tbs[s] /\ h \in Nat
  BY <1>2, Zenon DEF Heights, DataOK
<1>4. \A r \in new : \E x \in packed[s] :
          /\ r.TxID = x.id /\ r.TxStatus = StatusOf(x.TXtype)
          /\ r.ShardID = s /\ r.BlockHeight = h
  BY DEF ReceiptsOf
<1> HIDE DEF new, h
<1>5. \A x \in Alive : x \in Transaction /\ x.TXtype \in TXTypes /\ x.id \in Tx
  BY AliveType DEF Transaction
<1>6. ASSUME NEW x \in packed[s], x.TXtype = CrossTXType2
      PROVE  /\ cross1_confirm_height_map[x.id] # Absent
             /\ h <= cross1_confirm_height_map[x.id] + RollbackHeight
  <2>1. x \in Alive /\ x \in Transaction /\ x.id \in Tx
    BY <1>1, <1>5
  <2>3. h <= Deadline(x)
    BY <1>6, <2>1, TypesAssumption, <1>3 DEF Heights, Late, h, Deadline, Transaction
  <2>4. cross1_confirm_height_map[x.id] # Absent
    <3> SUFFICES ASSUME cross1_confirm_height_map[x.id] = Absent PROVE FALSE
      OBVIOUS
    <3>1. shard_cur_heights[s] > Deadline(x)
      BY <1>6, <2>1, Zenon DEF Deadlines, TooLate, Places, Destination
    <3>2. h \in 1 .. shard_cur_heights[s]
      BY <1>3, <2>3, <3>1, TypesAssumption DEF DataOK, Deadline, Transaction
    <3> QED
      BY <1>3, <3>2, Zenon DEF Deadlines, KnownUpTo
  <2> QED
    BY <1>6, <2>1, <2>3, <2>4, Zenon DEF Deadline, Stages, SameDeadline
<1>7. ASSUME NEW r \in new, r.TxStatus = "CrossTXType2Success"
      PROVE  /\ r.BlockHeight \notin tbs[r.ShardID]
             /\ cross1_confirm_height_map[r.TxID] # Absent
             /\ r.BlockHeight >= 1
             /\ r.BlockHeight <= cross1_confirm_height_map[r.TxID] + RollbackHeight
             /\ r.TxID \in Tx
  <2>1. PICK x \in packed[s] : /\ r.TxID = x.id /\ r.TxStatus = StatusOf(x.TXtype)
                               /\ r.ShardID = s /\ r.BlockHeight = h
    BY <1>4
  <2>2. x.TXtype = CrossTXType2
    BY <1>1, <1>5, <1>7, <2>1, StatusInjective, Zenon
  <2> QED
    BY <1>1, <1>3, <1>5, <1>6, <2>1, <2>2
<1>10. \A t \in Tx : Credited(t)' => Credited(t) \/ cross1_confirm_height_map[t] # Absent
  BY <1>1, <1>7, Zenon DEF Credited, Included
<1>11. \A t \in Tx : RollingBack(t)' => RollingBack(t)
  <2>1. ASSUME NEW t \in Tx, RolledBack(t)' PROVE RolledBack(t) \/ RollbackOf(t) \in Alive
    <3>1. PICK r \in issued' : r.TxID = t /\ r.TxStatus = "RollbackSuccess"
      BY <2>1 DEF RolledBack, Included
    <3>2. CASE r \in issued
      BY <3>1, <3>2 DEF RolledBack, Included
    <3>3. CASE r \in new
      <4>1. PICK x \in packed[s] : r.TxID = x.id /\ r.TxStatus = StatusOf(x.TXtype)
        BY <1>4, <3>3
      <4>2. x \in Alive /\ x.TXtype = RollbackTXType
        BY <1>1, <1>5, <3>1, <4>1, StatusInjective, Zenon
      <4> QED
        BY <3>1, <4>1, <4>2, Zenon DEF Stages, Forms
    <3> QED
      BY <1>1, <3>1, <3>2, <3>3
  <2> QED
    BY <1>1, <1>2, <2>1 DEF RollingBack
<1>12. Exclusive'
  BY <1>10, <1>11, Zenon DEF Deadlines, Exclusive, Stages, GivenUpOnce
<1> QED
  BY <1>1, <1>2, <1>7, <1>12, Zenon DEF Deadlines, KnownUpTo, TooLate, AwaitedInTime,
     CountedWhileAwaited

\* Confirmed TBs: a transaction expires only when every block that could hold its
\* second half is confirmed, and the receipts of those blocks have been handled.
LEMMA DeadlinesAddTBs ==
    ASSUME DataOK, Places, Stages, Heights, Deadlines, ReceiptsInTime, BeaconsInOrder,
           NEW S \in SUBSET Unconfirmed, AddTBs(S)
    PROVE  Deadlines'
<1>1. PICK cur : /\ cur \in [Shard -> {sh[2] : sh \in S} \cup {shard_cur_heights[s] : s \in Shard}]
                 /\ \A s \in Shard : IsHighest(cur[s], s, S)
                 /\ shard_cur_heights' = cur
                 /\ processTXReceipts(S, cur)
  BY Zenon DEF AddTBs
<1>2. /\ tbs' = KnownAfter(S) /\ clientUp
      /\ UNCHANGED <<injected, txNet, receiptNet, pool, packed, workerAt, issued>>
      /\ ConfirmedNext(S)
  BY Zenon DEF AddTBs, workerVars
<1>3. S \subseteq submitted /\ S \subseteq Shard \X Nat
  BY Zenon DEF Unconfirmed, DataOK
<1>4. cur \in [Shard -> Nat] /\ \A s \in Shard : cur[s] >= shard_cur_heights[s]
  <2>1. {sh[2] : sh \in S} \cup {shard_cur_heights[s] : s \in Shard} \subseteq Nat
    BY <1>3 DEF DataOK
  <2> QED
    BY <1>1, <2>1, Zenon DEF IsHighest
<1> DEFINE first  == FirstDone(S)
           second == SecondDone(S)
           gone   == Expired(S, cur)
           after  == MapAfterReceipts(S, cur)
           new == {SecondHalf(t, cur[Recipient_sid[t]]) : t \in first}
<1>5. \A t \in second : \E r \in Ready(S) : r.TxID = t /\ r.TxStatus = "CrossTXType2Success"
  BY DEF SecondDone, IdsWith
<1>6. \A r \in Ready(S) : r \in Awaited /\ r \in issued
  BY Zenon DEF Ready, Awaited, Places
<1>7. \A t \in second : cross1_confirm_height_map[t] # Absent
  BY <1>5, <1>6 DEF Deadlines, AwaitedInTime
<1>8. /\ Alive' = Alive \cup new
      /\ Awaited' = Awaited \ Ready(S)
  BY <1>1, <1>2, <1>4, <1>7, AddTBsEffect, Zenon
<1>9. /\ cross1_confirm_height_map' = [t \in Tx |-> IF t \in gone THEN Absent ELSE after[t]]
      /\ cross_tx_expired' = cross_tx_expired \cup gone
      /\ clientUp'
  BY <1>1, <1>2, <1>7, Zenon DEF processTXReceipts
<1>10. \A t \in Tx : /\ t \in first => after[t] = cur[Recipient_sid[t]]
                     /\ t \notin first /\ t \in second => after[t] = Absent
                     /\ t \notin first /\ t \notin second => after[t] = cross1_confirm_height_map[t]
  BY Zenon DEF MapAfterReceipts
<1>11. \A t \in gone : /\ t \in Tx /\ after[t] # Absent
                       /\ cur[Recipient_sid[t]] > after[t] + RollbackHeight
  BY Zenon DEF Expired
<1>12. \A t \in first : t \in Tx /\ ~Continued(t) /\ cur[Recipient_sid[t]] \in Nat
  BY <1>4, FirstDoneFacts, TypesAssumption, Zenon
<1>13. \A t \in first : t \notin gone
  BY <1>10, <1>11, <1>12, TypesAssumption
<1>14. \A x \in new : /\ x.id \in first /\ x.TXtype = CrossTXType2
  BY DEF SecondHalf
<1>16. \A r \in Ready(S) : r.TxStatus = "CrossTXType2Success" => r.TxID \in second
  BY DEF SecondDone, IdsWith
<1>17. \A s \in Shard : \A h : h \in tbs'[s] <=> h \in tbs[s] \/ <<s, h>> \in S
  BY <1>2, <1>3 DEF KnownAfter
<1> HIDE DEF first, second, gone, after, new
<1>18. \A t \in Tx : Credited(t) => t \notin first
  BY <1>12 DEF Continued
<1>19. \A t \in second : t \in Tx /\ Credited(t)
  BY <1>5, <1>6 DEF Credited, Included, DataOK, TXReceipt
<1>20. KnownUpTo'
  <2>1. ASSUME NEW s \in Shard PROVE tbs'[s] = 1 .. cur[s]
    <3>1. tbs[s] = 1 .. shard_cur_heights[s] /\ shard_cur_heights[s] \in Nat /\ cur[s] \in Nat
      BY <1>4, Zenon DEF Deadlines, KnownUpTo, DataOK
    <3>2. ASSUME NEW h, h \in tbs'[s] PROVE h \in 1 .. cur[s]
      <4>1. CASE h \in tbs[s]
        BY <1>4, <3>1, <4>1
      <4>2. CASE <<s, h>> \in S
        <5>1. <<s, h>> \in submitted /\ h \in Nat
          BY <1>3, <4>2
        <5>2. h >= 1
          BY <5>1, Zenon DEF Heights
        <5>3. cur[s] >= h
          BY <1>1, <4>2, Zenon DEF IsHighest
        <5> QED
          BY <5>1, <5>2, <5>3
      <4> QED
        BY <1>17, <3>2, <4>1, <4>2
    <3>3. ASSUME NEW h \in 1 .. cur[s] PROVE h \in tbs'[s]
      <4>1. CASE cur[s] = shard_cur_heights[s]
        BY <1>17, <3>1, <4>1, Zenon
      <4>2. CASE <<s, cur[s]>> \in S
        BY <1>2, <1>17, <4>2, Zenon DEF ConfirmedNext
      <4> QED
        BY <1>1, <4>1, <4>2, Zenon DEF IsHighest
    <3> QED
      BY <3>2, <3>3, Zenon
  <2> QED
    BY <1>1, <2>1 DEF KnownUpTo
<1>21. ASSUME NEW r \in Awaited', r.TxStatus = "CrossTXType2Success"
       PROVE  /\ r.BlockHeight \notin tbs'[r.ShardID]
              /\ cross1_confirm_height_map'[r.TxID] = cross1_confirm_height_map[r.TxID]
              /\ cross1_confirm_height_map[r.TxID] # Absent
              /\ r.BlockHeight >= 1
              /\ r.BlockHeight <= cross1_confirm_height_map[r.TxID] + RollbackHeight
  <2>1. r \in Awaited /\ r \notin Ready(S) /\ r \in issued /\ r \in TXReceipt
    BY <1>8, Zenon DEF Places, DataOK
  <2>2. r.TxID \in Tx /\ r.ShardID \in Shard /\ r.BlockHeight \in Nat
    BY <2>1 DEF TXReceipt
  <2>3. /\ r.BlockHeight \notin tbs[r.ShardID]
        /\ cross1_confirm_height_map[r.TxID] # Absent
        /\ r.BlockHeight >= 1
        /\ r.BlockHeight <= cross1_confirm_height_map[r.TxID] + RollbackHeight
    BY <1>21, <2>1, Zenon DEF Deadlines, AwaitedInTime
  <2>4. r.BlockHeight \notin tbs'[r.ShardID]
    <3>1. CASE r \in tx_reply
      BY <1>2, <2>1, <3>1, Zenon DEF Ready
    <3>2. CASE \E m \in receiptNet : r \in m
      <4>1. <<r.ShardID, r.BlockHeight>> \notin S
        BY <1>2, <2>2, <3>2 DEF ConfirmedNext
      <4> QED
        BY <1>17, <2>2, <2>3, <4>1, Zenon
    <3> QED
      BY <2>1, <3>1, <3>2 DEF Awaited
  <2>5. Credited(r.TxID)
    BY <1>21, <2>1 DEF Credited, Included
  <2>6. r.TxID \notin second
    BY <1>5, <1>6, <1>21, <2>1 DEF Stages, AtMostOnce
  <2>7. after[r.TxID] = cross1_confirm_height_map[r.TxID]
    BY <1>10, <1>18, <2>2, <2>5, <2>6, Zenon
  <2>8. r.TxID \notin gone
    <3> SUFFICES ASSUME r.TxID \in gone PROVE FALSE
      OBVIOUS
    <3>1. r.ShardID = Recipient_sid[r.TxID]
      BY <1>21, <2>1 DEF Stages, ReceiptShard
    <3>2. cur[r.ShardID] > cross1_confirm_height_map[r.TxID] + RollbackHeight
      BY <1>11, <2>7, <3>1, Zenon
    <3>3. cross1_confirm_height_map[r.TxID] \in Nat /\ cur[r.ShardID] \in Nat
      BY <1>4, <2>2, <2>3 DEF DataOK
    <3>4. r.BlockHeight \in 1 .. cur[r.ShardID]
      BY <2>2, <2>3, <3>2, <3>3, TypesAssumption
    <3> QED
      BY <1>1, <1>20, <2>2, <2>4, <3>4, Zenon DEF KnownUpTo
  <2> QED
    BY <1>9, <2>2, <2>3, <2>4, <2>7, <2>8
<1>22. AwaitedInTime'
  BY <1>21, Zenon DEF AwaitedInTime
<1>23. CountedWhileAwaited'
  <2>1. ASSUME NEW r \in issued, r.TxStatus = "CrossTXType2Success", r \notin Awaited'
        PROVE  cross1_confirm_height_map'[r.TxID] = Absent
    <3>1. r.TxID \in Tx /\ Credited(r.TxID)
      BY <2>1, Zenon DEF DataOK, TXReceipt, Credited, Included
    <3>2. after[r.TxID] = Absent
      <4>1. CASE r \notin Awaited
        BY <1>10, <1>18, <2>1, <3>1, <4>1, Zenon DEF Deadlines, CountedWhileAwaited
      <4>2. CASE r \in Ready(S)
        BY <1>10, <1>16, <1>18, <2>1, <3>1, <4>2, Zenon
      <4> QED
        BY <1>8, <2>1, <4>1, <4>2
    <3> QED
      BY <1>9, <3>1, <3>2, Zenon
  <2> QED
    BY <1>2, <2>1, Zenon DEF CountedWhileAwaited
<1>24. \A t \in Tx : RollingBack(t)' => RollingBack(t) \/ t \in gone
  <2>1. \A t \in Tx : RollbackOf(t) \in Alive' => RollbackOf(t) \in Alive
    BY <1>8, <1>14, Zenon DEF RollbackOf, RollbackTXType, CrossTXType2
  <2> QED
    BY <1>2, <1>9, <2>1, Zenon DEF RollingBack, RolledBack, Included
<1>25. Exclusive'
  <2>1. ASSUME NEW t \in gone, Credited(t) PROVE FALSE
    <3>1. PICK r \in issued : r.TxID = t /\ r.TxStatus = "CrossTXType2Success"
      BY <2>1 DEF Credited, Included
    <3>2. t \in Tx /\ cross1_confirm_height_map'[t] = Absent
      BY <1>9, <1>11, Zenon
    <3>3. t \notin second /\ cross1_confirm_height_map[t] # Absent
      BY <1>10, <1>11, <1>18, <2>1, Zenon
    <3>4. r \in Awaited'
      BY <1>8, <1>16, <3>1, <3>3, Zenon DEF Deadlines, CountedWhileAwaited
    <3> QED
      BY <1>21, <3>1, <3>2, <3>4, Zenon
  <2> QED
    BY <1>2, <1>24, <2>1, Zenon DEF Deadlines, Exclusive, Credited, Included
<1>26. TooLate'
  <2>1. ASSUME NEW x \in Alive, x.TXtype = CrossTXType2, cross1_confirm_height_map'[x.id] = Absent
        PROVE  cur[Recipient_sid[x.id]] > Deadline(x)
    <3>1. x.id \in Tx /\ x.Cross1ConfirmHeight \in Nat /\ Recipient_sid[x.id] \in Shard
      BY AliveType, TypesAssumption DEF Transaction
    <3>2. x.id \notin first
      BY <1>12, <2>1 DEF Continued, HasSecondHalf
    <3>3. x.id \notin second
      BY <1>19, <2>1, StatusValues, Zenon DEF Stages, NotYetIncluded, Credited
    <3>4. CASE cross1_confirm_height_map[x.id] = Absent
      <4>1. shard_cur_heights[Recipient_sid[x.id]] > Deadline(x)
        BY <2>1, <3>4, Zenon DEF Deadlines, TooLate
      <4> QED
        BY <1>4, <3>1, <4>1, TypesAssumption DEF DataOK, Deadline
    <3>5. CASE cross1_confirm_height_map[x.id] # Absent
      <4>1. x.id \in gone
        BY <1>9, <1>10, <2>1, <3>1, <3>2, <3>3, <3>5, Zenon
      <4>2. after[x.id] = x.Cross1ConfirmHeight
        BY <1>10, <2>1, <3>1, <3>2, <3>3, <3>5, Zenon DEF Stages, SameDeadline
      <4> QED
        BY <1>11, <4>1, <4>2, Zenon DEF Deadline
    <3> QED
      BY <3>4, <3>5, Zenon
  <2>2. ASSUME NEW x \in new PROVE cross1_confirm_height_map'[x.id] # Absent
    BY <1>9, <1>10, <1>12, <1>13, <1>14 DEF Absent
  <2> QED
    BY <1>1, <1>8, <2>1, <2>2, Zenon DEF TooLate
<1> QED
  BY <1>9, <1>20, <1>22, <1>23, <1>25, <1>26 DEF Deadlines

\* The client's sends put nothing else into the system than what they send.
LEMMA SentIsAlive ==
    ASSUME NEW new, txNet' = txNet \cup Messages(new), UNCHANGED <<cross2_txs, pool, packed>>
    PROVE  \A x \in Alive' : x \in Alive \/ x \in new
BY DEF Messages, Alive

\* Every step keeps Deadlines, when receipts come in time and TBs in order.
LEMMA DeadlinesNext ==
    ASSUME ReceiptsInTime, BeaconsInOrder
    PROVE  DataOK /\ Places /\ Stages /\ Heights /\ Deadlines /\ [Next]_vars => Deadlines'
<1> SUFFICES ASSUME DataOK, Places, Stages, Heights, Deadlines, [Next]_vars
             PROVE  Deadlines'
  OBVIOUS
<1>1. Places' /\ Stages'
  BY StagesNext
<1>2. ASSUME Alive' = Alive, Awaited' = Awaited,
             UNCHANGED <<issued, cross1_confirm_height_map, cross_tx_expired, clientUp, tbs,
                         shard_cur_heights>>
      PROVE  Deadlines'
  BY <1>2, DeadlinesSame, Zenon DEF RollingBack, RolledBack, Included
<1>3. CASE sendRollbackTxs
  <2>1. PICK batch \in SUBSET cross_tx_expired :
           /\ txNet' = txNet \cup Messages({RollbackOf(t) : t \in batch})
           /\ cross_tx_expired' = cross_tx_expired \ batch
    BY <1>3, Zenon DEF sendRollbackTxs
  <2>2. UNCHANGED <<cross2_txs, pool, packed, tx_reply, receiptNet, issued,
                    cross1_confirm_height_map, clientUp, tbs, shard_cur_heights>>
    BY <1>3, Zenon DEF sendRollbackTxs, workerVars
  <2> DEFINE new == {RollbackOf(t) : t \in batch}
  <2>4. \A x \in Alive' : x \in Alive \/ x \in new
    BY <2>1, <2>2, SentIsAlive, Zenon
  <2>6. \A x \in Alive' : x.TXtype = CrossTXType2 => x \in Alive
    BY <2>4 DEF RollbackOf, CrossTXType2, RollbackTXType
  <2>7. \A t \in Tx : RollingBack(t)' => RollingBack(t)
    BY <2>1, <2>2, <2>4, Zenon DEF RollbackOf, RollingBack, RolledBack, Included
  <2> QED
    BY <2>2, <2>6, <2>7, DeadlinesSame, Zenon DEF Awaited
<1>4. CASE sendCross2Txs
  <2>1. PICK batch \in SUBSET cross2_txs :
           /\ txNet' = txNet \cup Messages(batch)
           /\ cross2_txs' = cross2_txs \ batch
    BY <1>4, Zenon DEF sendCross2Txs
  <2>2. UNCHANGED <<pool, packed, workerAt, tx_reply, receiptNet, issued, clientUp,
                    cross1_confirm_height_map, cross_tx_expired, tbs, shard_cur_heights>>
    BY <1>4, Zenon DEF sendCross2Txs, workerVars
  <2>3. Alive' = Alive \cup batch /\ Awaited' = Awaited
    <3>1. batch \in SUBSET Transaction
      BY Zenon DEF DataOK
    <3> QED
      BY <2>1, <2>2, <3>1, SendEffect, Zenon
  <2>4. Alive' = Alive
    BY <2>3, Zenon DEF Alive
  <2> QED
    BY <1>2, <2>2, <2>3, <2>4, Zenon
<1>5. CASE sendPendingTxs
  <2>1. PICK batch \in SUBSET (Tx \ injected) :
           txNet' = txNet \cup Messages({FirstHalf(t) : t \in batch})
    BY <1>5, Zenon DEF sendPendingTxs
  <2>2. UNCHANGED <<cross2_txs, pool, packed, tx_reply, receiptNet, issued, clientUp,
                    cross1_confirm_height_map, cross_tx_expired, tbs, shard_cur_heights>>
    BY <1>5, Zenon DEF sendPendingTxs, workerVars
  <2> DEFINE new == {FirstHalf(t) : t \in batch}
  <2>3. txNet' = txNet \cup Messages(new)
    BY <2>1
  <2>4. \A x \in Alive' : x \in Alive \/ x \in new
    <3> HIDE DEF new
    <3> QED
      BY <2>2, <2>3, SentIsAlive, Zenon
  <2>5. Awaited' = Awaited
    BY <2>2 DEF Awaited
  <2>6. \A x \in new : x.TXtype \in {IntraTXType, CrossTXType1}
    BY DEF FirstHalf
  <2>7. \A x \in Alive' : x.TXtype = CrossTXType2 => x \in Alive
    BY <2>4, <2>6 DEF CrossTXType2, IntraTXType, CrossTXType1
  <2>8. \A t \in Tx : RollingBack(t)' => RollingBack(t)
    BY <2>2, <2>4, <2>6, Zenon DEF RollbackOf, RollbackTXType, IntraTXType, CrossTXType1,
       RollingBack, RolledBack, Included
  <2> QED
    BY <2>2, <2>5, <2>7, <2>8, DeadlinesSame, Zenon
<1>6. ASSUME NEW txs \in txNet, HandleClientSendtx(txs) PROVE Deadlines'
  BY <1>2, <1>6, HandleClientSendtxEffect DEF HandleClientSendtx, clientVars
<1>7. ASSUME NEW s \in Shard, commitStart(s) PROVE Deadlines'
  <2> QED
    BY <1>7, DeadlinesSame, commitStartEffect, Zenon DEF RollingBack, RolledBack, Included,
       commitStart, clientVars
<1>8. ASSUME NEW s \in Shard, commitEnd(s) PROVE Deadlines'
  BY <1>8, DeadlinesCommitEnd, Zenon
<1>9. ASSUME NEW s \in Shard, broadcastTbInCommittee(s) PROVE Deadlines'
  BY <1>2, <1>9 DEF broadcastTbInCommittee, clientVars, Alive, Awaited
<1>10. ASSUME NEW b \in blockNet, HandleComSendBlock(b) PROVE Deadlines'
  BY <1>2, <1>10 DEF HandleComSendBlock, clientVars, workerVars, Alive, Awaited
<1>11. ASSUME NEW receipts \in receiptNet, AddTXReceipts(receipts) PROVE Deadlines'
  BY <1>2, <1>11, AddTXReceiptsEffect, Zenon DEF AddTXReceipts
<1>12. ASSUME NEW S \in SUBSET Unconfirmed, AddTBs(S) PROVE Deadlines'
  BY <1>12, DeadlinesAddTBs
<1>13. CASE UNCHANGED vars
  BY <1>2, <1>13 DEF vars, clientVars, workerVars, Alive, Awaited
<1> QED
  BY <1>3, <1>4, <1>5, <1>6, <1>7, <1>8, <1>9, <1>10, <1>11, <1>12, <1>13, Zenon DEF Next

\* The whole inductive invariant holds in every reachable state.
LEMMA InvariantHolds ==
    ASSUME ReceiptsInTime, BeaconsInOrder
    PROVE  Spec => []IInv
<1>1. Init => IInv
  BY DataInit, StagesInit, HeightsInit, DeadlinesInit DEF IInv
<1>2. IInv /\ [Next]_vars => IInv'
  BY DataNext, StagesNext, HeightsNext, DeadlinesNext DEF IInv
<1> QED
  BY <1>1, <1>2, PTL DEF Spec

\* If receipts come in time and TBs in order, no cross-shard transaction is both
\* completed and rolled back: the height the pool compares a second half's deadline
\* with and the height the client compares it with never disagree.
THEOREM CrossShardAtomicity ==
    ASSUME ReceiptsInTime, BeaconsInOrder
    PROVE  Spec => []Atomicity
<1>1. IInv => Atomicity
  BY DEF IInv, Deadlines, Exclusive, RollingBack, Atomicity
<1> QED
  BY <1>1, InvariantHolds, PTL

\* Under the same assumptions the client never finds the receipt of a second half it
\* no longer waits for, and so never ends its process.
THEOREM ClientNeverAborts ==
    ASSUME ReceiptsInTime, BeaconsInOrder
    PROVE  Spec => []ConfirmedIsNotExpired
<1>1. IInv => ConfirmedIsNotExpired
  BY DEF IInv, Deadlines, ConfirmedIsNotExpired
<1> QED
  BY <1>1, InvariantHolds, PTL
-----------------------------------------------------------------------------
(* The heights that PBFT decides.                                          *)

\* Every step keeps DecidedInOrder.
LEMMA DecidedNext ==
    ASSUME DataOK, DecidedInOrder, [Next]_vars
    PROVE  DecidedInOrder'
<1> DEFINE heights == <<blockNet, workerAt, curHeight, gotEnoughReply, chainHeight>>
<1>1. ASSUME UNCHANGED heights PROVE DecidedInOrder'
  BY <1>1, Zenon DEF DecidedInOrder, BlocksContinueChain
<1>2. ASSUME NEW s \in Shard, commitStart(s) PROVE DecidedInOrder'
  <2>1. /\ UNCHANGED <<blockNet, gotEnoughReply, chainHeight>>
        /\ curHeight' = [curHeight EXCEPT ![s] = chainHeight[s] + 1]
        /\ workerAt' = [workerAt EXCEPT ![s] = "pbft"]
    BY <1>2, Zenon DEF commitStart, shardVars
  <2>2. \A u \in Shard : workerAt'[u] = "pbft" =>
            curHeight'[u] > 0 /\ curHeight'[u] <= chainHeight[u] + 1
    BY <2>1 DEF DecidedInOrder, DataOK
  <2> QED
    BY <2>1, <2>2, Zenon DEF DecidedInOrder, BlocksContinueChain
<1>3. ASSUME NEW s \in Shard, commitEnd(s) PROVE DecidedInOrder'
  <2> DEFINE new == [ShardID |-> s, Number |-> curHeight[s], Transactions |-> packed[s]]
  <2>1. /\ UNCHANGED <<curHeight, chainHeight>> /\ workerAt[s] = "pbft"
        /\ curHeight[s] \notin gotEnoughReply[s]
        /\ blockNet' = blockNet \cup {new}
        /\ gotEnoughReply' = [gotEnoughReply EXCEPT ![s] = @ \cup {curHeight[s]}]
        /\ workerAt' = [workerAt EXCEPT ![s] = "multisign"]
    BY <1>3, Zenon DEF commitEnd, shardVars
  <2>2. new.ShardID = s /\ new.Number = curHeight[s]
    BY Zenon
  <2> HIDE DEF new
  <2>3. curHeight[s] = chainHeight[s] + 1
    <3>1. curHeight[s] \in Nat /\ chainHeight[s] \in Nat
      BY Zenon DEF DataOK
    <3>2. curHeight[s] > 0 /\ curHeight[s] <= chainHeight[s] + 1 /\ ~(curHeight[s] <= chainHeight[s])
      BY <2>1, <3>1, Zenon DEF DecidedInOrder
    <3> QED
      BY <3>1, <3>2
  <2>4. \A b \in blockNet : b.ShardID # s
    BY <2>1, <2>3, Zenon DEF DecidedInOrder, BlocksContinueChain
  <2>5. \A u \in Shard : workerAt'[u] = "pbft" => workerAt[u] = "pbft"
    BY <2>1, Zenon DEF DataOK
  <2>6. \A u \in Shard : gotEnoughReply[u] \subseteq gotEnoughReply'[u]
    BY <2>1, Zenon DEF DataOK
  <2>7. curHeight[s] \in gotEnoughReply'[s]
    BY <2>1, Zenon DEF DataOK
  <2>8. \A b \in blockNet : b.ShardID \in Shard
    BY DEF DataOK, Block
  <2>9. BlocksContinueChain'
    BY <2>1, <2>2, <2>3, <2>4, Zenon DEF DecidedInOrder, BlocksContinueChain
  <2> QED
    BY <2>1, <2>2, <2>5, <2>6, <2>7, <2>8, <2>9, Zenon DEF DecidedInOrder
<1>4. ASSUME NEW s \in Shard, broadcastTbInCommittee(s) PROVE DecidedInOrder'
  <2>1. /\ UNCHANGED <<blockNet, curHeight, gotEnoughReply, chainHeight>>
        /\ workerAt' = [workerAt EXCEPT ![s] = "idle"]
    BY <1>4, Zenon DEF broadcastTbInCommittee, shardVars
  <2>2. \A u \in Shard : workerAt'[u] = "pbft" => workerAt[u] = "pbft"
    BY <2>1, Zenon DEF DataOK
  <2> QED
    BY <2>1, <2>2, Zenon DEF DecidedInOrder, BlocksContinueChain
<1>5. ASSUME NEW b \in blockNet, HandleComSendBlock(b) PROVE DecidedInOrder'
  <2>1. /\ UNCHANGED <<workerAt, curHeight, gotEnoughReply>>
        /\ blockNet' = blockNet \ {b}
        /\ chainHeight' = [chainHeight EXCEPT ![b.ShardID] = b.Number]
    BY <1>5, Zenon DEF HandleComSendBlock, workerVars
  <2>2. b.ShardID \in Shard /\ b.Number \in Nat
    BY DEF DataOK, Block
  <2>3. \A s \in Shard : chainHeight[s] \in Nat /\ curHeight[s] \in Nat
    BY Zenon DEF DataOK
  <2>4. b.Number = chainHeight[b.ShardID] + 1 /\ b.Number \in gotEnoughReply[b.ShardID]
    BY Zenon DEF DecidedInOrder, BlocksContinueChain
  <2>5. \A s \in Shard : chainHeight'[s] = IF s = b.ShardID THEN b.Number ELSE chainHeight[s]
    BY <2>1, Zenon DEF DataOK
  <2>6. \A c \in blockNet' : c \in blockNet /\ c.ShardID \in Shard /\ c.ShardID # b.ShardID
    BY <2>1 DEF DataOK, Block, DecidedInOrder, BlocksContinueChain
  <2>7. BlocksContinueChain'
    BY <2>5, <2>6, Zenon DEF DecidedInOrder, BlocksContinueChain
  <2>8. \A s \in Shard : chainHeight[s] + 1 <= chainHeight'[s] + 1 /\ chainHeight'[s] \in Nat
    BY <2>2, <2>3, <2>4, <2>5
  <2>9. ASSUME NEW s \in Shard, workerAt[s] = "pbft"
        PROVE  curHeight[s] > 0 /\ curHeight[s] <= chainHeight'[s] + 1
    <3>1. curHeight[s] > 0 /\ curHeight[s] <= chainHeight[s] + 1
      BY <2>9, Zenon DEF DecidedInOrder
    <3> QED
      BY <2>3, <2>8, <3>1
  <2>10. ASSUME NEW s \in Shard, NEW h \in Nat, 0 < h, h <= chainHeight'[s]
         PROVE  h \in gotEnoughReply[s]
    <3>1. h <= chainHeight[s] \/ (s = b.ShardID /\ h = b.Number)
      BY <2>3, <2>4, <2>5, <2>10
    <3> QED
      BY <2>4, <2>10, <3>1, Zenon DEF DecidedInOrder
  <2> QED
    BY <2>1, <2>6, <2>7, <2>9, <2>10, Zenon DEF DecidedInOrder
<1>6. CASE sendRollbackTxs \/ sendCross2Txs \/ sendPendingTxs
  BY <1>1, <1>6, Zenon DEF sendRollbackTxs, sendCross2Txs, sendPendingTxs, workerVars, shardVars
<1>7. ASSUME NEW txs \in txNet, HandleClientSendtx(txs) PROVE DecidedInOrder'
  BY <1>1, <1>7, Zenon DEF HandleClientSendtx, workerVars, shardVars
<1>8. ASSUME NEW receipts \in receiptNet, AddTXReceipts(receipts) PROVE DecidedInOrder'
  BY <1>1, <1>8, Zenon DEF AddTXReceipts, workerVars, shardVars
<1>9. ASSUME NEW S, AddTBs(S) PROVE DecidedInOrder'
  BY <1>1, <1>9, Zenon DEF AddTBs, workerVars, shardVars
<1>10. CASE UNCHANGED vars
  BY <1>1, <1>10, Zenon DEF vars, workerVars, shardVars
<1> QED
  BY <1>2, <1>3, <1>4, <1>5, <1>6, <1>7, <1>8, <1>9, <1>10, Zenon DEF Next

\* However late a block is and however stale the height a worker has read, a shard is only
\* sent the next block of its chain, and one at a time.
THEOREM ChainsContinued == Spec => []BlocksContinueChain
<1>1. Init => DecidedInOrder
  BY DEF Init, DecidedInOrder, BlocksContinueChain
<1>2. DataOK /\ DecidedInOrder /\ [Next]_vars => DecidedInOrder'
  BY DecidedNext
<1>3. DecidedInOrder => BlocksContinueChain
  BY DEF DecidedInOrder
<1> QED
  BY <1>1, <1>2, <1>3, DataInit, DataNext, PTL DEF Spec

-----------------------------------------------------------------------------
(* The client's budget.                                                    *)

INSTANCE FiniteSetTheorems

\* The client's queue of second halves is finite, so that it has a length.
Finite == IsFiniteSet(cross2_txs)

\* The smaller of two naturals is a natural.
LEMMA MinimumType ==
    ASSUME NEW a \in Nat, NEW b \in Nat
    PROVE  Minimum(a, b) \in Nat /\ Minimum(a, b) <= a /\ Minimum(a, b) <= b
BY DEF Minimum

\* A batch cut down to n is no larger than n, so the round's budget stays a natural.
LEMMA BatchSize ==
    ASSUME NEW Q, IsFiniteSet(Q), NEW batch \in SUBSET Q, NEW n \in Nat,
           Cardinality(batch) = Minimum(n, Cardinality(Q))
    PROVE  /\ Cardinality(batch) \in Nat /\ Cardinality(batch) <= n
           /\ IsFiniteSet(batch)
BY FS_CardinalityType, FS_Subset, MinimumType

\* Every step keeps the types and the finiteness.
LEMMA TypeNext == TypeOK /\ Finite /\ [Next]_vars => TypeOK' /\ Finite'
<1> SUFFICES ASSUME DataOK, budget \in Nat, Finite, [Next]_vars
             PROVE  budget' \in Nat /\ Finite'
  BY DataNext DEF TypeOK
<1> USE TypesAssumption, CrossShardAssumption
<1>1. ASSUME UNCHANGED <<budget, cross2_txs>> PROVE budget' \in Nat /\ Finite'
  BY <1>1 DEF Finite
<1>2. CASE sendRollbackTxs
  <2>1. PICK batch \in SUBSET cross_tx_expired :
           /\ Cardinality(batch) = Minimum(InjectSpeed, Cardinality(cross_tx_expired))
           /\ budget' = InjectSpeed - Cardinality(batch)
    BY <1>2, Zenon DEF sendRollbackTxs
  <2>2. IsFiniteSet(cross_tx_expired)
    BY FS_Subset, Zenon DEF DataOK
  <2>3. budget' \in Nat
    BY <2>1, <2>2, BatchSize
  <2> QED
    BY <1>2, <2>3, Zenon DEF sendRollbackTxs, Finite
<1>3. CASE sendCross2Txs
  <2>1. PICK batch \in SUBSET cross2_txs :
           /\ Cardinality(batch) = Minimum(budget, Cardinality(cross2_txs))
           /\ cross2_txs' = cross2_txs \ batch
           /\ budget' = budget - Cardinality(batch)
    BY <1>3, Zenon DEF sendCross2Txs
  <2>2. budget' \in Nat
    BY <2>1, BatchSize DEF Finite
  <2> QED
    BY <2>1, <2>2, FS_Subset, Zenon DEF Finite
<1>4. ASSUME NEW S \in SUBSET Unconfirmed, AddTBs(S) PROVE budget' \in Nat /\ Finite'
  <2>1. PICK cur : /\ processTXReceipts(S, cur)
                   /\ budget' = budget
    BY <1>4, Zenon DEF AddTBs
  <2> DEFINE T == {SecondHalf(t, cur[Recipient_sid[t]]) : t \in FirstDone(S)}
             f == [t \in FirstDone(S) |-> SecondHalf(t, cur[Recipient_sid[t]])]
  <2>2. FirstDone(S) \subseteq Tx
    BY DEF FirstDone, IdsWith, Ready, DataOK, TXReceipt
  <2>3. f \in Surjection(FirstDone(S), T)
    BY Zenon DEF Surjection
  <2>4. IsFiniteSet(T)
    BY <2>2, <2>3, FS_Subset, FS_Surjection
  <2>5. IsFiniteSet(cross2_txs \cup T)
    BY <2>4, FS_Union, Zenon DEF Finite
  <2> QED
    BY <2>1, <2>5, Zenon DEF Finite, processTXReceipts
<1>5. CASE sendPendingTxs \/ \E txs \in txNet : HandleClientSendtx(txs)
  BY <1>1, <1>5, Zenon DEF sendPendingTxs, HandleClientSendtx, clientVars
<1>6. CASE \E s \in Shard : commitStart(s) \/ commitEnd(s) \/ broadcastTbInCommittee(s)
  BY <1>1, <1>6, Zenon DEF commitStart, commitEnd, broadcastTbInCommittee, clientVars
<1>7. CASE (\E b \in blockNet : HandleComSendBlock(b)) \/ \E r \in receiptNet : AddTXReceipts(r)
  BY <1>1, <1>7, Zenon DEF HandleComSendBlock, AddTXReceipts, clientVars
<1>8. CASE UNCHANGED vars
  BY <1>1, <1>8, Zenon DEF vars, clientVars
<1> QED
  BY <1>2, <1>3, <1>4, <1>5, <1>6, <1>7, <1>8, ZenonT(30) DEF Next

\* Every variable keeps its type: in particular, a round of the client spends no more
\* than its budget over the three kinds of transactions it sends.
THEOREM TypeCorrect == Spec => []TypeOK
<1>1. Init => TypeOK /\ Finite
  BY DataInit, FS_EmptySet DEF Init, TypeOK, Finite
<1> QED
  BY <1>1, TypeNext, PTL DEF Spec
=============================================================================
