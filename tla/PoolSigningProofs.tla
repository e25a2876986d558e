-------------------------- MODULE PoolSigningProofs --------------------------
(***************************************************************************)
(* What a block begins and ends with.  The transaction pool keeps the      *)
(* rules that the worker and the client count on, for any transactions,    *)
(* any batches, any block size and any heights: its two queues implement   *)
(* the set of AbstractPool, and Pending overtakes nobody.  And what a      *)
(* committee sends to Layer1 of a block is well signed, for any number of  *)
(* nodes, of signatures required and of TBs, however late replies come.    *)
(***************************************************************************)
EXTENDS TxPool, MultiSign, FiniteSetTheorems, TLAPS

Others    == {tx \in Offered : ~IsRollback(tx)}
Returning == {tx \in Offered : IsRollback(tx)}

\* The inductive invariant: no transaction stands in a queue twice, since each was sent
\* but once.
PoolInv ==
    /\ TypeOK
    /\ IsInjective(pending) /\ IsInjective(pendingRollback)
    /\ Pooled \subseteq offered

-----------------------------------------------------------------------------
(* Queues.                                                                  *)

\* A queue without repetitions has as many members at given places as there are places.
LEMMA CountPlaces ==
    ASSUME NEW q, IsInjective(q), NEW I \in SUBSET DOMAIN q, IsFiniteSet(I)
    PROVE  /\ IsFiniteSet({q[j] : j \in I})
           /\ Cardinality({q[j] : j \in I}) = Cardinality(I)
  <1> DEFINE T == {q[j] : j \in I}
             f == [j \in I |-> q[j]]
  <1>1. f \in Bijection(I, T)
    BY Zenon DEF Injection, IsInjective, Surjection, Bijection
  <1> QED
    BY <1>1, FS_Bijection, Zenon DEF ExistsBijection

\* The first n places are n.
LEMMA FirstPlaces ==
    ASSUME NEW q, IsInjective(q), NEW n \in Nat, 1 .. n \subseteq DOMAIN q
    PROVE  Cardinality({q[j] : j \in 1 .. n}) = n
  <1>1. IsFiniteSet(1 .. n) /\ Cardinality(1 .. n) = n
    BY FS_Interval
  <1> QED
    BY <1>1, CountPlaces, Zenon

\* What is left of a queue when its first k are taken.
LEMMA RestOfQueue ==
    ASSUME NEW S, NEW q \in Seq(S), IsInjective(q), NEW k \in 0 .. Len(q)
    PROVE  LET r == SubSeq(q, k + 1, Len(q))
           IN  /\ r \in Seq(S) /\ IsInjective(r)
               /\ Range(r) = {q[j] : j \in k + 1 .. Len(q)}
  <1> DEFINE r == SubSeq(q, k + 1, Len(q))
  <1>1. /\ r \in Seq(S) /\ Len(r) = Len(q) - k
        /\ \A m \in 1 .. Len(q) - k : r[m] = q[k + m]
    OBVIOUS
  <1>2. DOMAIN r = 1 .. Len(q) - k /\ DOMAIN q = 1 .. Len(q) /\ Len(q) \in Nat
    OBVIOUS
  <1> HIDE DEF r
  <1>3. IsInjective(r)
    <2> SUFFICES ASSUME NEW a \in DOMAIN r, NEW b \in DOMAIN r, r[a] = r[b] PROVE a = b
      BY DEF IsInjective
    <2>1. k + a \in DOMAIN q /\ k + b \in DOMAIN q /\ q[k + a] = q[k + b]
      BY <1>1, <1>2, SMTT(30)
    <2>2. k + a = k + b
      BY <2>1 DEF IsInjective
    <2> QED
      BY <1>2, <2>2
  <1>4. Range(r) = {q[j] : j \in k + 1 .. Len(q)}
    <2>1. ASSUME NEW m \in DOMAIN r PROVE r[m] \in {q[j] : j \in k + 1 .. Len(q)}
      BY <1>1
    <2>2. ASSUME NEW j \in k + 1 .. Len(q) PROVE q[j] \in Range(r)
      <3>1. j - k \in 1 .. Len(q) - k /\ k + (j - k) = j
        OBVIOUS
      <3> QED
        BY <1>1, <1>2, <3>1, Zenon DEF Range
    <2> QED
      BY <2>1, <2>2 DEF Range
  <1> QED
    BY <1>1, <1>3, <1>4, Zenon DEF r

\* Two queues with nothing in common, one behind the other.
LEMMA JoinedQueues ==
    ASSUME NEW S, NEW p \in Seq(S), NEW q \in Seq(S), IsInjective(p), IsInjective(q),
           Range(p) \cap Range(q) = {}
    PROVE  /\ p \o q \in Seq(S) /\ IsInjective(p \o q)
           /\ Range(p \o q) = Range(p) \cup Range(q)
  <1> DEFINE r == p \o q
  <1>1. /\ r \in Seq(S) /\ Len(r) = Len(p) + Len(q) /\ Len(p) \in Nat /\ Len(q) \in Nat
        /\ \A i \in 1 .. Len(p) : r[i] = p[i]
        /\ \A i \in Len(p) + 1 .. Len(p) + Len(q) : r[i] = q[i - Len(p)]
    OBVIOUS
  <1>2. /\ DOMAIN r = 1 .. Len(p) + Len(q) /\ DOMAIN p = 1 .. Len(p) /\ DOMAIN q = 1 .. Len(q)
    OBVIOUS
  <1> HIDE DEF r
  <1>3. \A i \in DOMAIN r : \/ i \in DOMAIN p /\ r[i] = p[i]
                            \/ /\ i \notin DOMAIN p /\ i - Len(p) \in DOMAIN q
                               /\ r[i] = q[i - Len(p)]
    BY <1>1, <1>2
  <1>4. IsInjective(r)
    <2> SUFFICES ASSUME NEW a \in DOMAIN r, NEW b \in DOMAIN r, r[a] = r[b] PROVE a = b
      BY DEF IsInjective
    <2>1. CASE a \in DOMAIN p /\ b \in DOMAIN p
      BY <1>3, <2>1, Zenon DEF IsInjective
    <2>2. CASE a \notin DOMAIN p /\ b \notin DOMAIN p
      <3>1. a - Len(p) = b - Len(p)
        BY <1>3, <2>2 DEF IsInjective
      <3> QED
        BY <1>2, <3>1
    <2>3. ASSUME NEW i \in DOMAIN r, NEW j \in DOMAIN r,
                 i \in DOMAIN p, j \notin DOMAIN p
          PROVE  r[i] # r[j]
      <3>2. r[j] \in Range(q)
        BY <1>3, <2>3, Zenon DEF Range
      <3> QED
        BY <1>3, <2>3, <3>2, Zenon DEF Range
    <2> QED
      BY <2>1, <2>2, <2>3
  <1>5. Range(r) = Range(p) \cup Range(q)
    <2>1. Range(r) \subseteq Range(p) \cup Range(q)
      BY <1>3, Zenon DEF Range
    <2>2. Range(p) \subseteq Range(r)
      BY <1>1, <1>2 DEF Range
    <2>3. ASSUME NEW j \in DOMAIN q PROVE q[j] \in Range(r)
      <3>2. r[j + Len(p)] = q[j] /\ j + Len(p) \in DOMAIN r
        BY <1>1, <1>2
      <3> QED
        BY <3>2 DEF Range
    <2> QED
      BY <2>1, <2>2, <2>3, Zenon DEF Range
  <1> QED
    BY <1>1, <1>4, <1>5, Zenon DEF r

\* A list of new transactions is a queue without repetitions.
LEMMA ListFacts ==
    ASSUME NEW S, NEW l \in Lists(S)
    PROVE  l \in Seq(S) /\ IsInjective(l) /\ Range(l) \subseteq S
  BY DEF Lists, Injection, Range

-----------------------------------------------------------------------------
(* Transactions that come.                                                  *)

\* Whether a batch goes to the back (AddTxs) or to the front (SetPoolTx), its
\* transactions join the pool, each at one place.
LEMMA BatchJoins ==
    ASSUME PoolInv, NEW batch \in Batches, AddTxs(batch) \/ SetPoolTx(batch)
    PROVE  /\ PoolInv' /\ Pooled' = Pooled \cup TxsOf(batch)
           /\ TxsOf(batch) \subseteq Offered
           /\ UNCHANGED <<parentBlockHeight, txs>>
  <1> DEFINE new == Offered \ offered
  <1>1. PICK front, back : front = batch.pending /\ back = batch.pendingRollback
    OBVIOUS
  <1>2. /\ front \in Lists({tx \in new : ~IsRollback(tx)})
        /\ back \in Lists({tx \in new : IsRollback(tx)})
    BY <1>1 DEF Batches
  <1>3. /\ front \in Seq({tx \in new : ~IsRollback(tx)}) /\ IsInjective(front)
        /\ Range(front) \subseteq {tx \in new : ~IsRollback(tx)}
    BY <1>2, ListFacts
  <1>4. /\ back \in Seq({tx \in new : IsRollback(tx)}) /\ IsInjective(back)
        /\ Range(back) \subseteq {tx \in new : IsRollback(tx)}
    BY <1>2, ListFacts
  <1>5. /\ pending \in Seq(Others) /\ IsInjective(pending) /\ Range(pending) \subseteq offered
        /\ pendingRollback \in Seq(Returning) /\ IsInjective(pendingRollback)
        /\ Range(pendingRollback) \subseteq offered
    BY Zenon DEF PoolInv, TypeOK, Pooled, Others, Returning
  <1>6. front \in Seq(Others) /\ back \in Seq(Returning)
    BY <1>3, <1>4 DEF Others, Returning
  <1>7. /\ Range(pending) \cap Range(front) = {} /\ Range(front) \cap Range(pending) = {}
        /\ Range(pendingRollback) \cap Range(back) = {}
        /\ Range(back) \cap Range(pendingRollback) = {}
    BY <1>3, <1>4, <1>5, Zenon
  <1>8. /\ pending' = pending \o front \/ pending' = front \o pending
        /\ pendingRollback' = pendingRollback \o back \/ pendingRollback' = back \o pendingRollback
        /\ offered' = offered \cup TxsOf(batch) /\ UNCHANGED <<parentBlockHeight, txs>>
    BY <1>1, Zenon DEF AddTxs, SetPoolTx
  <1>10. /\ pending' \in Seq(Others) /\ IsInjective(pending')
         /\ Range(pending') = Range(pending) \cup Range(front)
    <2>1. CASE pending' = pending \o front
      BY <1>3, <1>5, <1>6, <1>7, <2>1, JoinedQueues
    <2>2. CASE pending' = front \o pending
      <3>1. /\ front \o pending \in Seq(Others) /\ IsInjective(front \o pending)
            /\ Range(front \o pending) = Range(front) \cup Range(pending)
        BY <1>3, <1>5, <1>6, JoinedQueues
      <3> QED
        BY <2>2, <3>1
    <2> QED
      BY <1>8, <2>1, <2>2, Zenon
  <1>11. /\ pendingRollback' \in Seq(Returning) /\ IsInjective(pendingRollback')
         /\ Range(pendingRollback') = Range(pendingRollback) \cup Range(back)
    <2>1. CASE pendingRollback' = pendingRollback \o back
      BY <1>4, <1>5, <1>6, <2>1, JoinedQueues
    <2>2. CASE pendingRollback' = back \o pendingRollback
      <3>1. /\ back \o pendingRollback \in Seq(Returning) /\ IsInjective(back \o pendingRollback)
            /\ Range(back \o pendingRollback) = Range(back) \cup Range(pendingRollback)
        BY <1>4, <1>5, <1>6, JoinedQueues
      <3> QED
        BY <2>2, <3>1
    <2> QED
      BY <1>8, <2>1, <2>2, Zenon
  <1> QED
    BY <1>1, <1>3, <1>4, <1>8, <1>10, <1>11, Zenon DEF PoolInv, TypeOK, Others, Returning,
       Pooled, TxsOf

-----------------------------------------------------------------------------
(* Transactions that are taken.                                             *)

\* Where the loop over pending stops, it has found as many transactions in time as the
\* block has room for, or all there are; with no room at all it looks at none.
LEMMA LoopStops ==
    ASSUME PoolInv, NEW height, NEW room \in Nat, NEW i \in 0 .. Len(pending),
           StopsAt(i, room, height)
    PROVE  LET found(n) == Cardinality(InTime(n, height))
           IN  /\ IsFiniteSet(InTime(i, height)) /\ IsFiniteSet(InTime(Len(pending), height))
               /\ found(i) \in Nat
               /\ found(i) = Minimum(room, found(Len(pending)))
               /\ found(i) < room => i = Len(pending)
               /\ room = 0 => i = 0
  <1> DEFINE found(n) == Cardinality(InTime(n, height))
             all == Len(pending)
  <1>1. all \in Nat
    BY DEF PoolInv, TypeOK
  <1>2. ASSUME NEW n \in Nat PROVE IsFiniteSet(InTime(n, height)) /\ found(n) \in Nat
    <2>1. IsFiniteSet(1 .. n) /\ InTime(n, height) \in SUBSET (1 .. n)
      BY FS_Interval DEF InTime
    <2> QED
      BY <2>1, FS_Subset, FS_CardinalityType, Zenon
  <1>3. found(i) <= found(all)
    BY <1>1, <1>2, FS_Subset DEF InTime
  <1>4. found(0) = 0
    BY FS_EmptySet DEF InTime
  <1>5. found(i) <= room
    <2>1. CASE i = 0
      BY <1>4, <2>1
    <2>2. CASE i > 0
      <3>1. i - 1 \in Nat /\ found(i - 1) < room
        BY <1>1, <2>2 DEF StopsAt
      <3>3. i \notin InTime(i - 1, height)
        BY DEF InTime
      <3>4. /\ IsFiniteSet(InTime(i - 1, height) \cup {i})
            /\ Cardinality(InTime(i - 1, height) \cup {i}) = found(i - 1) + 1
        BY <1>2, <3>1, <3>3, FS_AddElement, Zenon
      <3>5. found(i) <= found(i - 1) + 1
        BY <3>4, FS_Subset DEF InTime
      <3> QED
        BY <1>1, <1>2, <3>1, <3>5
    <2> QED
      BY <2>1, <2>2
  <1>6. found(i) = room \/ i = all
    BY DEF StopsAt
  <1>7. found(i) = Minimum(room, found(all))
    <2>1. found(i) \in Nat /\ found(all) \in Nat
      BY <1>2
    <2> HIDE DEF found
    <2> QED
      BY <1>3, <1>5, <1>6, <2>1 DEF Minimum
  <1>8. room = 0 => i = 0
    BY <1>1, <1>4 DEF StopsAt
  <1> QED
    BY <1>2, <1>6, <1>7, <1>8

\* A call of Pending, in terms of places: the first k of pendingRollback and those in time
\* among the first i of pending make the block, and the rest of both queues stays.
LEMMA PendingTakes ==
    ASSUME PoolInv, NEW parent \in parentBlockHeight .. MaxParent, Pending(parent)
    PROVE  \E i \in 0 .. Len(pending), k \in 0 .. Len(pendingRollback) :
               /\ k = Minimum(MaxBlockSize, Len(pendingRollback))
               /\ MaxBlockSize - k \in Nat
               /\ StopsAt(i, MaxBlockSize - k, parent + 1)
               /\ txs' = {pendingRollback[j] : j \in 1 .. k}
                            \cup {pending[j] : j \in InTime(i, parent + 1)}
               /\ Range(pending') = {pending[j] : j \in i + 1 .. Len(pending)}
               /\ Range(pendingRollback') =
                     {pendingRollback[j] : j \in k + 1 .. Len(pendingRollback)}
               /\ pending' \in Seq(Others) /\ IsInjective(pending')
               /\ pendingRollback' \in Seq(Returning) /\ IsInjective(pendingRollback')
               /\ parentBlockHeight' = parent /\ offered' = offered
  <1> DEFINE k == RollbacksTaken
  <1>1. /\ pending \in Seq(Others) /\ IsInjective(pending) /\ Len(pending) \in Nat
        /\ pendingRollback \in Seq(Returning) /\ IsInjective(pendingRollback)
        /\ Len(pendingRollback) \in Nat
    BY DEF PoolInv, TypeOK, Others, Returning
  <1>2. PICK i \in 0 .. Len(pending) :
           /\ StopsAt(i, MaxBlockSize - k, parent + 1)
           /\ txs' = {pendingRollback[j] : j \in 1 .. k}
                        \cup {pending[j] : j \in InTime(i, parent + 1)}
           /\ pending' = SubSeq(pending, i + 1, Len(pending))
           /\ pendingRollback' = SubSeq(pendingRollback, k + 1, Len(pendingRollback))
           /\ parentBlockHeight' = parent /\ offered' = offered
    BY Zenon DEF Pending
  <1>3. /\ k = Minimum(MaxBlockSize, Len(pendingRollback))
        /\ k \in 0 .. Len(pendingRollback) /\ MaxBlockSize - k \in Nat
    BY TxPoolAssumption DEF RollbacksTaken, Minimum
  <1> HIDE DEF k
  <1>4. /\ pending' \in Seq(Others) /\ IsInjective(pending')
        /\ Range(pending') = {pending[j] : j \in i + 1 .. Len(pending)}
    BY <1>1, <1>2, RestOfQueue, Zenon
  <1>5. /\ pendingRollback' \in Seq(Returning) /\ IsInjective(pendingRollback')
        /\ Range(pendingRollback') =
              {pendingRollback[j] : j \in k + 1 .. Len(pendingRollback)}
    BY <1>1, <1>2, <1>3, RestOfQueue, ZenonT(30)
  <1> QED
    BY <1>2, <1>3, <1>4, <1>5, Zenon

\* Pending keeps the invariant: what it takes was sent, and what stays was there.
LEMMA PendingKeeps ==
    ASSUME PoolInv, NEW parent \in parentBlockHeight .. MaxParent, Pending(parent)
    PROVE  PoolInv' /\ Pooled' \subseteq Pooled /\ txs' \subseteq Pooled
  <1>1. PICK i \in 0 .. Len(pending), k \in 0 .. Len(pendingRollback) :
           /\ txs' = {pendingRollback[j] : j \in 1 .. k}
                        \cup {pending[j] : j \in InTime(i, parent + 1)}
           /\ Range(pending') = {pending[j] : j \in i + 1 .. Len(pending)}
           /\ Range(pendingRollback') =
                 {pendingRollback[j] : j \in k + 1 .. Len(pendingRollback)}
           /\ pending' \in Seq(Others) /\ IsInjective(pending')
           /\ pendingRollback' \in Seq(Returning) /\ IsInjective(pendingRollback')
           /\ parentBlockHeight' = parent /\ offered' = offered
    BY PendingTakes, Zenon
  <1>2. /\ pending \in Seq(Others) /\ DOMAIN pending = 1 .. Len(pending) /\ Len(pending) \in Nat
        /\ pendingRollback \in Seq(Returning) /\ Len(pendingRollback) \in Nat
        /\ DOMAIN pendingRollback = 1 .. Len(pendingRollback)
        /\ parent \in 0 .. MaxParent
    BY TxPoolAssumption DEF PoolInv, TypeOK, Others, Returning
  <1>3. /\ \A j \in 1 .. Len(pending) : pending[j] \in Range(pending)
        /\ \A j \in 1 .. Len(pendingRollback) : pendingRollback[j] \in Range(pendingRollback)
    BY <1>2, Zenon DEF Range
  <1>4. txs' \subseteq Pooled
    <2>1. InTime(i, parent + 1) \subseteq 1 .. Len(pending) /\ 1 .. k \subseteq 1 .. Len(pendingRollback)
      BY DEF InTime
    <2> QED
      BY <1>1, <1>3, <2>1, Zenon DEF Pooled
  <1>5. Pooled' \subseteq Pooled
    <2>1. /\ i + 1 .. Len(pending) \subseteq 1 .. Len(pending)
          /\ k + 1 .. Len(pendingRollback) \subseteq 1 .. Len(pendingRollback)
      BY <1>2
    <2> QED
      BY <1>1, <1>3, <2>1, Zenon DEF Pooled
  <1>6. TypeOK'
    BY <1>1, <1>2, <1>4, Zenon DEF PoolInv, TypeOK, Others, Returning
  <1> QED
    BY <1>1, <1>4, <1>5, <1>6 DEF PoolInv

\* What Pending takes and leaves is a selection by the rules: rollbacks first, then as
\* many in time as there is room for; only late second halves that it met are lost.
LEMMA PendingSelects ==
    ASSUME PoolInv, NEW parent \in parentBlockHeight .. MaxParent, Pending(parent)
    PROVE  Selection(Pooled, parent + 1, MaxBlockSize, txs', Pooled')
  <1> DEFINE h == parent + 1
             n == Len(pending)
             m == Len(pendingRollback)
  <1>1. PICK i \in 0 .. n, k \in 0 .. m :
           /\ k = Minimum(MaxBlockSize, m)
           /\ MaxBlockSize - k \in Nat
           /\ StopsAt(i, MaxBlockSize - k, h)
           /\ txs' = {pendingRollback[j] : j \in 1 .. k} \cup {pending[j] : j \in InTime(i, h)}
           /\ Range(pending') = {pending[j] : j \in i + 1 .. n}
           /\ Range(pendingRollback') = {pendingRollback[j] : j \in k + 1 .. m}
    BY PendingTakes, Zenon
  <1> DEFINE R == {pendingRollback[j] : j \in 1 .. k}
             O == {pending[j] : j \in InTime(i, h)}
             E == {pending[j] : j \in InTime(n, h)}
             room == MaxBlockSize - k
  <1>2. /\ n \in Nat /\ m \in Nat /\ DOMAIN pending = 1 .. n /\ DOMAIN pendingRollback = 1 .. m
        /\ IsInjective(pending) /\ IsInjective(pendingRollback)
        /\ \A j \in 1 .. n : pending[j].TXtype # RollbackTXType
        /\ \A j \in 1 .. m : pendingRollback[j].TXtype = RollbackTXType
    BY DEF PoolInv, TypeOK, IsRollback
  <1>3. Pooled = {pending[j] : j \in 1 .. n} \cup {pendingRollback[j] : j \in 1 .. m}
    BY <1>2, Zenon DEF Pooled, Range
  <1>4. Pooled' = {pending[j] : j \in i + 1 .. n} \cup {pendingRollback[j] : j \in k + 1 .. m}
    BY <1>1, Zenon DEF Pooled
  <1>5. /\ \A j \in 1 .. m : ~Late(pendingRollback[j], h)
        /\ \A j \in 1 .. n : j \in InTime(n, h) <=> ~Late(pending[j], h)
        /\ \A j \in 1 .. i : j \in InTime(i, h) <=> ~Late(pending[j], h)
        /\ InTime(i, h) \subseteq 1 .. i /\ InTime(n, h) \subseteq 1 .. n
        /\ 1 .. i \subseteq 1 .. n /\ 1 .. k \subseteq 1 .. m
    BY <1>2 DEF Late, InTime, RollbackTXType, CrossTXType2
  <1>6. /\ Rollbacks(txs') = R /\ txs' \ Rollbacks(txs') = O
        /\ Rollbacks(Pooled) = {pendingRollback[j] : j \in 1 .. m}
    <2>1. \A x \in R : x.TXtype = RollbackTXType
      BY <1>2, <1>5, Zenon
    <2>2. \A x \in O : x.TXtype # RollbackTXType
      BY <1>2, <1>5, Zenon
    <2>3. txs' = R \cup O
      BY <1>1, Zenon
    <2> HIDE DEF R, O
    <2>4. Rollbacks(txs') = R /\ txs' \ Rollbacks(txs') = O
      BY <2>1, <2>2, <2>3 DEF Rollbacks
    <2>5. Rollbacks(Pooled) = {pendingRollback[j] : j \in 1 .. m}
      BY <1>2, <1>3 DEF Rollbacks
    <2> QED
      BY <2>4, <2>5, Zenon
  <1>7. LateIn(Pooled, h) = {pending[j] : j \in (1 .. n) \ InTime(n, h)}
    BY <1>3, <1>5, Zenon DEF LateIn
  <1>8. Eligible(Pooled, h) = E
    <2>1. \A j \in InTime(n, h) :
             pending[j] \in Pooled /\ pending[j] \notin LateIn(Pooled, h)
      BY <1>3, <1>5, Zenon DEF LateIn
    <2>2. \A j \in InTime(n, h) : pending[j] \notin Rollbacks(Pooled)
      BY <1>2, <1>5, Zenon DEF Rollbacks
    <2>3. \A x \in Pooled :
             x \in Rollbacks(Pooled) \/ x \in LateIn(Pooled, h) \/ x \in E
      BY <1>3, <1>6, <1>7, Zenon
    <2> QED
      BY <2>1, <2>2, <2>3, Zenon DEF Eligible
  <1>9. /\ IsFiniteSet(InTime(i, h)) /\ IsFiniteSet(InTime(n, h))
        /\ Cardinality(InTime(i, h)) \in Nat
        /\ Cardinality(InTime(i, h)) = Minimum(room, Cardinality(InTime(n, h)))
        /\ Cardinality(InTime(i, h)) < room => i = n
        /\ room = 0 => i = 0
    BY <1>1, LoopStops, Zenon
  <1>10. Cardinality(O) = Cardinality(InTime(i, h)) /\ Cardinality(E) = Cardinality(InTime(n, h))
    <2>1. /\ IsInjective(pending)
          /\ InTime(i, h) \in SUBSET DOMAIN pending /\ IsFiniteSet(InTime(i, h))
          /\ InTime(n, h) \in SUBSET DOMAIN pending /\ IsFiniteSet(InTime(n, h))
      BY <1>2, <1>5, <1>9, Zenon
    <2> QED
      BY <2>1, CountPlaces, ZenonT(30)
  <1>11. Cardinality(R) = k /\ Cardinality({pendingRollback[j] : j \in 1 .. m}) = m
    <2>1. /\ k \in Nat /\ 1 .. k \subseteq DOMAIN pendingRollback
          /\ m \in Nat /\ 1 .. m \subseteq DOMAIN pendingRollback
      OBVIOUS
    <2> HIDE DEF m
    <2> QED
      BY <1>2, <2>1, FirstPlaces, Zenon
  <1>12. txs' \subseteq Pooled \ LateIn(Pooled, h)
    <2>1. ASSUME NEW x \in R PROVE x \in Pooled /\ ~Late(x, h)
      BY <1>3, <1>5, Zenon
    <2>2. ASSUME NEW x \in O PROVE x \in Pooled /\ ~Late(x, h)
      BY <1>3, <1>5, Zenon
    <2> QED
      BY <1>1, <2>1, <2>2, Zenon DEF LateIn
  <1>13. Pooled' \subseteq Pooled \ txs'
    <2>1. ASSUME NEW j \in i + 1 .. n PROVE pending[j] \in Pooled /\ pending[j] \notin txs'
      <3>1. j \in 1 .. n /\ j \notin 1 .. i
        OBVIOUS
      <3>2. pending[j] \notin R
        BY <1>2, <1>5, <3>1, Zenon
      <3>3. pending[j] \notin O
        BY <1>2, <1>5, <3>1 DEF IsInjective
      <3> QED
        BY <1>1, <1>3, <3>1, <3>2, <3>3, Zenon
    <2>2. ASSUME NEW j \in k + 1 .. m
          PROVE  pendingRollback[j] \in Pooled /\ pendingRollback[j] \notin txs'
      <3>1. j \in 1 .. m /\ j \notin 1 .. k
        OBVIOUS
      <3>2. pendingRollback[j] \notin R
        BY <1>2, <3>1 DEF IsInjective
      <3>3. pendingRollback[j] \notin O
        BY <1>2, <1>5, <3>1, Zenon
      <3> QED
        BY <1>1, <1>3, <3>1, <3>2, <3>3, Zenon
    <2> QED
      BY <1>4, <2>1, <2>2
  <1>14. Pooled \ (txs' \cup Pooled') \subseteq LateIn(Pooled, h)
    <2>1. ASSUME NEW j \in 1 .. n, pending[j] \notin txs', pending[j] \notin Pooled'
          PROVE  Late(pending[j], h)
      <3>1. j \in 1 .. i
        BY <1>4, <2>1
      <3> QED
        BY <1>1, <1>5, <2>1, <3>1, Zenon
    <2>2. ASSUME NEW j \in 1 .. m PROVE pendingRollback[j] \in txs' \cup Pooled'
      <3>1. j \in 1 .. k \/ j \in k + 1 .. m
        OBVIOUS
      <3> QED
        BY <1>1, <1>4, <3>1, Zenon
    <2> QED
      BY <1>3, <2>1, <2>2 DEF LateIn
  <1>15. room = 0 => LateIn(Pooled, h) \subseteq Pooled'
    <2> SUFFICES ASSUME room = 0 PROVE LateIn(Pooled, h) \subseteq Pooled'
      OBVIOUS
    <2>1. i + 1 .. n = 1 .. n
      BY <1>9
    <2> QED
      BY <1>4, <1>7, <2>1, Zenon
  <1>16. Cardinality(O) < room => LateIn(Pooled, h) \cap Pooled' = {}
    <2> SUFFICES ASSUME Cardinality(O) < room, NEW x \in Pooled' PROVE ~Late(x, h)
      BY DEF LateIn
    <2>1. i = n
      BY <1>9, <1>10, Zenon
    <2>2. i + 1 .. n = {} /\ k + 1 .. m \subseteq 1 .. m
      BY <2>1
    <2> QED
      BY <1>4, <1>5, <2>2, Zenon
  <1> HIDE DEF R, O, E
  <1> QED
    BY <1>1, <1>6, <1>8, <1>9, <1>10, <1>11, <1>12, <1>13, <1>14, <1>15, <1>16, ZenonT(30) DEF
       Selection

\* Who stands before a transaction that Pending takes does not stay in the pool.
LEMMA NoneOvertaken ==
    ASSUME PoolInv, NEW parent \in parentBlockHeight .. MaxParent, Pending(parent),
           NEW queue \in {pending, pendingRollback}, NEW x, NEW y,
           Before(queue, x, y), y \in txs'
    PROVE  x \notin Pooled'
  <1> DEFINE h == parent + 1
             n == Len(pending)
             m == Len(pendingRollback)
  <1>1. PICK i \in 0 .. n, k \in 0 .. m :
           /\ txs' = {pendingRollback[j] : j \in 1 .. k} \cup {pending[j] : j \in InTime(i, h)}
           /\ Range(pending') = {pending[j] : j \in i + 1 .. n}
           /\ Range(pendingRollback') = {pendingRollback[j] : j \in k + 1 .. m}
    BY PendingTakes, Zenon
  <1>2. /\ n \in Nat /\ m \in Nat /\ DOMAIN pending = 1 .. n /\ DOMAIN pendingRollback = 1 .. m
        /\ IsInjective(pending) /\ IsInjective(pendingRollback)
        /\ \A j \in 1 .. n : ~IsRollback(pending[j])
        /\ \A j \in 1 .. m : IsRollback(pendingRollback[j])
    BY DEF PoolInv, TypeOK
  <1>3. PICK a \in 1 .. Len(queue), b \in 1 .. Len(queue) : a < b /\ queue[a] = x /\ queue[b] = y
    BY Zenon DEF Before
  <1>4. Pooled' = {pending[j] : j \in i + 1 .. n} \cup {pendingRollback[j] : j \in k + 1 .. m}
    BY <1>1, Zenon DEF Pooled
  <1>5. InTime(i, h) \subseteq 1 .. i /\ 1 .. i \subseteq 1 .. n /\ 1 .. k \subseteq 1 .. m
    BY DEF InTime
  <1>6. CASE queue = pending
    <2>1. a \in 1 .. n /\ b \in 1 .. n /\ a < b /\ pending[a] = x /\ pending[b] = y
      BY <1>3, <1>6
    <2>2. PICK j \in InTime(i, h) : y = pending[j]
      BY <1>1, <1>2, <1>5, <2>1, Zenon
    <2>3. b = j
      BY <1>2, <1>5, <2>1, <2>2, Zenon DEF IsInjective
    <2>4. \A l \in i + 1 .. n : l \in 1 .. n /\ l # a
      BY <1>5, <2>1, <2>3
    <2>5. \A l \in i + 1 .. n : pending[l] # x
      BY <1>2, <2>1, <2>4, Zenon DEF IsInjective
    <2>6. \A l \in k + 1 .. m : pendingRollback[l] # x
      BY <1>2, <2>1
    <2> QED
      BY <1>4, <2>5, <2>6, Zenon
  <1>7. CASE queue = pendingRollback
    <2>1. /\ a \in 1 .. m /\ b \in 1 .. m /\ a < b
          /\ pendingRollback[a] = x /\ pendingRollback[b] = y
      BY <1>3, <1>7
    <2>2. PICK j \in 1 .. k : y = pendingRollback[j]
      BY <1>1, <1>2, <1>5, <2>1, Zenon
    <2>3. b = j
      BY <1>2, <1>5, <2>1, <2>2, Zenon DEF IsInjective
    <2>4. \A l \in k + 1 .. m : l \in 1 .. m /\ l # a
      BY <2>1, <2>3
    <2>5. \A l \in k + 1 .. m : pendingRollback[l] # x
      BY <1>2, <2>1, <2>4, Zenon DEF IsInjective
    <2>6. \A l \in i + 1 .. n : pending[l] # x
      BY <1>2, <2>1
    <2> QED
      BY <1>4, <2>5, <2>6, Zenon
  <1> QED
    BY <1>6, <1>7

-----------------------------------------------------------------------------
(* The theorems.                                                            *)

\* Throughout, each queue holds transactions of its kind, and none of them twice.
THEOREM InvariantHolds == Spec => []PoolInv
  <1>1. Init => PoolInv
    BY TxPoolAssumption DEF Init, TypeOK, Others, Returning, PoolInv, IsInjective, Pooled,
       Range
  <1>2. PoolInv /\ [Next]_vars => PoolInv'
    BY BatchJoins, PendingKeeps, Zenon DEF vars, PoolInv, TypeOK, Pooled, Next
  <1> QED
    BY <1>1, <1>2, PTL DEF Spec

\* The two queues implement the pool as the worker and the client count on it: every call
\* of Pending selects by the rules of PoolRules, and nothing else takes transactions away.
THEOREM PoolRulesKept == Spec => KeepsPoolRules
  <1>1. Init => Abstract!Init
    BY DEF Init, Abstract!Init, Pooled, Range
  <1>2. PoolInv /\ [Next]_vars => [Abstract!Next]_<<Pooled, parentBlockHeight, txs>>
    <2> SUFFICES ASSUME PoolInv, [Next]_vars
                 PROVE  Abstract!Next \/ UNCHANGED <<Pooled, parentBlockHeight, txs>>
      OBVIOUS
    <2>1. ASSUME NEW batch \in Batches, AddTxs(batch) \/ SetPoolTx(batch)
          PROVE  Abstract!Next
      <3>1. /\ Pooled' = Pooled \cup TxsOf(batch) /\ TxsOf(batch) \subseteq Offered
            /\ UNCHANGED <<parentBlockHeight, txs>>
        BY <2>1, BatchJoins
      <3>2. Pooled \subseteq Offered /\ Offered \subseteq Transaction
        BY TxPoolAssumption DEF PoolInv, TypeOK
      <3>3. Pooled' \subseteq Abstract!Transaction /\ Pooled \subseteq Pooled'
        BY <3>1, <3>2 DEF Abstract!Transaction, Transaction, Abstract!TXTypes, TXTypes,
           Abstract!IntraTXType, IntraTXType, Abstract!CrossTXType1, CrossTXType1,
           Abstract!CrossTXType2, CrossTXType2, Abstract!RollbackTXType, RollbackTXType
      <3> QED
        BY <3>1, <3>3 DEF Abstract!Next, Abstract!Add
    <2>2. ASSUME NEW parent \in parentBlockHeight .. MaxParent, Pending(parent)
          PROVE  Abstract!Next
      <3>1. /\ parentBlockHeight' = parent /\ parent \in Nat /\ parent >= parentBlockHeight
            /\ txs' \subseteq Pooled
        <4>2. parent \in Nat /\ parent >= parentBlockHeight
          BY DEF PoolInv, TypeOK
        <4> QED
          BY <2>2, <4>2, PendingKeeps, Zenon DEF Pending
      <3>3. Abstract!Selection(Pooled, parentBlockHeight' + 1, MaxBlockSize, txs', Pooled')
        <4>1. \A p : Abstract!Rollbacks(p) = Rollbacks(p)
          BY DEF Rollbacks, Abstract!Rollbacks, RollbackTXType, Abstract!RollbackTXType
        <4>2. \A p, height : Abstract!LateIn(p, height) = LateIn(p, height)
          BY DEF LateIn, Abstract!LateIn, Late, Abstract!Late, Deadline, Abstract!Deadline,
             CrossTXType2, Abstract!CrossTXType2
        <4>4. \A a, b : Abstract!Minimum(a, b) = Minimum(a, b)
          BY DEF Minimum, Abstract!Minimum
        <4>5. \A S : Abstract!Cardinality(S) = Cardinality(S)
          BY Zenon DEF Cardinality, Abstract!Cardinality
        <4>6. ASSUME NEW p, NEW height, NEW size, NEW taken, NEW rest,
                     Selection(p, height, size, taken, rest)
              PROVE  Abstract!Selection(p, height, size, taken, rest)
          BY <4>1, <4>2, <4>4, <4>5, <4>6, Zenon DEF Selection, Abstract!Selection, Eligible,
             Abstract!Eligible
        <4> QED
          BY <2>2, <3>1, <4>6, PendingSelects, Zenon
      <3> QED
        BY <3>1, <3>3 DEF Abstract!Next, Abstract!Take
    <2>3. CASE UNCHANGED vars
      BY <2>3 DEF vars, Pooled
    <2> QED
      BY <2>1, <2>2, <2>3 DEF Next
  <1> QED
    BY <1>1, <1>2, InvariantHolds, PTL DEF Spec, KeepsPoolRules, Abstract!Spec

\* Within a queue nobody is overtaken: whoever stands before a transaction that Pending
\* takes leaves the pool with it.
THEOREM NobodyOvertaken == Spec => NoOvertaking
  <1>1. ASSUME PoolInv, [Next]_vars, NEW queue \in {pending, pendingRollback},
               NEW x \in Range(queue), NEW y \in Range(queue),
               Before(queue, x, y), y \in txs' \ txs
        PROVE  x \notin Pooled'
    BY <1>1, NoneOvertaken, Zenon DEF AddTxs, SetPoolTx, vars, Next
  <1>2. PoolInv /\ [Next]_vars =>
           [\A queue \in {pending, pendingRollback} : \A x, y \in Range(queue) :
               Before(queue, x, y) /\ y \in txs' \ txs => x \notin Pooled']_vars
    BY <1>1
  <1> QED
    BY <1>2, InvariantHolds, PTL DEF Spec, NoOvertaking

-----------------------------------------------------------------------------
(* Signing.                                                                 *)

\* Requests are answered, and answers handled, in their order.
InOrder ==
    /\ workerAt \in {"clearSigs", "request", "wait"} => tb > 0
    /\ workerAt = "block" => tb < MaxTB
    /\ \A n \in ComNode : received[n] <= handled[n] /\ handled[n] <= requested

\* What is noted was received, so that no reply is noted twice.
NotedWasReceived == \A r \in Signers \cup Sigs : r[2] <= received[r[1]]

\* Once Sigs is cleared no signature is noted without its signer, whatever was noted
\* between the two clearings.
SigsHaveSigners == workerAt \in {"request", "wait"} => Sigs \subseteq Signers

\* What is noted since Signers was cleared is for this TB, unless the TB is in late.
NotedOfThisTB ==
    workerAt \in {"clearSigs", "request", "wait"} /\ tb \notin late => \A r \in Signers : r[2] = tb

\* The token the worker waits for tells of enough signatures.
DoneIsEnough ==
    workerAt = "wait" /\ MultiSignDone => Cardinality(Sigs) >= MultiSignRequiredNum

\* After a TB cut short the worker finds exitCh and exits.
CutThenExit ==
    \A h \in DOMAIN sent : sent[h].cut =>
        h = tb /\ (workerAt = "exited" \/ (workerAt = "loop" /\ exitToken))

\* The inductive invariant of signing.
SignInv ==
    /\ SignTypeOK /\ IsFiniteSet(Signers) /\ IsFiniteSet(Sigs)
    /\ InOrder /\ NotedWasReceived /\ SigsHaveSigners /\ NotedOfThisTB
    /\ DoneIsEnough /\ CutThenExit /\ SentIsComplete

-----------------------------------------------------------------------------
(* Every step of signing keeps it.                                          *)

\* The committee is closed, or its worker's loop goes on or exits: nothing is noted.
LEMMA LoopKeeps ==
    ASSUME SignInv, closeCommittee \/ exitLoop \/ commitBlock
    PROVE  SignInv'
  <1>1. /\ UNCHANGED <<tb, handled, received, Signers, Sigs, MultiSignDone, sent, late>>
        /\ exitToken' \in BOOLEAN
        /\ \/ workerAt' = workerAt /\ exitToken'
           \/ workerAt = "loop" /\ exitToken /\ workerAt' = "exited"
           \/ workerAt = "loop" /\ ~exitToken /\ workerAt' = "block" /\ tb < MaxTB
    BY Zenon DEF closeCommittee, exitLoop, commitBlock, SignInv, SignTypeOK
  <1>2. SignTypeOK'
    BY <1>1, Zenon DEF SignInv, SignTypeOK
  <1>3. InOrder'
    BY <1>1 DEF SignInv, InOrder, requested
  <1>4. SigsHaveSigners' /\ NotedOfThisTB' /\ DoneIsEnough'
    BY <1>1 DEF SignInv, SigsHaveSigners, NotedOfThisTB, DoneIsEnough
  <1>5. CutThenExit'
    BY <1>1, Zenon DEF SignInv, CutThenExit
  <1>6. NotedWasReceived' /\ SentIsComplete'
    BY <1>1, Zenon DEF SignInv, NotedWasReceived, SentIsComplete, Accepted, validSigCnt
  <1> QED
    BY <1>1, <1>2, <1>3, <1>4, <1>5, <1>6, Zenon DEF SignInv

\* A new TB: no signer is noted, and none sent before was cut short.
LEMMA ClearSignersKeeps ==
    ASSUME SignInv, clearSigners
    PROVE  SignInv'
  <1>1. /\ IsFiniteSet(Signers') /\ Cardinality(Signers') = 0
        /\ MultiSignRequiredNum \in Nat /\ MultiSignRequiredNum > 0
    BY MultiSignAssumption, FS_EmptySet DEF clearSigners
  <1>2. SignTypeOK'
    <2>1. tb' \in 0 .. MaxTB
      BY MultiSignAssumption DEF SignInv, SignTypeOK, InOrder, clearSigners
    <2>2. Cardinality(Signers') <= MultiSignRequiredNum
      BY <1>1
    <2> QED
      BY <2>1, <2>2, Zenon DEF SignInv, SignTypeOK, clearSigners
  <1>3. InOrder'
    BY DEF SignInv, SignTypeOK, InOrder, requested, clearSigners
  <1>4. /\ NotedWasReceived' /\ SigsHaveSigners' /\ NotedOfThisTB' /\ DoneIsEnough'
        /\ CutThenExit'
    BY Zenon DEF SignInv, NotedWasReceived, SigsHaveSigners, NotedOfThisTB, DoneIsEnough,
       CutThenExit, clearSigners
  <1>5. SentIsComplete' /\ IsFiniteSet(Sigs')
    BY Zenon DEF SignInv, SentIsComplete, Accepted, validSigCnt, clearSigners
  <1> QED
    BY <1>1, <1>2, <1>3, <1>4, <1>5, Zenon DEF SignInv

\* Whatever was noted since Signers was cleared stays noted in Signers only.
LEMMA ClearSigsKeeps ==
    ASSUME SignInv, clearSigs
    PROVE  SignInv'
  <1>1. IsFiniteSet(Sigs')
    BY FS_EmptySet, Zenon DEF clearSigs
  <1>2. InOrder'
    BY Zenon DEF SignInv, InOrder, requested, clearSigs
  <1>3. /\ NotedWasReceived' /\ SigsHaveSigners' /\ NotedOfThisTB' /\ DoneIsEnough'
        /\ CutThenExit'
    BY Zenon DEF SignInv, NotedWasReceived, SigsHaveSigners, NotedOfThisTB, DoneIsEnough,
       CutThenExit, clearSigs
  <1>4. SentIsComplete'
    BY Zenon DEF SignInv, SentIsComplete, Accepted, validSigCnt, clearSigs
  <1> QED
    BY <1>1, <1>2, <1>3, <1>4, Zenon DEF SignInv, clearSigs, SignTypeOK

\* The worker waits, with an empty channel.
LEMMA SendRequestKeeps ==
    ASSUME SignInv, sendRequest
    PROVE  SignInv'
  <1>2. InOrder'
    BY DEF SignInv, SignTypeOK, InOrder, requested, sendRequest
  <1>3. /\ NotedWasReceived' /\ SigsHaveSigners' /\ NotedOfThisTB' /\ DoneIsEnough'
        /\ CutThenExit'
    BY Zenon DEF SignInv, NotedWasReceived, SigsHaveSigners, NotedOfThisTB, DoneIsEnough,
       CutThenExit, sendRequest
  <1>4. SentIsComplete'
    BY Zenon DEF SignInv, SentIsComplete, Accepted, validSigCnt, sendRequest
  <1> QED
    BY <1>2, <1>3, <1>4, Zenon DEF SignInv, sendRequest, SignTypeOK

\* With a token there are as many signatures as there can be signers: the two sets are
\* the same.
LEMMA DoneIsComplete ==
    ASSUME SignInv, workerAt = "wait", MultiSignDone
    PROVE  Signers = Sigs /\ Cardinality(Sigs) = MultiSignRequiredNum
  <1>1. Sigs \subseteq Signers /\ IsFiniteSet(Signers)
    BY Zenon DEF SignInv, SigsHaveSigners
  <1>2. /\ Cardinality(Sigs) \in Nat /\ Cardinality(Signers) \in Nat
        /\ Cardinality(Sigs) <= Cardinality(Signers)
        /\ Cardinality(Sigs) = Cardinality(Signers) => Sigs = Signers
    BY <1>1, FS_Subset, FS_CardinalityType, Zenon
  <1>3. /\ Cardinality(Sigs) >= MultiSignRequiredNum /\ MultiSignRequiredNum \in Int
        /\ Cardinality(Signers) <= MultiSignRequiredNum
    BY MultiSignAssumption DEF SignInv, SignTypeOK, DoneIsEnough
  <1> QED
    BY <1>2, <1>3

\* What is sent is complete, or the worker will find exitCh.
LEMMA SendTBKeeps ==
    ASSUME SignInv, NEW cut \in BOOLEAN, SendTB(cut)
    PROVE  SignInv'
  <1> DEFINE stb == [Signers |-> Signers, Sigs |-> Sigs, cut |-> cut]
  <1>1. /\ workerAt = "wait" /\ workerAt' = "loop" /\ MultiSignDone' \in BOOLEAN
        /\ UNCHANGED <<exitToken, tb, handled, received, Signers, Sigs, late>>
        /\ cut => exitToken
        /\ ~cut => MultiSignDone
    BY Zenon DEF SendTB, SignInv, SignTypeOK
  <1>2. /\ DOMAIN sent' = DOMAIN sent \cup {tb} /\ sent'[tb] = stb
        /\ \A h \in DOMAIN sent : h # tb => sent'[h] = sent[h]
    BY Zenon DEF SendTB
  <1>3. tb \in TB
    BY <1>1 DEF SignInv, SignTypeOK, InOrder, TB
  <1>4. stb \in SignedTB /\ stb.Signers = Signers /\ stb.Sigs = Sigs /\ stb.cut = cut
    BY DEF SignInv, SignTypeOK, SignedTB
  <1>5. SignTypeOK'
    <2> HIDE DEF stb
    <2>1. DOMAIN sent' \subseteq TB /\ \A h \in DOMAIN sent' : sent'[h] \in SignedTB
      BY <1>2, <1>3, <1>4, Zenon DEF SignInv, SignTypeOK
    <2> QED
      BY <1>1, <2>1, Zenon DEF SignInv, SignTypeOK
  <1>6. InOrder'
    BY <1>1, Zenon DEF SignInv, InOrder, requested
  <1>7. NotedWasReceived' /\ SigsHaveSigners' /\ NotedOfThisTB' /\ DoneIsEnough'
    BY <1>1, Zenon DEF SignInv, NotedWasReceived, SigsHaveSigners, NotedOfThisTB, DoneIsEnough
  <1>8. CutThenExit'
    <2> HIDE DEF stb
    <2>1. \A h \in DOMAIN sent : ~sent[h].cut
      BY <1>1, Zenon DEF SignInv, CutThenExit
    <2> QED
      BY <1>1, <1>2, <1>4, <2>1, Zenon DEF CutThenExit
  <1>9. SentIsComplete'
    <2> HIDE DEF stb
    <2>1. ASSUME NEW h \in DOMAIN sent, h # tb, ~sent'[h].cut
          PROVE  /\ sent'[h].Signers = sent'[h].Sigs
                 /\ Cardinality(sent'[h].Sigs) = MultiSignRequiredNum
                 /\ Accepted(h)' \/ h \in late'
      BY <1>1, <1>2, <2>1, Zenon DEF SignInv, SentIsComplete, Accepted, validSigCnt
    <2>2. ASSUME ~cut
          PROVE  /\ sent'[tb].Signers = sent'[tb].Sigs
                 /\ Cardinality(sent'[tb].Sigs) = MultiSignRequiredNum
                 /\ Accepted(tb)' \/ tb \in late'
      <3>1. Signers = Sigs /\ Cardinality(Sigs) = MultiSignRequiredNum
        BY <1>1, <2>2, DoneIsComplete, Zenon
      <3>2. ASSUME tb \notin late PROVE Accepted(tb)'
        <4>1. \A r \in Sigs : r[2] = tb
          BY <1>1, <3>1, <3>2, Zenon DEF SignInv, NotedOfThisTB
        <4>2. {r \in sent'[tb].Sigs \cap sent'[tb].Signers : r[2] = tb} = Sigs
          BY <1>2, <1>4, <3>1, <4>1, Zenon
        <4>3. validSigCnt(tb)' = MultiSignRequiredNum
          BY <1>1, <3>1, <4>2, Zenon DEF validSigCnt
        <4> QED
          BY <1>1, <4>3, MultiSignAssumption DEF Accepted
      <3> QED
        BY <1>1, <1>2, <1>4, <3>1, <3>2, Zenon
    <2> QED
      BY <1>1, <1>2, <1>4, <2>1, <2>2, Zenon DEF SentIsComplete
  <1> QED
    BY <1>1, <1>5, <1>6, <1>7, <1>8, <1>9, Zenon DEF SignInv

\* A node replies.
LEMMA HandleMultiSignRequestKeeps ==
    ASSUME SignInv, NEW n \in ComNode, HandleMultiSignRequest(n)
    PROVE  SignInv'
  <1>1. requested \in Int /\ requested <= MaxTB
    BY MultiSignAssumption DEF SignInv, SignTypeOK, requested
  <1>2. handled' \in [ComNode -> 0 .. MaxTB]
    BY <1>1, MultiSignAssumption DEF SignInv, SignTypeOK, HandleMultiSignRequest
  <1>3. InOrder'
    BY DEF SignInv, SignTypeOK, InOrder, requested, HandleMultiSignRequest
  <1>4. /\ NotedWasReceived' /\ SigsHaveSigners' /\ NotedOfThisTB' /\ DoneIsEnough'
        /\ CutThenExit'
    BY Zenon DEF SignInv, NotedWasReceived, SigsHaveSigners, NotedOfThisTB, DoneIsEnough,
       CutThenExit, HandleMultiSignRequest
  <1>5. SentIsComplete'
    BY Zenon DEF SignInv, SentIsComplete, Accepted, validSigCnt, HandleMultiSignRequest
  <1> QED
    BY <1>2, <1>3, <1>4, <1>5, Zenon DEF SignInv, SignTypeOK, HandleMultiSignRequest

\* A reply is ignored, or is noted for the first time, and remembered in late when it is
\* for an earlier TB.
LEMMA HandleMultiSignReplyKeeps ==
    ASSUME SignInv, NEW n \in ComNode, HandleMultiSignReply(n)
    PROVE  SignInv'
  <1> DEFINE new == <<n, received[n] + 1>>
  <1>0. /\ received \in [ComNode -> 0 .. MaxTB] /\ handled \in [ComNode -> 0 .. MaxTB]
        /\ tb \in 0 .. MaxTB /\ MaxTB \in Nat /\ MultiSignRequiredNum \in Nat
    BY MultiSignAssumption DEF SignInv, SignTypeOK
  <1>1. /\ UNCHANGED <<workerAt, exitToken, tb, handled, sent>>
        /\ received[n] < handled[n] /\ received' = [received EXCEPT ![n] = @ + 1]
        /\ \/ EnoughSigners /\ UNCHANGED <<Signers, Sigs, MultiSignDone, late>>
           \/ /\ ~EnoughSigners /\ Signers' = Signers \cup {new} /\ Sigs' = Sigs \cup {new}
              /\ MultiSignDone' = (MultiSignDone \/ Complete(Sigs'))
              /\ late' = late \cup {h \in {tb} : received[n] + 1 < h}
    BY <1>0, Zenon DEF HandleMultiSignReply
  <1>2. /\ received'[n] = received[n] + 1 /\ received[n] + 1 \in 1 .. MaxTB
        /\ received[n] + 1 <= tb /\ tb > 0
        /\ received' \in [ComNode -> 0 .. MaxTB]
        /\ \A m \in ComNode : received[m] <= received'[m]
    BY <1>0, <1>1, SMTT(30) DEF SignInv, InOrder, requested
  <1>4. InOrder'
    BY <1>0, <1>1 DEF SignInv, InOrder, requested
  <1>5. CutThenExit'
    BY <1>1, Zenon DEF SignInv, CutThenExit
  <1>6. late \subseteq late' /\ late' \subseteq TB
    <2>1. tb \in TB
      BY <1>0, <1>2 DEF TB
    <2>2. late \subseteq late' /\ late' \subseteq late \cup {tb}
      BY <1>1, Zenon
    <2> QED
      BY <2>1, <2>2, Zenon DEF SignInv, SignTypeOK
  <1>7. SentIsComplete'
    BY <1>1, <1>6, Zenon DEF SignInv, SentIsComplete, Accepted, validSigCnt
  <1>8. \A r \in Signers \cup Sigs : r[2] <= received'[r[1]]
    <2>1. \A r \in Signers \cup Sigs : r[1] \in ComNode /\ r[2] \in Int /\ r[2] <= received[r[1]]
      BY DEF SignInv, SignTypeOK, NotedWasReceived, Reply, TB
    <2>2. \A m \in ComNode : received[m] \in Int /\ received'[m] \in Int
      BY <1>0, <1>2
    <2> QED
      BY <1>2, <2>1, <2>2
  <1>9. CASE EnoughSigners
    <2>1. UNCHANGED <<Signers, Sigs, MultiSignDone, late>>
      BY <1>1, <1>9, Zenon
    <2>2. NotedWasReceived'
      BY <1>8, <2>1, Zenon DEF NotedWasReceived
    <2>3. SigsHaveSigners' /\ NotedOfThisTB' /\ DoneIsEnough'
      BY <1>1, <2>1, Zenon DEF SignInv, SigsHaveSigners, NotedOfThisTB, DoneIsEnough
    <2> QED
      BY <1>1, <1>2, <1>4, <1>5, <1>7, <2>1, <2>2, <2>3, Zenon DEF SignInv, SignTypeOK
  <1>10. CASE ~EnoughSigners
    <2>1. /\ Signers' = Signers \cup {new} /\ Sigs' = Sigs \cup {new}
          /\ MultiSignDone' = (MultiSignDone \/ Complete(Sigs'))
          /\ late' = late \cup {h \in {tb} : received[n] + 1 < h}
      BY <1>1, <1>10, Zenon
    <2>2. new \in Reply /\ new[1] = n /\ new[2] = received[n] + 1
      BY <1>2 DEF Reply, TB
    <2> HIDE DEF new
    <2>3. new \notin Signers /\ new \notin Sigs
      BY <1>0, <2>2 DEF SignInv, NotedWasReceived
    <2>4. /\ IsFiniteSet(Signers') /\ Cardinality(Signers') = Cardinality(Signers) + 1
          /\ IsFiniteSet(Sigs') /\ Cardinality(Sigs') = Cardinality(Sigs) + 1
          /\ Cardinality(Signers) \in Nat /\ Cardinality(Sigs) \in Nat
      BY <2>1, <2>3, FS_AddElement, FS_CardinalityType, Zenon DEF SignInv
    <2>5. Cardinality(Signers') <= MultiSignRequiredNum
      BY <1>0, <1>10, <2>4 DEF EnoughSigners
    <2>6. SignTypeOK'
      <3>1. MultiSignDone' \in BOOLEAN
        BY <2>1, Zenon DEF SignInv, SignTypeOK, Complete
      <3>2. Signers' \subseteq Reply /\ Sigs' \subseteq Reply
        BY <2>1, <2>2, Zenon DEF SignInv, SignTypeOK
      <3> QED
        BY <1>1, <1>2, <1>6, <2>5, <3>1, <3>2, Zenon DEF SignInv, SignTypeOK
    <2>7. NotedWasReceived'
      BY <1>2, <1>8, <2>1, <2>2 DEF NotedWasReceived
    <2>8. SigsHaveSigners'
      BY <1>1, <2>1, Zenon DEF SignInv, SigsHaveSigners
    <2>9. NotedOfThisTB'
      <3> SUFFICES ASSUME workerAt \in {"clearSigs", "request", "wait"}, tb \notin late'
                   PROVE  \A r \in Signers' : r[2] = tb
        BY <1>1, Zenon DEF NotedOfThisTB
      <3>1. \A r \in Signers : r[2] = tb
        BY <1>6, Zenon DEF SignInv, NotedOfThisTB
      <3>2. ~(received[n] + 1 < tb)
        BY <2>1, Zenon
      <3>3. new[2] = tb
        BY <1>0, <1>2, <2>2, <3>2
      <3> QED
        BY <2>1, <3>1, <3>3, Zenon
    <2>10. DoneIsEnough'
      <3>1. MultiSignDone /\ workerAt = "wait" => Cardinality(Sigs) >= MultiSignRequiredNum
        BY Zenon DEF SignInv, DoneIsEnough
      <3>2. Complete(Sigs') => Cardinality(Sigs') >= MultiSignRequiredNum
        BY <1>0 DEF Complete
      <3>3. Cardinality(Sigs) >= MultiSignRequiredNum => Cardinality(Sigs') >= MultiSignRequiredNum
        BY <1>0, <2>4
      <3> QED
        BY <1>1, <2>1, <3>1, <3>2, <3>3, Zenon DEF DoneIsEnough
    <2> QED
      BY <1>4, <1>5, <1>7, <2>4, <2>6, <2>7, <2>8, <2>9, <2>10, Zenon DEF SignInv
  <1> QED
    BY <1>9, <1>10

-----------------------------------------------------------------------------
(* The theorems about signing.                                              *)

\* The invariant holds throughout, however late replies come and whenever the committee
\* is closed.
THEOREM SignInvariantHolds == SignSpec => []SignInv
  <1>1. SignInit => SignInv
    <2> SUFFICES ASSUME SignInit PROVE SignInv
      OBVIOUS
    <2>1. /\ IsFiniteSet(Signers) /\ IsFiniteSet(Sigs) /\ Cardinality(Signers) = 0
          /\ MultiSignRequiredNum \in Nat /\ MaxTB \in Nat
      BY MultiSignAssumption, FS_EmptySet DEF SignInit
    <2>2. SignTypeOK
      <3>3. MultiSignDone \in BOOLEAN /\ exitToken \in BOOLEAN
        BY Zenon DEF SignInit
      <3> QED
        BY <2>1, <3>3 DEF SignInit, SignTypeOK
    <2>3. InOrder
      BY DEF SignInit, InOrder, requested
    <2>4. /\ NotedWasReceived /\ SigsHaveSigners /\ NotedOfThisTB /\ DoneIsEnough
          /\ CutThenExit /\ SentIsComplete
      BY DEF SignInit, NotedWasReceived, SigsHaveSigners, NotedOfThisTB, DoneIsEnough,
         CutThenExit, SentIsComplete
    <2> QED
      BY <2>1, <2>2, <2>3, <2>4, Zenon DEF SignInv
  <1>2. SignInv /\ [SignNext]_signVars => SignInv'
    <2> SUFFICES ASSUME SignInv, [SignNext]_signVars PROVE SignInv'
      OBVIOUS
    <2>1. CASE SignNext
      BY <2>1, LoopKeeps, ClearSignersKeeps, ClearSigsKeeps, SendRequestKeeps, SendTBKeeps,
         HandleMultiSignRequestKeeps, HandleMultiSignReplyKeeps, Zenon DEF SignNext
    <2>2. CASE UNCHANGED signVars
      <3>1. SignTypeOK' /\ IsFiniteSet(Signers)' /\ IsFiniteSet(Sigs)'
        BY <2>2, Zenon DEF signVars, SignInv, SignTypeOK
      <3>2. InOrder' /\ NotedWasReceived' /\ SigsHaveSigners' /\ NotedOfThisTB'
        BY <2>2, Zenon DEF signVars, SignInv, InOrder, requested, NotedWasReceived,
           SigsHaveSigners, NotedOfThisTB
      <3>3. DoneIsEnough' /\ CutThenExit' /\ SentIsComplete'
        BY <2>2, Zenon DEF signVars, SignInv, DoneIsEnough, CutThenExit, SentIsComplete,
           Accepted, validSigCnt
      <3> QED
        BY <3>1, <3>2, <3>3, Zenon DEF SignInv
    <2> QED
      BY <2>1, <2>2
  <1> QED
    BY <1>1, <1>2, PTL DEF SignSpec

\* Of the TBs SendTB sends, only the last one of a worker that was closed is incomplete,
\* and Layer1 refuses no other but those in whose signing a late reply was noted: for any
\* nodes and any threshold, although initMultiSign clears the data without the lock.
THEOREM WellSignedAlways == SignSpec => []WellSigned
  <1>1. ASSUME SignInv PROVE WellSigned
    BY <1>1, Zenon DEF SignInv, CutThenExit, CutIsLast, WellSigned
  <1> QED
    BY <1>1, SignInvariantHolds, PTL
=============================================================================
