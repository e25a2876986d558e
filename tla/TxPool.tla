------------------------------- MODULE TxPool -------------------------------
(***************************************************************************)
(* A committee's transaction pool (committee/txpool.go): two queues, one   *)
(* for rollbacks and one for everything else.  Clients' batches go to the  *)
(* back, the previous leader's pool, received after a reconfiguration,     *)
(* goes to the front, and Pending takes a block's worth from the front.    *)
(* Every operation holds both locks from its first to its last access.     *)
(***************************************************************************)
EXTENDS PoolRules, Sequences, Functions

CONSTANTS
    MaxBlockSize,   \* transactions in a block
    Offered,        \* the transactions that clients and previous leaders send
    MaxBatch,       \* bound: what a batch has for each of the queues
    MaxParent       \* bound: the highest parent height Pending is called with

ASSUME TxPoolAssumption ==
    /\ MaxBlockSize \in Nat \ {0}
    /\ Offered \subseteq Transaction
    /\ MaxBatch \in Nat
    /\ MaxParent \in Nat

VARIABLES
    pending, pendingRollback,   \* the two queues
    parentBlockHeight, txs,     \* the last call of Pending: its argument and what it returned
    offered                     \* the transactions sent so far

vars == <<pending, pendingRollback, parentBlockHeight, txs, offered>>

IsRollback(tx) == tx.TXtype = RollbackTXType

\* The types: rollbacks and all other transactions stay in a queue each.
TypeOK ==
    /\ pending \in Seq({tx \in Offered : ~IsRollback(tx)})
    /\ pendingRollback \in Seq({tx \in Offered : IsRollback(tx)})
    /\ parentBlockHeight \in 0 .. MaxParent
    /\ txs \subseteq Offered /\ offered \subseteq Offered

Init ==
    /\ pending = <<>> /\ pendingRollback = <<>>
    /\ parentBlockHeight = 0 /\ txs = {}
    /\ offered = {}

Lists(set) == UNION {Injection(1 .. n, set) : n \in 0 .. MaxBatch}

\* Transactions that have not been sent before.  AddTxWithoutLock puts rollbacks in a
\* queue and all else in the other: a batch is what it has for each, in its order.
Batches ==
    LET new == Offered \ offered
    IN  [pending         : Lists({tx \in new : ~IsRollback(tx)}),
         pendingRollback : Lists({tx \in new : IsRollback(tx)})]

TxsOf(batch) == Range(batch.pending) \cup Range(batch.pendingRollback)

AddTxs(batch) ==
    /\ pending' = pending \o batch.pending
    /\ pendingRollback' = pendingRollback \o batch.pendingRollback
    /\ offered' = offered \cup TxsOf(batch)
    /\ UNCHANGED <<parentBlockHeight, txs>>

\* The pool of the committee's previous leader, whose queues come apart (PoolTx).
SetPoolTx(batch) ==
    /\ pending' = batch.pending \o pending
    /\ pendingRollback' = batch.pendingRollback \o pendingRollback
    /\ offered' = offered \cup TxsOf(batch)
    /\ UNCHANGED <<parentBlockHeight, txs>>

\* The places among the first i of pending whose transactions a block may still include.
InTime(i, height) == {j \in 1 .. i : ~Late(pending[j], height)}

\* Mutant: a late transaction uses up a place in the block.
StopsAt_LateCounts(i, room, height) == i = Minimum(room, Len(pending))

\* The loop over pending stops at i, the first place with room transactions in time
\* before it, or the queue's end.
StopsAt(i, room, height) ==
    /\ Cardinality(InTime(i, height)) = room \/ i = Len(pending)
    /\ \A j \in 0 .. i - 1 : Cardinality(InTime(j, height)) < room

\* Mutant: rollbacks wait until they fill a block.
RollbacksTaken_FullBlock == IF Len(pendingRollback) < MaxBlockSize THEN 0 ELSE MaxBlockSize

\* How many rollbacks a block takes.  They go before all others.
RollbacksTaken == Minimum(MaxBlockSize, Len(pendingRollback))

\* Mutant: a late transaction that was passed over stays in the queue.
Pending_KeepsLate(parent) ==
    LET room == MaxBlockSize - RollbacksTaken
        late(tx) == Late(tx, parent + 1)
    IN  \E i \in 0 .. Len(pending) :
           /\ StopsAt(i, room, parent + 1)
           /\ txs' = {pendingRollback[j] : j \in 1 .. RollbacksTaken}
                         \cup {pending[j] : j \in InTime(i, parent + 1)}
           /\ pending' = SelectSeq(SubSeq(pending, 1, i), late)
                            \o SubSeq(pending, i + 1, Len(pending))
           /\ pendingRollback' =
                 SubSeq(pendingRollback, RollbacksTaken + 1, Len(pendingRollback))
           /\ parentBlockHeight' = parent
           /\ UNCHANGED offered

Pending(parent) ==
    LET room == MaxBlockSize - RollbacksTaken
    IN  \E i \in 0 .. Len(pending) :
           /\ StopsAt(i, room, parent + 1)
           /\ txs' = {pendingRollback[j] : j \in 1 .. RollbacksTaken}
                         \cup {pending[j] : j \in InTime(i, parent + 1)}
           /\ pending' = SubSeq(pending, i + 1, Len(pending))
           /\ pendingRollback' =
                 SubSeq(pendingRollback, RollbacksTaken + 1, Len(pendingRollback))
           /\ parentBlockHeight' = parent
           /\ UNCHANGED offered

Next ==
    \/ \E batch \in Batches : AddTxs(batch) \/ SetPoolTx(batch)
    \/ \E parent \in parentBlockHeight .. MaxParent : Pending(parent)

Spec == Init /\ [][Next]_vars

\* The worker asks for a block again and again.
FairSpec == Spec /\ WF_vars(\E parent \in parentBlockHeight .. MaxParent : Pending(parent))

-----------------------------------------------------------------------------
(* Properties.                                                             *)

Pooled == Range(pending) \cup Range(pendingRollback)

Abstract == INSTANCE AbstractPool
                WITH pool <- Pooled, parent <- parentBlockHeight, block <- txs

\* The two queues do what PoolRules promises for a set: Pending fills the block,
\* rollbacks first, and loses nothing but second halves that are past their deadline.
KeepsPoolRules == Abstract!Spec

Before(queue, x, y) == \E i, j \in 1 .. Len(queue) : i < j /\ queue[i] = x /\ queue[j] = y

\* Within each queue Pending overtakes nobody: whoever stands before a transaction
\* that is taken is taken with it, or is late and leaves the pool.
NoOvertaking ==
    [][\A queue \in {pending, pendingRollback} : \A x, y \in Range(queue) :
          Before(queue, x, y) /\ y \in txs' \ txs => x \notin Pooled']_vars

\* Whatever is in the pool leaves it: rollbacks, which go first, do not starve the
\* others for ever, since the number of transactions is finite.
EverythingLeaves == \A x \in Offered : x \in Pooled ~> x \notin Pooled
=============================================================================
