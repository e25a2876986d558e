----------------------------- MODULE PoolRules -----------------------------
(***************************************************************************)
(* What TxPool.Pending promises the worker, with the pool seen as a set of *)
(* transactions: which transactions a block of the given height may take,  *)
(* and what may be left in the pool.  The module TxPool has the queues of  *)
(* the code and is shown to keep this promise; CrossShard builds on it.    *)
(***************************************************************************)
EXTENDS CoreTypes

Rollbacks(pool) == {tx \in pool : tx.TXtype = RollbackTXType}

LateIn(pool, height) == {tx \in pool : Late(tx, height)}

Eligible(pool, height) == pool \ (Rollbacks(pool) \cup LateIn(pool, height))

\* Rollbacks go first; then other transactions fill the block.  Second halves
\* whose deadline has passed are dropped as they are met, and do not count.
Selection(pool, height, maxBlockSize, txs, rest) ==
    LET rollbacks == Rollbacks(txs)
        others    == txs \ rollbacks
        room      == maxBlockSize - Cardinality(rollbacks)
    IN  /\ txs \subseteq pool \ LateIn(pool, height)
        /\ rest \subseteq pool \ txs
        /\ pool \ (txs \cup rest) \subseteq LateIn(pool, height)
        /\ Cardinality(rollbacks) = Minimum(maxBlockSize, Cardinality(Rollbacks(pool)))
        /\ Cardinality(others) = Minimum(room, Cardinality(Eligible(pool, height)))
        /\ room = 0 => LateIn(pool, height) \subseteq rest
        /\ Cardinality(others) < room => LateIn(pool, height) \cap rest = {}
============================================================================
