---------------------------- MODULE AbstractPool ----------------------------
(***************************************************************************)
(* What the worker sees of a committee's transaction pool: a set that      *)
(* transactions are added to, and from which each call of Pending takes    *)
(* the transactions of one block by the rules of PoolRules.  CrossShard    *)
(* uses the pool in this form.                                             *)
(***************************************************************************)
EXTENDS PoolRules

CONSTANT MaxBlockSize

VARIABLES
    pool,     \* the transactions in the pool
    parent,   \* height of the block the last call of Pending built on
    block     \* the transactions that call returned

Init == pool = {} /\ parent = 0 /\ block = {}

Add ==
    /\ pool' \subseteq Transaction /\ pool \subseteq pool'
    /\ UNCHANGED <<parent, block>>

Take ==
    /\ parent' \in Nat /\ parent' >= parent
    /\ block' \subseteq pool
    /\ Selection(pool, parent' + 1, MaxBlockSize, block', pool')

Next == Add \/ Take

Spec == Init /\ [][Next]_<<pool, parent, block>>
=============================================================================
