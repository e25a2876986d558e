------------------------------ MODULE MCTxPool ------------------------------
(* The pool of committee s1: an intra-shard transaction, two second halves   *)
(* with different deadlines, and two rollbacks.                             *)
EXTENDS TxPool, TLC

CONSTANTS s1, s2, t1, t2, t3, t4, t5

MCShard == {s1, s2}
MCTx    == {t1, t2, t3, t4, t5}

MCSender    == t1 :> s1 @@ t2 :> s2 @@ t3 :> s2 @@ t4 :> s1 @@ t5 :> s1
MCRecipient == t1 :> s1 @@ t2 :> s1 @@ t3 :> s1 @@ t4 :> s2 @@ t5 :> s2

MCOffered ==
    {FirstHalf(t1), SecondHalf(t2, 0), SecondHalf(t3, 1), RollbackOf(t4), RollbackOf(t5)}
=============================================================================
