---------------------------- MODULE MCCrossShard ----------------------------
(* Two shards and two transactions: t1 crosses from s1 to s2, t2 either     *)
(* crosses back or stays in s1.                                            *)
EXTENDS CrossShardInv, TLC

CONSTANTS s1, s2, t1, t2

MCShard == {s1, s2}
MCTx    == {t1, t2}

CrossBackFrom == t1 :> s1 @@ t2 :> s2
CrossBackTo   == t1 :> s2 @@ t2 :> s1

StayFrom == t1 :> s1 @@ t2 :> s1
StayTo   == t1 :> s2 @@ t2 :> s1
=============================================================================
