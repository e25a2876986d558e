------------------------------ MODULE MCReconfig ------------------------------
(***************************************************************************)
(* Two committees of two nodes.  n2 and n3 sign for Layer1 with the same   *)
(* account, as two processes may that pair addresses with keys in the      *)
(* order of a map.  With the first seed n1 goes on to lead committee 0 and *)
(* n2 succeeds n3 in committee 1; with the second n2 goes on and n3        *)
(* succeeds n1.                                                            *)
(***************************************************************************)
EXTENDS Reconfig, TLC

CONSTANTS n1, n2, n3, n4, a1, a2, a3, a4, t1

MCNodes     == {n1, n2, n3, n4}
MCAccounts  == {a1, a2, a3, a4}
MCGanache   == 0 :> a1 @@ 1 :> a2
MCKeys      == n1 :> a1 @@ n2 :> a2 @@ n3 :> a3 @@ n4 :> a4
MCKeys2     == n1 :> a1 @@ n2 :> a3 @@ n3 :> a2 @@ n4 :> a4
MCPriKeys   == n1 :> MCKeys @@ n2 :> MCKeys2 @@ n3 :> MCKeys @@ n4 :> MCKeys
MCInitTable == 0 :> <<n1, n2>> @@ 1 :> <<n3, n4>>
MCVrf       == 2 :> (n1 :> 0 @@ n2 :> 5 @@ n3 :> 2 @@ n4 :> 7)
               @@ 4 :> (n1 :> 7 @@ n2 :> 5 @@ n3 :> 0 @@ n4 :> 2)
MCHeights   == {2, 4}
MCMaxBlocks == [c \in {0, 1} |-> 0 :> 0 @@ 2 :> (IF c = 1 THEN 2 ELSE 0) @@ 4 :> 0]
MCTxs       == {t1}
MCTxCom     == t1 :> 1
=============================================================================
