--------------------------- MODULE MCShardState ----------------------------
(* Four accounts: two below a common extension node, one beside it that    *)
(* only a request creates, and one of another shard.                       *)
EXTENDS ShardState

MCAddrs == {"a", "b", "c", "x"}

MCAddrHash == [a \in MCAddrs |->
    CASE a = "a" -> <<18, 52>>
      [] a = "b" -> <<18, 53>>
      [] a = "c" -> <<19, 1>>
      [] a = "x" -> <<18, 68>>]

MCInitial == {"a", "b"}

Tx(id, type, sender, recipient, value) ==
    [id |-> id, type |-> type, sender |-> sender, recipient |-> recipient, value |-> value]

MCTxs == {Tx(1, "intra", "a", "b", 1), Tx(2, "intra", "b", "a", 2), Tx(3, "cross1", "a", "x", 3),
          Tx(3, "rollback", "a", "x", 3), Tx(4, "cross2", "x", "c", 2)}

MCValueLen == [v \in (0..3) \X (0..14) |-> 70]

MCStorageNode == [v \in (0..3) \X (0..14) |-> [kind |-> "nil"]]
=============================================================================
