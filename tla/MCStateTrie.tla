---------------------------- MODULE MCStateTrie ----------------------------
(* A small state trie: two keys that share three nibbles and one that      *)
(* shares nothing with them.  The small value makes leaves that are stored *)
(* inside their parent; the account value has a storage trie.              *)
EXTENDS StateTrie

MCKeys == {<<18, 52>>, <<18, 53>>, <<32, 1>>}

MCEntries == {<<<<18, 52>>, "small">>, <<<<18, 52>>, "account">>, <<<<18, 53>>, "small">>,
              <<<<32, 1>>, "account">>}

MCProbes == {<<18, 60>>, <<255, 0>>}

MCValueLen == [v \in {"small", "account"} |-> IF v = "small" THEN 3 ELSE 70]

MCStorageNode ==
    [v \in {"small", "account"} |->
        IF v = "small" THEN [kind |-> "nil"]
        ELSE [kind |-> "short", key |-> <<32, 7>>, val |-> [kind |-> "value", v |-> "account"]]]

MCLimits == {0, 300}
=============================================================================
