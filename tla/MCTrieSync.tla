----------------------------- MODULE MCTrieSync -----------------------------
(* Two leaves under the root share a storage trie and a code; one inner    *)
(* node holds the same child twice.                                        *)
EXTENDS TrieSync

MCItems == {"root", "a", "b", "n", "leaf", "store", "code"}

MCCodes == {"code"}

MCKids == [h \in MCItems |->
    CASE h = "root" -> <<"a", "b", "n">>
      [] h = "n"    -> <<"leaf", "leaf">>
      [] OTHER      -> <<>>]

MCSubs == [h \in MCItems |->
    CASE h = "a" -> <<"store", "code">>
      [] h = "b" -> <<"store">>
      [] h = "leaf" -> <<"code">>
      [] OTHER   -> <<>>]

MCDepth == [h \in MCItems |->
    CASE h = "root" -> 0
      [] h \in {"a", "b", "n"} -> 1
      [] h = "leaf" -> 2
      [] h \in {"store", "code"} -> 3]
=============================================================================
