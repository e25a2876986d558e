-------------------------------- MODULE Trie --------------------------------
(***************************************************************************)
(* trie/trie.go and trie/committer.go: reading, inserting into and         *)
(* deleting from the Merkle Patricia trie, and committing it to the        *)
(* database.  Every operator returns the node that takes the place of the  *)
(* one it was given; err is the MissingNodeError of a hash that is neither *)
(* in memory nor on disk.  A key that is still to be walked is a suffix    *)
(* instead of a position.                                                  *)
(***************************************************************************)
EXTENDS TrieDatabase

CONSTANT
    StorageNode    \* a function: the root node of the storage trie an account
                   \* value points to, Nil for a value without one

From(key, i)  == SubSeq(key, i, Len(key))
Upto(key, i)  == SubSeq(key, 1, i)
StartsWith(key, p) == Len(key) >= Len(p) /\ Upto(key, Len(p)) = p

-----------------------------------------------------------------------------
(* TryGet and TryGetNode *)

RECURSIVE tryGet(_, _, _)
tryGet(d, n, key) ==
    CASE n.kind = "nil"   -> [value |-> Nil, n |-> n, didResolve |-> FALSE, err |-> FALSE]
      [] n.kind = "value" -> [value |-> n, n |-> n, didResolve |-> FALSE, err |-> FALSE]
      [] n.kind = "short" ->
            IF ~StartsWith(key, n.key)
            THEN [value |-> Nil, n |-> n, didResolve |-> FALSE, err |-> FALSE]
            ELSE LET r == tryGet(d, n.val, From(key, Len(n.key) + 1))
                 IN  [r EXCEPT !.n = IF ~r.err /\ r.didResolve THEN [n EXCEPT !.val = r.n] ELSE n]
      [] n.kind = "full"  ->
            LET r == tryGet(d, Child(n, key[1]), Tail(key))
            IN  [r EXCEPT !.n = IF ~r.err /\ r.didResolve THEN SetChild(n, key[1], r.n) ELSE n]
      [] n.kind = "hash"  ->
            IF ~HasNode(d, n) THEN [value |-> Nil, n |-> n, didResolve |-> TRUE, err |-> TRUE]
            ELSE [tryGet(d, node(d, n), key) EXCEPT !.didResolve = TRUE]

(* The node at a path of nibbles: item is its hash (the blob the database  *)
(* returns for it), err also covers a node too small to have a hash.       *)
RECURSIVE tryGetNode(_, _, _)

tryGetNode(d, n, path) ==
    LET miss == [item |-> Nil, n |-> n, resolved |-> 0, err |-> FALSE]
        Down(r, nn) == [r EXCEPT !.n = IF ~r.err /\ r.resolved > 0 THEN nn ELSE n]
    IN  CASE n.kind = "nil" -> miss
          [] n.kind # "nil" /\ path = <<>> ->
                LET h == IF n.kind = "hash" THEN n ELSE cache(n).hash
                IN  IF h = Nil THEN [miss EXCEPT !.err = TRUE]
                    ELSE [item |-> h, n |-> n, resolved |-> 1, err |-> ~HasNode(d, h)]
          [] n.kind = "value" /\ path # <<>> -> [miss EXCEPT !.n = Nil]
          [] n.kind = "short" /\ path # <<>> ->
                IF ~StartsWith(path, n.key) THEN miss
                ELSE LET r == tryGetNode(d, n.val, From(path, Len(n.key) + 1))
                     IN  Down(r, [n EXCEPT !.val = r.n])
          [] n.kind = "full" /\ path # <<>> ->
                LET r == tryGetNode(d, Child(n, path[1]), Tail(path))
                IN  Down(r, SetChild(n, path[1], r.n))
          [] n.kind = "hash" /\ path # <<>> ->
                IF ~HasNode(d, n) THEN [miss EXCEPT !.resolved = 1, !.err = TRUE]
                ELSE LET r == tryGetNode(d, node(d, n), path)
                     IN  [r EXCEPT !.resolved = @ + 1]

-----------------------------------------------------------------------------
(* TryUpdate and TryDelete *)

Changed(n)   == [dirty |-> TRUE, n |-> n, err |-> FALSE]
Unchanged(n) == [dirty |-> FALSE, n |-> n, err |-> FALSE]
Missing      == [dirty |-> FALSE, n |-> Nil, err |-> TRUE]

RECURSIVE insert(_, _, _, _)

(* Branch out at the index where the two keys differ. *)
BranchOut(d, n, key, value) ==
    LET m      == prefixLen(key, n.key)
        old    == insert(d, Nil, From(n.key, m + 2), n.val).n
        new    == insert(d, Nil, From(key, m + 2), value).n
        branch == FullNode([i \in {n.key[m + 1], key[m + 1]} |->
                              IF i = key[m + 1] THEN new ELSE old], newFlag)
    IN  IF m = 0 THEN branch ELSE ShortNode(Upto(key, m), branch, newFlag)

insert(d, n, key, value) ==
    IF key = <<>> THEN [dirty |-> n.kind = "value" => n # value, n |-> value, err |-> FALSE]
    ELSE CASE n.kind = "nil"   -> Changed(ShortNode(key, value, newFlag))
           [] n.kind = "short" ->
                IF ~StartsWith(key, n.key) THEN Changed(BranchOut(d, n, key, value))
                ELSE LET r == insert(d, n.val, From(key, Len(n.key) + 1), value)
                     IN  IF ~r.dirty \/ r.err THEN [Unchanged(n) EXCEPT !.err = r.err]
                         ELSE Changed(ShortNode(n.key, r.n, newFlag))
           [] n.kind = "full"  ->
                LET r == insert(d, Child(n, key[1]), Tail(key), value)
                IN  IF ~r.dirty \/ r.err THEN [Unchanged(n) EXCEPT !.err = r.err]
                    ELSE Changed([SetChild(n, key[1], r.n) EXCEPT !.flags = newFlag])
           [] n.kind = "hash"  ->
                IF ~HasNode(d, n) THEN Missing
                ELSE LET r == insert(d, node(d, n), key, value)
                     IN  IF ~r.dirty \/ r.err THEN [Unchanged(node(d, n)) EXCEPT !.err = r.err] ELSE r

\* Mutant: a remaining child that is not loaded is not looked at.
Reduce_NotLoaded(d, n) ==
    LET pos   == CHOOSE i \in DOMAIN n.ch : TRUE
        child == n.ch[pos]
    IN  IF Cardinality(DOMAIN n.ch) # 1 THEN Changed(n)
        ELSE IF child.kind = "short" THEN Changed(ShortNode(<<pos>> \o child.key, child.val, newFlag))
        ELSE Changed(ShortNode(<<pos>>, child, newFlag))

(* A full node left with one child becomes a short node; a short child is  *)
(* merged into it, and is loaded for that if need be.                      *)
Reduce(d, n) ==
    LET pos   == CHOOSE i \in DOMAIN n.ch : TRUE
        child == n.ch[pos]
        cnode == IF child.kind = "hash" THEN node(d, child) ELSE child
    IN  IF Cardinality(DOMAIN n.ch) # 1 THEN Changed(n)
        ELSE IF pos # 16 /\ child.kind = "hash" /\ ~HasNode(d, child) THEN Missing
        ELSE IF pos # 16 /\ cnode.kind = "short"
        THEN Changed(ShortNode(<<pos>> \o cnode.key, cnode.val, newFlag))
        ELSE Changed(ShortNode(<<pos>>, child, newFlag))

RECURSIVE delete(_, _, _)
delete(d, n, key) ==
    CASE n.kind = "nil"   -> Unchanged(Nil)
      [] n.kind = "value" -> Changed(Nil)
      [] n.kind = "short" ->
            IF ~StartsWith(key, n.key) THEN Unchanged(n)
            ELSE IF Len(key) = Len(n.key) THEN Changed(Nil)
            ELSE LET r == delete(d, n.val, From(key, Len(n.key) + 1))
                 IN  IF ~r.dirty \/ r.err THEN [Unchanged(n) EXCEPT !.err = r.err]
                     ELSE IF r.n.kind = "short"
                     THEN Changed(ShortNode(n.key \o r.n.key, r.n.val, newFlag))
                     ELSE Changed(ShortNode(n.key, r.n, newFlag))
      [] n.kind = "full"  ->
            LET r  == delete(d, Child(n, key[1]), Tail(key))
                nn == [SetChild(n, key[1], r.n) EXCEPT !.flags = newFlag]
            IN  IF ~r.dirty \/ r.err THEN [Unchanged(n) EXCEPT !.err = r.err]
                ELSE IF r.n # Nil THEN Changed(nn)
                ELSE Reduce(d, nn)
      [] n.kind = "hash"  ->
            IF ~HasNode(d, n) THEN Missing
            ELSE LET r == delete(d, node(d, n), key)
                 IN  IF ~r.dirty \/ r.err THEN [Unchanged(node(d, n)) EXCEPT !.err = r.err] ELSE r

-----------------------------------------------------------------------------
(* Hash *)

hashRoot(root) ==
    IF root = Nil THEN [hashed |-> emptyRoot, cached |-> Nil] ELSE hash(root, TRUE)

RootHash(root) == hashRoot(root).hashed

-----------------------------------------------------------------------------
(* Commit *)

RECURSIVE estimateSize(_)
estimateSize(n) ==
    CASE n.kind = "short" -> 3 + Len(n.key) + estimateSize(n.val)
      [] n.kind = "full"  ->
            LET kids == DOMAIN n.ch \ {16}
            IN  3 + (16 - Cardinality(kids)) + MapThenSumSet(LAMBDA i : estimateSize(n.ch[i]), kids)
      [] n.kind = "value" -> 1 + ValueLen[n.v]
      [] n.kind = "hash"  -> 1 + hashLen

(* The callback an account trie is committed with references the storage   *)
(* trie of the account from the node that holds the value.                 *)
LeafValue(n) ==
    CASE n.kind = "short" -> n.val
      [] n.kind = "full"  -> Child(n, 16)

onleaf(d, n, h) ==
    IF LeafValue(n).kind = "value" /\ StorageNode[LeafValue(n).v] # Nil
    THEN reference(d, HashNode(StorageNode[LeafValue(n).v]), h)
    ELSE d

(* store and commitLoop: a node without a hash stays inside its parent.    *)
store(d, n) ==
    LET h == n.flags.hash
    IN  IF h = Nil THEN [n |-> n, d |-> d]
        ELSE [n |-> h, d |-> onleaf(dbInsert(d, h, estimateSize(n), n), n, h)]

RECURSIVE commit(_, _)
commit(d, n) ==
    CASE n.kind = "hash" -> [n |-> n, d |-> d]
      [] IsInner(n) /\ n.flags.hash # Nil /\ ~n.flags.dirty -> [n |-> n.flags.hash, d |-> d]
      [] n.kind = "short" /\ ~(n.flags.hash # Nil /\ ~n.flags.dirty) ->
            LET r == IF n.val.kind = "full" THEN commit(d, n.val) ELSE [n |-> n.val, d |-> d]
            IN  store(r.d, [n EXCEPT !.key = hexToCompact(n.key), !.val = r.n])
      [] n.kind = "full" /\ ~(n.flags.hash # Nil /\ ~n.flags.dirty) ->
            LET CommitChild(acc, i) ==
                    LET r == commit(acc.d, n.ch[i])
                    IN  [n |-> SetChild(acc.n, i, r.n), d |-> r.d]
                all == FoldLeft(CommitChild, [n |-> n, d |-> d],
                                SetToSortSeq(DOMAIN n.ch \ {16}, <))
            IN  store(all.d, all.n)

(* Trie.Commit: hash first, and nothing to do for a root that was not      *)
(* changed.                                                                *)
CommitTrie(d, root) ==
    LET hashed == hashRoot(root).cached
    IN  IF root = Nil THEN [n |-> Nil, d |-> d]
        ELSE IF ~cache(hashed).dirty THEN [n |-> hashed, d |-> d]
        ELSE commit(d, hashed)
=============================================================================
