----------------------------- MODULE TrieProof -----------------------------
(***************************************************************************)
(* trie/proof.go: Merkle proofs of one key and of a range of keys.  A      *)
(* proof is the set of hashes whose encodings it holds.  The code changes  *)
(* the nodes of a path in place; here every operator returns the node that *)
(* takes the place of its argument, Nil for a removed one.                 *)
(***************************************************************************)
EXTENDS Trie, StackTrie

(* The nodes on the path to key, from the root; a node that the database   *)
(* does not have is an error.                                              *)
PathEnd(err)   == [nodes |-> <<>>, err |-> err]
After(n, rest) == [rest EXCEPT !.nodes = <<n>> \o @]

RECURSIVE ProofPath(_, _, _)
ProofPath(d, n, key) ==
    CASE key = <<>> \/ n = Nil -> PathEnd(FALSE)
      [] key # <<>> /\ n.kind = "short" ->
            After(n, IF ~StartsWith(key, n.key) THEN PathEnd(FALSE)
                     ELSE ProofPath(d, n.val, From(key, Len(n.key) + 1)))
      [] key # <<>> /\ n.kind = "full" -> After(n, ProofPath(d, Child(n, key[1]), Tail(key)))
      [] key # <<>> /\ n.kind = "hash" ->
            IF ~HasNode(d, n) THEN PathEnd(TRUE) ELSE ProofPath(d, node(d, n), key)

Prove(d, root, key, fromLevel) ==
    LET path == ProofPath(d, root, keybytesToHex(key))
    IN  [err   |-> path.err,
         proof |-> IF path.err THEN {}
                   ELSE UNION {ProofOf(proofHash(path.nodes[i]), i = 1) :
                                  i \in (fromLevel + 1)..Len(path.nodes)}]

(* get with skipResolved: down to a hash, a value or nothing *)
RECURSIVE get(_, _)
get(n, key) ==
    CASE n.kind = "short" -> IF StartsWith(key, n.key) THEN get(n.val, From(key, Len(n.key) + 1))
                             ELSE [keyrest |-> <<>>, n |-> Nil]
      [] n.kind = "full"  -> get(Child(n, key[1]), Tail(key))
      [] OTHER            -> [keyrest |-> key, n |-> n]

RECURSIVE VerifyFrom(_, _, _)
VerifyFrom(wantHash, key, proof) ==
    IF wantHash \notin proof THEN [value |-> Nil, err |-> TRUE]
    ELSE LET g == get(decodeNode(wantHash, wantHash.of), key)
         IN  IF g.n.kind = "hash" THEN VerifyFrom(g.n, g.keyrest, proof)
             ELSE [value |-> g.n, err |-> FALSE]

VerifyProof(rootHash, key, proof) == VerifyFrom(rootHash, keybytesToHex(key), proof)

(* proofToPath: the path to key with its hashes replaced by nodes of the   *)
(* proof.  val is the value at its end, Nil when there is none.            *)
FromProof(n, proof) == IF n.kind = "hash" /\ n \in proof THEN decodeNode(n, n.of) ELSE n

UnderShort(n, r)   == [r EXCEPT !.n = [n EXCEPT !.val = r.n]]
UnderFull(n, i, r) == [r EXCEPT !.n = SetChild(n, i, r.n)]

RECURSIVE ResolvePath(_, _, _)
ResolvePath(n, key, proof) ==
    CASE n.kind = "value" -> [n |-> n, val |-> n, err |-> FALSE]
      [] n.kind = "nil"   -> [n |-> n, val |-> Nil, err |-> FALSE]
      [] n.kind = "hash"  -> [n |-> n, val |-> Nil, err |-> TRUE]
      [] n.kind = "short" ->
            IF ~StartsWith(key, n.key) THEN [n |-> n, val |-> Nil, err |-> FALSE]
            ELSE UnderShort(n, ResolvePath(FromProof(n.val, proof), From(key, Len(n.key) + 1), proof))
      [] n.kind = "full"  ->
            UnderFull(n, key[1], ResolvePath(FromProof(Child(n, key[1]), proof), Tail(key), proof))

MustExist(r, allowNonExistent) == [r EXCEPT !.err = @ \/ (r.val = Nil /\ ~allowNonExistent)]

proofToPath(rootHash, root, key, proof, allowNonExistent) ==
    IF root = Nil /\ rootHash \notin proof THEN [n |-> Nil, val |-> Nil, err |-> TRUE]
    ELSE MustExist(ResolvePath(IF root = Nil THEN decodeNode(rootHash, rootHash.of) ELSE root,
                               keybytesToHex(key), proof), allowNonExistent)

(* unset: drop what lies on one side of the path to key.                   *)
RECURSIVE unset(_, _, _)

\* Mutant: a short node beside the path is kept on either side of it.
unset_KeepsFork(child, key, removeLeft) ==
    CASE child.kind = "nil"   -> Nil
      [] child.kind = "full"  ->
            LET gone == IF removeLeft THEN 0..(key[1] - 1) ELSE (key[1] + 1)..15
                kept == FullNode([i \in DOMAIN child.ch \ gone |-> child.ch[i]], newFlag)
            IN  SetChild(kept, key[1], unset(Child(child, key[1]), Tail(key), removeLeft))
      [] child.kind = "short" ->
            IF ~StartsWith(key, child.key) THEN child
            ELSE IF child.val.kind = "value" THEN Nil
            ELSE ShortNode(child.key, unset(child.val, From(key, Len(child.key) + 1), removeLeft),
                           newFlag)

unset(child, key, removeLeft) ==
    CASE child.kind = "nil"   -> Nil
      [] child.kind = "full"  ->
            LET gone == IF removeLeft THEN 0..(key[1] - 1) ELSE (key[1] + 1)..15
                kept == FullNode([i \in DOMAIN child.ch \ gone |-> child.ch[i]], newFlag)
            IN  SetChild(kept, key[1], unset(Child(child, key[1]), Tail(key), removeLeft))
      [] child.kind = "short" ->
            IF ~StartsWith(key, child.key)
            THEN IF (removeLeft /\ Compare(child.key, key) < 0) \/ (~removeLeft /\ Compare(child.key, key) > 0)
                 THEN Nil ELSE child
            ELSE IF child.val.kind = "value" THEN Nil
            ELSE ShortNode(child.key, unset(child.val, From(key, Len(child.key) + 1), removeLeft),
                           newFlag)

(* unsetInternal: drop what lies between the two edges.                    *)
RECURSIVE UnsetBetween(_, _, _)
UnsetBetween(n, left, right) ==
    LET Fork(key)   == Compare(Upto(key, Min({Len(key), Len(n.key)})), n.key)
        ok(m)       == [n |-> m, err |-> FALSE]
        Edge(key, removeLeft) ==
            IF n.val.kind = "value" THEN ok(Nil)
            ELSE ok(ShortNode(n.key, unset(n.val, From(key, Len(n.key) + 1), removeLeft), newFlag))
        inner       == UnsetBetween(n.val, From(left, Len(n.key) + 1), From(right, Len(n.key) + 1))
        innerChild  == UnsetBetween(Child(n, left[1]), Tail(left), Tail(right))
        between     == FullNode([i \in DOMAIN n.ch \ ((left[1] + 1)..(right[1] - 1)) |-> n.ch[i]],
                                newFlag)
        leftCut     == SetChild(between, left[1], unset(Child(n, left[1]), Tail(left), FALSE))
    IN  IF n.kind = "short"
        THEN CASE Fork(left) = 0 /\ Fork(right) = 0 ->
                    [inner EXCEPT !.n = ShortNode(n.key, inner.n, newFlag)]
               [] Fork(left) # 0 /\ Fork(left) = Fork(right) -> [n |-> n, err |-> TRUE]
               [] Fork(left) # 0 /\ Fork(right) # 0 /\ Fork(left) # Fork(right) -> ok(Nil)
               [] Fork(left) = 0 /\ Fork(right) # 0 -> Edge(left, FALSE)
               [] Fork(left) # 0 /\ Fork(right) = 0 -> Edge(right, TRUE)
        ELSE IF left[1] = right[1] /\ Child(n, left[1]) # Nil
        THEN [innerChild EXCEPT !.n = [SetChild(n, left[1], innerChild.n) EXCEPT !.flags = newFlag]]
        ELSE ok(SetChild(leftCut, right[1], unset(Child(leftCut, right[1]), Tail(right), TRUE)))

unsetInternal(root, left, right) == UnsetBetween(root, keybytesToHex(left), keybytesToHex(right))

RECURSIVE RightOf(_, _)
RightOf(n, key) ==
    CASE n.kind \in {"nil", "value"} -> FALSE
      [] n.kind = "full"  -> \/ DOMAIN n.ch \intersect ((key[1] + 1)..15) # {}
                             \/ RightOf(Child(n, key[1]), Tail(key))
      [] n.kind = "short" -> IF ~StartsWith(key, n.key) THEN Compare(n.key, key) > 0
                             ELSE RightOf(n.val, From(key, Len(n.key) + 1))

hasRightElement(root, key) == RightOf(root, keybytesToHex(key))

-----------------------------------------------------------------------------
(* VerifyRangeProof: keys and values are sequences, meant to be parallel.  *)
(* NoProof is the nil proof of the whole trie, NoValue an empty value.     *)

NoProof == {Nil}
NoValue == ""

Refused      == [more |-> FALSE, err |-> TRUE]
Proved(more) == [more |-> more, err |-> FALSE]

Inserted(n, r) == IF r.err THEN n ELSE r.n

Fill(root, keys, values) ==
    FoldLeftDomain(LAMBDA n, i : Inserted(n, insert(NewDatabase({}, {}), n, keybytesToHex(keys[i]),
                                                    ValueNode(values[i]))),
                   root, keys)

(* The last steps: two is the trie with both edges, cut the trie without   *)
(* what is between them, built the trie with the keys and values in its    *)
(* place.                                                                  *)
CheckRoot(rootHash, built, keys) ==
    IF RootHash(built) # rootHash THEN Refused ELSE Proved(hasRightElement(built, keys[Len(keys)]))

Rebuild(rootHash, cut, keys, values) ==
    IF cut.err THEN Refused ELSE CheckRoot(rootHash, Fill(cut.n, keys, values), keys)

CutBetween(rootHash, two, firstKey, lastKey, keys, values) ==
    IF two.err THEN Refused
    ELSE Rebuild(rootHash, unsetInternal(two.n, firstKey, lastKey), keys, values)

VerifyTwoEdges(rootHash, firstKey, lastKey, keys, values, proof) ==
    LET one == proofToPath(rootHash, Nil, firstKey, proof, TRUE)
    IN  IF one.err THEN Refused
        ELSE CutBetween(rootHash, proofToPath(rootHash, one.n, lastKey, proof, TRUE),
                        firstKey, lastKey, keys, values)

NoElement(edge, firstKey) ==
    IF edge.err \/ edge.val # Nil \/ hasRightElement(edge.n, firstKey) THEN Refused ELSE Proved(FALSE)

OneElement(edge, key, value) ==
    IF edge.err \/ edge.val # ValueNode(value) THEN Refused ELSE Proved(hasRightElement(edge.n, key))

Whole(keys, values) ==
    FoldLeftDomain(LAMBDA acc, i : stUpdate(acc, keys[i], values[i]),
                   [st |-> emptyNode, puts |-> {}], keys).st

(* As many values as keys, in the order of the keys, and no deletion *)
IsBatch(keys, values) ==
    /\ Len(keys) = Len(values)
    /\ \A i \in 1..(Len(keys) - 1) : Compare(keys[i], keys[i + 1]) < 0
    /\ \A i \in DOMAIN values : values[i] # NoValue

VerifyRangeProof(rootHash, firstKey, lastKey, keys, values, proof) ==
    CASE ~IsBatch(keys, values) -> Refused
      [] IsBatch(keys, values) /\ proof = NoProof ->
            IF stHash(Whole(keys, values)) = rootHash THEN Proved(FALSE) ELSE Refused
      [] IsBatch(keys, values) /\ proof # NoProof /\ keys = <<>> ->
            NoElement(proofToPath(rootHash, Nil, firstKey, proof, TRUE), firstKey)
      [] IsBatch(keys, values) /\ proof # NoProof /\ Len(keys) = 1 /\ firstKey = lastKey ->
            IF firstKey # keys[1] THEN Refused
            ELSE OneElement(proofToPath(rootHash, Nil, firstKey, proof, FALSE), firstKey, values[1])
      [] OTHER ->
            IF Compare(firstKey, lastKey) >= 0 \/ Len(firstKey) # Len(lastKey) THEN Refused
            ELSE VerifyTwoEdges(rootHash, firstKey, lastKey, keys, values, proof)
=============================================================================
