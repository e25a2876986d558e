----------------------------- MODULE StackTrie -----------------------------
(***************************************************************************)
(* trie/stacktrie.go: the trie that is filled in the order of the keys and *)
(* hashes a subtree as soon as no later key can fall into it.  A node is   *)
(* [type, key, val, ch]; the value of a hashed node is its hash, or its    *)
(* encoding when that is shorter than 32 bytes.  puts collects the nodes   *)
(* the trie has written to its database.                                   *)
(***************************************************************************)
EXTENDS TrieNodes

NoKids == [i \in {} |-> Nil]

St(type, key, val, ch) == [type |-> type, key |-> key, val |-> val, ch |-> ch]

emptyNode         == St("empty", <<>>, Nil, NoKids)
newLeaf(key, val) == St("leaf", key, val, NoKids)
newExt(key, st)   == St("ext", key, Nil, [i \in {0} |-> st])
newBranch(ch)     == St("branch", <<>>, Nil, ch)
hashedNode(val)   == St("hashed", <<>>, val, NoKids)

getDiffIndex(st, key) == prefixLen(st.key, key)

Encoding(st, vals) ==
    CASE st.type = "branch" -> [kind |-> "full", ch |-> vals]
      [] st.type = "ext"    -> [kind |-> "short", key |-> hexToCompactInPlace(st.key), val |-> vals[0]]
      [] st.type = "leaf"   -> [kind |-> "short", key |-> hexToCompactInPlace(Append(st.key, 16)),
                                val |-> st.val]

Hashed(enc, puts) ==
    IF rlpLen(enc) < hashLen THEN [st |-> hashedNode(enc), puts |-> puts]
    ELSE [st |-> hashedNode(hashData(enc)), puts |-> puts \union {hashData(enc)}]

HashedOver(st, kids) ==
    Hashed(Encoding(st, [i \in DOMAIN kids |-> kids[i].st.val]), UNION {kids[i].puts : i \in DOMAIN kids})

(* hashRec: children first; a node of 32 bytes or more is written.  The    *)
(* result keeps only the value.                                            *)
RECURSIVE hashRec(_)
hashRec(st) ==
    CASE st.type = "hashed" -> [st |-> st, puts |-> {}]
      [] st.type = "empty"  -> [st |-> hashedNode(emptyRoot), puts |-> {}]
      [] OTHER -> HashedOver(st, [i \in DOMAIN st.ch |-> hashRec(st.ch[i])])

(* A branch for the two sides of a split: the old side is hashed at once.  *)
SplitBranch(st, diffidx, o, key, value) ==
    newBranch([i \in {st.key[diffidx + 1], key[diffidx + 1]} |->
                  IF i = st.key[diffidx + 1] THEN o.st
                  ELSE newLeaf(SubSeq(key, diffidx + 2, Len(key)), value)])

Forked(st, diffidx, o, p) ==
    [st |-> IF diffidx = 0 THEN p ELSE newExt(SubSeq(st.key, 1, diffidx), p), puts |-> o.puts]

Split(st, diffidx, old, key, value) ==
    LET o == hashRec(old)
    IN  Forked(st, diffidx, o, SplitBranch(st, diffidx, o, key, value))

RECURSIVE stInsert(_, _, _)
stInsert(st, key, value) ==
    CASE st.type = "empty" -> [st |-> newLeaf(key, value), puts |-> {}]
      [] st.type = "branch" ->
            LET idx    == key[1]
                elders == {i \in DOMAIN st.ch : i < idx}
                elder  == hashRec(st.ch[Max(elders)])
                child  == IF idx \in DOMAIN st.ch THEN stInsert(st.ch[idx], Tail(key), value)
                          ELSE [st |-> newLeaf(Tail(key), value), puts |-> {}]
            IN  [st |-> newBranch([i \in DOMAIN st.ch \union {idx} |->
                           IF i = idx THEN child.st
                           ELSE IF elders # {} /\ i = Max(elders) THEN elder.st ELSE st.ch[i]]),
                 puts |-> child.puts \union (IF elders = {} THEN {} ELSE elder.puts)]
      [] st.type = "ext" ->
            LET diffidx == getDiffIndex(st, key)
                child   == stInsert(st.ch[0], SubSeq(key, diffidx + 1, Len(key)), value)
                old     == IF diffidx < Len(st.key) - 1
                           THEN newExt(SubSeq(st.key, diffidx + 2, Len(st.key)), st.ch[0])
                           ELSE st.ch[0]
            IN  IF diffidx = Len(st.key)
                THEN [st |-> newExt(st.key, child.st), puts |-> child.puts]
                ELSE Split(st, diffidx, old, key, value)
      [] st.type = "leaf" ->
            LET diffidx == getDiffIndex(st, key)
            IN  Split(st, diffidx, newLeaf(SubSeq(st.key, diffidx + 2, Len(st.key)), st.val),
                      key, value)

WithPuts(r, puts) == [st |-> r.st, puts |-> puts \union r.puts]

(* TryUpdate drops the terminator of the key. *)
stUpdate(acc, key, value) ==
    WithPuts(stInsert(acc.st, Front(keybytesToHex(key)), ValueNode(value)), acc.puts)

(* Hash and Commit: the root is hashed, and written, whatever its length.  *)
stHash(st) ==
    LET r == hashRec(st).st
    IN  IF r.val.kind = "hash" THEN r.val ELSE hashData(r.val)

stCommit(acc) ==
    LET r == hashRec(acc.st)
    IN  acc.puts \union r.puts \union (IF r.st.val.kind = "hash" THEN {} ELSE {hashData(r.st.val)})
=============================================================================
