---------------------------- MODULE TrieIterator ----------------------------
(***************************************************************************)
(* trie/iterator.go: the pre-order walk over the nodes of a trie, with the *)
(* seek to a start key, and the two iterators built from it: the nodes of  *)
(* one trie that another lacks and the union of several tries.  An         *)
(* iterator it is a record; Next returns the iterator after the step and   *)
(* whether there was one.                                                  *)
(***************************************************************************)
EXTENDS Trie

State(n, h, parent, index, pathlen) ==
    [n |-> n, hash |-> h, parent |-> parent, index |-> index, pathlen |-> pathlen]

Top(it)   == it.stack[Len(it.stack)]
itHash(it) == IF it.stack = <<>> THEN Nil ELSE Top(it).hash
Leaf(it)  == hasTerm(it.path)
LeafKey(it)  == hexToKeybytes(it.path)
LeafBlob(it) == Top(it).n

pop(it) == [it EXCEPT !.path = Upto(it.path, Top(it).pathlen), !.stack = Front(it.stack)]

push(it, state, path) == [it EXCEPT !.stack = Append(@, state), !.path = path]

(* resolve: a hash is replaced by its node; ok is FALSE when it is missing *)
resolve(it, state) ==
    IF state.n.kind # "hash" THEN [state |-> state, ok |-> TRUE]
    ELSE IF ~HasNode(it.d, state.n) THEN [state |-> state, ok |-> FALSE]
    ELSE [state |-> [state EXCEPT !.n = node(it.d, state.n), !.hash = state.n], ok |-> TRUE]

(* What peek and peekSeek return: the iterator with the child pushed, and  *)
(* whether there was one and it could be loaded.                           *)
Found(it, r, path)  == [found |-> TRUE, path |-> path, it |-> push(it, r.state, path), ok |-> r.ok]
NotFound(it)        == [found |-> FALSE, path |-> <<>>, it |-> it, ok |-> TRUE]

(* findChild: the children that are left of the node of a state *)
Kids(p) ==
    CASE p.n.kind = "full"  -> {i \in DOMAIN p.n.ch : i > p.index}
      [] p.n.kind = "short" -> IF p.index < 0 THEN {0} ELSE {}
      [] OTHER -> {}

(* The child nextChild and nextChildAt choose.  Without a key it is the    *)
(* next one; with a key the last one whose path is below the key, or the   *)
(* next one if none is.                                                    *)
NextIndex(kids, path, key) ==
    LET below == {i \in kids : Compare(Append(path, i), key) < 0}
    IN  IF below = {} THEN Min(kids) ELSE Max(below)

(* Child i of the node of p, the top of the stack, pushed; the index of    *)
(* that node moves to the child (the decrement of the code and the         *)
(* increment of push in one).                                              *)
ChildState(it, p, child) ==
    State(child, cache(child).hash, IF p.hash = Nil THEN p.parent ELSE p.hash, -1, Len(it.path))

nextChild(it, p, i) ==
    Found([it EXCEPT !.stack[Len(it.stack)].index = i],
          resolve(it, ChildState(it, p, IF p.n.kind = "full" THEN p.n.ch[i] ELSE p.n.val)),
          it.path \o (IF p.n.kind = "full" THEN <<i>> ELSE p.n.key))

(* peek and peekSeek: up the stack until a node has a next child.          *)
RECURSIVE Climb(_, _, _)
Climb(it, seeking, key) ==
    IF it.stack = <<>> THEN NotFound(it)
    ELSE LET p == Top(it)
         IN  IF Kids(p) = {} THEN Climb(pop(it), seeking, key)
             ELSE nextChild(it, p, IF p.n.kind = "full" /\ seeking THEN NextIndex(Kids(p), it.path, key)
                                   ELSE Min(Kids(p)))

init(it) == Found(it, resolve(it, State(it.root, RootHash(it.root), Nil, -1, 0)), <<>>)

peek(it, descend) ==
    IF it.stack = <<>> THEN init(it)
    ELSE Climb(IF descend THEN it ELSE pop(it), FALSE, <<>>)

peekSeek(it, key) ==
    IF it.stack = <<>> THEN init(it)
    ELSE Climb(IF StartsWith(key, it.path) THEN it ELSE pop(it), TRUE, key)

(* The iterator when the child is not taken: the steps up the stack stay,  *)
(* and the parent's index is just before the child.                        *)
Unpush(it) ==
    LET back == [it EXCEPT !.stack = Front(@), !.path = Upto(@, Top(it).pathlen)]
    IN  IF back.stack = <<>> THEN back ELSE [back EXCEPT !.stack[Len(back.stack)].index = @ - 1]

(* seek stops just before the first node at or after the key.              *)
RECURSIVE SeekOn(_, _)
SeekOn(c, key) ==
    CASE ~c.found -> [c.it EXCEPT !.err = "end"]
      [] c.found /\ ~c.ok -> [Unpush(c.it) EXCEPT !.err = "seek"]
      [] OTHER -> IF Compare(c.path, key) >= 0 THEN [Unpush(c.it) EXCEPT !.err = "none"]
                  ELSE SeekOn(peekSeek(c.it, key), key)

seek(it, key) == SeekOn(peekSeek(it, key), key)

newNodeIterator(d, root, start) ==
    LET it == [d |-> d, root |-> root, stack |-> <<>>, path |-> <<>>, err |-> "none",
               key |-> Front(keybytesToHex(start))]
    IN  IF root = Nil THEN [it EXCEPT !.err = "end"] ELSE seek(it, it.key)

(* Next of a node iterator: a failed seek is tried again, and so is the    *)
(* step that met a missing node.                                           *)
Stepped(c) ==
    CASE ~c.found -> [it |-> [c.it EXCEPT !.err = "end"], more |-> FALSE]
      [] c.found /\ ~c.ok -> [it |-> [Unpush(c.it) EXCEPT !.err = "missing"], more |-> FALSE]
      [] OTHER -> [it |-> [c.it EXCEPT !.err = "none"], more |-> TRUE]

StepFrom(s, descend) ==
    IF s.err \in {"end", "seek"} THEN [it |-> s, more |-> FALSE] ELSE Stepped(peek(s, descend))

NextNode(it, descend) == StepFrom(IF it.err = "seek" THEN seek(it, it.key) ELSE it, descend)

(* Iterator.Next over and over: the key/value pairs in the order they are  *)
(* delivered                                                               *)
Pair(it) == <<LeafKey(it), LeafBlob(it)>>

(* LeafProof: the nodes on the stack that are stored under a hash *)
LeafProof(it) == UNION {ProofOf(proofHash(it.stack[i].n), i = 1) : i \in 1..(Len(it.stack) - 1)}

RECURSIVE ToLeaf(_)
ToLeaf(r) == IF r.more /\ ~Leaf(r.it) THEN ToLeaf(NextNode(r.it, TRUE)) ELSE r

NextLeaf(it) == ToLeaf(NextNode(it, TRUE))

RECURSIVE LeavesFrom(_)
LeavesFrom(r) == IF r.more THEN <<Pair(r.it)>> \o LeavesFrom(NextLeaf(r.it)) ELSE <<>>

Leaves(it) == LeavesFrom(NextLeaf(it))

-----------------------------------------------------------------------------
(* The order of two iterators.  The order of two different hashes, or of   *)
(* two values, is whatever keccak or the bytes make it: any fixed one.     *)

AnyOrder(x, y) ==
    IF x = y THEN 0 ELSE IF x = Nil THEN -1 ELSE IF y = Nil THEN 1
    ELSE IF x = CHOOSE z \in {x, y} : TRUE THEN -1 ELSE 1

\* Mutant: two nodes at one path are the same.
compareNodes_PathOnly(a, b) == Compare(a.path, b.path)

compareNodes(a, b) ==
    LET paths == Compare(a.path, b.path)
    IN  IF paths # 0 THEN paths
        ELSE IF Leaf(a) # Leaf(b) THEN (IF Leaf(a) THEN -1 ELSE 1)
        ELSE IF itHash(a) # itHash(b) THEN AnyOrder(itHash(a), itHash(b))
        ELSE IF Leaf(a) THEN AnyOrder(LeafBlob(a), LeafBlob(b)) ELSE 0

(* differenceIterator.Next: the nodes of b that a does not have; an and bn *)
(* are what Next of the two returned.                                      *)
RECURSIVE SkipCommon(_, _)
SkipLess(an, b) ==
    IF an.more THEN SkipCommon(an.it, b) ELSE [a |-> an.it, b |-> b, eof |-> TRUE, more |-> TRUE]

SkipEqual(a, an, bn) ==
    CASE ~bn.more -> [a |-> a, b |-> bn.it, eof |-> FALSE, more |-> FALSE]
      [] bn.more  -> SkipLess(an, bn.it)

SkipCommon(a, b) ==
    LET order   == compareNodes(a, b)
        descend == itHash(a) = Nil
    IN  CASE order = 1  -> [a |-> a, b |-> b, eof |-> FALSE, more |-> TRUE]
          [] order = -1 -> SkipLess(NextNode(a, TRUE), b)
          [] order = 0  -> SkipEqual(a, NextNode(a, descend), NextNode(b, descend))

DifferenceStep(di, bn) ==
    IF ~bn.more THEN [di EXCEPT !.b = bn.it, !.more = FALSE]
    ELSE IF di.eof THEN [di EXCEPT !.b = bn.it]
    ELSE SkipCommon(di.a, bn.it)

DifferenceNext(di) == DifferenceStep(di, NextNode(di.b, TRUE))

PairIfLeaf(it) == IF Leaf(it) THEN <<Pair(it)>> ELSE <<>>

RECURSIVE DifferenceFrom(_)
DifferenceFrom(r) == IF ~r.more THEN <<>> ELSE PairIfLeaf(r.b) \o DifferenceFrom(DifferenceNext(r))

DifferenceLeaves(di) == DifferenceFrom(DifferenceNext(di))

NewDifferenceIterator(a, b) == [a |-> NextNode(a, TRUE).it, b |-> b, eof |-> FALSE, more |-> TRUE]

(* unionIterator.Next: items is the heap, as a sequence without order.     *)
Least(items) ==
    CHOOSE i \in DOMAIN items : \A j \in DOMAIN items : compareNodes(items[i], items[j]) <= 0

Drop(items, i) == SubSeq(items, 1, i - 1) \o SubSeq(items, i + 1, Len(items))

PushBack(items, r) == IF r.more THEN Append(items, r.it) ELSE items

Advance(items, it, descend) == PushBack(items, NextNode(it, descend))

RECURSIVE SkipSame(_, _, _)
SkipSame(items, least, descend) ==
    IF items = <<>> THEN items
    ELSE LET i == Least(items)
             s == items[i]
         IN  IF (~descend /\ StartsWith(s.path, least.path)) \/ compareNodes(least, s) = 0
             THEN SkipSame(Advance(Drop(items, i), s, itHash(s) = Nil), least, descend)
             ELSE items

UnionNext(items, descend) ==
    LET i == Least(items)
    IN  Advance(SkipSame(Drop(items, i), items[i], descend), items[i], descend)

RECURSIVE UnionFrom(_)
UnionFrom(items) ==
    IF items = <<>> THEN <<>>
    ELSE PairIfLeaf(items[Least(items)]) \o UnionFrom(UnionNext(items, TRUE))

UnionLeaves(items) == IF items = <<>> THEN <<>> ELSE UnionFrom(UnionNext(items, TRUE))
=============================================================================
