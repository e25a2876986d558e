---------------------------- MODULE TrieDatabase ----------------------------
(***************************************************************************)
(* trie/database.go: the write layer between the tries and the disk.  It   *)
(* keeps dirty nodes in memory with the number of their parents, drops a   *)
(* node when its last parent goes (Dereference), flushes the oldest nodes  *)
(* when memory runs short (Cap) and moves a whole trie to disk (Commit).   *)
(* The operators take and return the database d; Cap and Commit are split  *)
(* where they write a batch and where they uncache what was written,       *)
(* because readers run in between.                                         *)
(*                                                                         *)
(* A content on disk is named by its hash, so the disk is a set of hashes. *)
(* The clean cache is left out (NewDatabase makes none).                   *)
(***************************************************************************)
EXTENDS TrieNodes

-----------------------------------------------------------------------------
(* Raw nodes: collapsed nodes without flags *)

simplifyNode(n) == encode(n)

RECURSIVE expandNode(_, _)

expandNode(h, n) ==
    CASE n.kind = "short" -> ShortNode(compactToHex(n.key), expandNode(Nil, n.val), Clean(h))
      [] n.kind = "full"  -> FullNode([i \in DOMAIN n.ch |-> expandNode(Nil, n.ch[i])], Clean(h))
      [] OTHER -> n

(* The hashes below a raw node, in the order of the walk *)
RECURSIVE forGatherChildren(_)
forGatherChildren(n) ==
    CASE n.kind = "short" -> forGatherChildren(n.val)
      [] n.kind = "full"  ->
            FlattenSeq([i \in 1..16 |-> IF i - 1 \in DOMAIN n.ch
                                        THEN forGatherChildren(n.ch[i - 1]) ELSE <<>>])
      [] n.kind = "hash"  -> <<n>>
      [] OTHER -> <<>>

-----------------------------------------------------------------------------
(* The cache.  The zero hash, Nil here, is the metaroot whose external     *)
(* children are the referenced roots.                                      *)

Metaroot == Nil

NoChildren == [h \in {} |-> 0]

cachedNode(raw, size, prev) ==
    [node |-> raw, size |-> size, parents |-> 0, hasMap |-> FALSE, children |-> NoChildren,
     flushPrev |-> prev, flushNext |-> Nil]

cachedNodeSize         == 96
cachedNodeChildrenSize == 48
ChildSize              == hashLen + 2

NewDatabase(disk, diskPreimages) ==
    [dirties |-> [h \in {Metaroot} |-> [cachedNode(Nil, 0, Nil) EXCEPT !.hasMap = TRUE]],
     oldest |-> Nil, newest |-> Nil, dirtiesSize |-> 0, childrenSize |-> 0,
     preimages |-> {}, disk |-> disk, diskPreimages |-> diskPreimages]

Dirty(d) == DOMAIN d.dirties \ {Metaroot}

(* The external children first, then the ones inside the node *)
forChilds(entry) == SetToSeq(DOMAIN entry.children) \o forGatherChildren(entry.node)

dbInsert(d, h, size, n) ==
    IF h \in DOMAIN d.dirties THEN d
    ELSE LET entry   == cachedNode(simplifyNode(n), size, d.newest)
             kids    == forChilds(entry)
             Parents(x) == Cardinality({i \in DOMAIN kids : kids[i] = x})
             counted == [x \in DOMAIN d.dirties \union {h} |->
                           IF x = h THEN entry
                           ELSE [d.dirties[x] EXCEPT !.parents = @ + Parents(x)]]
         IN  [d EXCEPT
                !.dirties = IF d.oldest = Nil THEN counted
                            ELSE [counted EXCEPT ![d.newest].flushNext = h],
                !.oldest = IF @ = Nil THEN h ELSE @,
                !.newest = h,
                !.dirtiesSize = @ + hashLen + size]

(* The node a reader gets, Nil when it is nowhere *)
node(d, h) ==
    IF h \in Dirty(d) THEN expandNode(h, d.dirties[h].node)
    ELSE IF h \in d.disk THEN decodeNode(h, h.of)
    ELSE Nil

HasNode(d, h) == h \in Dirty(d) \union d.disk

preimage(d, key) == key \in d.preimages \union d.diskPreimages

reference(d, child, parent) ==
    LET p == d.dirties[parent]
    IN  IF \/ child \notin Dirty(d)
           \/ p.hasMap /\ child \in DOMAIN p.children /\ parent # Metaroot
        THEN d
        ELSE LET known == child \in DOMAIN p.children
                 kids  == [x \in DOMAIN p.children \union {child} |->
                             IF x # child THEN p.children[x]
                             ELSE IF known THEN p.children[x] + 1 ELSE 1]
             IN  [d EXCEPT
                    !.dirties[parent].hasMap = TRUE,
                    !.dirties[parent].children = kids,
                    !.dirties[child].parents = @ + 1,
                    !.childrenSize = @ + (IF p.hasMap THEN 0 ELSE cachedNodeChildrenSize)
                                       + (IF known THEN 0 ELSE ChildSize)]

\* Mutant: a node in the middle of the list is cut out forwards only.
Unlink_Forwards(d, h) ==
    LET e == d.dirties[h]
    IN  CASE h = d.oldest ->
                [d EXCEPT !.oldest = e.flushNext, !.dirties[e.flushNext].flushPrev = Nil]
          [] h # d.oldest /\ h = d.newest ->
                [d EXCEPT !.newest = e.flushPrev, !.dirties[e.flushPrev].flushNext = Nil]
          [] OTHER -> [d EXCEPT !.dirties[e.flushPrev].flushNext = e.flushNext]

(* Take h off the flush-list; the metaroot's links are never read. *)
Unlink(d, h) ==
    LET e == d.dirties[h]
    IN  CASE h = d.oldest ->
                [d EXCEPT !.oldest = e.flushNext, !.dirties[e.flushNext].flushPrev = Nil]
          [] h # d.oldest /\ h = d.newest ->
                [d EXCEPT !.newest = e.flushPrev, !.dirties[e.flushPrev].flushNext = Nil]
          [] OTHER ->
                [d EXCEPT !.dirties[e.flushPrev].flushNext = e.flushNext,
                          !.dirties[e.flushNext].flushPrev = e.flushPrev]

Uncache(d, h) ==
    [d EXCEPT !.dirties = [x \in DOMAIN d.dirties \ {h} |-> d.dirties[x]],
              !.dirtiesSize = @ - (hashLen + d.dirties[h].size)]

DropChild(d, child, parent) ==
    LET p == d.dirties[parent]
    IN  IF child \notin DOMAIN p.children THEN d
        ELSE IF p.children[child] > 1
        THEN [d EXCEPT !.dirties[parent].children[child] = @ - 1]
        ELSE [d EXCEPT !.dirties[parent].children =
                          [x \in DOMAIN p.children \ {child} |-> p.children[x]],
                       !.childrenSize = @ - ChildSize]

RECURSIVE dereference(_, _, _)

\* Mutant: a child goes with the first of its parents.
dereference_FirstParent(d, child, parent) ==
    LET dropped == DropChild(d, child, parent)
        freed   == FoldLeft(LAMBDA acc, h : dereference(acc, h, child),
                            Unlink(dropped, child), forChilds(dropped.dirties[child]))
    IN  IF child \notin Dirty(d) THEN dropped ELSE Uncache(freed, child)

dereference(d, child, parent) ==
    LET dropped == DropChild(d, child, parent)
        left    == Max({0, d.dirties[child].parents - 1})
        alive   == [dropped EXCEPT !.dirties[child].parents = left]
        e       == alive.dirties[child]
        freed   == FoldLeft(LAMBDA acc, h : dereference(acc, h, child),
                            Unlink(alive, child), forChilds(e))
    IN  CASE child \notin Dirty(d) -> dropped
          [] child \in Dirty(d) /\ left > 0 -> alive
          [] OTHER -> [Uncache(freed, child) EXCEPT
                         !.childrenSize = @ - (IF e.hasMap THEN cachedNodeChildrenSize ELSE 0)]

Dereference(d, root) == dereference(d, root, Metaroot)

MapSize(e) == IF e.hasMap THEN cachedNodeChildrenSize + Cardinality(DOMAIN e.children) * ChildSize
              ELSE 0

Size(d) ==
    d.dirtiesSize + d.childrenSize + Cardinality(Dirty(d)) * cachedNodeSize
      - Cardinality(DOMAIN d.dirties[Metaroot].children) * ChildSize

-----------------------------------------------------------------------------
(* Cap and Commit *)

(* The nodes Cap writes: from the oldest on until the size is allowed.     *)
RECURSIVE CapFrom(_, _, _, _)
CapFrom(d, limit, size, h) ==
    IF size <= limit \/ h = Nil THEN <<>>
    ELSE LET e == d.dirties[h]
         IN  <<h>> \o CapFrom(d, limit,
                              size - (hashLen + e.size + cachedNodeSize) - MapSize(e), e.flushNext)

CapOrder(d, limit) == CapFrom(d, limit, Size(d), d.oldest)

(* Clear out the flushed nodes, a prefix of the flush-list. *)
CapUncache(d, flushed) ==
    LET Flush(acc, h) ==
            [Uncache(acc, h) EXCEPT !.oldest = acc.dirties[h].flushNext,
                                   !.childrenSize = @ - MapSize(acc.dirties[h])]
        done == FoldLeft(Flush, d, flushed)
    IN  IF done.oldest = Nil THEN done ELSE [done EXCEPT !.dirties[done.oldest].flushPrev = Nil]

(* The nodes Commit writes, children first *)
RECURSIVE CommitOrder(_, _)

\* Mutant: a node before its children.
CommitOrder_ParentFirst(d, h) ==
    IF h \notin Dirty(d) THEN <<>>
    ELSE <<h>> \o FlattenSeq([i \in DOMAIN forChilds(d.dirties[h]) |->
                                 CommitOrder(d, forChilds(d.dirties[h])[i])])

CommitOrder(d, h) ==
    IF h \notin Dirty(d) THEN <<>>
    ELSE Append(FlattenSeq([i \in DOMAIN forChilds(d.dirties[h]) |->
                               CommitOrder(d, forChilds(d.dirties[h])[i])]), h)

(* cleaner.Put *)
Put(d, h) ==
    IF h \notin Dirty(d) THEN d
    ELSE LET cut == Unlink(d, h)
         IN  [Uncache(cut, h) EXCEPT !.dirtiesSize = @ - MapSize(d.dirties[h])]

Replay(d, batch) == FoldLeft(Put, d, batch)
=============================================================================
