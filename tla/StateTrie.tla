----------------------------- MODULE StateTrie -----------------------------
(***************************************************************************)
(* The life of a state trie over the trie database: a secure trie is       *)
(* updated, hashed and committed, every committed root is referenced, old  *)
(* roots are dereferenced, memory is capped and a root is moved to disk in *)
(* batches, a batch may fail and the process may crash and reopen a root   *)
(* from disk.  Keys are the hashed keys of the secure trie.                *)
(*                                                                         *)
(* content, saved, refs, durable and opened are history: what the trie     *)
(* should hold, what every committed root holds, the references the caller *)
(* has taken, the roots whose Commit to disk has finished, and what the    *)
(* trie held when it was last opened or committed.                         *)
(***************************************************************************)
EXTENDS TrieProof, TrieIterator

CONSTANTS
    Keys,         \* the keys, sequences of bytes of one length
    Entries,      \* the pairs of a key and a value that are written
    Probes,       \* keys of that length that are asked for but never stored
    Limits,       \* the memory limits Cap is called with
    BatchLen,     \* the nodes that fill a batch (IdealBatchSize)
    MaxCommits,   \* bound: commits of the trie
    MaxJobs,      \* bound: calls of Cap and of Commit
    MaxCrashes    \* bound: crashes

ASSUME StateTrieAssumption ==
    /\ \A k, l \in Keys \union Probes : Len(k) = Len(l)
    /\ Entries \subseteq Keys \X Values
    /\ BatchLen \in Nat \ {0}

VARIABLES root, content, opened, secKeyCache, db, job, saved, refs, durable, commits, jobs, crashes

vars == <<root, content, opened, secKeyCache, db, job, saved, refs, durable, commits, jobs, crashes>>

NoContent == [k \in {} |-> Nil]
NoJob     == [op |-> "none"]

Base == RootHash(root)

Live == {r \in DOMAIN refs : refs[r] > 0}

Init ==
    /\ root = Nil /\ content = NoContent /\ opened = NoContent /\ secKeyCache = {}
    /\ db = NewDatabase({}, {}) /\ job = NoJob
    /\ saved = [r \in {emptyRoot} |-> NoContent] /\ refs = [r \in {} |-> 0]
    /\ durable = {emptyRoot}
    /\ commits = 0 /\ jobs = 0 /\ crashes = 0

-----------------------------------------------------------------------------
(* The secure trie *)

With(c, k, v) == [x \in DOMAIN c \union {k} |-> IF x = k THEN v ELSE c[x]]
Without(c, k) == [x \in DOMAIN c \ {k} |-> c[x]]

(* SecureTrie.TryUpdate *)
Update(k, v) ==
    /\ job = NoJob /\ commits < MaxCommits
    /\ LET r == insert(db, root, keybytesToHex(k), ValueNode(v))
       IN  /\ ~r.err
           /\ root' = r.n
    /\ secKeyCache' = secKeyCache \union {k}
    /\ content' = With(content, k, ValueNode(v))
    /\ UNCHANGED <<opened, db, job, saved, refs, durable, commits, jobs, crashes>>

(* SecureTrie.TryDelete *)
Delete(k) ==
    /\ job = NoJob /\ commits < MaxCommits
    /\ LET r == delete(db, root, keybytesToHex(k))
       IN  /\ ~r.err
           /\ root' = r.n
    /\ secKeyCache' = secKeyCache \ {k}
    /\ content' = Without(content, k)
    /\ UNCHANGED <<opened, db, job, saved, refs, durable, commits, jobs, crashes>>

(* SecureTrie.TryGet: the nodes on the path stay loaded. *)
Get(k) ==
    /\ LET r == tryGet(db, root, keybytesToHex(k))
       IN  /\ ~r.err /\ r.didResolve
           /\ root' = r.n
    /\ UNCHANGED <<content, opened, secKeyCache, db, job, saved, refs, durable, commits, jobs, crashes>>

(* Trie.Hash *)
Hash ==
    /\ job = NoJob /\ commits < MaxCommits
    /\ root' = hashRoot(root).cached
    /\ UNCHANGED <<content, opened, secKeyCache, db, job, saved, refs, durable, commits, jobs, crashes>>

(* SecureTrie.Commit of the preimages and of the trie, after the storage   *)
(* tries of the accounts that changed and before the caller's reference to *)
(* the new root.                                                           *)
StorageTries(d) ==
    LET changed == {k \in DOMAIN content : k \notin DOMAIN opened \/ opened[k] # content[k]}
        nodes   == {StorageNode[content[k].v] : k \in changed} \ {Nil}
        Insert(acc, n) == dbInsert(acc, HashNode(n), estimateSize(n), n)
    IN  FoldLeft(Insert, d, SetToSeq(nodes))

Commit ==
    /\ job = NoJob /\ commits < MaxCommits
    /\ LET kept == [db EXCEPT !.preimages = @ \union secKeyCache]
           c    == CommitTrie(StorageTries(kept), root)
           r    == RootHash(c.n)
       IN  /\ root' = c.n
           /\ db' = IF r = emptyRoot THEN c.d ELSE reference(c.d, r, Metaroot)
           /\ saved' = [x \in DOMAIN saved \union {r} |-> IF x = r THEN content ELSE saved[x]]
           /\ refs' = [x \in DOMAIN refs \union {r} |->
                         IF x # r THEN refs[x] ELSE IF x \in DOMAIN refs THEN refs[x] + 1 ELSE 1]
    /\ secKeyCache' = {} /\ opened' = content
    /\ commits' = commits + 1
    /\ UNCHANGED <<content, job, durable, jobs, crashes>>

-----------------------------------------------------------------------------
(* The database *)

(* Database.Dereference of a root the caller holds; the caller keeps the   *)
(* root the trie was opened from or committed to.                          *)
DereferenceRoot(r) ==
    /\ job = NoJob
    /\ r \in Live /\ (refs[r] = 1 => saved[r] # opened)
    /\ db' = Dereference(db, r)
    /\ refs' = [refs EXCEPT ![r] = @ - 1]
    /\ UNCHANGED <<root, content, opened, secKeyCache, job, saved, durable, commits, jobs, crashes>>

(* Database.Cap: the nodes to flush are chosen from the oldest on.         *)
Cap(limit) ==
    /\ job = NoJob /\ jobs < MaxJobs /\ CapOrder(db, limit) # <<>>
    /\ job' = [op |-> "cap", todo |-> CapOrder(db, limit), batch |-> CapOrder(db, limit)]
    /\ jobs' = jobs + 1
    /\ UNCHANGED <<root, content, opened, secKeyCache, db, saved, refs, durable, commits, crashes>>

(* Database.Commit: the preimages are written first.                       *)
CommitRoot(r) ==
    /\ job = NoJob /\ jobs < MaxJobs /\ r \in Live /\ r \notin durable
    /\ db' = [db EXCEPT !.diskPreimages = @ \union db.preimages]
    /\ job' = [op |-> "commit", todo |-> CommitOrder(db, r), batch |-> <<>>, root |-> r]
    /\ jobs' = jobs + 1
    /\ UNCHANGED <<root, content, opened, secKeyCache, saved, refs, durable, commits, crashes>>

(* A batch is full, or the last nodes are in it, and it is written.        *)
WriteBatch ==
    /\ job # NoJob /\ job.todo # <<>>
    /\ job.op = "commit" => job.batch = <<>>
    /\ LET dirty == SelectSeq(job.todo, LAMBDA h : h \in Dirty(db))
           n     == Min({BatchLen, Len(dirty)})
       IN  /\ db' = [db EXCEPT !.disk = @ \union Range(Upto(dirty, n))]
           /\ job' = [job EXCEPT !.todo = From(dirty, n + 1),
                                 !.batch = IF job.op = "commit" THEN Upto(dirty, n) ELSE @]
    /\ UNCHANGED <<root, content, opened, secKeyCache, saved, refs, durable, commits, jobs, crashes>>

(* Commit uncaches a batch once it is on disk and ends with the last.      *)
ReplayBatch ==
    /\ job # NoJob /\ job.op = "commit" /\ (job.batch # <<>> \/ job.todo = <<>>)
    /\ LET clean == Replay(db, job.batch)
           ends  == job.todo = <<>>
       IN  /\ db' = IF ends THEN [clean EXCEPT !.preimages = {}] ELSE clean
           /\ job' = IF ends THEN NoJob ELSE [job EXCEPT !.batch = <<>>]
           /\ durable' = IF ends THEN durable \union {job.root} ELSE durable
    /\ UNCHANGED <<root, content, opened, secKeyCache, saved, refs, commits, jobs, crashes>>

(* Cap uncaches what it flushed when all of it is on disk.                 *)
EndCap ==
    /\ job # NoJob /\ job.op = "cap" /\ job.todo = <<>>
    /\ db' = CapUncache(db, job.batch)
    /\ job' = NoJob
    /\ UNCHANGED <<root, content, opened, secKeyCache, saved, refs, durable, commits, jobs, crashes>>

(* A batch cannot be written: Cap and Commit return the error.             *)
WriteFails ==
    /\ job # NoJob /\ job.todo # <<>>
    /\ job.op = "commit" => job.batch = <<>>
    /\ job' = NoJob
    /\ UNCHANGED <<root, content, opened, secKeyCache, db, saved, refs, durable, commits, jobs, crashes>>

(* The process ends; the next one opens a root whose Commit had finished   *)
(* with NewDatabase and New.                                               *)
Crash(r) ==
    /\ crashes < MaxCrashes /\ r \in durable
    /\ LET d == NewDatabase(db.disk, db.diskPreimages)
       IN  /\ db' = d
           /\ root' = IF r = emptyRoot THEN Nil ELSE node(d, r)
    /\ content' = saved[r] /\ opened' = saved[r]
    /\ secKeyCache' = {} /\ job' = NoJob
    /\ refs' = [x \in {} |-> 0]
    /\ crashes' = crashes + 1
    /\ UNCHANGED <<saved, durable, commits, jobs>>

Next ==
    \/ \E e \in Entries : Update(e[1], e[2])
    \/ \E k \in Keys : Delete(k) \/ Get(k)
    \/ Hash \/ Commit
    \/ \E r \in DOMAIN saved : DereferenceRoot(r) \/ CommitRoot(r) \/ Crash(r)
    \/ \E limit \in Limits : Cap(limit)
    \/ WriteBatch \/ ReplayBatch \/ EndCap \/ WriteFails

Spec == Init /\ [][Next]_vars

-----------------------------------------------------------------------------
(* The trie a content stands for, by its definition: one leaf for one key, *)
(* a short node for a common prefix, a full node where the keys differ.    *)

Common(S) == LET some == CHOOSE p \in S : TRUE
             IN  Min({prefixLen(some[1], p[1]) : p \in S})

RECURSIVE TrieOf(_)
TrieOf(S) ==
    LET one == CHOOSE p \in S : TRUE
        m   == Common(S)
        Below(i) == {<<Tail(p[1]), p[2]>> : p \in {q \in S : q[1][1] = i}}
    IN  CASE S = {} -> Nil
          [] Cardinality(S) = 1 -> IF one[1] = <<>> THEN one[2] ELSE ShortNode(one[1], one[2], newFlag)
          [] Cardinality(S) > 1 /\ m > 0 ->
                ShortNode(Upto(one[1], m), TrieOf({<<From(p[1], m + 1), p[2]>> : p \in S}), newFlag)
          [] OTHER -> FullNode([i \in {p[1][1] : p \in S} |-> TrieOf(Below(i))], newFlag)

Reference(c) == TrieOf({<<keybytesToHex(k), c[k]>> : k \in DOMAIN c})

Lookup(c, k) == IF k \in DOMAIN c THEN c[k] ELSE Nil

AllKeys == Keys \union Probes

Sorted(S) == SetToSortSeq(S, LAMBDA a, b : Compare(a, b) < 0)

(* The hashes below a hash that is stored, its storage trie included *)
RECURSIVE Below(_)
Below(e) ==
    CASE e.kind = "hash"  -> {e} \union Below(e.of)
      [] e.kind = "short" -> Below(e.val)
      [] e.kind = "full"  -> UNION {Below(e.ch[i]) : i \in DOMAIN e.ch}
      [] e.kind = "value" -> IF StorageNode[e.v] = Nil THEN {} ELSE {HashNode(StorageNode[e.v])}
      [] e.kind = "nil"   -> {}

Holds(r) == IF r = emptyRoot THEN {} ELSE Below(r)

-----------------------------------------------------------------------------
(* Properties *)

(* The root hash depends on the content alone: whatever updates, deletes,  *)
(* hashes, commits and reloads led there, the trie with its cached hashes  *)
(* hashes to the root of the trie its content defines (Trie.insert,        *)
(* Trie.delete, hasher.hash).                                              *)
RootIsCanonical == RootHash(root) = RootHash(Reference(content))

(* Every key reads back the value last written, through the nodes that     *)
(* are in memory, dirty or on disk (Trie.TryGet).                          *)
ReadsBack ==
    \A k \in AllKeys :
        LET r == tryGet(db, root, keybytesToHex(k))
        IN  ~r.err /\ r.value = Lookup(content, k)

(* No node of a root that is referenced, or that was moved to disk, is     *)
(* ever out of reach: not while Cap or Commit moves it, not after a        *)
(* dereference of another root that shares it, not after a failed write    *)
(* (Database.Dereference, Cap, Commit).                                    *)
LiveRootsReadable == \A r \in Live \union durable : Holds(r) \subseteq Dirty(db) \union db.disk

(* Whatever is on disk is there with everything below it, so a crash       *)
(* between two batches leaves no hole (the flush order of Cap and the      *)
(* children-first order of Commit), and the keys of a root moved to disk   *)
(* can be named: their preimages got there with it.                        *)
DiskIsClosed ==
    /\ \A h \in db.disk : Below(h) \subseteq db.disk
    /\ \A r \in durable : DOMAIN saved[r] \subseteq db.diskPreimages

(* The parents counted for a dirty node that is not yet on disk are the    *)
(* dirty nodes and roots that refer to it: fewer would free it too early,  *)
(* more would keep it forever (Database.insert, reference, dereference).   *)
ParentsCounted ==
    LET In(h, x) == LET kids == forGatherChildren(db.dirties[x].node)
                    IN  Cardinality({i \in DOMAIN kids : kids[i] = h})
                        + (IF h \in DOMAIN db.dirties[x].children THEN db.dirties[x].children[h] ELSE 0)
    IN  \A h \in Dirty(db) \ db.disk :
            db.dirties[h].parents = MapThenSumSet(LAMBDA x : In(h, x), DOMAIN db.dirties)

(* When the last reference goes, memory is given back: only nodes that are *)
(* on disk as well may stay behind (Database.Dereference).                 *)
NothingLeaks == Live \ {emptyRoot} = {} => Dirty(db) \subseteq db.disk

(* The flush-list links every dirty node once, both ways, and a node comes *)
(* after what it refers to unless that is on disk (Database.insert, Cap).  *)
FlushListWhole ==
    LET order == CapOrder(db, -1)
        At(h) == CHOOSE i \in DOMAIN order : order[i] = h
    IN  /\ Range(order) = Dirty(db) /\ Len(order) = Cardinality(Dirty(db))
        /\ \A i \in 2..Len(order) : db.dirties[order[i]].flushPrev = order[i - 1]
        /\ \A h \in Dirty(db) : \A c \in Range(forChilds(db.dirties[h])) :
              c \in db.disk \/ At(c) < At(h)

(* The size the database reports is the size of what it holds, after any   *)
(* mix of inserts, dereferences, caps and commits (Database.Size).         *)
SizeExact ==
    Size(db) = MapThenSumSet(
                  LAMBDA h : hashLen + db.dirties[h].size + cachedNodeSize + MapSize(db.dirties[h]),
                  Dirty(db))

(* A node read from memory is the node read from disk (expandNode and      *)
(* decodeNode).                                                            *)
SameFromDisk == \A h \in Dirty(db) : expandNode(h, db.dirties[h].node) = decodeNode(h, h.of)

(* The three of them: whatever was done to it, the trie holds its content, *)
(* in memory and as it will be read from disk.                             *)
HoldsContent == RootIsCanonical /\ ReadsBack /\ SameFromDisk

(* The four books the database keeps agree with what it holds after any    *)
(* mix of inserts, references, dereferences, caps, commits and failures:   *)
(* parents, memory, flush-list and size.                                   *)
BooksBalance == ParentsCounted /\ NothingLeaks /\ FlushListWhole /\ SizeExact

-----------------------------------------------------------------------------
(* What is read from a trie, for the tries of the run that were not yet    *)
(* flushed                                                                 *)

Inspected == jobs = 0 /\ crashes = 0 /\ commits < MaxCommits

(* The stack trie, fed the content in key order, has the same root and     *)
(* writes the same nodes as the trie (StackTrie.insert, hashRec).          *)
StackTrieAgrees ==
    Inspected =>
        LET st == FoldLeft(LAMBDA acc, k : stUpdate(acc, k, content[k].v),
                           [st |-> emptyNode, puts |-> {}], Sorted(DOMAIN content))
        IN  /\ stHash(st.st) = RootHash(root)
            /\ content # NoContent =>
                  stCommit(st) = Dirty(CommitTrie(NewDatabase({}, {}), Reference(content)).d)

(* The proof of a key gives its value, or that there is none, to whoever   *)
(* knows the root, and the proof made by an iterator at a leaf is the same *)
(* (Trie.Prove, VerifyProof, LeafProof).                                   *)
ProofsVerify ==
    Inspected /\ content # NoContent =>
        \A k \in AllKeys :
            LET p == Prove(db, root, k, 0)
                r == VerifyProof(RootHash(root), k, p.proof)
            IN  /\ ~p.err /\ ~r.err /\ r.value = Lookup(content, k)
                /\ k \in DOMAIN content =>
                      LeafProof(NextLeaf(newNodeIterator(db, root, k)).it) = p.proof

(* A node is found by its path, and nothing is found where no node is      *)
(* (Trie.TryGetNode on a committed trie); a node inside its parent has no  *)
(* hash to be found by.                                                    *)
RECURSIVE NodeAt(_, _)
NodeAt(n, path) ==
    CASE path = <<>> \/ n.kind \in {"nil", "value"} -> IF path = <<>> THEN n ELSE Nil
      [] path # <<>> /\ n.kind = "full"  -> NodeAt(Child(n, path[1]), Tail(path))
      [] path # <<>> /\ n.kind = "short" ->
            IF StartsWith(path, n.key) THEN NodeAt(n.val, From(path, Len(n.key) + 1)) ELSE Nil

NodesByPath ==
    Inspected /\ root.kind = "hash" =>
        \A k \in AllKeys : \A i \in 0..(2 * Len(k) + 1) :
            LET path == Upto(keybytesToHex(k), i)
                r    == tryGetNode(db, root, path)
                n    == NodeAt(Reference(content), path)
                h    == hash(n, i = 0).hashed
            IN  IF n = Nil THEN ~r.err /\ r.item = Nil
                ELSE IF h.kind = "hash" THEN ~r.err /\ r.item = h
                ELSE r.err

Between(first, last) == {k \in AllKeys : Compare(first, k) <= 0 /\ Compare(k, last) <= 0}

(* What is claimed of the keys S: any values for any of them; what the     *)
(* trie holds of them with one value empty, an extra key with none, one    *)
(* value too few, and in the wrong order.                                  *)
Batch(f) == LET ks == Sorted(DOMAIN f) IN [keys |-> ks, values |-> [i \in DOMAIN ks |-> f[ks[i]]]]

Held(S) == [k \in S \intersect DOMAIN content |-> content[k].v]

Claims(S) ==
    LET true == Batch(Held(S))
    IN  {Batch(f) : f \in UNION {[T -> Values] : T \in SUBSET S}}
        \union {Batch([Held(S) EXCEPT ![k] = NoValue]) : k \in S \intersect DOMAIN content}
        \union {Batch(Held(S) @@ (k :> NoValue)) : k \in S \ DOMAIN content}
        \union {[true EXCEPT !.values = SubSeq(@, 2, Len(@))]}
        \union {[keys |-> Reverse(true.keys), values |-> Reverse(true.values)]}

(* Accepted is what the trie holds of the keys S, and nothing else.        *)
AnswerIsRight(claim, S, r, more) ==
    /\ r.err = (claim # Batch(Held(S)))
    /\ ~r.err => r.more = more

(* A range proof is accepted for what the trie holds between two edges,    *)
(* says whether more follows, and is refused for any other claim about     *)
(* keys between the edges; a claim of nothing is accepted only when        *)
(* nothing follows.  With equal edges only the one key can be claimed, and *)
(* without a proof only the whole trie (VerifyRangeProof).                 *)
RangeProofsExact ==
    Inspected =>
        /\ \A claim \in Claims(Keys) :
              AnswerIsRight(claim, Keys,
                  VerifyRangeProof(RootHash(root), <<>>, <<>>, claim.keys, claim.values, NoProof), FALSE)
        /\ content # NoContent =>
              \A first, last \in AllKeys : Compare(first, last) <= 0 =>
                  LET proof == Prove(db, root, first, 0).proof \union Prove(db, root, last, 0).proof
                      S     == Between(first, last) \intersect Keys
                      after == {x \in DOMAIN content : Compare(x, last) > 0}
                  IN  \A claim \in Claims(IF first = last THEN Keys ELSE S) :
                        LET r == VerifyRangeProof(RootHash(root), first, last, claim.keys, claim.values, proof)
                        IN  IF claim.keys = <<>> THEN r.err = (Held(S) # <<>> \/ after # {})
                            ELSE AnswerIsRight(claim, S, r, after # {})

(* An iterator started at any key delivers what the trie holds from there  *)
(* on, in key order and once (nodeIterator.seek, Next).                    *)
IteratesInOrder ==
    Inspected =>
        \A start \in AllKeys :
            LET from == Sorted({k \in DOMAIN content : Compare(start, k) <= 0})
            IN  Leaves(newNodeIterator(db, root, start)) =
                    [i \in DOMAIN from |-> <<from[i], content[from[i]]>>]

Pairs(c)      == {<<k, c[k]>> : k \in DOMAIN c}
Lists(seq, S) == Range(seq) = S /\ Len(seq) = Cardinality(S)

(* The difference iterator delivers what the trie holds and an earlier     *)
(* root did not, the union iterator what either holds, each once.          *)
DifferencesRight ==
    Inspected =>
        \A r \in Live :
            LET Zero  == [i \in 1..Len(CHOOSE k \in Keys : TRUE) |-> 0]
                now   == newNodeIterator(db, root, Zero)
                then  == newNodeIterator(db, IF r = emptyRoot THEN Nil ELSE r, Zero)
            IN  /\ Lists(DifferenceLeaves(NewDifferenceIterator(then, now)), Pairs(content) \ Pairs(saved[r]))
                /\ Lists(UnionLeaves(<<then, now>>), Pairs(content) \union Pairs(saved[r]))

(* All that read or build a trie in another way agree with its content:    *)
(* the stack trie, nodes by path, and the iterators.                       *)
ReadersAgree == StackTrieAgrees /\ NodesByPath /\ IteratesInOrder /\ DifferencesRight

(* Proofs of single keys and of ranges prove what the trie holds, nothing  *)
(* else, and nothing less.                                                 *)
ProofsExact == ProofsVerify /\ RangeProofsExact
=============================================================================
