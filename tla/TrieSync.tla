------------------------------ MODULE TrieSync ------------------------------
(***************************************************************************)
(* trie/sync.go: the scheduler that downloads a trie node by node.  It     *)
(* hands out the hashes it misses (Missing), takes their contents in any   *)
(* order (Process), keeps a node back until everything below it is there,  *)
(* and writes finished nodes to the database (Commit).  Answers may be     *)
(* repeated, and may arrive after the process was restarted.               *)
(*                                                                         *)
(* The trie is a constant graph: Kids are the hashes inside a node, Subs   *)
(* the storage tries and codes the leaf callback registers for it.  Nodes  *)
(* and codes are different items.  Of a path only its length matters.      *)
(***************************************************************************)
EXTENDS Integers, Sequences, FiniteSets, FiniteSetsExt, SequencesExt

CONSTANTS
    Items,         \* the nodes and codes of the trie
    Codes,         \* the codes among them
    Root,          \* the root of the trie
    Kids,          \* a function: the sequence of hashes inside a node
    Subs,          \* a function: the sequence of items its leaf callback adds
    Depth,         \* a function: the length of the path of an item
    MaxFetches,    \* maxFetchesPerDepth
    MaxRestarts    \* bound: restarts of the process

ASSUME TrieSyncAssumption ==
    /\ Root \in Items \ Codes /\ Codes \subseteq Items
    /\ \A h \in Items : Range(Kids[h] \o Subs[h]) \subseteq Items
    /\ \A h \in Items : \A c \in Range(Kids[h] \o Subs[h]) : Depth[c] > Depth[h]
    /\ \A h \in Codes : Kids[h] \o Subs[h] = <<>>

VARIABLES
    database,   \* the items in the persistent database
    membatch,   \* the finished items not yet written
    reqs,       \* nodeReqs and codeReqs: the pending requests
    queue,      \* the hashes that Missing has not handed out
    fetches,    \* the handed out items per depth
    asked,      \* items this process has handed out
    answers,    \* items some peer has been asked for, now or before a restart
    restarts

vars == <<database, membatch, reqs, queue, fetches, asked, answers, restarts>>

Below(h) == Kids[h] \o Subs[h]

Depths == {Depth[h] : h \in Items}

Closed(S) == \A h \in S : Range(Below(h)) \subseteq S

request(parents) == [state |-> "wanted", parents |-> parents, deps |-> 0]

NoRequest == [state |-> "none", parents |-> <<>>, deps |-> 0]

Pending(s) == {h \in Items : s.reqs[h].state # "none"}

(* schedule: a request that is pending already only gets more parents.     *)
schedule(s, h, parents) ==
    IF s.reqs[h].state # "none"
    THEN [s EXCEPT !.reqs[h].parents = @ \o parents]
    ELSE [s EXCEPT !.reqs[h] = request(parents), !.queue = @ \union {h}]

Known(s, h) == h \in s.membatch \/ h \in database

(* A scheduler for the root: NewSync and AddSubTrie *)
NewSync(db) ==
    LET empty == [reqs |-> [h \in Items |-> NoRequest], queue |-> {}, membatch |-> {},
                  fetches |-> [d \in Depths |-> 0]]
    IN  IF Root \in db THEN empty ELSE schedule(empty, Root, <<>>)

Scheduler == [reqs |-> reqs, queue |-> queue, membatch |-> membatch, fetches |-> fetches]

SetScheduler(s) ==
    /\ reqs' = s.reqs /\ queue' = s.queue /\ membatch' = s.membatch /\ fetches' = s.fetches

(* The database may hold the complete parts of an earlier download.        *)
Init ==
    /\ database \in {S \in SUBSET Items : Closed(S)}
    /\ LET s == NewSync(database)
       IN  reqs = s.reqs /\ queue = s.queue /\ membatch = s.membatch /\ fetches = s.fetches
    /\ asked = {} /\ answers = {} /\ restarts = 0

-----------------------------------------------------------------------------

\* Mutant: the hashes nearest to the root first.
Missing_ShallowFirst ==
    \E h \in queue :
        /\ \A x \in queue : Depth[x] >= Depth[h]
        /\ fetches[Depth[h]] <= MaxFetches
        /\ queue' = queue \ {h}
        /\ fetches' = [fetches EXCEPT ![Depth[h]] = @ + 1]
        /\ asked' = asked \union {h}
        /\ answers' = answers \union ({h} \intersect Pending(Scheduler))
        /\ UNCHANGED <<database, membatch, reqs, restarts>>

(* Missing(1): the deepest hash of the queue, unless too many of its depth *)
(* are out.  A hash whose request is gone is asked for as a code, which no *)
(* peer has.                                                               *)
Missing ==
    \E h \in queue :
        /\ \A x \in queue : Depth[x] <= Depth[h]
        /\ fetches[Depth[h]] <= MaxFetches
        /\ queue' = queue \ {h}
        /\ fetches' = [fetches EXCEPT ![Depth[h]] = @ + 1]
        /\ asked' = asked \union {h}
        /\ answers' = answers \union ({h} \intersect Pending(Scheduler))
        /\ UNCHANGED <<database, membatch, reqs, restarts>>

RECURSIVE commit(_, _)

\* Mutant: a request that was merged into a pending one tells one parent only.
commit_OneParent(s, h) ==
    LET parents == s.reqs[h].parents
        done    == [s EXCEPT !.membatch = @ \union {h},
                             !.reqs[h] = NoRequest,
                             !.fetches[Depth[h]] = @ - 1]
        Tell(acc, p) ==
            LET told == [acc EXCEPT !.reqs[p].deps = @ - 1]
            IN  IF told.reqs[p].deps = 0 THEN commit(told, p) ELSE told
    IN  IF parents = <<>> THEN done ELSE Tell(done, parents[1])

(* commit: the item is finished, and so are the parents that waited for it *)
(* alone.                                                                  *)
commit(s, h) ==
    LET done == [s EXCEPT !.membatch = @ \union {h},
                          !.reqs[h] = NoRequest,
                          !.fetches[Depth[h]] = @ - 1]
        Tell(acc, p) ==
            LET told == [acc EXCEPT !.reqs[p].deps = @ - 1]
            IN  IF told.reqs[p].deps = 0 THEN commit(told, p) ELSE told
    IN  FoldLeft(Tell, done, s.reqs[h].parents)

\* Mutant: a child that is requested already is left out.
children_NotPending(s, h) ==
    SelectSeq(Below(h), LAMBDA c : ~Known(s, c) /\ c \notin Pending(s))

(* children, and the callback's AddSubTrie and AddCodeEntry: what is below *)
(* the node and not yet known                                              *)
children(s, h) == SelectSeq(Below(h), LAMBDA c : ~Known(s, c))

(* The content of a requested item *)
fill(s, h) ==
    LET new    == children(s, h)
        filled == [s EXCEPT !.reqs[h].state = "filled", !.reqs[h].deps = Len(new)]
    IN  IF new = <<>> THEN commit(filled, h)
        ELSE FoldLeft(LAMBDA acc, c : schedule(acc, c, <<h>>), filled, new)

(* Process: an item that is not requested, or was filled before, is        *)
(* refused and changes nothing.                                            *)
Process(h) ==
    /\ h \in answers
    /\ reqs[h].state = "wanted"
    /\ \E s \in {fill(Scheduler, h)} : SetScheduler(s)
    /\ UNCHANGED <<database, asked, answers, restarts>>

(* Commit and the write of the batch *)
Commit ==
    /\ membatch # {}
    /\ database' = database \union membatch
    /\ membatch' = {}
    /\ UNCHANGED <<reqs, queue, fetches, asked, answers, restarts>>

(* The process ends and a new one starts over from what is in the database *)
Restart ==
    /\ restarts < MaxRestarts
    /\ SetScheduler(NewSync(database))
    /\ asked' = {}
    /\ restarts' = restarts + 1
    /\ UNCHANGED <<database, answers>>

Next ==
    \/ Missing
    \/ \E h \in Items : Process(h)
    \/ Commit
    \/ Restart

(* The caller keeps asking and flushing, and every item that was asked for *)
(* is answered.                                                            *)
Fairness ==
    /\ WF_vars(Missing) /\ WF_vars(Commit)
    /\ WF_vars(\E h \in Items : Process(h))

Spec == Init /\ [][Next]_vars /\ Fairness

-----------------------------------------------------------------------------

TypeOK ==
    /\ database \subseteq Items /\ membatch \subseteq Items
    /\ queue \subseteq Items /\ asked \subseteq Items /\ answers \subseteq Items
    /\ DOMAIN reqs = Items
    /\ \A h \in Items : /\ reqs[h].state \in {"none", "wanted", "filled"} /\ reqs[h].deps \in Nat
                        /\ Range(reqs[h].parents) \subseteq Pending(Scheduler)
    /\ fetches \in [Depths -> Int]

(* Whatever is in the database has everything below it there too: a node   *)
(* that is found is never looked into again (Sync.commit waits for the     *)
(* dependencies), also when the process stops between two batches.         *)
StoredIsComplete == Closed(database) /\ Closed(database \union membatch)

(* A filled request waits for exactly the pending requests that name it as *)
(* a parent, so it is finished neither too early nor never (deps and       *)
(* parents of request).                                                    *)
DepsCounted ==
    \A h \in Items :
        /\ reqs[h].deps = Cardinality(UNION {{<<c, i>> : i \in {j \in DOMAIN reqs[c].parents : reqs[c].parents[j] = h}}
                               : c \in Items})
        /\ reqs[h].state = "filled" <=> reqs[h].deps > 0

(* The fetches of a depth are the pending requests that were handed out;   *)
(* an answer that came before its request was handed out is counted back   *)
(* when the queue reaches it (fetches in Missing and commit).              *)
FetchesCounted ==
    \A d \in Depths :
        LET At(S) == Cardinality({h \in S : Depth[h] = d})
        IN  fetches[d] = At(Pending(Scheduler) \ queue) - At(queue \ Pending(Scheduler))

(* Both counters are exact after answers that were repeated, reordered or  *)
(* late.                                                                   *)
CountersExact == DepsCounted /\ FetchesCounted

(* The download ends with the whole trie in the database.                  *)
SyncCompletes == <>(Root \in database)
=============================================================================
