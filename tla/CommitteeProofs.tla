--------------------------- MODULE CommitteeProofs ---------------------------
(***************************************************************************)
(* The safety of a committee.  Of the workers of a node, for any number of *)
(* workers and reconfigurations, with and without a close at any moment.   *)
(* And of the rounds in which it agrees, for committees of any size, nodes *)
(* that do not exist, and any number of rounds and reconfigurations, when  *)
(* no message of a round outlives one.                                     *)
(***************************************************************************)
EXTENDS Worker, Pbft, FiniteSetTheorems, TLAPS

\* A worker that was not created yet.
Fresh(w) == at[w] = "none" /\ ~startCh[w] /\ ~timer[w] /\ exitCh[w] = 0

\* A worker that has exited, or is on its way to find what it is told by exitCh.
Ended(w) == at[w] = "exited" \/ (at[w] \in {"clear", "select"} /\ exitCh[w] = 1)

Created    == closing <= worker /\ \A w \in Workers : w > worker => Fresh(w)
OnlyTheOne == \A w \in Workers : at[w] \in Making \cup {"init"} => w = worker /\ reconfig = "none"
OldEnded   == \A w \in Workers :
                  w < worker \/ (w = worker /\ reconfig \in {"asked", "follows"}) => Ended(w)
ToldToExit == \A w \in Workers : at[w] \in {"init", "clear"} => exitCh[w] = 1
NotStarted == reconfig = "starts" =>
                  at[worker] \in {"select", "exited"} /\ ~startCh[worker] /\ ~timer[worker]
ToldByClose == \A w \in Workers : at[w] \in Making /\ exitCh[w] = 1 => ~running[w]
Closing    == /\ closer = "close" /\ at[closing] \in Making => ~running[closing]
              /\ closer = "closed" => at[closing] = "exited"

\* The inductive invariant.
WorkerInv ==
    /\ TypeOK /\ Created /\ OnlyTheOne /\ OldEnded /\ ToldToExit /\ NotStarted
    /\ ToldByClose /\ Closing /\ AgreedUnlessClosed

-----------------------------------------------------------------------------
(* Every step keeps it.                                                     *)

\* A worker exits.
LEMMA SelectExitKeeps ==
    ASSUME WorkerInv, NEW w \in Workers, selectExit(w)
    PROVE  WorkerInv'
  <1>1. TypeOK'
    BY DEF WorkerInv, TypeOK, selectExit, Goto, rest
  <1>2. /\ Created' /\ OnlyTheOne' /\ OldEnded' /\ ToldToExit'
        /\ NotStarted' /\ ToldByClose' /\ Closing' /\ AgreedUnlessClosed'
    BY WorkerAssumption DEF WorkerInv, TypeOK, selectExit, Goto, rest, Workers, Making,
            Created, Fresh, OnlyTheOne, OldEnded, Ended, ToldToExit, NotStarted,
            ToldByClose, Closing, AgreedUnlessClosed
  <1> QED
    BY <1>1, <1>2, Zenon DEF WorkerInv

\* A worker finds that it is started.
LEMMA SelectStartKeeps ==
    ASSUME WorkerInv, NEW w \in Workers, selectStart(w)
    PROVE  WorkerInv'
  <1>1. TypeOK'
    BY Zenon DEF WorkerInv, TypeOK, selectStart, rest, Workers
  <1>2. /\ Created' /\ OnlyTheOne' /\ OldEnded' /\ ToldToExit'
        /\ NotStarted' /\ ToldByClose' /\ Closing' /\ AgreedUnlessClosed'
    BY DEF WorkerInv, selectStart, rest, Created, Fresh, OnlyTheOne, OldEnded, Ended,
       ToldToExit, NotStarted, ToldByClose, Closing, AgreedUnlessClosed
  <1> QED
    BY <1>1, <1>2, Zenon DEF WorkerInv

\* A worker begins a block: it is the current one, as all before it find exitCh first.
LEMMA SelectTimerKeeps ==
    ASSUME WorkerInv, NEW w \in Workers, selectTimer(w)
    PROVE  WorkerInv'
  <1>1. TypeOK'
    BY DEF WorkerInv, TypeOK, selectTimer, Goto, rest, Making
  <1>2. /\ Created' /\ OldEnded' /\ ToldToExit' /\ NotStarted'
        /\ ToldByClose' /\ Closing' /\ AgreedUnlessClosed'
    BY DEF WorkerInv, TypeOK, selectTimer, Goto, rest, Making, Created, Fresh, OldEnded, Ended,
       ToldToExit, NotStarted, ToldByClose, Closing, AgreedUnlessClosed
  <1>3. OnlyTheOne'
    BY WorkerAssumption DEF WorkerInv, TypeOK, selectTimer, Goto, rest, Workers, Making,
            OnlyTheOne, Created, Fresh, OldEnded, Ended, NotStarted
  <1> QED
    BY <1>1, <1>2, <1>3, Zenon DEF WorkerInv

\* A block given up for exitCh is of a worker that close has stopped.
LEMMA CommitKeeps ==
    ASSUME WorkerInv, NEW w \in Workers, NEW agreed \in BOOLEAN, commit(w, agreed)
    PROVE  WorkerInv'
  <1>1. TypeOK'
    <2>1. [by |-> w, agreed |-> agreed, stopped |-> ~running[w]]
              \in [by : Workers, agreed : BOOLEAN, stopped : BOOLEAN]
      BY Zenon
    <2>2. added' \subseteq [by : Workers, agreed : BOOLEAN, stopped : BOOLEAN]
      BY <2>1, Zenon DEF WorkerInv, TypeOK, commit
    <2> QED
      BY <2>2, Zenon DEF WorkerInv, TypeOK, commit, rest, Goto, Making
  <1>2. /\ Created' /\ OnlyTheOne' /\ OldEnded' /\ ToldToExit'
        /\ NotStarted' /\ ToldByClose' /\ Closing'
    BY DEF WorkerInv, commit, Goto, rest, Making, Created, Fresh, OnlyTheOne, OldEnded, Ended,
       ToldToExit, NotStarted, ToldByClose, Closing
  <1>3. AgreedUnlessClosed'
    <2> DEFINE block == [by |-> w, agreed |-> agreed, stopped |-> ~running[w]]
    <2>2. ~agreed => ~running[w]
      BY DEF WorkerInv, ToldByClose, commit, Making, TypeOK
    <2>3. block.agreed \/ block.stopped
      BY <2>2, Zenon
    <2> QED
      BY <2>3, Zenon DEF WorkerInv, AgreedUnlessClosed, commit
  <1> QED
    BY <1>1, <1>2, <1>3, Zenon DEF WorkerInv

\* The TB is signed.
LEMMA BroadcastTbInCommitteeKeeps ==
    ASSUME WorkerInv, NEW w \in Workers, broadcastTbInCommittee(w)
    PROVE  WorkerInv'
  <1>1. TypeOK'
    BY Zenon DEF WorkerInv, TypeOK, broadcastTbInCommittee, Goto, rest, Making
  <1>2. /\ Created' /\ OnlyTheOne' /\ OldEnded' /\ ToldToExit'
        /\ NotStarted' /\ ToldByClose' /\ Closing' /\ AgreedUnlessClosed'
    BY DEF WorkerInv, broadcastTbInCommittee, Goto, rest, Workers, Making, Created, Fresh,
       OnlyTheOne, OldEnded, Ended, ToldToExit, NotStarted, ToldByClose, Closing,
       AgreedUnlessClosed
  <1> QED
    BY <1>1, <1>2, Zenon DEF WorkerInv

\* The worker that ends puts the element into its own exitCh.
LEMMA NewBlockGeneratedKeeps ==
    ASSUME WorkerInv, NEW w \in Workers, NewBlockGenerated(w)
    PROVE  WorkerInv'
  <1>1. TypeOK'
    <2>2. timer' \in [Workers -> BOOLEAN]
      BY Zenon DEF WorkerInv, TypeOK, NewBlockGenerated
    <2> QED
      BY <2>2 DEF WorkerInv, TypeOK, NewBlockGenerated, rest, Goto
  <1>2. /\ Created' /\ OnlyTheOne' /\ OldEnded' /\ NotStarted'
        /\ Closing' /\ AgreedUnlessClosed'
    BY DEF WorkerInv, TypeOK, NewBlockGenerated, Goto, rest, Making, Created, Fresh,
       OnlyTheOne, OldEnded, Ended, NotStarted, Closing, AgreedUnlessClosed
  <1>3. ToldToExit'
    BY DEF WorkerInv, TypeOK, NewBlockGenerated, Goto, Making, ToldToExit, OnlyTheOne
  <1>4. ToldByClose'
    BY DEF WorkerInv, TypeOK, NewBlockGenerated, Goto, Making, ToldByClose, OnlyTheOne
  <1> QED
    BY <1>1, <1>2, <1>3, <1>4, Zenon DEF WorkerInv

\* From here on this worker is an old one.
LEMMA InitReconfigKeeps ==
    ASSUME WorkerInv, NEW w \in Workers, InitReconfig(w)
    PROVE  WorkerInv'
  <1>2. /\ Created' /\ OnlyTheOne' /\ ToldToExit' /\ NotStarted'
        /\ ToldByClose' /\ Closing' /\ AgreedUnlessClosed'
    BY WorkerAssumption DEF WorkerInv, TypeOK, InitReconfig, Goto, Workers, Making,
            Created, Fresh, OnlyTheOne, ToldToExit, NotStarted, ToldByClose, Closing,
            AgreedUnlessClosed
  <1>3. OldEnded'
    BY DEF WorkerInv, TypeOK, InitReconfig, Goto, Workers, Making, OldEnded, Ended, Created,
       Fresh, ToldToExit
  <1> QED
    BY <1>2, <1>3, Zenon DEF WorkerInv, TypeOK, InitReconfig, Goto, Workers

\* The old worker returns to its loop.
LEMMA ClearToReconfigKeeps ==
    ASSUME WorkerInv, NEW w \in Workers, clearToReconfig(w)
    PROVE  WorkerInv'
  <1>2. /\ Created' /\ OnlyTheOne' /\ OldEnded' /\ ToldToExit'
        /\ NotStarted' /\ ToldByClose' /\ Closing' /\ AgreedUnlessClosed'
    BY DEF WorkerInv, clearToReconfig, Goto, Workers, Making, Created, Fresh, OnlyTheOne,
       OldEnded, Ended, ToldToExit, NotStarted, ToldByClose, Closing, AgreedUnlessClosed
  <1> QED
    BY <1>2, Zenon DEF WorkerInv, TypeOK, clearToReconfig, Goto, Workers, Making

\* A TBBlock calls for a reconfiguration.
LEMMA AddTBsKeeps ==
    ASSUME WorkerInv, AddTBs
    PROVE  WorkerInv'
  <1>2. /\ Created' /\ OnlyTheOne' /\ OldEnded' /\ ToldToExit'
        /\ NotStarted' /\ ToldByClose' /\ Closing' /\ AgreedUnlessClosed'
    BY DEF WorkerInv, TypeOK, AddTBs, Workers, Making, Created, Fresh, OnlyTheOne, OldEnded,
       Ended, ToldToExit, NotStarted, ToldByClose, Closing, AgreedUnlessClosed
  <1> QED
    BY <1>2, WorkerAssumption DEF WorkerInv, TypeOK, AddTBs, Workers, Making

\* Another leader does.
LEMMA HandleLeaderInitReconfigKeeps ==
    ASSUME WorkerInv, HandleLeaderInitReconfig
    PROVE  WorkerInv'
  <1>2. /\ Created' /\ OnlyTheOne' /\ OldEnded' /\ ToldToExit'
        /\ NotStarted' /\ ToldByClose' /\ Closing' /\ AgreedUnlessClosed'
    BY DEF WorkerInv, TypeOK, HandleLeaderInitReconfig, Workers, Making, Created, Fresh,
       OnlyTheOne, OldEnded, Ended, ToldToExit, NotStarted, ToldByClose, Closing,
       AgreedUnlessClosed
  <1> QED
    BY <1>2, Zenon DEF WorkerInv, TypeOK, HandleLeaderInitReconfig, Workers, Making

\* The next worker is created, if the node leads.
LEMMA EndReconfigKeeps ==
    ASSUME WorkerInv, NEW leads \in BOOLEAN, EndReconfig(leads)
    PROVE  WorkerInv'
  <1>1. TypeOK'
    <2>2. at' \in [Workers -> {"none", "select", "init", "clear", "exited"} \cup Making]
      BY Zenon DEF WorkerInv, TypeOK, EndReconfig, Goto
    <2>3. reconfig' \in {"none", "follows", "asked", "starts"} /\ to_reconfig' \in BOOLEAN
      BY Zenon DEF EndReconfig
    <2> QED
      BY <2>2, <2>3, WorkerAssumption DEF WorkerInv, TypeOK, EndReconfig, Workers
  <1>2. /\ Created' /\ OnlyTheOne' /\ OldEnded' /\ ToldToExit'
        /\ ToldByClose' /\ AgreedUnlessClosed'
    BY WorkerAssumption DEF WorkerInv, TypeOK, EndReconfig, Goto, Workers, Making,
            Created, Fresh, OnlyTheOne, OldEnded, Ended, ToldToExit, ToldByClose,
            AgreedUnlessClosed
  <1>3. NotStarted'
    BY WorkerAssumption DEF WorkerInv, TypeOK, EndReconfig, Goto, Workers, Making,
            NotStarted, Created, Fresh
  <1>4. Closing'
    BY WorkerAssumption DEF WorkerInv, TypeOK, EndReconfig, Goto, Workers, Making, Closing,
       Created
  <1> QED
    BY <1>1, <1>2, <1>3, <1>4, Zenon DEF WorkerInv

\* The worker is started; it makes no block yet.
LEMMA StartWorkerKeeps ==
    ASSUME WorkerInv, StartWorker
    PROVE  WorkerInv'
  <1>2. /\ Created' /\ OnlyTheOne' /\ OldEnded' /\ ToldToExit'
        /\ NotStarted' /\ AgreedUnlessClosed'
    BY DEF WorkerInv, StartWorker, Created, Fresh, OnlyTheOne, OldEnded, Ended, ToldToExit,
       NotStarted, AgreedUnlessClosed
  <1>3. ToldByClose'
    BY Zenon DEF WorkerInv, StartWorker, ToldByClose, OnlyTheOne
  <1>4. Closing'
    BY Zenon DEF WorkerInv, TypeOK, StartWorker, Closing, OnlyTheOne
  <1> QED
    BY <1>2, <1>3, <1>4, Zenon DEF WorkerInv, TypeOK, StartWorker

\* The current worker is stopped.
LEMMA CloseKeeps ==
    ASSUME WorkerInv, close
    PROVE  WorkerInv'
  <1>2. /\ Created' /\ OnlyTheOne' /\ OldEnded' /\ ToldToExit'
        /\ NotStarted' /\ ToldByClose' /\ Closing' /\ AgreedUnlessClosed'
    BY DEF WorkerInv, TypeOK, close, Workers, Making, Created, Fresh, OnlyTheOne, OldEnded,
       Ended, ToldToExit, NotStarted, ToldByClose, Closing, AgreedUnlessClosed
  <1> QED
    BY <1>2, Zenon DEF WorkerInv, TypeOK, close, Making

\* It is told to exit.
LEMMA CloseExitKeeps ==
    ASSUME WorkerInv, closeExit
    PROVE  WorkerInv'
  <1>2. /\ Created' /\ OnlyTheOne' /\ OldEnded' /\ ToldToExit'
        /\ NotStarted' /\ Closing' /\ AgreedUnlessClosed'
    BY WorkerAssumption DEF WorkerInv, TypeOK, closeExit, Workers, Making, Created,
            Fresh, OnlyTheOne, OldEnded, Ended, ToldToExit, NotStarted, Closing,
            AgreedUnlessClosed
  <1>3. ToldByClose'
    BY DEF WorkerInv, closeExit, ToldByClose, Closing
  <1> QED
    BY <1>2, <1>3 DEF WorkerInv, TypeOK, closeExit, Workers, Making

\* It has exited.
LEMMA CloseWaitKeeps ==
    ASSUME WorkerInv, closeWait
    PROVE  WorkerInv'
  <1>2. /\ Created' /\ OnlyTheOne' /\ OldEnded' /\ ToldToExit'
        /\ NotStarted' /\ ToldByClose' /\ Closing' /\ AgreedUnlessClosed'
    BY DEF WorkerInv, TypeOK, closeWait, Workers, Making, Created, Fresh, OnlyTheOne, OldEnded,
       Ended, ToldToExit, NotStarted, ToldByClose, Closing, AgreedUnlessClosed
  <1> QED
    BY <1>2, Zenon DEF WorkerInv, TypeOK, closeWait, Workers, Making

-----------------------------------------------------------------------------

\* The invariant holds when the node's first worker waits to be started.
LEMMA WorkerInvInit == Init => WorkerInv
  <1> SUFFICES ASSUME Init
               PROVE  WorkerInv
    OBVIOUS
  <1>1. 1 \in Workers
    BY WorkerAssumption DEF Workers
  <1>2. TypeOK
    <2>1. /\ running \in [Workers -> BOOLEAN] /\ timer \in [Workers -> BOOLEAN]
          /\ startCh \in [Workers -> BOOLEAN] /\ exitCh \in [Workers -> 0 .. 1]
      BY DEF Init
    <2>3. worker \in Workers /\ closing \in Workers /\ calls \in 0 .. MaxReconfig
      BY <1>1, WorkerAssumption DEF Init
    <2> QED
      BY <2>1, <2>3, Zenon DEF Init, TypeOK
  <1>3. Created /\ OnlyTheOne /\ OldEnded /\ ToldToExit
    BY <1>1 DEF Init, Created, OnlyTheOne, OldEnded, ToldToExit, Fresh, Making, Workers
  <1>4. NotStarted /\ ToldByClose /\ Closing /\ AgreedUnlessClosed
    BY <1>1, Zenon DEF Init, NotStarted, ToldByClose, Closing, AgreedUnlessClosed
  <1> QED
    BY <1>2, <1>3, <1>4 DEF WorkerInv

\* The invariant is inductive.
LEMMA WorkerInvStep == WorkerInv /\ [Next]_vars => WorkerInv'
  <1> SUFFICES ASSUME WorkerInv, [Next]_vars
               PROVE  WorkerInv'
    OBVIOUS
  <1>1. ASSUME NEW w \in Workers, Loop(w)
        PROVE  WorkerInv'
    BY <1>1, SelectExitKeeps, SelectStartKeeps, SelectTimerKeeps, CommitKeeps,
       BroadcastTbInCommitteeKeeps, NewBlockGeneratedKeeps, InitReconfigKeeps,
       ClearToReconfigKeeps, Zenon DEF Loop
  <1>2. CASE AddTBs
    BY <1>2, AddTBsKeeps
  <1>3. CASE Reconfigures
    BY <1>3, HandleLeaderInitReconfigKeeps, EndReconfigKeeps, StartWorkerKeeps DEF Reconfigures
  <1>4. CASE close \/ closeExit \/ closeWait
    BY <1>4, CloseKeeps, CloseExitKeeps, CloseWaitKeeps, Zenon
  <1>5. CASE UNCHANGED vars
    <2>1. TypeOK' /\ Created' /\ OnlyTheOne' /\ OldEnded'
      BY <1>5, SMTT(30) DEF vars, WorkerInv, TypeOK, Created, OnlyTheOne, OldEnded, Fresh, Ended
    <2>2. ToldToExit' /\ NotStarted' /\ ToldByClose' /\ Closing' /\ AgreedUnlessClosed'
      BY <1>5, SMTT(30) DEF vars, WorkerInv, ToldToExit, NotStarted, ToldByClose, Closing,
         AgreedUnlessClosed
    <2> QED
      BY <2>1, <2>2, ZenonT(30) DEF WorkerInv
  <1> QED
    BY <1>1, <1>2, <1>3, <1>4, <1>5 DEF Next

\* The invariant holds always.
LEMMA WorkerInvHolds == Spec => []WorkerInv
  BY WorkerInvInit, WorkerInvStep, PTL DEF Spec

\* The types hold; exitCh never gets a second element from close or NewBlockGenerated.
THEOREM TypeCorrect == Spec => []TypeOK
  <1>1. WorkerInv => TypeOK
    BY DEF WorkerInv
  <1> QED
    BY <1>1, WorkerInvHolds, PTL

\* At most one worker of a node makes blocks, through any number of reconfigurations
\* and however NewBlockGenerated's end overlaps with the next worker's start.
THEOREM OneProducerAlways == Spec => []OneProducer
  <1>1. WorkerInv => OneProducer
    BY Zenon DEF WorkerInv, OnlyTheOne, OneProducer
  <1> QED
    BY <1>1, WorkerInvHolds, PTL

\* No reconfiguration makes RunPbft give up a block: only a close does.
THEOREM AgreedUnlessClosedAlways == Spec => []AgreedUnlessClosed
  <1>1. WorkerInv => AgreedUnlessClosed
    BY DEF WorkerInv
  <1> QED
    BY <1>1, WorkerInvHolds, PTL

\* When close has returned, its worker and all before it are gone or about to exit.
THEOREM ClosedAreGone == Spec => []ClosedWorkersAreGone
  <1>1. WorkerInv => ClosedWorkersAreGone
    BY WorkerAssumption DEF WorkerInv, TypeOK, Created, OldEnded, Ended, Closing,
            ClosedWorkersAreGone, Workers, Making
  <1> QED
    BY <1>1, WorkerInvHolds, PTL

-----------------------------------------------------------------------------
(* The rounds of PBFT.                                                      *)

\* The backups that have the request of round r.
Requested(r) == {m \in Node \ {Leader} : r \in requestPool[m]}

\* Nothing of round r is still to be handled.
Quiet(r) ==
    /\ ~ReplyDue(r)
    /\ \A n \in Node : ~PrePrepareDue(n, r) /\ ~PrepareDue(n, r) /\ ~CommitDue(n, r)

\* The round RunPbft waits for is the last one, under a number that has not ended.
OpenRound ==
    /\ waiting = sequenceLock
    /\ waiting => round > 0 /\ round \notin ended /\ number[round] = height
    /\ \A h \in gotEnoughReply : h <= height /\ (waiting => h < height)

\* Of every other round the leader ignores the replies, or none will come any more.
ClosedRounds ==
    \A r \in Round :
        r <= round /\ ~(waiting /\ r = round) => IgnoresReply(r) \/ Quiet(r)

\* No more is handled than was sent.
CountedWereSent ==
    /\ \A r \in Round : handledReplies[r] <= RepliesTo(r)
    /\ \A n \in Node, r \in Round :
           cntPrepare[n][r] <= PreparesTo(n, r) /\ cntCommit[n][r] <= CommitsTo(n, r)

\* The replies counted are replies to the open round.
CountedAreOfOpen ==
    replyCnt > 0 => waiting /\ replyCnt <= handledReplies[round]

\* A node commits when it has counted enough Prepares, with the request at hand, and
\* replies when it has counted enough Commits.
SentForCounts ==
    \A n \in Node, r \in Round :
        /\ r \in isCommitBordcast[n] =>
               /\ cntPrepare[n][r] >= specifiedcnt(n)
               /\ n # Leader => r \in requestPool[n]
        /\ r \in isReply[n] => cntCommit[n][r] >= 2 * malicious_nums

\* A round ends with the replies of 2f backups.
EndedHaveReplies == \A r \in ended : RepliesTo(r) >= 2 * malicious_nums

\* The inductive invariant.
PbftInv ==
    /\ PbftTypeOK /\ OpenRound /\ ClosedRounds /\ CountedWereSent /\ CountedAreOfOpen
    /\ SentForCounts /\ EndedHaveReplies

-----------------------------------------------------------------------------
(* Counting.                                                                *)

\* The arithmetic of malicious_nums.
LEMMA MaliciousNums ==
    malicious_nums \in Nat
  BY PbftAssumption, FS_CardinalityType DEF malicious_nums, node_nums

\* The nodes are finitely many, and a set of more nodes has more elements.
LEMMA Counting ==
    ASSUME NEW S, NEW T, S \subseteq T, T \subseteq Node
    PROVE  /\ Cardinality(S) \in Nat /\ Cardinality(T) \in Nat
           /\ Cardinality(S) <= Cardinality(T)
  BY PbftAssumption, FS_Subset, FS_AddElement, FS_CardinalityType, Zenon DEF Node

\* What was sent is counted by natural numbers.
LEMMA CountsAreNat ==
    ASSUME NEW n, NEW r
    PROVE  PreparesTo(n, r) \in Nat /\ CommitsTo(n, r) \in Nat /\ RepliesTo(r) \in Nat
  BY Counting, Zenon DEF PreparesTo, CommitsTo, RepliesTo

\* The senders of messages of round r stay as they are.
SameSenders(r) ==
    \A m \in Node :
        /\ m # Leader => (r \in requestPool'[m] <=> r \in requestPool[m])
        /\ r \in isCommitBordcast'[m] <=> r \in isCommitBordcast[m]
        /\ r \in isReply'[m] <=> r \in isReply[m]

\* So do the nodes' counts.
SameCounts(r) ==
    /\ handledReplies'[r] = handledReplies[r]
    /\ \A n \in Node : /\ cntPrepare'[n][r] = cntPrepare[n][r] /\ refused'[n][r] = refused[n][r]
                       /\ cntCommit'[n][r] = cntCommit[n][r]

\* Where the senders stay as they are, as much was sent as before.
LEMMA SameSent ==
    ASSUME NEW r, SameSenders(r)
    PROVE  /\ RepliesTo(r)' = RepliesTo(r)
           /\ \A n \in Node : /\ PreparesTo(n, r)' = PreparesTo(n, r)
                              /\ CommitsTo(n, r)' = CommitsTo(n, r)
  BY Zenon DEF SameSenders, RepliesTo, PreparesTo, CommitsTo

\* A round that is quiet stays so where nothing of it is handled.
LEMMA QuietStays ==
    ASSUME NEW r \in Nat, Quiet(r), SameSenders(r), SameCounts(r), r <= round
    PROVE  Quiet(r)'
  <1>2. ASSUME NEW n \in Node PROVE ~PrePrepareDue(n, r)'
    BY Zenon DEF Quiet, PrePrepareDue, SameSenders
  <1>3. ASSUME NEW n \in Node PROVE ~PrepareDue(n, r)'
    <2>1. PreparesTo(n, r)' = PreparesTo(n, r)
      BY SameSent, Zenon
    <2> QED
      BY <2>1, Zenon DEF Quiet, PrepareDue, SameSenders, SameCounts
  <1>4. ASSUME NEW n \in Node PROVE ~CommitDue(n, r)'
    <2>1. CommitsTo(n, r)' = CommitsTo(n, r)
      BY SameSent, ZenonT(30)
    <2> QED
      BY <2>1, Zenon DEF Quiet, CommitDue, SameSenders, SameCounts
  <1> QED
    BY <1>2, <1>3, <1>4, SameSent, Zenon DEF Quiet, ReplyDue, SameCounts

\* No sender of a message takes it back, apart from the requests of the leader.
SendersOnlyGrow ==
    \A m \in Node :
        /\ m # Leader => requestPool[m] \subseteq requestPool'[m]
        /\ isCommitBordcast[m] \subseteq isCommitBordcast'[m]
        /\ isReply[m] \subseteq isReply'[m]

\* So no less was sent than before.
LEMMA SentOnlyGrows ==
    ASSUME SendersOnlyGrow, NEW r
    PROVE  /\ RepliesTo(r) <= RepliesTo(r)' /\ RepliesTo(r) \in Nat /\ RepliesTo(r)' \in Nat
           /\ \A n \in Node :
                /\ PreparesTo(n, r) <= PreparesTo(n, r)' /\ PreparesTo(n, r)' \in Nat
                /\ CommitsTo(n, r) <= CommitsTo(n, r)' /\ CommitsTo(n, r)' \in Nat
                /\ PreparesTo(n, r) \in Nat /\ CommitsTo(n, r) \in Nat
  BY Counting DEF SendersOnlyGrow, RepliesTo, PreparesTo, CommitsTo

Raised(c, n, r) == [c EXCEPT ![n][r] = @ + 1]

\* d is c with the count of node n for round r one higher.
OneMore(d, c, n, r) ==
    /\ d \in Counters
    /\ c[n][r] \in Nat /\ d[n][r] = c[n][r] + 1
    /\ \A m \in Node, q \in Round : ~(m = n /\ q = r) => d[m][q] = c[m][q]

\* Raising one count leaves the others alone.
LEMMA RaisedCount ==
    ASSUME NEW c \in Counters, NEW n \in Node, NEW r \in Round
    PROVE  OneMore(Raised(c, n, r), c, n, r)
  BY DEF OneMore, Raised, Counters

-----------------------------------------------------------------------------
(* Every step keeps the invariant.                                          *)

\* A new round is proposed once the last one has ended.
LEMMA ProposeKeeps ==
    ASSUME PbftInv, Propose
    PROVE  PbftInv'
  <1>0. /\ round + 1 \in Round /\ round' = round + 1 /\ round \in Nat
        /\ height \in Nat /\ height' = height + 1 /\ height' \in Nat
    BY PbftAssumption DEF PbftInv, PbftTypeOK, Propose, Round
  <1>1. PbftTypeOK'
    <2>1. 1 .. round \subseteq 1 .. round'
      BY <1>0
    <2>3. requestPool' \in [Node -> SUBSET (1 .. round')]
      <3>2. /\ requestPool \in [Node -> SUBSET (1 .. round)]
            /\ requestPool' = [requestPool EXCEPT ![Leader] = @ \cup {round'}]
        BY Zenon DEF PbftInv, PbftTypeOK, Propose
      <3>3. ASSUME NEW n \in Node PROVE requestPool'[n] \subseteq 1 .. round'
        BY <1>0, <3>2
      <3> QED
        BY <3>2, <3>3, Zenon
    <2>6. round' \in 0 .. MaxRound
      BY <1>0 DEF Round
    <2> QED
      BY <1>0, <2>1, <2>3, <2>6, Zenon DEF PbftInv, PbftTypeOK, Propose
  <1>2. OpenRound'
    BY <1>0 DEF PbftInv, PbftTypeOK, OpenRound, Propose
  <1>3. ASSUME NEW r \in Round PROVE SameSenders(r)
    BY Zenon DEF PbftInv, PbftTypeOK, SameSenders, Propose
  <1>4. SendersOnlyGrow
    BY Zenon DEF PbftInv, PbftTypeOK, SendersOnlyGrow, Propose
  <1>5. ClosedRounds'
    <2> SUFFICES ASSUME NEW r \in Round, r <= round', r # round' PROVE IgnoresReply(r)' \/ Quiet(r)'
      BY Zenon DEF ClosedRounds, Propose
    <2>1. r \in Nat /\ r <= round /\ ~waiting
      BY <1>0 DEF Round, Propose
    <2>2. CASE IgnoresReply(r)
      BY <2>2, Zenon DEF IgnoresReply, PbftInv, PbftTypeOK, Propose
    <2>3. CASE Quiet(r)
      BY <1>3, <2>1, <2>3, QuietStays, Zenon DEF SameCounts, Propose
    <2> QED
      BY <2>1, <2>2, <2>3, Zenon DEF PbftInv, ClosedRounds
  <1>6. CountedWereSent'
    BY <1>3, SameSent DEF PbftInv, CountedWereSent, Propose, Round, Node
  <1>7. CountedAreOfOpen'
    BY Zenon DEF PbftInv, CountedAreOfOpen, Propose
  <1>8. SentForCounts'
    BY DEF PbftInv, SentForCounts, malicious_nums, node_nums, Propose, Node
  <1>9. EndedHaveReplies'
    <2>1. ended \subseteq Round
      BY PbftAssumption DEF PbftInv, PbftTypeOK, Round
    <2> QED
      BY <1>3, <2>1, SameSent, Zenon DEF PbftInv, EndedHaveReplies, Propose
  <1> QED
    BY <1>1, <1>2, <1>5, <1>6, <1>7, <1>8, <1>9, ZenonT(30) DEF PbftInv

\* What a step of a backup or the leader on Prepares, Commits and PrePrepares of one round
\* that is not quiet keeps: it neither ends rounds nor counts replies.
LEMMA RoundStepKeeps ==
    ASSUME PbftInv, NEW r \in Round, ~Quiet(r), SendersOnlyGrow,
           \A q \in Round : q # r => SameSenders(q) /\ SameCounts(q),
           UNCHANGED <<round, number, height, ended, waiting, sequenceLock, handledReplies,
                       replyCnt, gotEnoughReply>>
    PROVE  /\ OpenRound' /\ ClosedRounds' /\ CountedAreOfOpen' /\ EndedHaveReplies'
           /\ \A q \in Round : handledReplies'[q] <= RepliesTo(q)'
  <1>2. ClosedRounds'
    BY QuietStays, SMTT(30) DEF ClosedRounds, Round, IgnoresReply, PbftInv
  <1>3. ASSUME NEW q \in Round PROVE handledReplies'[q] <= RepliesTo(q)'
    BY SentOnlyGrows DEF PbftInv, PbftTypeOK, CountedWereSent
  <1>4. EndedHaveReplies'
    BY SentOnlyGrows, MaliciousNums DEF PbftInv, EndedHaveReplies, malicious_nums, node_nums
  <1> QED
    BY <1>2, <1>3, <1>4, Zenon DEF PbftInv, OpenRound, CountedAreOfOpen

\* A backup takes the request; the round is none that is quiet.
LEMMA HandlePrePrepareKeeps ==
    ASSUME PbftInv, NEW n \in Node, NEW r \in Round, HandlePrePrepare(n, r)
    PROVE  PbftInv'
  <1>0. n # Leader /\ r \in 1 .. round /\ PrePrepareDue(n, r)
    BY DEF PbftTypeOK, HandlePrePrepare, PrePrepareDue, Round
  <1>1. PbftTypeOK'
    <2>1. requestPool' \in [Node -> SUBSET (1 .. round)]
      BY <1>0, Zenon DEF PbftInv, PbftTypeOK, HandlePrePrepare
    <2> QED
      BY <2>1, Zenon DEF PbftInv, PbftTypeOK, HandlePrePrepare, Counters
  <1>3. ASSUME NEW q \in Round, q # r PROVE SameSenders(q)
    BY <1>3, Zenon DEF PbftInv, PbftTypeOK, SameSenders, HandlePrePrepare
  <1>4. SendersOnlyGrow
    BY Zenon DEF PbftInv, PbftTypeOK, SendersOnlyGrow, HandlePrePrepare
  <1>5. /\ OpenRound' /\ ClosedRounds' /\ CountedAreOfOpen' /\ EndedHaveReplies'
        /\ \A q \in Round : handledReplies'[q] <= RepliesTo(q)'
    BY <1>3, <1>4, RoundStepKeeps, Zenon DEF Quiet, HandlePrePrepare, SameCounts
  <1>6. CountedWereSent'
    <2>2. ASSUME NEW q \in Round, NEW m \in Node
          PROVE  (cntPrepare[m][q] <= PreparesTo(m, q) /\ cntCommit[m][q] <= CommitsTo(m, q))'
      <3>1. PICK a, b, c, d : /\ a = cntPrepare[m][q] /\ b = PreparesTo(m, q)
                              /\ c = cntCommit[m][q] /\ d = CommitsTo(m, q)
        BY Zenon
      <3>2. a \in Nat /\ c \in Nat /\ a <= b /\ c <= d
        BY <3>1, Zenon DEF PbftInv, PbftTypeOK, Counters, CountedWereSent
      <3>3. PICK s, t : s = PreparesTo(m, q)' /\ t = CommitsTo(m, q)'
        BY Zenon
      <3>4. {b, d, s, t} \subseteq Nat /\ b <= s /\ d <= t
        BY <1>4, <3>1, <3>3, SentOnlyGrows, Zenon
      <3>5. a <= s /\ c <= t
        BY <3>2, <3>4, SMTT(30)
      <3>6. cntPrepare' = cntPrepare /\ cntCommit' = cntCommit
        BY Zenon DEF HandlePrePrepare
      <3> QED
        BY <3>1, <3>3, <3>5, <3>6, Zenon
    <2> QED
      BY <1>5, <2>2, Zenon DEF CountedWereSent
  <1>7. SentForCounts'
    BY DEF PbftInv, SentForCounts, HandlePrePrepare
  <1> QED
    BY <1>1, <1>5, <1>6, <1>7, Zenon DEF PbftInv

\* Of p Prepares, a counted and b dropped: one more can be counted.
LEMMA OneMoreFits ==
    ASSUME NEW a \in Nat, NEW b \in Nat, NEW p \in Nat, a + b < p
    PROVE  a <= p /\ a + 1 <= p
  OBVIOUS

\* Arithmetic: what is no more than a count is no more than the count later.
LEMMA StillFits ==
    ASSUME NEW a \in Nat, NEW b \in Nat, NEW c \in Nat, a <= b, b <= c
    PROVE  a <= c
  OBVIOUS

\* A round added to the set of one node is the only one that is added.
LEMMA OneRoundAdded ==
    ASSUME NEW S, NEW f \in [Node -> SUBSET S], NEW n \in Node, NEW r, NEW q, q # r
    PROVE  \A m \in Node : q \in [f EXCEPT ![n] = @ \cup {r}][m] <=> q \in f[m]
  OBVIOUS

\* A Prepare is dropped, or counted by a node that has the request, which may commit.
LEMMA HandlePrepareKeeps ==
    ASSUME PbftInv, NEW n \in Node, NEW r \in Round, HandlePrepare(n, r)
    PROVE  PbftInv'
  <1> DEFINE others == <<round, number, height, resets, ended, waiting, sequenceLock, sequenceID,
                         requestPool, cntCommit, isReply, handledReplies, replyCnt, gotEnoughReply>>
             commits == {q \in {r} : cntPrepare'[n][r] >= specifiedcnt(n)}
  <1>0. /\ UNCHANGED others /\ PrepareDue(n, r)
        /\ \/ /\ refused' = Raised(refused, n, r)
              /\ cntPrepare' = cntPrepare /\ isCommitBordcast' = isCommitBordcast
           \/ /\ ~RefusesPrepare(n, r) /\ refused' = refused
              /\ cntPrepare' = Raised(cntPrepare, n, r)
              /\ isCommitBordcast' = [isCommitBordcast EXCEPT ![n] = @ \cup commits]
    BY Zenon DEF HandlePrepare, Raised
  <1> HIDE DEF commits
  <1>a. /\ cntPrepare \in Counters /\ refused \in Counters /\ cntCommit \in Counters
        /\ isCommitBordcast \in [Node -> SUBSET (1 .. round)]
    BY Zenon DEF PbftInv, PbftTypeOK
  <1>b. commits \subseteq {r}
    BY DEF commits
  <1>c. /\ cntPrepare' \in Counters /\ refused' \in Counters
        /\ cntPrepare'[n][r] \in {cntPrepare[n][r], cntPrepare[n][r] + 1}
        /\ \A m \in Node, q \in Round :
               ~(m = n /\ q = r) => /\ cntPrepare'[m][q] = cntPrepare[m][q]
                                    /\ refused'[m][q] = refused[m][q]
    <2>1. CASE refused' = Raised(refused, n, r) /\ cntPrepare' = cntPrepare
      <3>1. OneMore(refused', refused, n, r)
        BY <1>a, <2>1, RaisedCount, Zenon
      <3> QED
        BY <1>a, <2>1, <3>1, Zenon DEF OneMore
    <2>2. CASE refused' = refused /\ cntPrepare' = Raised(cntPrepare, n, r)
      <3>1. OneMore(cntPrepare', cntPrepare, n, r)
        BY <1>a, <2>2, RaisedCount, Zenon
      <3> QED
        BY <1>a, <2>2, <3>1, Zenon DEF OneMore
    <2> QED
      BY <1>0, <2>1, <2>2, Zenon
  <1>1. PbftTypeOK'
    <2>2. isCommitBordcast' \in [Node -> SUBSET (1 .. round)]
      <3>1. ~RefusesPrepare(n, r) => r \in 1 .. round
        BY Zenon DEF PbftInv, PbftTypeOK, RefusesPrepare
      <3> QED
        BY <1>0, <1>a, <1>b, <3>1, Zenon
    <2> QED
      BY <1>0, <2>2, <1>c, Zenon DEF PbftInv, PbftTypeOK
  <1>3. ASSUME NEW q \in Round, q # r PROVE SameSenders(q) /\ SameCounts(q)
    <2>2. SameCounts(q)
      BY <1>0, <1>c, <1>3, Zenon DEF SameCounts
    <2> QED
      BY <1>0, <1>3, <2>2, <1>a, <1>b, Zenon DEF SameSenders
  <1>4. SendersOnlyGrow
    BY <1>0, <1>a, Zenon DEF SendersOnlyGrow
  <1>5. /\ OpenRound' /\ ClosedRounds' /\ CountedAreOfOpen' /\ EndedHaveReplies'
        /\ \A q \in Round : handledReplies'[q] <= RepliesTo(q)'
    BY <1>0, <1>3, <1>4, RoundStepKeeps, Zenon DEF Quiet
  <1>6. CountedWereSent'
    <2>2. ASSUME NEW q \in Round, NEW m \in Node
          PROVE  (cntPrepare[m][q] <= PreparesTo(m, q) /\ cntCommit[m][q] <= CommitsTo(m, q))'
      <3>1. cntCommit'[m][q] <= CommitsTo(m, q)'
        <4>1. cntCommit'[m][q] = cntCommit[m][q] /\ cntCommit[m][q] \in Nat
          BY <1>0, <1>a DEF Counters
        <4>2. cntCommit[m][q] <= CommitsTo(m, q)
          BY Zenon DEF PbftInv, CountedWereSent
        <4>3. CommitsTo(m, q) <= CommitsTo(m, q)' /\ CommitsTo(m, q) \in Nat /\ CommitsTo(m, q)' \in Nat
          BY <1>4, SentOnlyGrows, Zenon
        <4> QED
          BY <4>1, <4>2, <4>3, StillFits, Zenon
      <3>2. PreparesTo(m, q)' = PreparesTo(m, q) /\ PreparesTo(m, q) \in Nat
        BY <1>0, CountsAreNat, Zenon DEF PreparesTo
      <3>3. CASE m = n /\ q = r
        <4>2. cntPrepare[n][r] + refused[n][r] < PreparesTo(n, r)
          BY <1>0, Zenon DEF PrepareDue
        <4>3. cntPrepare[n][r] \in Nat /\ refused[n][r] \in Nat
          BY <1>a, Zenon DEF Counters
        <4>4. PICK a, b, p : a = cntPrepare[n][r] /\ b = refused[n][r] /\ p = PreparesTo(n, r)
          BY Zenon
        <4>5. a <= p /\ a + 1 <= p
          BY <3>2, <3>3, <4>2, <4>3, <4>4, OneMoreFits, Zenon
        <4> QED
          BY <1>c, <3>1, <3>2, <3>3, <4>4, <4>5, Zenon
      <3>4. CASE ~(m = n /\ q = r)
        BY <3>1, <3>2, <3>4, <1>c, Zenon DEF PbftInv, CountedWereSent
      <3> QED
        BY <3>3, <3>4, ZenonT(30)
    <2> QED
      BY <1>5, <2>2, Zenon DEF CountedWereSent
  <1>7. SentForCounts'
    <2> SUFFICES ASSUME NEW m \in Node, NEW q \in Round
                 PROVE  /\ q \in isCommitBordcast'[m] =>
                              /\ cntPrepare'[m][q] >= specifiedcnt(m)
                              /\ m # Leader => q \in requestPool[m]
                        /\ q \in isReply'[m] => cntCommit'[m][q] >= 2 * malicious_nums
      BY <1>0, Zenon DEF SentForCounts, specifiedcnt, malicious_nums, node_nums, Round, Node
    <2>2. ASSUME q \in isCommitBordcast[m]
          PROVE  cntPrepare'[m][q] >= specifiedcnt(m) /\ (m # Leader => q \in requestPool[m])
      <3>2. cntPrepare[m][q] \in Nat /\ cntPrepare'[m][q] \in {cntPrepare[m][q], cntPrepare[m][q] + 1}
        BY <1>a, <1>c, ZenonT(30) DEF Counters
      <3>3. specifiedcnt(m) \in Int
        BY MaliciousNums, SMTT(30) DEF specifiedcnt
      <3> QED
        BY <2>2, <3>2, <3>3 DEF PbftInv, SentForCounts
    <2>3. ASSUME q \in isCommitBordcast'[m], q \notin isCommitBordcast[m]
          PROVE  cntPrepare'[m][q] >= specifiedcnt(m) /\ (m # Leader => q \in requestPool[m])
      BY <1>0, <2>3, <1>a DEF commits, RefusesPrepare
    <2> QED
      BY <1>0, <2>2, <2>3, Zenon DEF PbftInv, SentForCounts
  <1> QED
    BY <1>1, <1>5, <1>6, <1>7 DEF PbftInv

\* A Commit is counted by a backup, which may reply.
LEMMA HandleCommitKeeps ==
    ASSUME PbftInv, NEW n \in Node, NEW r \in Round, HandleCommit(n, r)
    PROVE  PbftInv'
  <1> DEFINE others == <<round, number, height, resets, ended, waiting, sequenceLock, requestPool,
                         cntPrepare, refused, isCommitBordcast, handledReplies, replyCnt,
                         gotEnoughReply>>
  <1>0. /\ UNCHANGED others /\ CommitDue(n, r)
        /\ cntCommit' = Raised(cntCommit, n, r)
        /\ \/ /\ cntCommit'[n][r] >= 2 * malicious_nums
              /\ isReply' = [isReply EXCEPT ![n] = @ \cup {r}]
              /\ sequenceID' = [sequenceID EXCEPT ![n] = @ + 1]
           \/ isReply' = isReply /\ sequenceID' = sequenceID
    BY Zenon DEF HandleCommit, Raised, required_cnt
  <1>a. /\ cntPrepare \in Counters /\ refused \in Counters /\ cntCommit \in Counters
        /\ isReply \in [Node -> SUBSET (1 .. round)] /\ sequenceID \in [Node -> Nat]
    BY Zenon DEF PbftInv, PbftTypeOK
  <1>b. /\ cntCommit' \in Counters
        /\ cntCommit'[n][r] = cntCommit[n][r] + 1 /\ cntCommit[n][r] \in Nat
        /\ \A m \in Node, q \in Round : ~(m = n /\ q = r) => cntCommit'[m][q] = cntCommit[m][q]
    <2>1. OneMore(cntCommit', cntCommit, n, r)
      BY <1>0, <1>a, RaisedCount, Zenon
    <2> QED
      BY <2>1, Zenon DEF OneMore
  <1>c. r \in 1 .. round
    <2>1. CommitsTo(n, r) # 0
      BY <1>0, <1>b DEF CommitDue
    <2> QED
      BY <2>1, FS_EmptySet, ZenonT(30) DEF PbftInv, PbftTypeOK, CommitsTo
  <1>1. PbftTypeOK'
    <2>1. isReply' \in [Node -> SUBSET (1 .. round)] /\ sequenceID' \in [Node -> Nat]
      BY <1>0, <1>a, <1>c, SMTT(30)
    <2> QED
      BY <1>0, <1>b, <2>1, ZenonT(30) DEF PbftInv, PbftTypeOK
  <1>3. ASSUME NEW q \in Round, q # r PROVE SameSenders(q) /\ SameCounts(q)
    <2>2. SameCounts(q)
      BY <1>0, <1>b, <1>3, Zenon DEF SameCounts
    <2>3. \A m \in Node : q \in isReply'[m] <=> q \in isReply[m]
      BY <1>0, <1>3, <1>a, OneRoundAdded, Zenon
    <2> QED
      BY <1>0, <2>2, <2>3, Zenon DEF SameSenders
  <1>4. SendersOnlyGrow
    BY <1>0, <1>a, Zenon DEF SendersOnlyGrow
  <1>5. /\ OpenRound' /\ ClosedRounds' /\ CountedAreOfOpen' /\ EndedHaveReplies'
        /\ \A q \in Round : handledReplies'[q] <= RepliesTo(q)'
    BY <1>0, <1>3, <1>4, RoundStepKeeps, Zenon DEF Quiet
  <1>6. CountedWereSent'
    <2>2. ASSUME NEW q \in Round, NEW m \in Node
          PROVE  (cntPrepare[m][q] <= PreparesTo(m, q) /\ cntCommit[m][q] <= CommitsTo(m, q))'
      <3>1. cntPrepare'[m][q] <= PreparesTo(m, q)'
        BY <1>0, Zenon DEF PbftInv, CountedWereSent, PreparesTo
      <3>2. CommitsTo(m, q)' = CommitsTo(m, q) /\ CommitsTo(m, q) \in Nat
        BY <1>0, CountsAreNat, Zenon DEF CommitsTo
      <3>3. CASE m = n /\ q = r
        <4>1. PICK a, p : a = cntCommit[n][r] /\ p = CommitsTo(n, r)
          BY Zenon
        <4>2. a < p /\ a \in Nat /\ p \in Nat
          BY <1>0, <1>b, <3>2, <3>3, <4>1, Zenon DEF CommitDue
        <4>3. a + 1 <= p
          BY <4>2, SMTT(30)
        <4> QED
          BY <1>b, <3>1, <3>2, <3>3, <4>1, <4>3, Zenon
      <3>4. CASE ~(m = n /\ q = r)
        BY <1>b, <3>1, <3>2, <3>4, Zenon DEF PbftInv, CountedWereSent
      <3> QED
        BY <3>3, <3>4, Zenon
    <2> QED
      BY <1>5, <2>2, Zenon DEF CountedWereSent
  <1>7. SentForCounts'
    <2> SUFFICES ASSUME NEW m \in Node, NEW q \in Round
                 PROVE  /\ q \in isCommitBordcast[m] =>
                              /\ cntPrepare[m][q] >= specifiedcnt(m)
                              /\ m # Leader => q \in requestPool[m]
                        /\ q \in isReply'[m] => cntCommit'[m][q] >= 2 * malicious_nums
      BY <1>0, Zenon DEF SentForCounts, specifiedcnt, Round
    <2>1. CASE q \notin isReply'[m] \/ q \in isReply[m]
      <3>2. cntCommit[m][q] \in Nat /\ cntCommit'[m][q] \in {cntCommit[m][q], cntCommit[m][q] + 1}
        BY <1>a, <1>b, Zenon DEF Counters
      <3>3. /\ q \in isCommitBordcast[m] => /\ cntPrepare[m][q] >= specifiedcnt(m)
                                            /\ m # Leader => q \in requestPool[m]
            /\ q \in isReply[m] => cntCommit[m][q] >= 2 * malicious_nums
        BY ZenonT(30) DEF PbftInv, SentForCounts
      <3>4. q \in isReply'[m] => cntCommit'[m][q] >= 2 * malicious_nums
        <4>1. PICK a, b, f : a = cntCommit[m][q] /\ b = cntCommit'[m][q] /\ f = malicious_nums
          BY Zenon
        <4>2. a \in Nat /\ b \in {a, a + 1} /\ f \in Nat
          BY <3>2, <4>1, MaliciousNums, Zenon
        <4>3. a >= 2 * f => b >= 2 * f
          BY <4>2, SMTT(30)
        <4> QED
          BY <2>1, <3>3, <4>1, <4>3, Zenon
      <3> QED
        BY <3>3, <3>4, Zenon
    <2>2. CASE q \in isReply'[m] /\ q \notin isReply[m]
      <3>1. m = n /\ q = r /\ cntCommit'[n][r] >= 2 * malicious_nums
        BY <1>0, <1>a, <2>2
      <3> QED
        BY <3>1, ZenonT(30) DEF PbftInv, SentForCounts
    <2> QED
      BY <2>1, <2>2, Zenon
  <1> QED
    BY <1>1, <1>5, <1>6, <1>7 DEF PbftInv

\* A reply is to the round RunPbft waits for, or is ignored: it is counted for its own
\* round, and what ends a round are replies to it.
LEMMA HandleReplyKeeps ==
    ASSUME PbftInv, NEW r \in Round, HandleReply(r)
    PROVE  PbftInv'
  <1> DEFINE others == <<round, number, height, resets, requestPool, cntPrepare, refused,
                         isCommitBordcast, cntCommit, isReply>>
             Ignored == UNCHANGED <<ended, waiting, sequenceLock, sequenceID, replyCnt, gotEnoughReply>>
             Counted == /\ replyCnt' = replyCnt + 1
                        /\ UNCHANGED <<ended, waiting, sequenceLock, sequenceID, gotEnoughReply>>
             Ends    == /\ replyCnt + 1 >= 2 * malicious_nums /\ replyCnt' = 0
                        /\ gotEnoughReply' = gotEnoughReply \cup {number[r]}
                        /\ ended' = ended \cup {round}
                        /\ sequenceID' = [sequenceID EXCEPT ![Leader] = @ + 1]
                        /\ waiting' = FALSE /\ sequenceLock' = FALSE
  <1>0. /\ UNCHANGED others /\ ReplyDue(r)
        /\ handledReplies' = [handledReplies EXCEPT ![r] = @ + 1]
        /\ (IgnoresReply(r) /\ Ignored) \/ (~IgnoresReply(r) /\ Counted) \/ (~IgnoresReply(r) /\ Ends)
    BY Zenon DEF HandleReply
  <1>a. /\ handledReplies \in [Round -> Nat] /\ replyCnt \in Nat /\ round \in Nat
        /\ r \in Nat /\ number[r] \in Nat /\ sequenceID \in [Node -> Nat]
    <2>1. r \in Nat
      BY DEF Round
    <2> QED
      BY <2>1 DEF PbftInv, PbftTypeOK
  <1>b. r \in 1 .. round
    <2>1. RepliesTo(r) # 0
      BY <1>0, <1>a, SMTT(30) DEF ReplyDue
    <2> QED
      BY <2>1, FS_EmptySet, Zenon DEF PbftInv, PbftTypeOK, RepliesTo
  <1>c. IgnoresReply(r) \/ (waiting /\ r = round)
    BY <1>0, <1>b, SMTT(30) DEF PbftInv, ClosedRounds, Quiet
  <1>d. handledReplies[r] + 1 <= RepliesTo(r) /\ RepliesTo(r) \in Nat
    BY <1>0, <1>a, CountsAreNat DEF ReplyDue
  <1>e. SendersOnlyGrow /\ \A q \in Round : SameSenders(q)
    BY <1>0, Zenon DEF SendersOnlyGrow, SameSenders
  <1>1. PbftTypeOK'
    <2>1. handledReplies' \in [Round -> Nat] /\ replyCnt' \in Nat
      BY <1>0, <1>a
    <2>2. ended' \subseteq 1 .. round /\ gotEnoughReply' \subseteq Nat
      <3>1. ended \subseteq 1 .. round /\ gotEnoughReply \subseteq Nat /\ round \in 1 .. round
        BY <1>b, SMTT(30) DEF PbftInv, PbftTypeOK
      <3> QED
        BY <1>0, <1>a, <3>1, Zenon
    <2>3. sequenceID' \in [Node -> Nat]
      BY <1>0, <1>a
    <2> QED
      BY <1>0, <2>1, <2>2, <2>3, ZenonT(30) DEF PbftInv, PbftTypeOK, Round
  <1>2. OpenRound'
    <2>1. CASE (IgnoresReply(r) /\ Ignored) \/ (~IgnoresReply(r) /\ Counted)
      BY <1>0, <2>1, SMTT(30) DEF PbftInv, OpenRound
    <2>2. CASE ~IgnoresReply(r) /\ Ends
      <3>2. \A h \in gotEnoughReply' : h <= height
        BY <2>2, <1>c DEF PbftInv, OpenRound, PbftTypeOK
      <3> QED
        BY <1>0, <2>2, <3>2, ZenonT(30) DEF OpenRound
    <2> QED
      BY <1>0, <2>1, <2>2, ZenonT(30)
  <1>3. ClosedRounds'
    <2> SUFFICES ASSUME NEW q \in Round, q <= round, ~(waiting' /\ q = round)
                 PROVE  IgnoresReply(q)' \/ Quiet(q)'
      BY <1>0, Zenon DEF ClosedRounds
    <2>1. CASE waiting /\ q = round
      BY <1>0, <1>c, <2>1, Zenon DEF IgnoresReply
    <2>2. CASE IgnoresReply(q)
      BY <1>0, <2>2, Zenon DEF IgnoresReply
    <2>3. CASE Quiet(q)
      <3>2. SameCounts(q)
        BY <1>0, <2>3, <1>a, Zenon DEF SameCounts, Quiet
      <3> QED
        BY <1>e, <2>3, <3>2, QuietStays DEF Round
    <2> QED
      BY <2>1, <2>2, <2>3, Zenon DEF PbftInv, ClosedRounds
  <1>4. CountedWereSent'
    <2>1. ASSUME NEW q \in Round PROVE (handledReplies[q] <= RepliesTo(q))'
      BY <1>0, <1>e, SameSent, <1>a, <1>d, Zenon DEF PbftInv, CountedWereSent
    <2>2. ASSUME NEW q \in Round, NEW m \in Node
          PROVE  (cntPrepare[m][q] <= PreparesTo(m, q) /\ cntCommit[m][q] <= CommitsTo(m, q))'
      BY <1>0, ZenonT(30) DEF PbftInv, CountedWereSent, PreparesTo, CommitsTo
    <2> QED
      BY <2>1, <2>2, ZenonT(30) DEF CountedWereSent
  <1>5. CountedAreOfOpen'
    <2>1. CASE IgnoresReply(r) /\ Ignored
      <3>1. replyCnt > 0 => waiting /\ round \in Round /\ replyCnt <= handledReplies[round]
        BY <1>b, SMTT(30) DEF PbftInv, CountedAreOfOpen, PbftTypeOK, Round
      <3> QED
        BY <1>0, <2>1, <3>1, <1>a, SMTT(30) DEF CountedAreOfOpen
    <2>2. CASE ~IgnoresReply(r) /\ Counted
      <3>1. replyCnt <= handledReplies[r]
        BY <1>a, <1>c, <2>2 DEF PbftInv, CountedAreOfOpen
      <3> QED
        <4>1. PICK a, b : a = replyCnt /\ b = handledReplies[r]
          BY Zenon
        <4>2. a \in Nat /\ b \in Nat /\ a <= b
          BY <1>a, <3>1, <4>1, Zenon
        <4>3. a + 1 <= b + 1
          BY <4>2, SMTT(30)
        <4>4. round' = r /\ waiting' /\ replyCnt' = a + 1 /\ handledReplies'[r] = b + 1
          BY <1>0, <1>a, <1>c, <2>2, <4>1, Zenon
        <4> QED
          BY <4>3, <4>4, Zenon DEF CountedAreOfOpen
    <2>3. CASE ~IgnoresReply(r) /\ Ends
      BY <2>3 DEF CountedAreOfOpen
    <2> QED
      BY <1>0, <2>1, <2>2, <2>3, Zenon
  <1>6. SentForCounts'
    BY <1>0, Zenon DEF PbftInv, SentForCounts, Round, Node
  <1>7. EndedHaveReplies'
    <2> SUFFICES ASSUME NEW q \in ended' PROVE RepliesTo(q)' >= 2 * malicious_nums
      BY DEF EndedHaveReplies, malicious_nums, node_nums
    <2>1. CASE q \in ended
      BY <1>e, <2>1, SentOnlyGrows, MaliciousNums, SMTT(30) DEF PbftInv, EndedHaveReplies
    <2>2. CASE q \notin ended
      <3>1. q = round /\ r = round /\ replyCnt + 1 >= 2 * malicious_nums
        BY <1>0, <1>c, <2>2, Zenon
      <3>3. RepliesTo(r)' = RepliesTo(r)
        BY <1>e, SameSent
      <3> QED
        BY <3>1, <3>3, <1>a, <1>d, MaliciousNums DEF PbftInv, CountedAreOfOpen
    <2> QED
      BY <2>1, <2>2
  <1> QED
    BY <1>1, <1>2, <1>3, <1>4, <1>5, <1>6, <1>7, ZenonT(30) DEF PbftInv

\* When no message outlives it, a reconfiguration finds every round quiet: that the
\* leader forgets which numbers have ended does no harm.
LEMMA ResetKeeps ==
    ASSUME PbftInv, Reset, MessagesInTime
    PROVE  PbftInv'
  <1> DEFINE others == <<round, number, ended, waiting, sequenceLock, sequenceID, cntPrepare, refused,
                         isCommitBordcast, cntCommit, isReply, handledReplies>>
  <1>0. /\ UNCHANGED others /\ ~waiting /\ ~Due /\ height' \in 0 .. height
        /\ resets < MaxReset /\ resets' = resets + 1
        /\ requestPool' = [requestPool EXCEPT ![Leader] = {}]
        /\ replyCnt' = 0 /\ gotEnoughReply' = {}
    BY Zenon DEF Reset
  <1>1. PbftTypeOK'
    <2>2. resets' \in 0 .. MaxReset /\ height' \in Nat
      BY <1>0, PbftAssumption DEF PbftInv, PbftTypeOK
    <2> QED
      BY <1>0, <2>2, Zenon DEF PbftInv, PbftTypeOK
  <1>2. OpenRound' /\ CountedAreOfOpen'
    BY <1>0 DEF PbftInv, OpenRound, CountedAreOfOpen
  <1>3. ASSUME NEW q \in Round PROVE SameSenders(q) /\ SameCounts(q)
    BY <1>0, Zenon DEF PbftInv, PbftTypeOK, SameSenders, SameCounts
  <1>4. ClosedRounds'
    BY <1>0, <1>3, QuietStays, SMTT(30) DEF ClosedRounds, Round, Due, Quiet
  <1>5. CountedWereSent'
    BY <1>0, <1>3, SameSent, Zenon DEF PbftInv, CountedWereSent, Round, Node
  <1>6. SentForCounts'
    <2>1. /\ isCommitBordcast' = isCommitBordcast /\ cntPrepare' = cntPrepare
          /\ isReply' = isReply /\ cntCommit' = cntCommit
          /\ \A n \in Node : n # Leader => requestPool'[n] = requestPool[n]
      BY <1>0, Zenon DEF PbftInv, PbftTypeOK
    <2> QED
      BY <2>1, Zenon DEF PbftInv, SentForCounts
  <1>7. EndedHaveReplies'
    <2>1. ended \subseteq Round
      BY PbftAssumption DEF PbftInv, PbftTypeOK, Round
    <2> QED
      BY <1>0, <1>3, <2>1, SameSent DEF PbftInv, EndedHaveReplies, malicious_nums, node_nums
  <1> QED
    BY <1>1, <1>2, <1>4, <1>5, <1>6, <1>7 DEF PbftInv

\* The first state.
LEMMA PbftInvInit ==
    PbftInit => PbftInv
  <1> SUFFICES ASSUME PbftInit PROVE PbftInv
    OBVIOUS
  <1>0. /\ cntPrepare \in Counters /\ refused \in Counters /\ cntCommit \in Counters
        /\ \A n \in Node, r \in Round : cntPrepare[n][r] = 0 /\ cntCommit[n][r] = 0
    BY Zenon DEF PbftInit, Counters
  <1>1. PbftTypeOK
    <2>2. round \in 0 .. MaxRound /\ resets \in 0 .. MaxReset
      BY PbftAssumption DEF PbftInit
    <2> QED
      BY <1>0, <2>2, Zenon DEF PbftTypeOK, PbftInit
  <1>2. OpenRound /\ CountedAreOfOpen /\ EndedHaveReplies
    <2>1. waiting = sequenceLock /\ ~waiting
      BY Zenon DEF PbftInit
    <2> QED
      BY <2>1 DEF OpenRound, CountedAreOfOpen, EndedHaveReplies, PbftInit
  <1>4. CountedWereSent
    <2>1. \A r \in Round : handledReplies[r] = 0
      BY Zenon DEF PbftInit
    <2> QED
      BY <1>0, <2>1, CountsAreNat DEF CountedWereSent
  <1> QED
    BY <1>1, <1>2, <1>4 DEF PbftInv, PbftInit, ClosedRounds, Round, SentForCounts

-----------------------------------------------------------------------------
(* The theorems.                                                            *)

\* Behind 2f replies stand 2f backups with the request: a backup replied, so 2f other
\* nodes have committed, backups that have the request, or the leader for 2f Prepares.
LEMMA RepliesNeedRequests ==
    ASSUME PbftInv, NEW r \in Round, RepliesTo(r) >= 2 * malicious_nums
    PROVE  Cardinality(Requested(r)) >= 2 * malicious_nums
  <1> DEFINE f == malicious_nums
  <1>0. Cardinality(Requested(r)) \in Nat /\ f \in Nat
    BY Counting, MaliciousNums DEF Requested
  <1>1. CASE f = 0
    BY <1>0, <1>1, SMTT(30)
  <1>2. CASE f > 0
    <2>2. PICK n \in Node \ {Leader} : r \in isReply[n]
      BY <1>0, <1>2, FS_EmptySet, SMTT(30) DEF RepliesTo
    <2>3. CommitsTo(n, r) >= 2 * f
      BY <1>0, <2>2, CountsAreNat DEF PbftInv, PbftTypeOK, Counters, SentForCounts, CountedWereSent
    <2>4. CASE r \in isCommitBordcast[Leader]
      <3>1. Leader \in Node
        BY ZenonT(30) DEF Node
      <3>2. PreparesTo(Leader, r) >= 2 * f
        BY <1>0, <2>4, <3>1, CountsAreNat, SMTT(30) DEF PbftInv, PbftTypeOK, Counters,
           SentForCounts, CountedWereSent, specifiedcnt
      <3> QED
        BY <3>2, Zenon DEF PreparesTo, Requested
    <2>5. CASE r \notin isCommitBordcast[Leader]
      <3>1. PICK C : C = {m \in Node \ {n} : r \in isCommitBordcast[m]}
        BY Zenon
      <3>2. C \subseteq Requested(r) /\ Requested(r) \subseteq Node
        BY <2>5, <3>1, Zenon DEF PbftInv, SentForCounts, Requested
      <3>3. Cardinality(C) \in Nat /\ Cardinality(C) <= Cardinality(Requested(r))
        BY <3>2, Counting, Zenon
      <3>4. Cardinality(C) >= 2 * f
        BY <2>3, <3>1, Zenon DEF CommitsTo
      <3> HIDE DEF f
      <3>5. Cardinality(Requested(r)) >= 2 * f
        BY <1>0, <3>3, <3>4, SMTT(30)
      <3> QED
        BY <3>5, Zenon DEF f
    <2> QED
      BY <2>4, <2>5, Zenon
  <1> QED
    BY <1>0, <1>2

\* The invariant holds throughout, when no message outlives a reconfiguration.
THEOREM PbftInvariantHolds ==
    ASSUME MessagesInTime PROVE PbftSpec => []PbftInv
  <1>1. PbftInv /\ [PbftNext]_pbftVars => PbftInv'
    <2> SUFFICES ASSUME PbftInv, [PbftNext]_pbftVars PROVE PbftInv'
      OBVIOUS
    <2>1. CASE PbftNext
      BY <2>1, ProposeKeeps, ResetKeeps, HandlePrePrepareKeeps, HandlePrepareKeeps,
         HandleCommitKeeps, HandleReplyKeeps DEF PbftNext, Deliver
    <2>2. CASE UNCHANGED pbftVars
      <3>1. PbftTypeOK' = PbftTypeOK /\ OpenRound' = OpenRound /\ CountedAreOfOpen' = CountedAreOfOpen
        BY <2>2, Zenon DEF pbftVars, PbftTypeOK, OpenRound, CountedAreOfOpen, Node
      <3>2. ClosedRounds' = ClosedRounds
        BY <2>2, ZenonT(30) DEF pbftVars, ClosedRounds, IgnoresReply, Quiet, ReplyDue,
           PrePrepareDue, PrepareDue, CommitDue, RepliesTo, PreparesTo, CommitsTo, Round, Node
      <3>3. CountedWereSent' = CountedWereSent /\ EndedHaveReplies' = EndedHaveReplies
        BY <2>2, ZenonT(30) DEF pbftVars, CountedWereSent, EndedHaveReplies, RepliesTo,
           PreparesTo, CommitsTo, malicious_nums, node_nums, Round, Node
      <3>4. SentForCounts' = SentForCounts
        BY <2>2, Zenon DEF pbftVars, SentForCounts, specifiedcnt, malicious_nums, node_nums,
           Round, Node
      <3> QED
        BY <3>1, <3>2, <3>3, <3>4, Zenon DEF PbftInv
    <2> QED
      BY <2>1, <2>2
  <1> QED
    BY <1>1, PbftInvInit, PTL DEF PbftSpec

\* Behind every end of a round, and every reply counted towards one, stand backups that
\* have committed this very round, whatever the order in which HandlePrePrepare,
\* HandlePrepare, HandleCommit and HandleReply meet their messages.
THEOREM QuorumBehindEachAlways ==
    ASSUME MessagesInTime PROVE PbftSpec => []QuorumBehindEach
  <1>1. ASSUME PbftInv PROVE QuorumBehindEach
    <2>1. ended \subseteq Round
      BY <1>1, PbftAssumption, SMTT(30) DEF PbftInv, PbftTypeOK, Round
    <2>3. replyCnt > 0 => sequenceLock /\ round \notin ended
      BY <1>1, Zenon DEF PbftInv, OpenRound, CountedAreOfOpen
    <2>4. ASSUME round > 0 PROVE replyCnt <= RepliesTo(round)
      <3>1. round \in Round
        BY <1>1, <2>4 DEF PbftInv, PbftTypeOK, Round
      <3>2. /\ handledReplies[round] <= RepliesTo(round) /\ handledReplies[round] \in Nat
            /\ replyCnt \in Nat /\ (replyCnt > 0 => replyCnt <= handledReplies[round])
        BY <1>1, <3>1, Zenon DEF PbftInv, PbftTypeOK, CountedWereSent, CountedAreOfOpen
      <3>3. RepliesTo(round) \in Nat
        BY CountsAreNat, Zenon
      <3> QED
        BY <3>2, <3>3, SMTT(30)
    <2> QED
      BY <1>1, <2>1, <2>3, <2>4, RepliesNeedRequests, Zenon DEF QuorumBehindEach,
         RepliesAreOfThisRound, EndedByQuorum, PbftInv, EndedHaveReplies, Requested
  <1> QED
    BY <1>1, PbftInvariantHolds, PTL
=============================================================================
