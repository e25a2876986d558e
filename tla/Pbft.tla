-------------------------------- MODULE Pbft --------------------------------
(***************************************************************************)
(* The consensus of one committee on its leader's blocks (pbft/,           *)
(* node/node.go).  The worker of the leader runs one round after the other *)
(* (RunPbft).  Every message is handled in a goroutine of its own, so      *)
(* messages are handled in any order, even those of one sender.  They are  *)
(* neither lost nor duplicated (TCP).                                      *)
(*                                                                         *)
(* The handlers count messages and never look at who sent them.  So the    *)
(* model keeps, for each node, how many it has handled, and finds how many *)
(* were sent to it from the state of the senders, each of which sends a    *)
(* message of a kind once per round.  Prepares after the node's own Commit *)
(* and Commits after its reply only raise counts that nobody reads again,  *)
(* and at the leader Commits only set flags that nobody reads; these are   *)
(* left out.                                                               *)
(*                                                                         *)
(* A reconfiguration may come between two rounds.  The node that leads     *)
(* next, modelled as the same one, forgets its rounds (Reset), and the     *)
(* block numbers, which serve as sequence numbers, go on at those of the   *)
(* committee it leads now.  The backups forget nothing.                    *)
(***************************************************************************)
EXTENDS Integers, FiniteSets

CONSTANTS
    Backup,           \* the committee's nodes other than the leader, by its node table
    Leader,
    Absent,           \* the nodes of the table that do not exist (empty address)
    MessagesInTime,   \* whether no message of a round outlives a reconfiguration
    MaxRound,         \* bound: rounds
    MaxReset          \* bound: reconfigurations

ASSUME PbftAssumption ==
    /\ IsFiniteSet(Backup) /\ Leader \notin Backup
    /\ Absent \subseteq Backup
    /\ MaxRound \in Nat /\ MaxReset \in Nat
    /\ MessagesInTime \in BOOLEAN

node_nums      == Cardinality(Backup) + 1
malicious_nums == (node_nums - 1) \div 3

Node  == (Backup \ Absent) \cup {Leader}
Round == 1 .. MaxRound        \* a round stands for its block and digest

VARIABLES
    round,            \* rounds begun
    number,           \* Round -> number of its block, its sequence number
    height,           \* height of the chain the leader's committee works for
    resets,           \* reconfigurations so far
    ended,            \* rounds for which RunPbft has been told to go on
    waiting,          \* whether RunPbft waits for OneConsensusDone
    sequenceLock,     \* whether the leader's sequenceLock is held
    sequenceID,       \* Node -> sequenceID
    requestPool,      \* Node -> rounds whose request it has
    cntPrepare,       \* Node -> Round -> size of cntPrepareConfirm
    refused,          \* Node -> Round -> Prepares dropped
    isCommitBordcast, \* Node -> rounds it has sent its Commit for
    cntCommit,        \* Node -> Round -> size of cntCommitConfirm
    isReply,          \* Node -> rounds it has taken for committed
    handledReplies,   \* Round -> Replies the leader has handled
    replyCnt,         \* Replies the leader has counted
    gotEnoughReply    \* sequence numbers the leader has seen end

pbftVars ==
    <<round, number, height, resets, ended, waiting, sequenceLock, sequenceID, requestPool,
      cntPrepare, refused, isCommitBordcast, cntCommit, isReply, handledReplies, replyCnt,
      gotEnoughReply>>

Counters == [Node -> [Round -> Nat]]

\* The types.
PbftTypeOK ==
    /\ round \in 0 .. MaxRound
    /\ number \in [Round -> Nat] /\ height \in Nat
    /\ resets \in 0 .. MaxReset /\ ended \subseteq 1 .. round
    /\ waiting \in BOOLEAN /\ sequenceLock \in BOOLEAN
    /\ sequenceID \in [Node -> Nat]
    /\ requestPool \in [Node -> SUBSET (1 .. round)]
    /\ cntPrepare \in Counters /\ refused \in Counters /\ cntCommit \in Counters
    /\ isCommitBordcast \in [Node -> SUBSET (1 .. round)]
    /\ isReply \in [Node -> SUBSET (1 .. round)]
    /\ handledReplies \in [Round -> Nat]
    /\ replyCnt \in Nat /\ gotEnoughReply \subseteq Nat

PbftInit ==
    /\ round = 0 /\ height = 0 /\ resets = 0 /\ ended = {}
    /\ number = [r \in Round |-> 0]
    /\ waiting = FALSE /\ sequenceLock = FALSE
    /\ sequenceID = [n \in Node |-> 0]
    /\ requestPool = [n \in Node |-> {}]
    /\ cntPrepare = [n \in Node |-> [r \in Round |-> 0]]
    /\ refused = cntPrepare /\ cntCommit = cntPrepare
    /\ isCommitBordcast = [n \in Node |-> {}] /\ isReply = [n \in Node |-> {}]
    /\ handledReplies = [r \in Round |-> 0]
    /\ replyCnt = 0 /\ gotEnoughReply = {}

-----------------------------------------------------------------------------
(* What was sent to node n in round r.                                      *)

PreparesTo(n, r) == Cardinality({m \in Node \ {n, Leader} : r \in requestPool[m]})
CommitsTo(n, r)  == Cardinality({m \in Node \ {n} : r \in isCommitBordcast[m]})
RepliesTo(r)     == Cardinality({m \in Node \ {Leader} : r \in isReply[m]})

(* Messages that were not handled yet and may still matter.                 *)

PrePrepareDue(n, r) == n # Leader /\ r <= round /\ r \notin requestPool[n]
PrepareDue(n, r) == r \notin isCommitBordcast[n] /\ cntPrepare[n][r] + refused[n][r] < PreparesTo(n, r)
CommitDue(n, r)  == n # Leader /\ r \notin isReply[n] /\ cntCommit[n][r] < CommitsTo(n, r)
ReplyDue(r)      == handledReplies[r] < RepliesTo(r)

Due ==
    \E r \in Round :
        ReplyDue(r) \/ \E n \in Node : PrePrepareDue(n, r) \/ PrepareDue(n, r) \/ CommitDue(n, r)

-----------------------------------------------------------------------------

\* The worker has a block: RunPbft sets the sequence number, proposes and waits.
Propose ==
    /\ ~waiting /\ ~sequenceLock
    /\ round < MaxRound
    /\ round' = round + 1 /\ height' = height + 1
    /\ number' = [number EXCEPT ![round'] = height']
    /\ waiting' = TRUE /\ sequenceLock' = TRUE
    /\ sequenceID' = [sequenceID EXCEPT ![Leader] = height']
    /\ requestPool' = [requestPool EXCEPT ![Leader] = @ \cup {round'}]
    /\ UNCHANGED <<resets, ended, cntPrepare, refused, isCommitBordcast, cntCommit, isReply,
                   handledReplies, replyCnt, gotEnoughReply>>

\* sequenceID is set to the message's, back as well as forth; a Prepare is sent.
HandlePrePrepare(n, r) ==
    /\ PrePrepareDue(n, r)
    /\ sequenceID' = [sequenceID EXCEPT ![n] = number[r]]
    /\ requestPool' = [requestPool EXCEPT ![n] = @ \cup {r}]
    /\ UNCHANGED <<round, number, height, resets, ended, waiting, sequenceLock, cntPrepare,
                   refused, isCommitBordcast, cntCommit, isReply, handledReplies, replyCnt,
                   gotEnoughReply>>

\* Prepares needed for a node's commit; a backup has sent one itself, the leader has not.
specifiedcnt(n) == 2 * malicious_nums - (IF n = Leader THEN 0 ELSE 1)

\* A Prepare of a round whose request has not come, or above sequenceID, is dropped.
RefusesPrepare(n, r) == r \notin requestPool[n] \/ sequenceID[n] < number[r]

HandlePrepare(n, r) ==
    /\ PrepareDue(n, r)
    /\ IF RefusesPrepare(n, r)
       THEN /\ refused' = [refused EXCEPT ![n][r] = @ + 1]
            /\ UNCHANGED <<cntPrepare, isCommitBordcast>>
       ELSE /\ cntPrepare' = [cntPrepare EXCEPT ![n][r] = @ + 1]
            /\ isCommitBordcast' = [isCommitBordcast EXCEPT ![n] =
                   @ \cup {q \in {r} : cntPrepare'[n][r] >= specifiedcnt(n)}]
            /\ UNCHANGED refused
    /\ UNCHANGED <<round, number, height, resets, ended, waiting, sequenceLock, sequenceID,
                   requestPool, cntCommit, isReply, handledReplies, replyCnt, gotEnoughReply>>

\* Mutant: 2f + 1 Commits are needed besides the node's own.
required_cnt_OneMore == 2 * malicious_nums + 1

required_cnt == 2 * malicious_nums

\* The request may not have come yet: HandleCommit does not ask for it.  A backup
\* that has enough Commits replies to the leader and goes on to the next sequence number.
HandleCommit(n, r) ==
    /\ CommitDue(n, r)
    /\ cntCommit' = [cntCommit EXCEPT ![n][r] = @ + 1]
    /\ IF cntCommit'[n][r] >= required_cnt
       THEN /\ isReply' = [isReply EXCEPT ![n] = @ \cup {r}]
            /\ sequenceID' = [sequenceID EXCEPT ![n] = @ + 1]
       ELSE UNCHANGED <<isReply, sequenceID>>
    /\ UNCHANGED <<round, number, height, resets, ended, waiting, sequenceLock, requestPool,
                   cntPrepare, refused, isCommitBordcast, handledReplies, replyCnt, gotEnoughReply>>

\* Mutant: a reply of a round that has ended is counted for the next.
IgnoresReply_Never(r) == FALSE

IgnoresReply(r) == number[r] \in gotEnoughReply

\* With enough replies the round ends: RunPbft is told and the lock is released.
HandleReply(r) ==
    /\ ReplyDue(r)
    /\ handledReplies' = [handledReplies EXCEPT ![r] = @ + 1]
    /\ \/ /\ IgnoresReply(r)
          /\ UNCHANGED <<ended, waiting, sequenceLock, sequenceID, replyCnt, gotEnoughReply>>
       \/ /\ ~IgnoresReply(r) /\ replyCnt + 1 < 2 * malicious_nums
          /\ replyCnt' = replyCnt + 1
          /\ UNCHANGED <<ended, waiting, sequenceLock, sequenceID, gotEnoughReply>>
       \/ /\ ~IgnoresReply(r) /\ replyCnt + 1 >= 2 * malicious_nums
          /\ replyCnt' = 0
          /\ gotEnoughReply' = gotEnoughReply \cup {number[r]} /\ ended' = ended \cup {round}
          /\ sequenceID' = [sequenceID EXCEPT ![Leader] = @ + 1]
          /\ waiting' = FALSE /\ sequenceLock' = FALSE
    /\ UNCHANGED <<round, number, height, resets, requestPool, cntPrepare, refused,
                   isCommitBordcast, cntCommit, isReply>>

Deliver(r) ==
    \/ \E n \in Node : HandlePrePrepare(n, r) \/ HandlePrepare(n, r) \/ HandleCommit(n, r)
    \/ HandleReply(r)

\* After a block a reconfiguration may come, at whose end the leader forgets its rounds.
\* Prepares and Commits of those that still come are refused, or set flags nobody reads,
\* so their counts and flags may stay.  The chain the new committee works for may be shorter.
Reset ==
    /\ ~waiting /\ round \in ended
    /\ resets < MaxReset /\ round < MaxRound
    /\ MessagesInTime => ~Due
    /\ resets' = resets + 1
    /\ height' \in 0 .. height
    /\ requestPool' = [requestPool EXCEPT ![Leader] = {}]
    /\ replyCnt' = 0 /\ gotEnoughReply' = {}
    /\ UNCHANGED <<round, number, ended, waiting, sequenceLock, sequenceID, cntPrepare, refused,
                   isCommitBordcast, cntCommit, isReply, handledReplies>>

PbftNext == Propose \/ Reset \/ \E r \in Round : Deliver(r)

PbftSpec == PbftInit /\ [][PbftNext]_pbftVars

-----------------------------------------------------------------------------
(* Properties.                                                              *)

\* A round that has ended (RunPbft returns, the block goes to the shard) was committed
\* by 2f backups at least, and 2f at least have its block, though HandleCommit never
\* looks whether the node has it, and HandleReply counts replies of any open round.
EndedByQuorum ==
    \A r \in ended :
        /\ RepliesTo(r) >= 2 * malicious_nums
        /\ Cardinality({n \in Node \ {Leader} : r \in requestPool[n]}) >= 2 * malicious_nums

\* Replies the leader has counted belong to the round it waits for, and each was sent
\* by another backup that committed this round: leftovers of earlier rounds, which go
\* on arriving after the round has ended, do not add up to a quorum.
RepliesAreOfThisRound ==
    /\ replyCnt > 0 => sequenceLock /\ round \notin ended
    /\ round > 0 => replyCnt <= RepliesTo(round)

\* Both: behind every end of a round, and every reply counted towards one, stand backups
\* that have committed this very round.
QuorumBehindEach == EndedByQuorum /\ RepliesAreOfThisRound

\* While RunPbft waits, some message is still to be handled: Prepares dropped because
\* they overtook the PrePrepare, PrePrepares that set sequenceID back, and sequence
\* numbers used before in another committee never leave the leader waiting for messages
\* nobody will send again.
NoStuckRound == waiting => Due
=============================================================================
