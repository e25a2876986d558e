----------------------------- MODULE BeaconChain -----------------------------
(***************************************************************************)
(* How a node learns of confirmed time beacons (TBs) in geth mode          *)
(* (beaconChain/, eth_chain/subscribe.go).  Layer1 mines TBs and emits one *)
(* event for each, in the order of its blocks.  The subscriber puts the    *)
(* events into a bounded channel.  On a timer, the node's BeaconChain      *)
(* empties the channel, groups the events by Layer1 block, generates one   *)
(* TBBlock for the oldest of these, once it has seen an event of a later   *)
(* one, and pushes what is confirmed to its client or committee.           *)
(***************************************************************************)
EXTENDS Integers, Sequences, FiniteSets

CONSTANTS
    Shard,            \* shard identifiers
    Height2Confirm,   \* how many Layer1 blocks a TBBlock must be old to be pushed
    ChannelCap,       \* capacity of eventChannel
    MaxTB,            \* bound: TBs sent per shard
    MaxEth,           \* bound: height of Layer1
    PerBlock,         \* bound: TBs in one Layer1 block
    MinedInOrder      \* whether Layer1 mines the TBs of one shard by height

ASSUME BeaconAssumption ==
    /\ Height2Confirm \in Nat
    /\ ChannelCap \in Nat \ {0}
    /\ MaxTB \in Nat /\ MaxEth \in Nat /\ PerBlock \in Nat
    /\ MinedInOrder \in BOOLEAN

VARIABLES
    sent,             \* Shard -> height of the last TB sent to Layer1
    eth,              \* height of Layer1
    log,              \* the events emitted so far
    read,             \* how many of them the subscriber has put into eventChannel
    drained,          \* how many of those have been taken out again
    geth_tbs_new,     \* events taken out and not yet in a TBBlock
    tbBlocks,         \* the TBBlocks generated
    pushed,           \* the Heights of those that were pushed
    up                \* FALSE once log.Error has ended the process

vars == <<sent, eth, log, read, drained, geth_tbs_new, tbBlocks, pushed, up>>

Event   == [ShardID : Shard, Height : Nat, Eth_height : Nat \ {0}]
TBBlock == [Height : Nat \ {0}, Tbs : SUBSET Event]

\* The types; eventChannel never holds more than its capacity.
TypeOK ==
    /\ sent \in [Shard -> Nat]
    /\ eth \in Nat
    /\ log \in Seq(Event)
    /\ read \in Nat /\ drained \in Nat /\ read - drained \in 0 .. ChannelCap
    /\ geth_tbs_new \subseteq Event
    /\ tbBlocks \subseteq TBBlock
    /\ pushed \subseteq Nat
    /\ up \in BOOLEAN

Init ==
    /\ sent = [s \in Shard |-> 0]
    /\ eth = 0 /\ log = <<>>
    /\ read = 0 /\ drained = 0
    /\ geth_tbs_new = {} /\ tbBlocks = {} /\ pushed = {}
    /\ up = TRUE

-----------------------------------------------------------------------------
(* Layer1.  A TB of shard s is known by its height.                         *)

Mined(s) == {log[i].Height : i \in {j \in 1 .. Len(log) : log[j].ShardID = s}}

\* A committee's leader sends the TB of its next block.
AddTB(s) ==
    /\ sent[s] < MaxTB
    /\ sent' = [sent EXCEPT ![s] = @ + 1]
    /\ UNCHANGED <<eth, log, read, drained, geth_tbs_new, tbBlocks, pushed, up>>

\* The events of a new Layer1 block: TBs that were sent and not mined, in some order.
IsNextBlock(new) ==
    /\ \A i \in 1 .. Len(new) :
          /\ new[i].Eth_height = eth + 1
          /\ new[i].Height \in 1 .. sent[new[i].ShardID] \ Mined(new[i].ShardID)
          /\ MinedInOrder =>
                \A h \in 1 .. new[i].Height - 1 :
                    \/ h \in Mined(new[i].ShardID)
                    \/ \E j \in 1 .. i - 1 : new[j].ShardID = new[i].ShardID /\ new[j].Height = h
    /\ \A i, j \in 1 .. Len(new) : new[i] = new[j] => i = j

Mine(new) ==
    /\ eth < MaxEth
    /\ IsNextBlock(new)
    /\ eth' = eth + 1
    /\ log' = log \o new
    /\ UNCHANGED <<sent, read, drained, geth_tbs_new, tbBlocks, pushed, up>>

-----------------------------------------------------------------------------
(* The node.                                                                *)

SubscribeEvents ==
    /\ up
    /\ read < Len(log) /\ read - drained < ChannelCap
    /\ read' = read + 1
    /\ UNCHANGED <<sent, eth, log, drained, geth_tbs_new, tbBlocks, pushed, up>>

\* Mutant: whatever height the iteration over the map yields first.
IsStart_AnyWaiting(start, upTo) ==
    IF geth_tbs_new # {}
    THEN \E e \in geth_tbs_new : e.Eth_height = start
    ELSE upTo > drained /\ start = log[drained + 1].Eth_height

\* The Layer1 block to generate a TBBlock for: the lowest that still waits, else that
\* of the first event taken out.  The events log[drained+1] to log[upTo] are taken out.
IsStart(start, upTo) ==
    IF geth_tbs_new # {}
    THEN /\ \E e \in geth_tbs_new : e.Eth_height = start
         /\ \A e \in geth_tbs_new : e.Eth_height >= start
    ELSE upTo > drained /\ start = log[drained + 1].Eth_height

Taken(upTo) == {log[i] : i \in drained + 1 .. upTo}

\* Mutant: a block is generated as soon as there is an event of it.
ToPack_AtOnce(start, upTo) == TRUE

\* An event of a later Layer1 block is among those taken out in this call.
ToPack(start, upTo) == \E e \in Taken(upTo) : e.Eth_height > start

\* No block is generated: nothing has arrived, or nothing of a later Layer1 block.
NothingToPack(upTo) ==
    /\ \A start \in 1 .. eth : IsStart(start, upTo) => ~ToPack(start, upTo)
    /\ geth_tbs_new' = geth_tbs_new \cup Taken(upTo)
    /\ UNCHANGED <<tbBlocks, pushed, up>>

toPushBlock(block) ==
    IF \E b \in tbBlocks : b.Height = block.Height
    THEN /\ up' = FALSE      \* log.Error ends the process
         /\ UNCHANGED <<tbBlocks, pushed>>
    ELSE /\ tbBlocks' = tbBlocks \cup {block}
         /\ pushed' = pushed \cup {h \in {block.Height - Height2Confirm} :
                                      \E b \in tbBlocks' : b.Height = h}
         /\ UNCHANGED up

\* Mutant: the block's events stay in geth_tbs_new.
PackAndPush_NotDeleted(upTo) ==
    \E start \in 1 .. eth :
        LET all == geth_tbs_new \cup Taken(upTo)
        IN  /\ IsStart(start, upTo)
            /\ ToPack(start, upTo)
            /\ geth_tbs_new' = all
            /\ toPushBlock([Height |-> start, Tbs |-> {e \in all : e.Eth_height = start}])

PackAndPush(upTo) ==
    \E start \in 1 .. eth :
        LET all == geth_tbs_new \cup Taken(upTo)
            tbs == {e \in all : e.Eth_height = start}
        IN  /\ IsStart(start, upTo)
            /\ ToPack(start, upTo)
            /\ geth_tbs_new' = all \ tbs
            /\ toPushBlock([Height |-> start, Tbs |-> tbs])

\* The timer fires.  Events that arrive while the channel is being emptied are taken
\* out as well.
loop ==
    /\ up
    /\ \E upTo \in read .. Len(log) :
          /\ NothingToPack(upTo) \/ PackAndPush(upTo)
          /\ read' = upTo /\ drained' = upTo
    /\ UNCHANGED <<sent, eth, log>>

Next ==
    \/ \E s \in Shard : AddTB(s)
    \/ \E n \in 0 .. PerBlock :
          \E new \in [1 .. n -> [ShardID : Shard, Height : 1 .. MaxTB, Eth_height : {eth + 1}]] :
             Mine(new)
    \/ SubscribeEvents
    \/ loop

Spec == Init /\ [][Next]_vars

\* The subscriber reads whatever arrives and the timer is reset after every call.
\* Layer1 owes nothing: committees stop sending TBs when they stop.
FairSpec == Spec /\ WF_vars(SubscribeEvents) /\ WF_vars(loop)

-----------------------------------------------------------------------------
(* Properties.                                                              *)

\* A TBBlock holds all the TBs of the Layer1 block it stands for: generateEthChainBlock
\* waits for an event of a later block before it takes a block to be complete.
CompleteBlocks ==
    \A b \in tbBlocks :
        b.Tbs = {log[i] : i \in {j \in 1 .. Len(log) : log[j].Eth_height = b.Height}}

\* toPushBlock never meets a second block of one height, on which it ends the process.
NeverContradicts == up

Delivered(s) ==
    {e.Height : e \in {f \in UNION {b.Tbs : b \in {c \in tbBlocks : c.Height \in pushed}} :
                          f.ShardID = s}}

\* The TBs of a shard reach the client and the committees without a gap: once TB h has
\* been pushed, so have all TBs below it.  The receivers only compare heights (AddTBs
\* in client/get.go takes the last one), so a gap would confirm what is not confirmed.
DeliveredInOrder ==
    \A s \in Shard : \A h \in Delivered(s) : 1 .. h \subseteq Delivered(s)

Generated(h) == \E b \in tbBlocks : b.Height = h

-----------------------------------------------------------------------------
(* Why the above holds.                                                     *)

\* The events come in the order of the Layer1 blocks.
Ordered ==
    /\ \A i \in 1 .. Len(log) : log[i].Eth_height <= eth
    /\ \A i, j \in 1 .. Len(log) : i <= j => log[i].Eth_height <= log[j].Eth_height

\* TBs of one shard come in the order of their heights, if Layer1 mines them so.
NoGap ==
    MinedInOrder =>
        \A i \in 1 .. Len(log) : \A h \in 1 .. log[i].Height - 1 :
            \E j \in 1 .. i : log[j].ShardID = log[i].ShardID /\ log[j].Height = h

\* What has been taken out of the channel is in a block or waits in geth_tbs_new.
Conserved ==
    /\ read <= Len(log)
    /\ geth_tbs_new = {log[i] : i \in {j \in 1 .. drained : ~Generated(log[j].Eth_height)}}

\* A block is generated after an event of a later one was taken out, and after the
\* blocks of all earlier events.
OldestFirst ==
    \A b \in tbBlocks :
        /\ \E i \in 1 .. drained : log[i].Eth_height > b.Height
        /\ \A i \in 1 .. Len(log) : log[i].Eth_height <= b.Height => Generated(log[i].Eth_height)

\* Without a confirmation distance, every block is pushed when it is generated.
AllPushed == Height2Confirm = 0 => \A b \in tbBlocks : b.Height \in pushed

\* The inductive invariant: toPushBlock and generateEthChainBlock together take the
\* Layer1 blocks that have TBs one by one, oldest first, each when it is complete.
IInv == Ordered /\ NoGap /\ Conserved /\ OldestFirst /\ AllPushed /\ CompleteBlocks /\ NeverContradicts

-----------------------------------------------------------------------------
(* What the comments promise and the code does not keep.                    *)

\* The reason generateEthChainBlock gives for not generating a block: no TB of a later
\* Layer1 block has been met yet.  So, once one has, the block is generated.
GeneratedOnceComplete ==
    \A h \in 1 .. MaxEth :
        (\E e, f \in geth_tbs_new : e.Eth_height = h /\ f.Eth_height > h) ~> Generated(h)

\* toPushBlock: "after the beacon chain has generated a new block, the confirmed
\* blocks are sent to the subscribers".  A block is confirmed once a block at least
\* Height2Confirm above it has been generated.
ConfirmedIsPushed ==
    \A b, c \in tbBlocks : b.Height + Height2Confirm <= c.Height => b.Height \in pushed
=============================================================================
