----------------------------- MODULE BeaconProofs -----------------------------
(* Proofs about BeaconChain, for any number of shards, TBs and Layer1 blocks.  *)
EXTENDS BeaconChain, SequenceTheorems, TLAPS

USE BeaconAssumption

-----------------------------------------------------------------------------
(* Types.                                                                   *)

\* The initial state has the declared types.
LEMMA TypeInit == Init => TypeOK
  BY DEF Init, TypeOK, Event, TBBlock

\* What a Layer1 block adds to the log is a sequence of events.
LEMMA NewEvents ==
  ASSUME TypeOK,
         NEW n \in 0 .. PerBlock,
         NEW new \in [1 .. n -> [ShardID : Shard, Height : 1 .. MaxTB, Eth_height : {eth + 1}]]
  PROVE  n \in Nat /\ new \in Seq(Event) /\ Len(new) = n
<1>1. new \in [1 .. n -> Event]
  <2>1. ASSUME NEW i \in 1 .. n PROVE new[i] \in Event
    <3>1. new[i] \in [ShardID : Shard, Height : 1 .. MaxTB, Eth_height : {eth + 1}]
      BY Zenon
    <3> QED
      BY <3>1, SMTT(30) DEF Event, TypeOK
  <2> QED
    BY <2>1, Zenon
<1> QED
  BY <1>1

\* Every step keeps the declared types, and the channel within its capacity.
LEMMA TypeNext == TypeOK /\ [Next]_vars => TypeOK'
<1> SUFFICES ASSUME TypeOK, [Next]_vars PROVE TypeOK'
  BY Zenon
<1> USE DEF TypeOK
<1>1. ASSUME NEW s \in Shard, AddTB(s) PROVE TypeOK'
  BY <1>1 DEF AddTB
<1>2. ASSUME NEW n \in 0 .. PerBlock,
             NEW new \in [1 .. n -> [ShardID : Shard, Height : 1 .. MaxTB, Eth_height : {eth + 1}]],
             Mine(new)
      PROVE  TypeOK'
  <2>1. new \in Seq(Event)
    BY NewEvents, Zenon
  <2> QED
    BY <1>2, <2>1 DEF Mine
<1>3. CASE SubscribeEvents
  BY <1>3 DEF SubscribeEvents
<1>4. CASE loop
  <2>1. PICK upTo \in read .. Len(log) :
             /\ NothingToPack(upTo) \/ PackAndPush(upTo)
             /\ read' = upTo /\ drained' = upTo
    BY <1>4, Zenon DEF loop
  <2>2. Taken(upTo) \subseteq Event
    BY DEF Taken
  <2>3. sent' = sent /\ eth' = eth /\ log' = log
    BY <1>4, Zenon DEF loop
  <2>4. read' \in Nat /\ drained' \in Nat /\ read' - drained' \in 0 .. ChannelCap
    BY <2>1
  <2>5. CASE NothingToPack(upTo)
    BY <2>2, <2>3, <2>4, <2>5, Zenon DEF NothingToPack
  <2>6. CASE PackAndPush(upTo)
    <3> DEFINE all == geth_tbs_new \cup Taken(upTo)
               tbs(start) == {e \in all : e.Eth_height = start}
    <3>1. PICK start \in 1 .. eth :
               /\ geth_tbs_new' = all \ tbs(start)
               /\ toPushBlock([Height |-> start, Tbs |-> tbs(start)])
      BY <2>6, Zenon DEF PackAndPush
    <3>2. [Height |-> start, Tbs |-> tbs(start)] \in TBBlock
      BY <2>2 DEF TBBlock
    <3>4. tbBlocks' \subseteq TBBlock /\ up' \in BOOLEAN
      BY <3>1, <3>2, Zenon DEF toPushBlock
    <3>5. pushed' \subseteq Nat
      <4>1. \A h \in pushed' : h \in pushed \/ \E b \in tbBlocks' : b.Height = h
        BY <3>1, Zenon DEF toPushBlock
      <4>2. \A b \in tbBlocks' : b.Height \in Nat
        BY <3>4, Zenon DEF TBBlock
      <4> QED
        BY <4>1, <4>2, Zenon
    <3> QED
      BY <2>2, <2>3, <2>4, <3>1, <3>4, <3>5, Zenon
  <2> QED
    BY <2>1, <2>5, <2>6, Zenon
<1>5. CASE UNCHANGED vars
  BY <1>5, Zenon DEF vars
<1> QED
  BY <1>1, <1>2, <1>3, <1>4, <1>5, Zenon DEF Next

\* Every reachable state has the declared types; in particular the subscriber never
\* overfills eventChannel.
THEOREM TypeCorrect == Spec => []TypeOK
  BY TypeInit, TypeNext, PTL DEF Spec

-----------------------------------------------------------------------------
(* The inductive invariant.                                                 *)

\* It holds initially.
LEMMA InvInit == Init => IInv
  BY DEF Init, IInv, Ordered, NoGap, Conserved, OldestFirst, AllPushed, CompleteBlocks,
         NeverContradicts, Generated

\* New Layer1 blocks only add events at the end, higher than all before.
LEMMA MineEffect ==
  ASSUME TypeOK, Ordered,
         NEW n \in 0 .. PerBlock,
         NEW new \in [1 .. n -> [ShardID : Shard, Height : 1 .. MaxTB, Eth_height : {eth + 1}]],
         Mine(new)
  PROVE  /\ Len(log') = Len(log) + n
         /\ \A i \in 1 .. Len(log) : log'[i] = log[i]
         /\ \A i \in 1 .. n : log'[Len(log) + i] = new[i]
         /\ \A i \in 1 .. n : new[i].Eth_height = eth + 1
<1>1. n \in Nat /\ Len(new) = n /\ new \in Seq(Event)
  BY NewEvents, Zenon
<1>2. log' = log \o new
  BY Zenon DEF Mine
<1>3. log \in Seq(Event) /\ Len(log) \in Nat
  BY DEF TypeOK
<1>4. \A i \in 1 .. n : new[i].Eth_height = eth + 1
  OBVIOUS
<1>5. Len(log') = Len(log) + n
  BY <1>1, <1>2, <1>3, ConcatProperties, Zenon
<1>6. \A i \in 1 .. Len(log) : log'[i] = log[i]
  BY <1>1, <1>2, <1>3
<1>7. \A i \in 1 .. n : log'[Len(log) + i] = new[i]
  BY <1>1, <1>2, <1>3
<1> QED
  BY <1>4, <1>5, <1>6, <1>7, Zenon

\* Where Layer1 only grows, the invariant is kept: blocks are complete because an
\* event of a later Layer1 block has been emitted.
LEMMA InvMine ==
  ASSUME TypeOK, IInv,
         NEW n \in 0 .. PerBlock,
         NEW new \in [1 .. n -> [ShardID : Shard, Height : 1 .. MaxTB, Eth_height : {eth + 1}]],
         Mine(new)
  PROVE  IInv'
<1> USE DEF IInv
<1>1. /\ Len(log') = Len(log) + n
      /\ \A i \in 1 .. Len(log) : log'[i] = log[i]
      /\ \A i \in 1 .. n : log'[Len(log) + i] = new[i]
      /\ \A i \in 1 .. n : new[i].Eth_height = eth + 1
  BY MineEffect, Zenon
<1>2. /\ Len(log) \in Nat /\ n \in Nat /\ eth \in Nat /\ eth' = eth + 1
      /\ drained \in Nat /\ read \in Nat /\ drained <= read
      /\ \A i \in 1 .. Len(log) : log[i] \in Event /\ log[i].Eth_height \in Nat
  <2>1. Len(log) \in Nat /\ eth \in Nat /\ drained \in Nat /\ read \in Nat /\ drained <= read
    BY DEF TypeOK
  <2>3. \A i \in 1 .. Len(log) : log[i] \in Event
    BY DEF TypeOK
  <2> QED
    BY <2>1, <2>3 DEF Event, Mine
<1>3. UNCHANGED <<read, drained, geth_tbs_new, tbBlocks, pushed, up>>
  BY Zenon DEF Mine
<1>4. \A i \in 1 .. Len(log') :
         \/ i \in 1 .. Len(log) /\ log'[i] = log[i]
         \/ i > Len(log) /\ i - Len(log) \in 1 .. n /\ log'[i] = new[i - Len(log)]
                        /\ log'[i].Eth_height = eth + 1
  <2> SUFFICES ASSUME NEW i \in 1 .. Len(log'), i > Len(log)
               PROVE  i - Len(log) \in 1 .. n /\ log'[i] = new[i - Len(log)]
                        /\ log'[i].Eth_height = eth + 1
    BY <1>1, <1>2, SMTT(30)
  <2> DEFINE k == i - Len(log)
  <2>1. k \in 1 .. n /\ i = Len(log) + k
    BY <1>1
  <2> HIDE DEF k
  <2>2. log'[i] = new[k] /\ new[k].Eth_height = eth + 1
    BY <1>1, <2>1, Zenon
  <2> QED
    BY <2>1, <2>2, Zenon DEF k
<1>5. Ordered'
  <2>1. \A i \in 1 .. Len(log) : log[i].Eth_height <= eth
    BY Zenon DEF Ordered
  <2>2. ASSUME NEW i \in 1 .. Len(log') PROVE log'[i].Eth_height <= eth + 1
    <3>1. CASE i \in 1 .. Len(log) /\ log'[i] = log[i]
      BY <1>2, <2>1, <3>1
    <3>2. CASE log'[i].Eth_height = eth + 1
      BY <1>2, <3>2
    <3> QED
      BY <1>4, <3>1, <3>2, Zenon
  <2>3. ASSUME NEW i \in 1 .. Len(log'), NEW j \in 1 .. Len(log'), i <= j
        PROVE  log'[i].Eth_height <= log'[j].Eth_height
    <3>1. CASE j \in 1 .. Len(log) /\ log'[j] = log[j]
      <4>1. i \in 1 .. Len(log) /\ log'[i] = log[i]
        BY <1>1, <2>3, <3>1
      <4> QED
        BY <3>1, <4>1, <2>3, Zenon DEF Ordered
    <3>2. CASE log'[j].Eth_height = eth + 1
      BY <2>2, <3>2, Zenon
    <3> QED
      BY <1>4, <3>1, <3>2, Zenon
  <2> QED
    BY <1>2, <2>2, <2>3, Zenon DEF Ordered
<1>6. NoGap'
  <2> SUFFICES ASSUME MinedInOrder, NEW i \in 1 .. Len(log'), NEW h \in 1 .. log'[i].Height - 1
               PROVE  \E j \in 1 .. i : log'[j].ShardID = log'[i].ShardID /\ log'[j].Height = h
    BY Zenon DEF NoGap
  <2>1. CASE i \in 1 .. Len(log)
    <3>1. log'[i] = log[i]
      BY <1>1, <2>1, Zenon
    <3>2. PICK j \in 1 .. i : log[j].ShardID = log[i].ShardID /\ log[j].Height = h
      BY <2>1, <3>1, Zenon DEF NoGap
    <3>3. log'[j] = log[j]
      BY <1>1, <2>1
    <3> QED
      BY <3>1, <3>2, <3>3, Zenon
  <2>2. CASE i > Len(log)
    <3> DEFINE k == i - Len(log)
    <3>1. k \in 1 .. n /\ i = Len(log) + k /\ Len(new) = n
      BY <1>1, <1>2, <2>2
    <3> HIDE DEF k
    <3>2. log'[i] = new[k]
      BY <1>1, <3>1, Zenon
    <3>3. \/ h \in Mined(new[k].ShardID)
          \/ \E j \in 1 .. k - 1 : new[j].ShardID = new[k].ShardID /\ new[j].Height = h
      BY <3>1, <3>2, Zenon DEF Mine, IsNextBlock
    <3>4. CASE h \in Mined(new[k].ShardID)
      <4>1. PICK j \in 1 .. Len(log) : log[j].ShardID = new[k].ShardID /\ log[j].Height = h
        BY <3>4, Zenon DEF Mined
      <4>2. j \in 1 .. i /\ log'[j] = log[j]
        BY <1>1, <2>2
      <4> QED
        BY <4>1, <4>2, <3>2, Zenon
    <3>5. CASE \E j \in 1 .. k - 1 : new[j].ShardID = new[k].ShardID /\ new[j].Height = h
      <4>1. PICK j \in 1 .. k - 1 : new[j].ShardID = new[k].ShardID /\ new[j].Height = h
        BY <3>5, Zenon
      <4>2. j \in 1 .. n /\ Len(log) + j \in 1 .. i
        BY <3>1, <1>2, SMTT(30)
      <4>3. log'[Len(log) + j] = new[j]
        BY <4>2, <1>1, Zenon
      <4> QED
        BY <4>1, <4>2, <4>3, <3>2, Zenon
    <3> QED
      BY <3>3, <3>4, <3>5, Zenon
  <2> QED
    BY <1>4, <2>1, <2>2, Zenon
<1>7. Conserved'
  <2>3. read' <= Len(log')
    BY <1>1, <1>2, <1>3 DEF Conserved
  <2>5. \A i \in 1 .. drained : log'[i] = log[i]
    BY <1>1, <1>2 DEF Conserved
  <2>6. geth_tbs_new = {log'[i] : i \in {j \in 1 .. drained : ~Generated(log'[j].Eth_height)}}
    BY <2>5, Zenon DEF Conserved
  <2> QED
    BY <1>3, <2>3, <2>6, Zenon DEF Conserved, Generated
<1>8. \A b \in tbBlocks : b.Height \in Nat /\ b.Height < eth
  <2> SUFFICES ASSUME NEW b \in tbBlocks PROVE b.Height \in Nat /\ b.Height < eth
    BY Zenon
  <2>2. PICK i \in 1 .. drained : log[i].Eth_height > b.Height
    BY Zenon DEF OldestFirst
  <2>3. i \in 1 .. Len(log) /\ log[i].Eth_height <= eth /\ log[i].Eth_height \in Nat
    BY <1>2 DEF Conserved, Ordered
  <2> QED
    BY <2>2, <2>3 DEF TypeOK, TBBlock
<1>9. OldestFirst'
  <2> SUFFICES ASSUME NEW b \in tbBlocks
               PROVE  /\ \E i \in 1 .. drained : log'[i].Eth_height > b.Height
                      /\ \A i \in 1 .. Len(log') : log'[i].Eth_height <= b.Height => Generated(log'[i].Eth_height)
    BY <1>3, Zenon DEF OldestFirst, Generated
  <2>1. \A i \in 1 .. drained : i \in 1 .. Len(log)
    BY <1>2 DEF Conserved
  <2>2. ASSUME NEW i \in 1 .. Len(log'), log'[i].Eth_height <= b.Height
        PROVE  i \in 1 .. Len(log) /\ log'[i] = log[i]
    <3>1. log'[i].Eth_height # eth + 1
      BY <1>2, <1>8, <2>2
    <3> QED
      BY <1>4, <3>1, Zenon
  <2> QED
    BY <2>1, <2>2, <1>1, Zenon DEF OldestFirst
<1>10. CompleteBlocks'
  <2> SUFFICES ASSUME NEW b \in tbBlocks
               PROVE  b.Tbs = {log'[i] : i \in {j \in 1 .. Len(log') : log'[j].Eth_height = b.Height}}
    BY <1>3, Zenon DEF CompleteBlocks
  <2>1. \A i \in 1 .. Len(log') : log'[i].Eth_height = b.Height => i \in 1 .. Len(log) /\ log'[i] = log[i]
    BY <1>4, <1>8, <1>2, SMTT(30)
  <2>2. \A i \in 1 .. Len(log) : i \in 1 .. Len(log') /\ log'[i] = log[i]
    BY <1>1
  <2>3. b.Tbs = {log[i] : i \in {j \in 1 .. Len(log) : log[j].Eth_height = b.Height}}
    BY Zenon DEF CompleteBlocks
  <2> QED
    BY <2>1, <2>2, <2>3, SMTT(30)
<1> QED
  BY <1>3, <1>5, <1>6, <1>7, <1>9, <1>10, Zenon DEF AllPushed, NeverContradicts

\* No block waits, or has been generated, that is higher than what comes next.
LEMMA TakenIsNew ==
  ASSUME TypeOK, IInv, NEW i \in 1 .. Len(log), i > drained
  PROVE  ~Generated(log[i].Eth_height)
<1> SUFFICES ASSUME NEW b \in tbBlocks, b.Height = log[i].Eth_height PROVE FALSE
  BY Zenon DEF Generated
<1>1. PICK k \in 1 .. drained : log[k].Eth_height > b.Height
  BY Zenon DEF IInv, OldestFirst
<1>2. k \in 1 .. Len(log) /\ k <= i
  BY DEF TypeOK
<1>4. log[k] \in Event /\ log[i] \in Event
  BY <1>2 DEF TypeOK
<1> QED
  BY <1>1, <1>2, <1>4 DEF Event, IInv, Ordered

\* Taking events out of the channel without generating a block.
LEMMA InvNothing ==
  ASSUME TypeOK, IInv, NEW upTo \in read .. Len(log),
         NothingToPack(upTo), drained' = upTo, read' = upTo, UNCHANGED <<sent, eth, log>>
  PROVE  IInv'
<1>1. UNCHANGED <<tbBlocks, pushed, up, log, eth>>
  BY Zenon DEF NothingToPack
<1>2. \A h : Generated(h)' <=> Generated(h)
  BY <1>1, Zenon DEF Generated
<1>3. drained \in Nat /\ read \in Nat /\ drained <= read /\ Len(log) \in Nat /\ upTo \in Nat /\ drained <= upTo
  BY DEF TypeOK
<1>5. OldestFirst'
  BY <1>1, <1>2, <1>3 DEF IInv, OldestFirst
<1>6. Conserved'
  BY <1>1, <1>2, <1>3, TakenIsNew, SMTT(30) DEF IInv, Conserved, NothingToPack, Taken
<1> QED
  BY <1>1, <1>5, <1>6 DEF IInv, Ordered, NoGap, AllPushed, CompleteBlocks, NeverContradicts

\* Generating a block: it is the oldest, complete, and the first of its height.
LEMMA InvPack ==
  ASSUME TypeOK, IInv, NEW upTo \in read .. Len(log),
         PackAndPush(upTo), drained' = upTo, read' = upTo, UNCHANGED <<sent, eth, log>>
  PROVE  IInv'
<1> DEFINE all == geth_tbs_new \cup Taken(upTo)
           Waits(i) == i \in 1 .. upTo /\ ~Generated(log[i].Eth_height)
<1>1. PICK start \in 1 .. eth :
           /\ IsStart(start, upTo)
           /\ ToPack(start, upTo)
           /\ geth_tbs_new' = all \ {e \in all : e.Eth_height = start}
           /\ toPushBlock([Height |-> start, Tbs |-> {e \in all : e.Eth_height = start}])
  BY Zenon DEF PackAndPush
<1> DEFINE tbs == {e \in all : e.Eth_height = start}
           block == [Height |-> start, Tbs |-> tbs]
<1>2. /\ drained \in Nat /\ upTo \in Nat /\ Len(log) \in Nat /\ start \in Nat
      /\ drained <= upTo /\ upTo <= Len(log)
  BY DEF TypeOK
<1>3. \A i \in 1 .. Len(log) : log[i] \in Event /\ log[i].Eth_height \in Nat
  <2>1. \A i \in 1 .. Len(log) : log[i] \in Event
    BY DEF TypeOK
  <2> QED
    BY <2>1, Zenon DEF Event
<1>4. \A i, j \in 1 .. Len(log) : i <= j => log[i].Eth_height <= log[j].Eth_height
  BY Zenon DEF IInv, Ordered
<1>5. \A i \in drained + 1 .. Len(log) : ~Generated(log[i].Eth_height)
  BY <1>2, TakenIsNew
<1>6. geth_tbs_new = {log[i] : i \in {j \in 1 .. drained : ~Generated(log[j].Eth_height)}}
  BY Zenon DEF IInv, Conserved
<1>7. all = {log[i] : i \in {j \in 1 .. upTo : ~Generated(log[j].Eth_height)}}
  BY <1>2, <1>5, <1>6, SMTT(30) DEF Taken
<1>8. PICK m \in 1 .. upTo : log[m].Eth_height > start
  BY <1>1, <1>2 DEF ToPack, Taken
<1>9. ~Generated(start)
  <2>1. CASE geth_tbs_new # {}
    BY <1>1, <1>6, <2>1, Zenon DEF IsStart
  <2>2. CASE geth_tbs_new = {}
    BY <1>1, <1>2, <1>5, <2>2 DEF IsStart
  <2> QED
    BY <2>1, <2>2, Zenon
<1>10. ASSUME NEW i \in 1 .. Len(log), log[i].Eth_height < start
       PROVE  Generated(log[i].Eth_height)
  <2> SUFFICES ASSUME ~Generated(log[i].Eth_height) PROVE FALSE
    BY Zenon
  <2>1. CASE geth_tbs_new # {}
    <3>1. PICK k \in 1 .. drained : log[k].Eth_height = start
      BY <1>1, <1>6, <2>1, Zenon DEF IsStart
    <3>2. k \in 1 .. Len(log)
      BY <1>2
    <3>3. i <= drained
      BY <1>2, <1>3, <1>4, <1>10, <3>1, <3>2
    <3>4. log[i] \in geth_tbs_new
      BY <1>6, <3>3
    <3> QED
      BY <1>1, <1>2, <1>3, <1>10, <2>1, <3>4 DEF IsStart
  <2>2. CASE geth_tbs_new = {}
    <3>1. drained + 1 \in 1 .. Len(log) /\ start = log[drained + 1].Eth_height
      BY <1>1, <1>2, <2>2 DEF IsStart
    <3>2. i <= drained
      <4> SUFFICES ASSUME drained + 1 <= i PROVE FALSE
        BY <1>2
      <4>1. start <= log[i].Eth_height /\ log[i].Eth_height \in Nat
        BY <1>3, <1>4, <3>1, Zenon
      <4> QED
        BY <1>2, <1>10, <4>1
    <3>3. log[i] \in geth_tbs_new
      BY <1>6, <3>2
    <3> QED
      BY <2>2, <3>3, Zenon
  <2> QED
    BY <2>1, <2>2, Zenon
<1>11. /\ tbBlocks' = tbBlocks \cup {block}
       /\ up' = up
       /\ pushed' = pushed \cup {h \in {start - Height2Confirm} : \E b \in tbBlocks' : b.Height = h}
  BY <1>1, <1>9, Zenon DEF toPushBlock, Generated
<1>12. \A h : Generated(h)' <=> Generated(h) \/ h = start
  <2>1. block.Height = start
    BY Zenon
  <2> HIDE DEF block
  <2> QED
    BY <1>11, <2>1, Zenon DEF Generated
<1> HIDE DEF all
<1>14. AllPushed'
  BY <1>11 DEF AllPushed, IInv
<1>15. CompleteBlocks'
  <2>1. tbs = {log[i] : i \in {j \in 1 .. Len(log) : log[j].Eth_height = start}}
    <3>1. ASSUME NEW e \in tbs
          PROVE  \E i \in 1 .. Len(log) : e = log[i] /\ log[i].Eth_height = start
      BY <1>7
    <3>2. ASSUME NEW i \in 1 .. Len(log), log[i].Eth_height = start
          PROVE  log[i] \in tbs
      <4>1. m \in 1 .. Len(log)
        OBVIOUS
      <4>2. i \in 1 .. upTo
        BY <1>2, <1>3, <1>4, <1>8, <3>2, <4>1
      <4> QED
        BY <1>7, <1>9, <3>2, <4>2, Zenon
    <3> QED
      BY <3>1, <3>2
  <2> HIDE DEF tbs
  <2>2. ASSUME NEW b \in tbBlocks'
        PROVE  b.Tbs = {log[i] : i \in {j \in 1 .. Len(log) : log[j].Eth_height = b.Height}}
    BY <1>11, <2>1, <2>2 DEF IInv, CompleteBlocks
  <2> QED
    BY <2>2 DEF CompleteBlocks
<1>16. OldestFirst'
  <2> SUFFICES ASSUME NEW b \in tbBlocks'
               PROVE  /\ \E i \in 1 .. upTo : log[i].Eth_height > b.Height
                      /\ \A i \in 1 .. Len(log) : log[i].Eth_height <= b.Height =>
                            Generated(log[i].Eth_height) \/ log[i].Eth_height = start
    BY <1>12, Zenon DEF OldestFirst
  <2>1. CASE b \in tbBlocks
    <3>1. 1 .. drained \subseteq 1 .. upTo
      BY <1>2
    <3> QED
      BY <2>1, <3>1, Zenon DEF IInv, OldestFirst
  <2>2. CASE b = block
    BY <1>3, <1>8, <1>10, <2>2
  <2> QED
    BY <1>11, <2>1, <2>2, Zenon
<1>17. Conserved'
  BY <1>1, <1>2, <1>7, <1>12, Zenon DEF Conserved
<1>18. Ordered' /\ NoGap'
  BY DEF IInv, Ordered, NoGap
<1>19. NeverContradicts'
  BY <1>11 DEF IInv, NeverContradicts
<1> QED
  BY <1>14, <1>15, <1>16, <1>17, <1>18, <1>19, Zenon DEF IInv

\* Every step keeps the inductive invariant.
LEMMA InvNext == TypeOK /\ IInv /\ [Next]_vars => IInv'
<1> SUFFICES ASSUME TypeOK, IInv, [Next]_vars PROVE IInv'
  OBVIOUS
<1>1. ASSUME NEW s \in Shard, AddTB(s) PROVE IInv'
  BY <1>1, SMTT(30) DEF AddTB, IInv, Ordered, NoGap, Conserved, OldestFirst, AllPushed,
     CompleteBlocks, NeverContradicts, Generated
<1>2. ASSUME NEW n \in 0 .. PerBlock,
             NEW new \in [1 .. n -> [ShardID : Shard, Height : 1 .. MaxTB, Eth_height : {eth + 1}]],
             Mine(new)
      PROVE  IInv'
  BY <1>2, InvMine, Zenon
<1>3. CASE SubscribeEvents
  <2>1. read' <= Len(log')
    BY <1>3 DEF SubscribeEvents, TypeOK
  <2> QED
    BY <1>3, <2>1 DEF SubscribeEvents, IInv, Ordered, NoGap, Conserved, OldestFirst, AllPushed,
                      CompleteBlocks, NeverContradicts, Generated
<1>4. CASE loop
  BY <1>4, InvNothing, InvPack, Zenon DEF loop
<1>5. CASE UNCHANGED vars
  BY <1>5 DEF vars, IInv, Ordered, NoGap, Conserved, OldestFirst, AllPushed, CompleteBlocks,
              NeverContradicts, Generated
<1> QED
  BY <1>1, <1>2, <1>3, <1>4, <1>5, Zenon DEF Next

\* generateEthChainBlock takes the Layer1 blocks one by one, oldest first, each when
\* it is complete: the inductive invariant holds in every reachable state.
THEOREM InvariantHolds == Spec => []IInv
  BY TypeInit, TypeNext, InvInit, InvNext, PTL DEF Spec

\* A generated TBBlock has all the TBs of its Layer1 block, however the events
\* interleave with the timer and however small the channel is.
THEOREM BlocksAreComplete == Spec => []CompleteBlocks
<1>1. IInv => CompleteBlocks
  BY DEF IInv
<1> QED
  BY <1>1, InvariantHolds, PTL

\* toPushBlock never ends the process for two blocks of one height.
THEOREM NoContradictoryBlocks == Spec => []NeverContradicts
<1>1. IInv => NeverContradicts
  BY DEF IInv
<1> QED
  BY <1>1, InvariantHolds, PTL

\* If Layer1 mines a shard's TBs in order and blocks are pushed as they are generated
\* (Height2Confirm is 0, as configured), the receivers see no gap.
THEOREM BeaconsDeliveredInOrder ==
  ASSUME MinedInOrder, Height2Confirm = 0
  PROVE  Spec => []DeliveredInOrder
<1>1. TypeOK /\ IInv => DeliveredInOrder
  <2> SUFFICES ASSUME TypeOK, IInv, NEW s \in Shard, NEW h \in Delivered(s), NEW g \in 1 .. h
               PROVE  g \in Delivered(s)
    BY Zenon DEF DeliveredInOrder
  <2>0. PICK b \in tbBlocks : \E e \in b.Tbs : e.ShardID = s /\ e.Height = h
    BY DEF Delivered
  <2>1. PICK e \in b.Tbs : e.ShardID = s /\ e.Height = h
    BY <2>0, Zenon
  <2>3. PICK i \in 1 .. Len(log) : log[i] = e /\ log[i].Eth_height = b.Height
    BY DEF IInv, CompleteBlocks
  <2>4. Len(log) \in Nat /\ log[i] \in Event /\ h \in Nat
    <3>1. Len(log) \in Nat /\ log[i] \in Event
      BY DEF TypeOK
    <3> QED
      BY <2>1, <2>3, <3>1, Zenon DEF Event
  <2>5. PICK j \in 1 .. i : log[j].ShardID = s /\ log[j].Height = g
    <3>1. CASE g = h
      BY <2>1, <2>3, <2>4, <3>1
    <3>2. CASE g < h
      <4>1. g \in 1 .. log[i].Height - 1
        BY <2>1, <2>3, <2>4, <3>2
      <4> QED
        BY <2>1, <2>3, <4>1 DEF NoGap, IInv
    <3> QED
      BY <2>4, <3>1, <3>2
  <2>6. j \in 1 .. Len(log) /\ log[j].Eth_height <= b.Height
    BY <2>3 DEF IInv, Ordered
  <2>7. PICK c \in tbBlocks : c.Height = log[j].Eth_height
    BY <2>6, Zenon DEF IInv, OldestFirst, Generated
  <2>8. log[j] \in c.Tbs
    BY <2>7 DEF IInv, CompleteBlocks
  <2> QED
    BY <2>5, <2>8, Zenon DEF Delivered, IInv, AllPushed
<1> QED
  BY <1>1, TypeCorrect, InvariantHolds, PTL
=============================================================================
