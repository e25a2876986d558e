--------------------------- MODULE ReconfigProofs ---------------------------
(***************************************************************************)
(* Proofs about Reconfig, part 3: no process fails, and the theorems about *)
(* any number of nodes, committees and reconfigurations.                   *)
(***************************************************************************)
EXTENDS ReconfigJoinProofs

\* Every draw gives every committee the nodes that it needs.
ComsFilled ==
    /\ MinComNodes > 0
    /\ \A h \in Seeds, c \in Coms :
           Cardinality({n \in Nodes : vrfValue2ShardID(Vrf[h][n]) = c}) >= MinComNodes

\* A leader that has been through a reconfiguration, or whose worker has exited, has the old
\* pool, and only such a one is asked for it.
PoolsOK ==
    /\ \A n \in Nodes : com[n].worker = "exited" \/ node[n].epoch # 0 => com[n].oldTxPool # None
    /\ \A m \in msgs : m.type = "GetPoolTx" => m.to \in Nodes /\ com[m.to].oldTxPool # None

FailInv == ReconfigInv /\ NoneFails /\ PoolsOK

\* So every committee gets a leader.
LEMMA FilledIsEnough ==
    ASSUME Counting, ComsFilled
    PROVE  EnoughDrawn
  <1>1. ASSUME NEW h \in Seeds, NEW c \in Coms
        PROVE  \E n \in Nodes : vrfValue2ShardID(Vrf[h][n]) = c
    <2>1. PICK S : S = {n \in Nodes : vrfValue2ShardID(Vrf[h][n]) = c}
      BY Zenon
    <2>2. Cardinality(S) >= MinComNodes /\ MinComNodes > 0
      BY <2>1 DEF ComsFilled
    <2>3. Cardinality({}) = 0 /\ MinComNodes \in Nat
      <3>1. Cardinality(1 .. 0) = 0
        BY Zenon DEF Counting, IntervalsCount
      <3>2. 1 .. 0 = {}
        OBVIOUS
      <3> QED
        BY <3>1, <3>2, ReconfigAssumption
    <2>4. S # {}
      BY <2>2, <2>3
    <2> QED
      BY <2>1, <2>4, Zenon
  <1> QED
    BY <1>1 DEF EnoughDrawn

\* The new committees are as large as the draws make them.
LEMMA NewSize ==
    ASSUME Counting, NEW T, IsTable(T), NEW e \in Seeds, NEW c \in Coms
    PROVE  Len(NewTable(T, e)[c]) = Cardinality({n \in Nodes : vrfValue2ShardID(Vrf[e][n]) = c})
  <1>1. PICK q : q = newCom2Results(Data(T, e))[c]
    OBVIOUS
  <1>2. /\ DOMAIN q = 1 .. Len(q) /\ Len(q) \in Nat
        /\ \A i \in DOMAIN q : \E n \in Nodes :
              q[i] = Draw(T, e, n) /\ vrfValue2ShardID(Vrf[e][n]) = c
        /\ \A i, j \in DOMAIN q : q[i] = q[j] => i = j
        /\ \A n \in Nodes : vrfValue2ShardID(Vrf[e][n]) = c =>
              \E i \in DOMAIN q : q[i] = Draw(T, e, n)
    BY <1>1, NewResults
  <1>3. PICK f : f = NewTable(T, e)[c]
    OBVIOUS
  <1>4. f = [i \in DOMAIN q |-> q[i].OldNodeInfo.NodeAddr]
    BY <1>1, <1>3, Zenon DEF NewTable, newComNodeTable
  <1>5. \A i \in DOMAIN q : /\ f[i] \in Nodes /\ q[i] = Draw(T, e, f[i])
                            /\ vrfValue2ShardID(Vrf[e][f[i]]) = c
    BY <1>2, <1>4, DrawFacts
  <1>6. \A i, j \in DOMAIN q : f[i] = f[j] => i = j
    BY <1>2, <1>5, Zenon
  <1>7. \A n \in Nodes : vrfValue2ShardID(Vrf[e][n]) = c => \E i \in DOMAIN q : f[i] = n
    BY <1>2, <1>4, DrawFacts
  <1>8. {n \in Nodes : vrfValue2ShardID(Vrf[e][n]) = c} = {f[i] : i \in DOMAIN q}
    BY <1>5, <1>7, ZenonT(30)
  <1>9. IsFiniteSet(DOMAIN q) /\ Cardinality(DOMAIN q) = Len(q)
    BY <1>2, Zenon DEF Counting, IntervalsCount
  <1>10. Cardinality({f[i] : i \in DOMAIN q}) = Len(q)
    BY <1>6, <1>9, Zenon DEF Counting, ImagesCount
  <1>11. Len(f) = Len(q)
    BY <1>2, <1>4
  <1> QED
    BY <1>3, <1>8, <1>10, <1>11, Zenon

\* The old leader that a node finds for the committee it has drawn.
LEMMA ServerFound ==
    ASSUME Counting, NEW T, IsTable(T), NEW e \in Seeds, NEW n \in Nodes, Drawn(T, e, n)
    PROVE  LET server == oldComLeaders(n, newCom2Results(Data(T, e)))
           IN  /\ server # {}
               /\ \A y \in server : y \in Nodes /\ y = ComLeader(T, Place(T, y))
  <1>1. PICK q, d : q = newCom2Results(Data(T, e)) /\ d = node[n].reconfigResult.NewComID
    OBVIOUS
  <1>2. d \in Coms
    BY <1>1, DrawnCom, DrawFacts DEF Drawn
  <1>3. \A r : r \in UNION {ToSet(q[c]) : c \in Coms} <=> \E x \in Nodes : r = Draw(T, e, x)
    <2>1. ASSUME NEW c \in Coms, NEW r \in ToSet(q[c]) PROVE \E x \in Nodes : r = Draw(T, e, x)
      BY <1>1, <2>1, NewResults DEF ToSet
    <2>2. ASSUME NEW x \in Nodes PROVE \E c \in Coms : Draw(T, e, x) \in ToSet(q[c])
      BY <1>1, DrawnCom, NewResults DEF ToSet
    <2> QED
      BY <2>1, <2>2
  <1>4. PICK server : server = oldComLeaders(n, q)
    OBVIOUS
  <1>5. server = {r.OldNodeInfo.NodeAddr : r \in {s \in UNION {ToSet(q[c]) : c \in Coms} :
                     s.OldNodeInfo.ComID = d /\ s.OldNodeInfo.NodeID = 0}}
    BY <1>1, <1>4, Zenon DEF oldComLeaders
  <1>6. ComLeader(T, d) \in server
    <2>1. PICK l \in Nodes : l = ComLeader(T, d) /\ Place(T, l) = d /\ Info(T, l).NodeID = 0
      BY <1>2, Members, Zenon
    <2>2. Draw(T, e, l).OldNodeInfo.ComID = d /\ Draw(T, e, l).OldNodeInfo.NodeID = 0
          /\ Draw(T, e, l).OldNodeInfo.NodeAddr = l
      BY <2>1, DrawFacts, LeaderByID
    <2> QED
      BY <1>3, <1>5, <2>1, <2>2, Zenon
  <1>7. ASSUME NEW y \in server PROVE y \in Nodes /\ y = ComLeader(T, Place(T, y))
    <2>1. PICK x \in Nodes : y = Draw(T, e, x).OldNodeInfo.NodeAddr
                             /\ Draw(T, e, x).OldNodeInfo.NodeID = 0
      BY <1>3, <1>5, <1>7, Zenon
    <2> QED
      BY <2>1, DrawFacts, LeaderByID
  <1> QED
    BY <1>1, <1>4, <1>6, <1>7, Zenon

-----------------------------------------------------------------------------
(* Steps.                                                                   *)

\* A step leaves the process of n running, and its old pool if it has one.
Unharmed(n) ==
    /\ node'[n].up = node[n].up
    /\ com[n].oldTxPool # None => com'[n].oldTxPool # None
    /\ \/ com'[n].worker = com[n].worker
       \/ com'[n].worker \in Making
       \/ com'[n].worker = "exited" /\ com'[n].oldTxPool # None
    /\ node'[n].epoch = node[n].epoch \/ com'[n].oldTxPool # None

\* None of the messages asks for a pool.
AsksNone(new) == \A y \in new : y.type # "GetPoolTx"

\* A step that leaves all nodes so, and asks for no pool, lets none fail.
LEMMA UnharmedStep ==
    ASSUME NoneFails, PoolsOK, \A n \in Nodes : Unharmed(n), NEW new, AsksNone(new),
           \A y \in msgs' : y \in msgs \cup new
    PROVE  NoneFails' /\ PoolsOK'
  <1>1. ASSUME NEW n \in Nodes
        PROVE  /\ node'[n].up /\ com'[n].worker # "stuck"
               /\ com'[n].worker = "exited" \/ node'[n].epoch # 0 => com'[n].oldTxPool # None
    BY DEF Unharmed, NoneFails, PoolsOK, Making
  <1>2. ASSUME NEW y \in msgs', y.type = "GetPoolTx"
        PROVE  y.to \in Nodes /\ com'[y.to].oldTxPool # None
    <2>1. y \in msgs
      BY <1>2, Zenon DEF AsksNone
    <2> QED
      BY <1>2, <2>1, Zenon DEF PoolsOK, Unharmed
  <1> QED
    BY <1>1, <1>2 DEF NoneFails, PoolsOK

\* Boot, blocks and the pushing of TBs.
LEMMA PlainStepsUnharmed ==
    ASSUME NEW T, NEW N, NEW e, Inv(T, N, e), NoneFails, PoolsOK,
           \/ \E m \in msgs : \/ m.to \in Nodes /\ HandleNodeSendInfo(m.to, m)
                              \/ m.to \in Nodes /\ HandleBooterSendContract(m.to, m)
                              \/ HandleShardSendGenesis(m) \/ HandleSendNewNodeTable2Client(m)
           \/ \E n \in Nodes : AddTBs(n)
           \/ \E t \in txs : Layer1Mines(t)
           \/ \E tx \in unsent : HandleClientSendtx(tx)
           \/ ConfirmLayer1Block \/ UNCHANGED vars
    PROVE  NoneFails' /\ PoolsOK'
  <1>1. ASSUME NEW n \in Nodes, node'[n] = node[n], com'[n] = com[n] PROVE Unharmed(n)
    BY <1>1, Zenon DEF Unharmed
  <1>2. ASSUME NEW m \in msgs, m.to \in Nodes, HandleNodeSendInfo(m.to, m)
        PROVE  NoneFails' /\ PoolsOK'
    <2>1. PICK new : msgs' = (msgs \ {m}) \cup new /\ AsksNone(new)
      <3>1. AsksNone({}) /\ \A c, addrs : AsksNone(shardSendGenesis(c, addrs))
        BY DEF AsksNone, shardSendGenesis
      <3>2. PICK sent, c, addrs : /\ msgs' = (msgs \ {m}) \cup sent
                                  /\ sent = {} \/ sent = shardSendGenesis(c, addrs)
        BY <1>2, Zenon DEF HandleNodeSendInfo, Receives
      <3> QED
        BY <3>1, <3>2, Zenon
    <2>2. ASSUME NEW n \in Nodes PROVE Unharmed(n)
      BY <1>2, Basics, Zenon DEF HandleNodeSendInfo, Unharmed, Shape
    <2> QED
      BY <2>1, <2>2, UnharmedStep, Zenon
  <1>3. ASSUME NEW m \in msgs, m.to \in Nodes, HandleBooterSendContract(m.to, m)
        PROVE  NoneFails' /\ PoolsOK'
    <2>1. msgs' = msgs \ {m} /\ AsksNone({})
      BY <1>3, Zenon DEF HandleBooterSendContract, Receives, AsksNone
    <2>2. ASSUME NEW n \in Nodes PROVE Unharmed(n)
      BY <1>3, Basics, Zenon DEF HandleBooterSendContract, Unharmed, Shape, ComFields, Making
    <2> QED
      BY <2>1, <2>2, UnharmedStep
  <1>4. ASSUME NEW m \in msgs, HandleShardSendGenesis(m) \/ HandleSendNewNodeTable2Client(m)
        PROVE  NoneFails' /\ PoolsOK'
    <2>1. AsksNone(booterSendContract) /\ \A y \in msgs' : y \in msgs \cup booterSendContract
      BY <1>4, Zenon DEF HandleShardSendGenesis, HandleSendNewNodeTable2Client, AsksNone, booterSendContract
    <2>2. UNCHANGED <<node, com>>
      BY <1>4, Zenon DEF HandleShardSendGenesis, HandleSendNewNodeTable2Client
    <2> QED
      BY <1>1, <2>1, <2>2, UnharmedStep, Zenon
  <1>5. ASSUME NEW n \in Nodes, AddTBs(n) PROVE NoneFails' /\ PoolsOK'
    <2>1. msgs' = msgs /\ AsksNone({})
      BY <1>5, Zenon DEF AddTBs, AsksNone
    <2>2. ASSUME NEW x \in Nodes PROVE Unharmed(x)
      BY <1>5, Basics, Zenon DEF AddTBs, Unharmed, Shape, ComFields
    <2> QED
      BY <2>1, <2>2, UnharmedStep, Zenon
  <1>6. ASSUME NEW tx \in unsent, HandleClientSendtx(tx) PROVE NoneFails' /\ PoolsOK'
    <2>1. msgs' = msgs /\ AsksNone({})
      BY <1>6, Zenon DEF HandleClientSendtx, AsksNone
    <2>2. ASSUME NEW x \in Nodes PROVE Unharmed(x)
      BY <1>6, Basics, Zenon DEF HandleClientSendtx, Unharmed, Shape, ComFields
    <2> QED
      BY <2>1, <2>2, UnharmedStep, Zenon
  <1>7. ASSUME UNCHANGED <<node, com, msgs>> PROVE NoneFails' /\ PoolsOK'
    <2>1. msgs' = msgs /\ AsksNone({})
      BY <1>7, Zenon DEF AsksNone
    <2> QED
      BY <1>1, <1>7, <2>1, UnharmedStep, Zenon
  <1>8. ASSUME (\E t \in txs : Layer1Mines(t)) \/ ConfirmLayer1Block \/ UNCHANGED vars
        PROVE  UNCHANGED <<node, com, msgs>>
    BY <1>8, Zenon DEF Layer1Mines, ConfirmLayer1Block, vars
  <1> QED
    BY <1>2, <1>3, <1>4, <1>5, <1>6, <1>7, <1>8, Zenon

\* A worker: the shard's leader has the worker's node for the leader of its committee.
LEMMA WorkerUnharmed ==
    ASSUME TablesInTime, NEW T, NEW N, NEW e, Inv(T, N, e), NoneFails, PoolsOK,
           NEW n \in Nodes, commit(n) \/ NewBlockGenerated(n)
    PROVE  NoneFails' /\ PoolsOK'
  <1>1. CASE commit(n)
    <2>1. IsComLeader(n)
      BY <1>1, Basics, Zenon DEF commit, WorkersOK, Making
    <2>2. PICK U : IsTable(U) /\ node[n].ComNodeTable = U /\ node[n].NodeInfo = Info(U, n)
      BY Basics, Zenon DEF NodesOK
    <2>3. MyCom(n) \in Coms /\ n = ComLeader(U, MyCom(n))
      BY <2>1, <2>2, LeaderByID, PlaceInTable DEF IsComLeader, MyCom
    <2>4. ComLeader(InitTable, MyCom(n)) \in Nodes
      BY <2>3, ReconfigAssumption, Members, Zenon
    <2>5. ComLeader(node[ComLeader(InitTable, MyCom(n))].ComNodeTable, MyCom(n)) = n
      BY <1>1, <2>2, <2>3, <2>4, Zenon DEF commit, SameTable
    <2>6. /\ com' = [com EXCEPT ![n].txPool = <<>>, ![n].worker = "generated"]
          /\ UNCHANGED <<node, msgs>>
      BY <1>1, <2>5, Zenon DEF commit
    <2>7. ASSUME NEW x \in Nodes PROVE Unharmed(x)
      BY <2>6, Basics, Zenon DEF Unharmed, Shape, ComFields, Making
    <2>8. AsksNone({})
      BY DEF AsksNone
    <2> QED
      BY <2>6, <2>7, <2>8, UnharmedStep, Zenon
  <1>2. CASE NewBlockGenerated(n)
    <2>1. PICK new : msgs' = msgs \cup new /\ AsksNone(new)
      <3>1. AsksNone(leaderInitReconfig(n, com[n].reconfig_seed_height)) /\ AsksNone({})
        BY DEF AsksNone, leaderInitReconfig
      <3>2. \/ msgs' = msgs \cup leaderInitReconfig(n, com[n].reconfig_seed_height)
            \/ msgs' = msgs
        BY <1>2, Zenon DEF NewBlockGenerated
      <3> QED
        BY <3>1, <3>2, Zenon
    <2>2. [current |-> TRUE] # None
      BY PoolIsNotNone, Zenon
    <2>3. UNCHANGED node
      BY <1>2, Zenon DEF NewBlockGenerated
    <2>4. ASSUME NEW x \in Nodes PROVE Unharmed(x)
      <3>1. PICK f : f = com[n] /\ ComFields \subseteq DOMAIN f
        BY Basics DEF Shape
      <3>2. PICK g : g = [SetOldTxPool(f) EXCEPT !.worker = "exited", !.to_reconfig = FALSE]
        OBVIOUS
      <3>3. g.oldTxPool = [current |-> TRUE] /\ g.worker = "exited"
        BY <3>1, <3>2, Zenon DEF SetOldTxPool, ComFields
      <3>4. com' = [com EXCEPT ![n] = g] \/ com' = [com EXCEPT ![n].worker = "running"]
        BY <1>2, <3>1, <3>2, Zenon DEF NewBlockGenerated
      <3>5. CASE com' = [com EXCEPT ![n] = g]
        <4>1. com'[x] = com[x] \/ com'[x] = g
          BY <3>5, Basics, Zenon DEF Shape
        <4> QED
          BY <2>2, <2>3, <3>3, <4>1, Zenon DEF Unharmed
      <3>6. CASE com' = [com EXCEPT ![n].worker = "running"]
        BY <2>3, <3>6, Basics, Zenon DEF Unharmed, Shape, ComFields, Making
      <3> QED
        BY <3>4, <3>5, <3>6, Zenon
    <2> QED
      BY <2>1, <2>4, UnharmedStep, Zenon
  <1> QED
    BY <1>1, <1>2, Zenon

\* The stages up to the results: no handler meets what it has not expected.
LEMMA StagesUnharmed ==
    ASSUME NEW T, NEW N, NEW e, Inv(T, N, e), NoneFails, PoolsOK,
           NEW n \in Nodes, NEW m \in msgs, m.to = n,
           \/ HandleLeaderInitReconfig(n, m)
           \/ m.type = "SendReconfigResult2ComLeader" /\ HandleSendReconfigResult2ComLeader(n, m)
           \/ /\ m.type = "SendReconfigResults2AllComLeaders"
              /\ HandleSendReconfigResults2AllComLeaders(n, m)
    PROVE  NoneFails' /\ PoolsOK'
  <1>1. CASE HandleLeaderInitReconfig(n, m)
    <2>1. PICK new : msgs' = (msgs \ {m}) \cup new /\ AsksNone(new)
      <3>1. \A reply : AsksNone(sendReconfigResult2Leader(n, m.ComID, reply))
        BY DEF AsksNone, sendReconfigResult2Leader
      <3>2. \E reply : msgs' = (msgs \ {m}) \cup sendReconfigResult2Leader(n, m.ComID, reply)
        BY <1>1, Zenon DEF HandleLeaderInitReconfig, Receives
      <3> QED
        BY <3>1, <3>2, Zenon
    <2>2. ASSUME NEW x \in Nodes PROVE Unharmed(x)
      BY <1>1, Basics, Zenon DEF HandleLeaderInitReconfig, Unharmed, Shape, ComFields
    <2> QED
      BY <2>1, <2>2, UnharmedStep, Zenon
  <1>2. CASE /\ m.type = "SendReconfigResult2ComLeader"
             /\ HandleSendReconfigResult2ComLeader(n, m)
    <2>1. IsComLeader(n)
      <3>1. PICK x, c : Collects(T, e, n, m, x, c)
        BY <1>2, CollectFacts, Zenon
      <3> QED
        BY <3>1, Zenon DEF Collects
    <2>2. PICK r : r = AddReconfigResult(node[n].reconfigResults, m.data)
      OBVIOUS
    <2>3. /\ \E sent \in {{}, sendReconfigResults2AllLeaders(n, r)} : msgs' = (msgs \ {m}) \cup sent
          /\ node' = [node EXCEPT ![n].reconfigResults = r] /\ com' = com
      BY <1>2, <2>1, <2>2, Zenon DEF HandleSendReconfigResult2ComLeader, Receives
    <2>4. AsksNone({}) /\ AsksNone(sendReconfigResults2AllLeaders(n, r))
      BY DEF AsksNone, sendReconfigResults2AllLeaders
    <2>5. PICK new : msgs' = (msgs \ {m}) \cup new /\ AsksNone(new)
      BY <2>3, <2>4, Zenon
    <2>6. ASSUME NEW x \in Nodes PROVE Unharmed(x)
      BY <2>3, Basics, Zenon DEF Unharmed, Shape
    <2> QED
      BY <2>5, <2>6, UnharmedStep
  <1>3. CASE /\ m.type = "SendReconfigResults2AllComLeaders"
             /\ HandleSendReconfigResults2AllComLeaders(n, m)
    <2>1. PICK f : /\ Receives(n, m, IF Cardinality(DOMAIN f) = ShardNum
                                     THEN sendReconfigResults2ComNodes(n, f) ELSE {})
                   /\ node' = [node EXCEPT ![n].com2ReconfigResults = f]
      <3>1. PICK f : HearsOf(T, e, n, m, f)
        BY <1>3, HeardAdds, Zenon
      <3> QED
        BY <3>1, Zenon DEF HearsOf
    <2>2. AsksNone({}) /\ AsksNone(sendReconfigResults2ComNodes(n, f))
      BY DEF AsksNone, sendReconfigResults2ComNodes
    <2>3. PICK new : msgs' = (msgs \ {m}) \cup new /\ AsksNone(new)
      BY <2>1, <2>2, Zenon DEF Receives
    <2>4. com' = com
      BY <1>3, Zenon DEF HandleSendReconfigResults2AllComLeaders
    <2>5. ASSUME NEW x \in Nodes PROVE Unharmed(x)
      BY <2>1, <2>4, Basics, Zenon DEF Unharmed, Shape
    <2> QED
      BY <2>3, <2>5, UnharmedStep
  <1> QED
    BY <1>1, <1>2, <1>3, Zenon

\* A node that joins finds a committee that is large enough, and its old leader.
LEMMA JoinUnharmed ==
    ASSUME Counting, ComsFilled, NEW T, NEW N, NEW e, Inv(T, N, e), NoneFails, PoolsOK,
           NEW n \in Nodes, NEW m \in msgs, m.to = n, m.type = "SendReconfigResults2ComNodes",
           HandleSendReconfigResults2ComNodes(n, m)
    PROVE  NoneFails' /\ PoolsOK'
  <1>1. EnoughDrawn
    BY FilledIsEnough
  <1>2. PICK server, d, new :
           /\ height' = height /\ msgs' = (msgs \ {m}) \cup new
           /\ server = oldComLeaders(n, newCom2Results(m.data))
           /\ \/ /\ new = {} /\ com' = com /\ Ends(n)
                 /\ Len(N[Place(N, n)]) < MinComNodes \/ server = {}
              \/ TakesPlace(N, e, n, server, d, new)
    BY <1>1, Joins, Zenon
  <1>3. /\ m.data = Data(T, e) /\ e \in Seeds /\ e # 0
        /\ \A x \in Nodes : Drawn(T, e, x) /\ Begun(T, e, Place(T, x))
    BY <1>1, JoinFacts
  <1>4. IsTable(T) /\ N = NewTable(T, e) /\ Place(N, n) \in Coms
    BY <1>3, Basics, PlaceInTable, Zenon
  <1>5. ~(Len(N[Place(N, n)]) < MinComNodes)
    <2>1. PICK c \in Coms : c = Place(N, n)
      BY <1>4, Zenon
    <2>2. Len(N[c]) = Cardinality({x \in Nodes : vrfValue2ShardID(Vrf[e][x]) = c})
      BY <1>3, <1>4, NewSize
    <2>3. Len(N[c]) >= MinComNodes
      BY <1>3, <2>2, Zenon DEF ComsFilled
    <2>4. Len(N[c]) \in Nat /\ MinComNodes \in Nat
      BY Basics, Members, ReconfigAssumption, Zenon
    <2> QED
      BY <2>1, <2>3, <2>4
  <1>6. server # {} /\ \A y \in server : y \in Nodes /\ y = ComLeader(T, Place(T, y))
    BY <1>2, <1>3, <1>4, ServerFound
  <1>7. TakesPlace(N, e, n, server, d, new)
    BY <1>2, <1>5, <1>6, Zenon
  <1>8. ASSUME NEW y \in server PROVE y \in Nodes /\ com[y].oldTxPool # None
    BY <1>3, <1>6, <1>8, Zenon DEF Begun, Joined, PoolsOK
  <1>9. ASSUME NEW x \in Nodes PROVE Unharmed(x)
    BY <1>7, Basics, Zenon DEF TakesPlace, Unharmed, Shape, Making
  <1>10. ASSUME NEW x \in Nodes
         PROVE  /\ node'[x].up /\ com'[x].worker # "stuck"
                /\ com'[x].worker = "exited" \/ node'[x].epoch # 0 => com'[x].oldTxPool # None
    BY <1>9, Zenon DEF Unharmed, NoneFails, PoolsOK, Making
  <1>11. ASSUME NEW y \in msgs', y.type = "GetPoolTx"
         PROVE  y.to \in Nodes /\ com'[y.to].oldTxPool # None
    <2>1. y \in msgs \/ y.to \in server
      BY <1>2, <1>7, <1>11, Zenon DEF TakesPlace
    <2>2. y.to \in Nodes /\ com[y.to].oldTxPool # None
      BY <1>8, <1>11, <2>1, Zenon DEF PoolsOK
    <2> QED
      BY <1>9, <2>2, Zenon DEF Unharmed
  <1> QED
    BY <1>10, <1>11, Zenon DEF NoneFails, PoolsOK

\* The pool: who is asked for it has it.
LEMMA PoolUnharmed ==
    ASSUME NEW T, NEW N, NEW e, Inv(T, N, e), NoneFails, PoolsOK,
           NEW n \in Nodes, NEW m \in msgs, m.to = n,
           \/ m.type = "GetPoolTx" /\ HandleGetPoolTx(n, m)
           \/ ReceivePoolTx(n, m)
    PROVE  NoneFails' /\ PoolsOK'
  <1>1. CASE m.type = "GetPoolTx" /\ HandleGetPoolTx(n, m)
    <2>1. com[n].oldTxPool # None
      BY <1>1, Zenon DEF PoolsOK
    <2>2. /\ UNCHANGED <<node, com>>
          /\ msgs' = (msgs \ {m}) \cup {[type |-> "PoolTx", to |-> m.from, pool |-> PoolOf(com[n])]}
      BY <1>1, <2>1, Zenon DEF HandleGetPoolTx, Receives
    <2>3. AsksNone({[type |-> "PoolTx", to |-> m.from, pool |-> PoolOf(com[n])]})
      BY DEF AsksNone
    <2>4. ASSUME NEW x \in Nodes PROVE Unharmed(x)
      BY <2>2, Zenon DEF Unharmed
    <2> QED
      BY <2>2, <2>3, <2>4, UnharmedStep, Zenon
  <1>2. CASE ReceivePoolTx(n, m)
    <2>1. msgs' = msgs \ {m} /\ AsksNone({})
      BY <1>2, Zenon DEF ReceivePoolTx, Receives, AsksNone
    <2>2. PICK g, pool, d : g = com[n] /\ pool = m.pool /\ d = StartsWorker(SetPoolTx(g, pool))
      BY Zenon
    <2>3. d.oldTxPool = g.oldTxPool /\ (d.worker = g.worker \/ d.worker = "running")
      <3>1. ComFields \subseteq DOMAIN g
        BY <2>2, Basics, Zenon DEF Shape
      <3>2. WithPool(g, d)
        BY <2>2, <3>1, PoolFacts, Zenon
      <3> QED
        BY <2>2, <3>1, <3>2, Zenon DEF WithPool
    <2>4. com' = [com EXCEPT ![n] = d] /\ node' = [node EXCEPT ![n].waits = FALSE]
      BY <1>2, <2>2, Zenon DEF ReceivePoolTx
    <2>5. ASSUME NEW x \in Nodes PROVE Unharmed(x)
      BY <2>2, <2>3, <2>4, Basics, Zenon DEF Unharmed, Shape, Making
    <2> QED
      BY <2>1, <2>5, UnharmedStep, Zenon
  <1> QED
    BY <1>1, <1>2, Zenon

\* At the start all processes run, and no pool is asked for.
LEMMA FailInit ==
    ASSUME Init
    PROVE  FailInv
  <1>1. ReconfigInv
    BY InvInit, Zenon
  <1>2. ASSUME NEW n \in Nodes
        PROVE  /\ node[n].up /\ com[n].worker \in {"created", "none"} /\ node[n].epoch = 0
    BY Zenon DEF Init
  <1>3. ASSUME NEW m \in msgs PROVE m.type = "NodeSendInfo"
    <2>1. PICK n \in Nodes : m = sendNodeInfo(n)
      BY Zenon DEF Init
    <2>2. sendNodeInfo(n).type = "NodeSendInfo"
      BY DEF sendNodeInfo
    <2> QED
      BY <2>1, <2>2, Zenon
  <1> QED
    BY <1>1, <1>2, <1>3, Zenon DEF FailInv, NoneFails, PoolsOK

\* Each step keeps it.
LEMMA FailInvStep ==
    ASSUME Counting, SeedsInTime, TablesInTime, ComsFilled, FailInv, [Next]_vars
    PROVE  FailInv'
  <1>1. ReconfigInv'
    BY FilledIsEnough, InvStep, Zenon DEF FailInv
  <1>2. PICK T, N, e : Inv(T, N, e)
    BY DEF FailInv, ReconfigInv
  <1>3. NoneFails /\ PoolsOK
    BY Zenon DEF FailInv
  <1>4. CASE Progress
    <2>1. ASSUME NEW m \in msgs, m.to \in Nodes, Handle(m.to, m) PROVE NoneFails' /\ PoolsOK'
      <3>1. CASE \/ m.type = "NodeSendInfo" /\ HandleNodeSendInfo(m.to, m)
                 \/ m.type = "BooterSendContract" /\ HandleBooterSendContract(m.to, m)
        BY <1>2, <1>3, <2>1, <3>1, PlainStepsUnharmed, Zenon
      <3>2. CASE \/ m.type = "LeaderInitReconfig" /\ HandleLeaderInitReconfig(m.to, m)
                 \/ /\ m.type = "SendReconfigResult2ComLeader"
                    /\ HandleSendReconfigResult2ComLeader(m.to, m)
                 \/ /\ m.type = "SendReconfigResults2AllComLeaders"
                    /\ HandleSendReconfigResults2AllComLeaders(m.to, m)
        BY <1>2, <1>3, <2>1, <3>2, StagesUnharmed, Zenon
      <3>3. CASE /\ m.type = "SendReconfigResults2ComNodes"
                 /\ HandleSendReconfigResults2ComNodes(m.to, m)
        BY <1>2, <1>3, <2>1, <3>3, JoinUnharmed, Zenon
      <3>4. CASE \/ m.type = "GetPoolTx" /\ HandleGetPoolTx(m.to, m)
                 \/ m.type = "PoolTx" /\ ReceivePoolTx(m.to, m)
        BY <1>2, <1>3, <2>1, <3>4, PoolUnharmed, Zenon
      <3> QED
        BY <2>1, <3>1, <3>2, <3>3, <3>4, Zenon DEF Handle
    <2>2. ASSUME NEW m \in msgs,
                 \/ m.type = "ShardSendGenesis" /\ HandleShardSendGenesis(m)
                 \/ m.type = "SendNewNodeTable2Client" /\ HandleSendNewNodeTable2Client(m)
          PROVE  NoneFails' /\ PoolsOK'
      BY <1>2, <1>3, <2>2, PlainStepsUnharmed, Zenon
    <2>3. ASSUME NEW n \in Nodes, AddTBs(n) \/ commit(n) \/ NewBlockGenerated(n)
          PROVE  NoneFails' /\ PoolsOK'
      BY <1>2, <1>3, <2>3, PlainStepsUnharmed, WorkerUnharmed, Zenon
    <2>4. ASSUME NEW t \in txs, Layer1Mines(t) PROVE NoneFails' /\ PoolsOK'
      BY <1>2, <1>3, <2>4, PlainStepsUnharmed, Zenon
    <2> QED
      BY <1>1, <1>4, <2>1, <2>2, <2>3, <2>4, Zenon DEF Progress, FailInv
  <1>5. CASE (\E tx \in unsent : HandleClientSendtx(tx)) \/ ConfirmLayer1Block \/ UNCHANGED vars
    <2>1. NoneFails' /\ PoolsOK'
      BY <1>2, <1>3, <1>5, PlainStepsUnharmed, Zenon
    <2> QED
      BY <1>1, <2>1, Zenon DEF FailInv
  <1> QED
    BY <1>4, <1>5, Zenon DEF Next

-----------------------------------------------------------------------------
(* The facts about finite sets that the steps assume.                       *)

\* Ranks are counted from 0, places from 1.
LEMMA RankRange ==
    ASSUME NEW N \in Nat, NEW k \in Nat, k <= N, k # N
    PROVE  k \in 0 .. N - 1
  OBVIOUS

\* The rank of a place.
LEMMA PlaceRank ==
    ASSUME NEW N \in Nat, NEW i \in 1 .. N
    PROVE  i - 1 \in 0 .. N - 1
  OBVIOUS

\* Of two different numbers one is less.
LEMMA OneIsLess ==
    ASSUME NEW a \in Nat, NEW b \in Nat, a # b
    PROVE  a < b \/ b < a
  OBVIOUS

\* The place of a rank.
LEMMA RankPlace ==
    ASSUME NEW N \in Nat, NEW k \in 0 .. N - 1
    PROVE  \E i \in 1 .. N : i - 1 = k
  <1>1. k + 1 \in 1 .. N /\ (k + 1) - 1 = k
    OBVIOUS
  <1> QED
    BY <1>1, Zenon

INSTANCE FiniteSetTheorems

\* Different arguments, different values: there are as many of both.
LEMMA CountImage ==
    ASSUME NEW D, IsFiniteSet(D), NEW f, \A x, y \in D : f[x] = f[y] => x = y
    PROVE  IsFiniteSet({f[x] : x \in D}) /\ Cardinality({f[x] : x \in D}) = Cardinality(D)
  <1> DEFINE R == {f[x] : x \in D}
             g == [x \in D |-> f[x]]
  <1>4. g \in Bijection(D, R)
    BY Zenon DEF Bijection, Injection, IsInjective, Surjection
  <1> QED
    BY <1>4, FS_Bijection, Zenon DEF ExistsBijection

\* Different ranks are all the ranks.
LEMMA RanksAreAll ==
    ASSUME NEW S, IsFiniteSet(S), NEW rank, \A r \in S : rank[r] \in 0 .. Cardinality(S) - 1,
           \A r, s \in S : rank[r] = rank[s] => r = s
    PROVE  \A k \in 0 .. Cardinality(S) - 1 : \E r \in S : rank[r] = k
  <1> DEFINE N == Cardinality(S)
             R == {rank[r] : r \in S}
  <1>1. N \in Nat
    BY FS_CardinalityType
  <1>2. IsFiniteSet(0 .. N - 1) /\ Cardinality(0 .. N - 1) = N
    <2> HIDE DEF N
    <2>1. 0 \in Int /\ N - 1 \in Int
      BY <1>1
    <2>2. /\ IsFiniteSet(0 .. N - 1)
          /\ Cardinality(0 .. N - 1) = IF 0 > N - 1 THEN 0 ELSE N - 1 - 0 + 1
      BY <2>1, FS_Interval, ZenonT(30)
    <2> QED
      BY <1>1, <2>2
  <1>3. R \in SUBSET (0 .. N - 1)
    OBVIOUS
  <1>4. Cardinality(R) = N
    BY CountImage
  <1>5. R = 0 .. N - 1
    BY <1>2, <1>3, <1>4, FS_Subset, ZenonT(30)
  <1> QED
    BY <1>5

\* By rank every member of a set gets one place: SortByVrf lists the set.
LEMMA SortLists ==
    ASSUME NEW S, IsFiniteSet(S), \A r \in S : r.Vrf \in Nat,
           \A r, s \in S : r.Vrf = s.Vrf => r = s
    PROVE  /\ Cardinality(S) \in Nat /\ DOMAIN SortByVrf(S) = 1 .. Cardinality(S)
           /\ \A i \in 1 .. Cardinality(S) : SortByVrf(S)[i] \in S
           /\ \A i, j \in 1 .. Cardinality(S) : SortByVrf(S)[i] = SortByVrf(S)[j] => i = j
           /\ \A r \in S : \E i \in 1 .. Cardinality(S) : SortByVrf(S)[i] = r
           /\ SortByVrf(S) \in Seq(S) /\ Len(SortByVrf(S)) = Cardinality(S)
  <1> DEFINE N        == Cardinality(S)
             q        == SortByVrf(S)
             below(r) == {s \in S : s.Vrf < r.Vrf}
  <1>1. PICK rank : rank = [r \in S |-> Cardinality(below(r))]
    BY Zenon
  <1>2. \A r \in S : rank[r] = Cardinality(below(r))
    BY <1>1
  <1>3. N \in Nat
    BY FS_CardinalityType
  <1>4. ASSUME NEW r \in S
        PROVE  IsFiniteSet(below(r)) /\ rank[r] \in 0 .. N - 1
    <2>2. IsFiniteSet(below(r)) /\ Cardinality(below(r)) <= N /\ Cardinality(below(r)) # N
      BY FS_Subset
    <2>3. Cardinality(below(r)) \in Nat
      BY <2>2, FS_CardinalityType
    <2>4. PICK k : k = rank[r] /\ k = Cardinality(below(r))
      BY <1>2, Zenon
    <2>5. k \in 0 .. N - 1
      BY <1>3, <2>2, <2>3, <2>4, RankRange, ZenonT(30)
    <2> QED
      BY <2>2, <2>4, <2>5, ZenonT(30)
  <1>5. ASSUME NEW r \in S, NEW s \in S, r.Vrf < s.Vrf
        PROVE  rank[r] # rank[s]
    <2>1. below(r) \in SUBSET below(s) /\ r \in below(s) /\ r \notin below(r)
      BY <1>5
    <2> QED
      BY <1>2, <1>4, <2>1, FS_Subset, ZenonT(30)
  <1>6. \A r, s \in S : rank[r] = rank[s] => r = s
    BY <1>5, OneIsLess, ZenonT(30)
  <1>7. \A k \in 0 .. N - 1 : \E r \in S : rank[r] = k
    <2>1. \A r \in S : rank[r] \in 0 .. N - 1
      BY <1>4, Zenon
    <2> QED
      BY <1>6, <2>1, RanksAreAll, SMTT(30)
  <1>8. DOMAIN q = 1 .. N /\ \A i \in 1 .. N : q[i] = CHOOSE r \in S : rank[r] = i - 1
    BY <1>2, Zenon DEF SortByVrf
  <1> DEFINE At(i) == CHOOSE r \in S : Cardinality(below(r)) = i - 1
  <1>12. q = [i \in 1 .. N |-> At(i)] /\ \A i \in 1 .. N : q[i] = At(i)
    BY Zenon DEF SortByVrf
  <1> HIDE DEF N, q, At
  <1>9. \A i \in 1 .. N : q[i] \in S /\ rank[q[i]] = i - 1
    <2>1. TAKE i \in 1 .. N
    <2>3. \E r \in S : rank[r] = i - 1
      BY <1>3, <1>7, PlaceRank, ZenonT(30)
    <2> QED
      BY <1>8, <2>3
  <1>10. \A r \in S : \E i \in 1 .. N : q[i] = r
    <2>1. TAKE r \in S
    <2>2. rank[r] \in 0 .. N - 1
      BY <1>4, Zenon
    <2>3. PICK i \in 1 .. N : i - 1 = rank[r]
      BY <1>3, <2>2, RankPlace, ZenonT(30)
    <2> QED
      BY <1>6, <1>9, <2>3, ZenonT(30)
  <1>11. \A i, j \in 1 .. N : q[i] = q[j] => i = j
    BY <1>3, <1>9
  <1>13. q \in Seq(S) /\ Len(q) = N
    BY <1>3, <1>9, <1>12, SMTT(30)
  <1> QED
    BY <1>3, <1>8, <1>9, <1>10, <1>11, <1>13, ZenonT(30) DEF N, q

\* Every set of numbers has a least one.
LEMMA HasLeast ==
    ASSUME NEW S, S \subseteq Nat, S # {}
    PROVE  \E x \in S : \A y \in S : x <= y
  <1>1. PICK R : R = OpToRel(<, Nat) /\ IsWellFoundedOn(R, Nat)
    BY NatLessThanWellFounded, Zenon
  <1>2. PICK x \in S : \A y \in S : ~(<<y, x>> \in R)
    BY <1>1, WFMin, ZenonT(30)
  <1>3. \A y \in Nat : y < x => <<y, x>> \in R
    BY <1>1 DEF OpToRel
  <1>4. \A y \in S : ~(y < x)
    BY <1>2, <1>3, ZenonT(30)
  <1> QED
    BY <1>2, <1>4

\* The facts that the steps assume.
LEMMA CountingHolds == Counting
  <1>1. IntervalsCount
    BY FS_Interval DEF IntervalsCount
  <1>2. PartsCount
    BY FS_Subset, Zenon DEF PartsCount
  <1>3. ImagesCount
    BY CountImage, Zenon DEF ImagesCount
  <1>4. SortingLists
    BY SortLists, Zenon DEF SortingLists
  <1>5. LeastExists
    BY HasLeast, Zenon DEF LeastExists
  <1> QED
    BY <1>1, <1>2, <1>3, <1>4, <1>5, ZenonT(30) DEF Counting

-----------------------------------------------------------------------------
(* The theorems.                                                            *)

\* The stages of a reconfiguration keep their order: each node has the table of before or
\* the one all compute of it, and no message is on its way to a node that is past it.
THEOREM StagesKept ==
    ASSUME SeedsInTime, EnoughDrawn
    PROVE  Spec => []ReconfigInv
  <1>1. Init => ReconfigInv
    BY InvInit
  <1>2. ReconfigInv /\ [Next]_vars => ReconfigInv'
    BY InvStep, CountingHolds
  <1> QED
    BY <1>1, <1>2, PTL DEF Spec

\* Tables agree and each committee has one leader at work, for any number of nodes,
\* committees and reconfigurations.
THEOREM OneLeaderAlways ==
    ASSUME SeedsInTime, EnoughDrawn
    PROVE  Spec => []OneLeaderEach
  BY StagesKept, LeadersFollow, PTL

\* No process ends, whatever the order of the messages: no leader gets a result that it does
\* not expect, no node is without the old leader of its committee or that leader's pool, and
\* no worker waits for states that have gone to another node.
THEOREM NoneFailsAlways ==
    ASSUME SeedsInTime, TablesInTime, ComsFilled
    PROVE  Spec => []NoneFails
  <1>1. Init => FailInv
    BY FailInit
  <1>2. FailInv /\ [Next]_vars => FailInv'
    BY FailInvStep, CountingHolds, Zenon
  <1>3. FailInv => NoneFails
    BY DEF FailInv
  <1> QED
    BY <1>1, <1>2, <1>3, PTL DEF Spec
=============================================================================
