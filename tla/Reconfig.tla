------------------------------ MODULE Reconfig ------------------------------
(***************************************************************************)
(* From boot through the reconfigurations of the committees (node/,        *)
(* committee/committee.go, messageHub/), over Layer1.  The nodes of a      *)
(* shard report to its leader, the booter deploys the contract once it     *)
(* has every shard's genesis TB, and the leaders' workers make blocks.     *)
(* When a Layer1 block of a certain height is confirmed, each leader stops *)
(* after its block and has its committee's nodes draw their vrfs; the      *)
(* leaders exchange the results and hand them to their nodes, and each     *)
(* node by itself computes the new committees, joins its own and fetches   *)
(* the transaction pool from that committee's old leader.  What makes the  *)
(* blocks is PBFT and MultiSign; here a block is one step.                 *)
(***************************************************************************)
EXTENDS Layer1

CONSTANTS
    InitTable,        \* committee -> its nodes at first, which are its shard's for good
    BooterKey,        \* the account the booter deploys from
    Height2Reconfig,
    MinComNodes,      \* 4: a smaller committee ends the processes of its nodes
    Txs,              \* the client's transactions
    TxCom,            \* transaction -> the committee it is for
    Heights,          \* bound: the Layer1 blocks that hold TBs
    MaxBlocks,        \* bound: committee -> epoch -> blocks, beyond those that end an epoch
    SeedsInTime,      \* whether a reconfiguration is over before the next one's height
    TablesInTime,     \* whether all nodes have the new table when a worker's timer fires
    ClientsInTime     \* whether the client sends only to a leader at work, by the new table

Seeds == {h \in Heights : h % Height2Reconfig = 0}

\* Each node is in a table once, and no committee is empty.
IsTable(table) ==
    /\ table \in [Coms -> Seq(Nodes)]
    /\ \A c \in Coms : Len(table[c]) > 0
    /\ \A n \in Nodes : \E c \in Coms : \E i \in DOMAIN table[c] : table[c][i] = n
    /\ \A c, d \in Coms : \A i \in DOMAIN table[c], j \in DOMAIN table[d] :
           table[c][i] = table[d][j] => c = d /\ i = j

\* No two nodes have the same vrf: it is a signature with the node's own key.
ASSUME ReconfigAssumption ==
    /\ IsFiniteSet(Nodes) /\ IsTable(InitTable)
    /\ \A h \in Seeds : Vrf[h] \in [Nodes -> Nat]
                      /\ \A m, n \in Nodes : Vrf[h][m] = Vrf[h][n] => m = n
    /\ BooterKey \in Accounts
    /\ Height2Reconfig \in Nat \ {0} /\ MinComNodes \in Nat /\ Heights \subseteq Nat \ {0}
    /\ MaxBlocks \in [Coms -> [Heights \cup {0} -> Nat]] /\ TxCom \in [Txs -> Coms]
    /\ {SeedsInTime, TablesInTime, ClientsInTime} \subseteq BOOLEAN

VARIABLES
    node,             \* node -> fields of node.Node and of its process
    com,              \* node -> fields of committee.Committee
    msgs,             \* messages sent and not handled
    genesisTBs,       \* the booter's: shard -> the addresses that came with it
    clientTable,      \* the client's ComNodeTable
    unsent,           \* transactions the client has not sent
    blocks,           \* committee -> the transactions of its blocks, block after block
    height            \* the confirmed height of Layer1

vars == <<node, com, msgs, genesisTBs, clientTable, unsent, blocks, height, layer1Vars>>

None == [none |-> TRUE]
With(f, c, x) == [d \in DOMAIN f \cup {c} |-> IF d = c THEN x ELSE f[d]]
ComLeader(table, c) == table[c][1]
Has(seq, x) == \E i \in DOMAIN seq : seq[i] = x
ToSet(seq) == {seq[i] : i \in DOMAIN seq}
Place(table, n) == CHOOSE c \in Coms : Has(table[c], n)
Index(seq, x) == CHOOSE i \in DOMAIN seq : seq[i] = x
Info(table, n) == [NodeAddr |-> n, ComID |-> Place(table, n),
                   NodeID |-> Index(table[Place(table, n)], n) - 1]

sendNodeInfo(n) ==
    [type |-> "NodeSendInfo", from |-> n, to |-> ComLeader(InitTable, Place(InitTable, n))]

\* After NewNode, messageHub.Init and node.Start at every process.
Init ==
    /\ node = [n \in Nodes |->
         [up |-> TRUE, NodeInfo |-> Info(InitTable, n), ComNodeTable |-> InitTable,
          comAllNodeNum |-> Len(InitTable[Place(InitTable, n)]),
          initialAddrList |-> {n}, contract |-> FALSE,
          reconfigResult |-> None, reconfigResults |-> None, com2ReconfigResults |-> <<>>,
          waits |-> FALSE, seen |-> 0, epoch |-> 0]]
    /\ com = [n \in Nodes |->
         [txPool |-> <<>>, oldTxPool |-> None, tbchain_height |-> 0, to_reconfig |-> FALSE,
          reconfig_seed_height |-> 0,
          worker |-> IF Info(InitTable, n).NodeID = 0 THEN "created" ELSE "none"]]
    /\ msgs = {sendNodeInfo(n) : n \in {m \in Nodes : Info(InitTable, m).NodeID # 0}}
    /\ genesisTBs = <<>>
    /\ clientTable = InitTable /\ unsent = Txs
    /\ blocks = [c \in Coms |-> <<>>]
    /\ height = 0
    /\ Layer1Init

IsComLeader(n) == node[n].NodeInfo.NodeID = 0
MyCom(n)       == node[n].NodeInfo.ComID
Ends(n)        == node' = [node EXCEPT ![n].up = FALSE]   \* log.Error, or a nil pointer

\* Node n handles the message m; new are the messages it sends.
Receives(n, m, new) ==
    /\ m \in msgs /\ m.to = n /\ node[n].up
    /\ msgs' = (msgs \ {m}) \cup new

-----------------------------------------------------------------------------
(* The messages that the handlers send, by the sender's own table.          *)

shardSendGenesis(c, addrs) ==
    {[type |-> "ShardSendGenesis", to |-> "booter", ShardID |-> c, Addrs |-> addrs]}

booterSendContract == [type : {"BooterSendContract"}, to : Nodes]

leaderInitReconfig(n, seedHeight) ==
    {[type |-> "LeaderInitReconfig", to |-> node[n].ComNodeTable[MyCom(n)][i],
      SeedHeight |-> seedHeight, ComID |-> MyCom(n)] : i \in 1 .. node[n].comAllNodeNum}

sendReconfigResult2Leader(n, comID, reply) ==
    {[type |-> "SendReconfigResult2ComLeader", data |-> reply,
      to |-> ComLeader(node[n].ComNodeTable, comID)]}

sendReconfigResults2AllLeaders(n, results) ==
    {[type |-> "SendReconfigResults2AllComLeaders", ComID |-> MyCom(n), Results |-> results,
      ComNodeNum |-> node[n].comAllNodeNum,
      to |-> ComLeader(node[n].ComNodeTable, c)] : c \in Coms}

sendReconfigResults2ComNodes(n, all) ==
    {[type |-> "SendReconfigResults2ComNodes", data |-> all,
      to |-> node[n].ComNodeTable[MyCom(n)][i]] : i \in 1 .. all[MyCom(n)].ComNodeNum}

sendNewNodeTable2Client(table) ==
    {[type |-> "SendNewNodeTable2Client", to |-> "client", table |-> table]}

\* The sender waits for the answer, a PoolTx.
sendGetPoolTx(n, server) == [type : {"GetPoolTx"}, to : server, from : {n}]

-----------------------------------------------------------------------------
(* Boot.                                                                    *)

\* At the leader: the last of its shard's nodes to report starts the shard.
HandleNodeSendInfo(n, m) ==
    LET addrs == node[n].initialAddrList \cup {m.from}
    IN  /\ Receives(n, m, IF Cardinality(addrs) = node[n].comAllNodeNum
                          THEN shardSendGenesis(MyCom(n), addrs)
                          ELSE {})
        /\ node' = [node EXCEPT ![n].initialAddrList = addrs]
        /\ UNCHANGED <<com, genesisTBs, clientTable, unsent, blocks, height, layer1Vars>>

\* The booter; it waits for the contract while it holds genesisLock.
HandleShardSendGenesis(m) ==
    LET all == With(genesisTBs, m.ShardID, m.Addrs)
    IN  /\ m \in msgs
        /\ genesisTBs' = all
        /\ IF DOMAIN all = Coms
           THEN /\ DeployContract(BooterKey, all)
                /\ msgs' = (msgs \ {m}) \cup booterSendContract
           ELSE /\ msgs' = msgs \ {m}
                /\ UNCHANGED layer1Vars
        /\ UNCHANGED <<node, com, clientTable, unsent, blocks, height>>

\* The node subscribes to the events from here on; a leader starts its worker.
HandleBooterSendContract(n, m) ==
    /\ Receives(n, m, {})
    /\ node' = [node EXCEPT ![n].contract = TRUE, ![n].seen = height]
    /\ com' = IF IsComLeader(n) THEN [com EXCEPT ![n].worker = "running"] ELSE com
    /\ UNCHANGED <<genesisTBs, clientTable, unsent, blocks, height, layer1Vars>>

-----------------------------------------------------------------------------
(* Blocks, and what calls for a reconfiguration.                            *)

\* A transaction goes to the leader in the client's table, whose committee adds it to
\* its pool whatever committee it is for.
HandleClientSendtx(tx) ==
    LET n == ComLeader(clientTable, TxCom[tx])
    IN  /\ tx \in unsent /\ node[n].up
        /\ ClientsInTime => com[n].worker \in {"running", "generated"} /\ MyCom(n) = TxCom[tx]
        /\ unsent' = unsent \ {tx}
        /\ com' = [com EXCEPT ![n].txPool = Append(@, tx)]
        /\ UNCHANGED <<node, msgs, genesisTBs, clientTable, blocks, height, layer1Vars>>

\* All nodes have ended the same reconfigurations and the leaders are at work, none is about
\* to begin another, and Layer1 has mined what it was sent.
Quiet ==
    /\ msgs = {} /\ txs = {}
    /\ \A n \in Nodes : /\ node[n].up /\ node[n].contract /\ ~node[n].waits
                        /\ node[n].seen = height /\ \A m \in Nodes : node[m].epoch = node[n].epoch
                        /\ ~com[n].to_reconfig
                        /\ IsComLeader(n) => com[n].worker \in {"running", "generated"}

NextHeight(h) == CHOOSE k \in Heights : k > h /\ \A j \in Heights : j > h => j >= k

\* The next Layer1 block that holds TBs is confirmed.  After a refusal it finds no process.
ConfirmLayer1Block ==
    /\ rejected = {}
    /\ \E h \in Heights : h > height
    /\ SeedsInTime /\ NextHeight(height) % Height2Reconfig = 0 => Quiet
    /\ height' = NextHeight(height)
    /\ UNCHANGED <<node, com, msgs, genesisTBs, clientTable, unsent, blocks, layer1Vars>>

\* The node's BeaconChain pushes the next TBBlock to its committee.
AddTBs(n) ==
    LET h == NextHeight(node[n].seen)
    IN  /\ node[n].up /\ node[n].contract /\ node[n].seen < height
        /\ node' = [node EXCEPT ![n].seen = h]
        /\ com' = IF h <= com[n].tbchain_height THEN com
                  ELSE [com EXCEPT ![n].tbchain_height = h,
                           ![n].to_reconfig = @ \/ h % Height2Reconfig = 0,
                           ![n].reconfig_seed_height =
                               IF h % Height2Reconfig = 0 THEN h ELSE @]
        /\ UNCHANGED <<msgs, genesisTBs, clientTable, unsent, blocks, height, layer1Vars>>

SameTable == \A m \in Nodes : \A n \in Nodes : node[m].ComNodeTable = node[n].ComNodeTable

\* The worker's commit and broadcastTbInCommittee.  The shard's leader sends the states
\* to the committee's leader in its own table; a worker that is not that one waits on.
commit(n) ==
    LET c     == MyCom(n)
        table == node[n].ComNodeTable
    IN  /\ com[n].worker = "running" /\ node[n].up
        /\ com[n].to_reconfig \/ Len(blocks[c]) < MaxBlocks[c][node[n].epoch]
        /\ TablesInTime => SameTable
        /\ IF ComLeader(node[ComLeader(InitTable, c)].ComNodeTable, c) = n
           THEN /\ blocks' = [blocks EXCEPT ![c] = Append(@, com[n].txPool)]
                /\ com' = [com EXCEPT ![n].txPool = <<>>, ![n].worker = "generated"]
                /\ \E signers \in SUBSET ToSet(table[c]) :
                       /\ Cardinality(signers) = minSigCnt
                       /\ AddTB(n, table, node[n].NodeInfo.NodeID,
                                [shardID |-> c, height |-> Len(blocks[c]) + 1,
                                 signers |-> SelectSeq(table[c], LAMBDA x : x \in signers),
                                 epoch |-> node[n].epoch])
           ELSE /\ com' = [com EXCEPT ![n].txPool = <<>>, ![n].worker = "stuck"]
                /\ UNCHANGED <<blocks, layer1Vars>>
        /\ UNCHANGED <<node, msgs, genesisTBs, clientTable, unsent, height>>

-----------------------------------------------------------------------------
(* The reconfiguration.                                                     *)

SetOldTxPool(c) == [c EXCEPT !.oldTxPool = [current |-> TRUE]]

\* With to_reconfig the worker ends and its goroutine begins a reconfiguration.  The
\* old pool is the current one, until Start replaces that.
NewBlockGenerated(n) ==
    /\ com[n].worker = "generated" /\ node[n].up
    /\ IF com[n].to_reconfig
       THEN /\ com' = [com EXCEPT ![n] = [SetOldTxPool(@) EXCEPT !.worker = "exited",
                                                                 !.to_reconfig = FALSE]]
            /\ msgs' = msgs \cup leaderInitReconfig(n, com[n].reconfig_seed_height)
       ELSE /\ com' = [com EXCEPT ![n].worker = "running"]
            /\ UNCHANGED msgs
    /\ UNCHANGED <<node, genesisTBs, clientTable, unsent, blocks, height, layer1Vars>>

HandleLeaderInitReconfig(n, m) ==
    LET reply == [SeedHeight |-> m.SeedHeight, Vrf |-> Vrf[m.SeedHeight][n],
                  OldNodeInfo |-> node[n].NodeInfo,
                  NewComID |-> vrfValue2ShardID(Vrf[m.SeedHeight][n])]
    IN  /\ Receives(n, m, sendReconfigResult2Leader(n, m.ComID, reply))
        /\ node' = [node EXCEPT ![n].reconfigResult = reply]
        /\ com' = [com EXCEPT ![n].tbchain_height = IF m.SeedHeight > @ THEN m.SeedHeight ELSE @]
        /\ UNCHANGED <<genesisTBs, clientTable, unsent, blocks, height, layer1Vars>>

\* Mutant: the results of the last reconfiguration are not dropped.
AddReconfigResult_Keeps(old, res) ==
    IF old = None
    THEN [all |-> {res}, first |-> res.SeedHeight, last |-> res.SeedHeight]
    ELSE [old EXCEPT !.all = @ \cup {res}, !.last = res.SeedHeight]

\* The results of a slice, with the seed heights of its first and its last.
AddReconfigResult(old, res) ==
    IF old = None \/ old.last < res.SeedHeight
    THEN [all |-> {res}, first |-> res.SeedHeight, last |-> res.SeedHeight]
    ELSE [old EXCEPT !.all = @ \cup {res}, !.last = res.SeedHeight]

HandleSendReconfigResult2ComLeader(n, m) ==
    LET results == AddReconfigResult(node[n].reconfigResults, m.data)
    IN  IF IsComLeader(n)
        THEN /\ Receives(n, m,
                  IF Cardinality(results.all) = node[n].comAllNodeNum
                  THEN sendReconfigResults2AllLeaders(n, results) ELSE {})
             /\ node' = [node EXCEPT ![n].reconfigResults = results]
             /\ UNCHANGED <<com, genesisTBs, clientTable, unsent, blocks, height, layer1Vars>>
        ELSE /\ Receives(n, m, {}) /\ Ends(n)
             /\ UNCHANGED <<com, genesisTBs, clientTable, unsent, blocks, height, layer1Vars>>

\* Mutant: the results kept are always of this reconfiguration.
AreOld_Never(old, c, res) == FALSE

\* Whether the results kept are of an earlier reconfiguration than res: the code asks
\* one of them, whichever the map yields.
AreOld(old, c, res) == old[c].Results.first < res.Results.first

HandleSendReconfigResults2AllComLeaders(n, m) ==
    LET old == node[n].com2ReconfigResults
        res == [Results |-> m.Results, ComNodeNum |-> m.ComNodeNum]
        Becomes(new) ==
            /\ Receives(n, m,
                 IF Cardinality(DOMAIN new) = ShardNum
                 THEN sendReconfigResults2ComNodes(n, new) ELSE {})
            /\ node' = [node EXCEPT ![n].com2ReconfigResults = new]
    IN  /\ \/ /\ DOMAIN old = {} \/ \E c \in DOMAIN old : AreOld(old, c, res)
              /\ Becomes(With(<<>>, m.ComID, res))
           \/ /\ \E c \in DOMAIN old : ~AreOld(old, c, res)
              /\ IF m.ComID \in DOMAIN old THEN Receives(n, m, {}) /\ Ends(n)
                 ELSE Becomes(With(old, m.ComID, res))
        /\ UNCHANGED <<com, genesisTBs, clientTable, unsent, blocks, height, layer1Vars>>

\* The results of a set in the order of their vrf.
SortByVrf(S) ==
    [i \in 1 .. Cardinality(S) |->
        CHOOSE r \in S : Cardinality({s \in S : s.Vrf < r.Vrf}) = i - 1]

\* Each new committee's results, sorted by vrf.
newCom2Results(data) ==
    LET all == UNION {data[c].Results.all : c \in DOMAIN data}
    IN  [c \in Coms |-> SortByVrf({r \in all : r.NewComID = c})]

newComNodeTable(results) ==
    [c \in Coms |-> [i \in DOMAIN results[c] |-> results[c][i].OldNodeInfo.NodeAddr]]

\* Mutant: the NodeIDs count from one.
newNodeInfo_FromOne(n, results) ==
    LET c == node[n].reconfigResult.NewComID
    IN  [NodeAddr |-> n, ComID |-> c,
         NodeID |-> CHOOSE i \in DOMAIN results[c] : results[c][i].OldNodeInfo = node[n].NodeInfo]

\* Where the node finds itself; its committee is the one it has drawn itself.
newNodeInfo(n, results) ==
    LET mine == UNION {{i \in DOMAIN results[c] : results[c][i].OldNodeInfo = node[n].NodeInfo} :
                           c \in Coms}
    IN  IF mine = {} THEN node[n].NodeInfo
        ELSE [NodeAddr |-> n, ComID |-> node[n].reconfigResult.NewComID,
              NodeID |-> (CHOOSE i \in mine : TRUE) - 1]

\* The leaders so far of the committee that the node joins: one, or none found.
oldComLeaders(n, results) ==
    {r.OldNodeInfo.NodeAddr : r \in {s \in UNION {ToSet(results[c]) : c \in Coms} :
        s.OldNodeInfo.ComID = node[n].reconfigResult.NewComID /\ s.OldNodeInfo.NodeID = 0}}

\* The committee begins anew; the pool so far is kept as the old one.
Start(c, nodeID) ==
    [c EXCEPT !.to_reconfig = FALSE, !.txPool = <<>>,
              !.oldTxPool = IF @ = [current |-> TRUE] THEN [txs |-> c.txPool] ELSE @,
              !.worker = IF nodeID = 0 THEN "created" ELSE @]

\* Mutant: the pool of now is handed over.
PoolOf_Now(c) == c.txPool

\* What the old pool holds.
PoolOf(c) == IF c.oldTxPool = [current |-> TRUE] THEN c.txPool ELSE c.oldTxPool.txs

SetPoolTx(c, poolTx) == [c EXCEPT !.txPool = poolTx \o @]

\* The end of EndReconfig; lesssync copies nothing, the other modes only read the shard.
StartsWorker(c) == [c EXCEPT !.worker = IF @ = "created" THEN "running" ELSE @]

\* The node installs the table and joins its committee.  A leader sends its committee's
\* addresses to the contract and the table to the client.  The node then has the pool at
\* hand, or asks the committee's old leader for it and waits.
EndReconfig(n, m, results, table, info, server) ==
    LET c     == info.ComID
        leads == info.NodeID = 0
        fresh == Start(SetOldTxPool(com[n]), info.NodeID)
    IN  IF Len(results[c]) < MinComNodes \/ server = {}
        THEN /\ Receives(n, m, {}) /\ Ends(n)
             /\ UNCHANGED <<com, layer1Vars>>
        ELSE /\ Receives(n, m,
                  (IF leads THEN sendNewNodeTable2Client(table) ELSE {})
                  \cup sendGetPoolTx(n, server \ {n}))
             /\ node' = [node EXCEPT ![n].NodeInfo = info, ![n].ComNodeTable = table,
                                     ![n].comAllNodeNum = Len(results[c]),
                                     ![n].waits = n \notin server,
                                     ![n].epoch = node[n].reconfigResult.SeedHeight]
             /\ com' = [com EXCEPT ![n] = IF n \in server
                                          THEN StartsWorker(SetPoolTx(fresh, PoolOf(fresh)))
                                          ELSE fresh]
             /\ IF leads
                THEN AdjustRecordedAddrs(n, table, c, 0, table[c],
                         [i \in DOMAIN table[c] |-> results[c][i].Vrf],
                         results[c][1].SeedHeight)
                ELSE UNCHANGED layer1Vars

HandleSendReconfigResults2ComNodes(n, m) ==
    /\ \E results \in {newCom2Results(m.data)} : \E table \in {newComNodeTable(results)} :
       \E info \in {newNodeInfo(n, results)} : \E server \in {oldComLeaders(n, results)} :
           EndReconfig(n, m, results, table, info, server)
    /\ UNCHANGED <<genesisTBs, clientTable, unsent, blocks, height>>

\* The old leader reads its old pool without the pool's lock.
HandleGetPoolTx(n, m) ==
    /\ IF com[n].oldTxPool = None
       THEN Receives(n, m, {}) /\ Ends(n)
       ELSE /\ Receives(n, m, {[type |-> "PoolTx", to |-> m.from, pool |-> PoolOf(com[n])]})
            /\ UNCHANGED node
    /\ UNCHANGED <<com, genesisTBs, clientTable, unsent, blocks, height, layer1Vars>>

\* The answer, on the connection the node waits on.
ReceivePoolTx(n, m) ==
    /\ Receives(n, m, {})
    /\ node' = [node EXCEPT ![n].waits = FALSE]
    /\ com' = [com EXCEPT ![n] = StartsWorker(SetPoolTx(@, m.pool))]
    /\ UNCHANGED <<genesisTBs, clientTable, unsent, blocks, height, layer1Vars>>

HandleSendNewNodeTable2Client(m) ==
    /\ m \in msgs
    /\ msgs' = msgs \ {m}
    /\ clientTable' = m.table
    /\ UNCHANGED <<node, com, genesisTBs, unsent, blocks, height, layer1Vars>>

\* What the processes do once an event of a refusal has reached them is left out.
Layer1Mines(t) ==
    /\ Mine(t)
    /\ UNCHANGED <<node, com, msgs, genesisTBs, clientTable, unsent, blocks, height>>

-----------------------------------------------------------------------------

Handle(n, m) ==
    \/ m.type = "NodeSendInfo" /\ HandleNodeSendInfo(n, m)
    \/ m.type = "BooterSendContract" /\ HandleBooterSendContract(n, m)
    \/ m.type = "LeaderInitReconfig" /\ HandleLeaderInitReconfig(n, m)
    \/ m.type = "SendReconfigResult2ComLeader" /\ HandleSendReconfigResult2ComLeader(n, m)
    \/ m.type = "SendReconfigResults2AllComLeaders" /\ HandleSendReconfigResults2AllComLeaders(n, m)
    \/ m.type = "SendReconfigResults2ComNodes" /\ HandleSendReconfigResults2ComNodes(n, m)
    \/ m.type = "GetPoolTx" /\ HandleGetPoolTx(n, m)
    \/ m.type = "PoolTx" /\ ReceivePoolTx(n, m)

\* What happens of itself, once a message is sent, a block is due or Layer1 has
\* confirmed a block.
Progress ==
    \/ \E m \in msgs : \/ m.to \in Nodes /\ Handle(m.to, m)
                       \/ m.type = "ShardSendGenesis" /\ HandleShardSendGenesis(m)
                       \/ m.type = "SendNewNodeTable2Client" /\ HandleSendNewNodeTable2Client(m)
    \/ \E n \in Nodes : AddTBs(n) \/ commit(n) \/ NewBlockGenerated(n)
    \/ \E t \in txs : Layer1Mines(t)

Next ==
    \/ Progress
    \/ \E tx \in unsent : HandleClientSendtx(tx)
    \/ ConfirmLayer1Block

Spec == Init /\ [][Next]_vars

\* Messages arrive, handlers and timers run, and Layer1 mines.
LiveSpec == Spec /\ WF_vars(Progress)

-----------------------------------------------------------------------------

\* The types.
TypeOK ==
    /\ \A n \in Nodes :
          /\ node[n].NodeInfo \in [NodeAddr : {n}, ComID : Coms, NodeID : Nat]
          /\ {node[n].up, node[n].contract, node[n].waits, com[n].to_reconfig} \subseteq BOOLEAN
          /\ node[n].ComNodeTable \in [Coms -> Seq(Nodes)] /\ node[n].comAllNodeNum \in Nat
          /\ com[n].worker \in {"none", "created", "running", "generated", "exited", "stuck"}
          /\ com[n].txPool \in Seq(Txs)
    /\ unsent \subseteq Txs /\ height \in Heights \cup {0}
    /\ blocks \in [Coms -> Seq(Seq(Txs))]

\* The nodes' own computations agree: those that have ended the same reconfiguration hold
\* the same table, in which each node is in exactly one committee, the one its NodeInfo
\* says, and at its NodeID (HandleSendReconfigResults2ComNodes).
TablesAgree ==
    /\ \A m, n \in Nodes : node[m].epoch = node[n].epoch =>
           node[m].ComNodeTable = node[n].ComNodeTable
    /\ \A n \in Nodes :
           /\ node[n].NodeInfo = Info(node[n].ComNodeTable, n)
           /\ IsTable(node[n].ComNodeTable)
           /\ node[n].comAllNodeNum = Len(node[n].ComNodeTable[MyCom(n)])

\* Never do two nodes make blocks for one committee: the old leader's worker has ended
\* before any node can have the results that make another the leader.
OneWorker ==
    \A m, n \in Nodes :
        /\ com[m].worker \in {"running", "generated"} /\ com[n].worker \in {"running", "generated"}
        /\ MyCom(m) = MyCom(n)
        => m = n

\* Together: nodes of one epoch agree on who leads, and at no time do two nodes work as
\* the leader of one committee.
OneLeaderEach == TablesAgree /\ OneWorker

\* No process meets a result it has not expected (log.Error in AddReconfigResult and
\* AddReconfigResults), lacks an old leader or its pool, or waits for states that the
\* shard's leader has sent to another node.
NoneFails == \A n \in Nodes : node[n].up /\ com[n].worker # "stuck"

\* A transaction is at one place only among the blocks and the pools of the leaders at
\* work, and that is of its own committee, although every node of a new committee copies
\* the old leader's pool and may lead another committee next.
OnceInItsCommittee ==
    LET leaders == {n \in Nodes : com[n].worker \in {"running", "generated"}}
        mined   == UNION {UNION {{<<c, i, j>> : j \in DOMAIN blocks[c][i]} : i \in DOMAIN blocks[c]} :
                              c \in Coms}
        pooled  == UNION {{<<n, j>> : j \in DOMAIN com[n].txPool} : n \in leaders}
    IN  \A tx \in Txs :
            LET M == {p \in mined  : blocks[p[1]][p[2]][p[3]] = tx}
                Q == {p \in pooled : com[p[1]].txPool[p[2]] = tx}
            IN  /\ Cardinality(M) + Cardinality(Q) <= 1
                /\ \A p \in M : p[1] = TxCom[tx]
                /\ \A p \in Q : MyCom(p[1]) = TxCom[tx]

\* The contract refuses no adjustRecordedAddrs, and a TB only when it comes too late: it
\* was sent before a reconfiguration that some node has ended.  The signers of a TB of the
\* new committee are recorded for its shard when it is mined, as its leader has sent
\* adjustRecordedAddrs before, with a lower nonce (mustSend, addTB).
OnlyLateRejected ==
    \A call \in rejected : "addTB" \in DOMAIN call /\ \E n \in Nodes : call.addTB.epoch < node[n].epoch

\* When all is mined, the contract's map is the table of the nodes.
ContractFollows ==
    Quiet => \A n \in Nodes : addr2Shard[n] = MyCom(n)

\* Together: the contract has learned of each reconfiguration before it matters.
ContractInStep == OnlyLateRejected /\ ContractFollows

Complete(h) == \A n \in Nodes : node[n].epoch = h /\ ~node[n].waits
                                /\ (IsComLeader(n) => com[n].worker \in {"running", "generated"})

\* The last height up to h that calls for a reconfiguration, or 0.
SeedHeight(h) == (h \div Height2Reconfig) * Height2Reconfig

\* Nothing is on its way: no message, no transaction to be mined, no Layer1 block to be
\* pushed, and no worker is at its last block before a reconfiguration.
Idle ==
    /\ msgs = {} /\ txs = {}
    /\ \A n \in Nodes : /\ node[n].seen = height
                        /\ com[n].worker # "generated"
                        /\ ~(com[n].worker = "running" /\ com[n].to_reconfig)

\* No transaction is lost on the way from leader to leader: when nothing is on its way,
\* what the client has sent is in a block or in the pool of its committee's leader.
NoneLost ==
    Idle => \A tx \in Txs \ unsent :
        \/ \E i \in DOMAIN blocks[TxCom[tx]] : Has(blocks[TxCom[tx]][i], tx)
        \/ \E n \in Nodes : IsComLeader(n) /\ MyCom(n) = TxCom[tx] /\ Has(com[n].txPool, tx)

\* Together: pools are handed over once and completely.
PoolsHandedOver == OnceInItsCommittee /\ NoneLost

\* No reconfiguration is left half done: when there is nothing that would go on with it,
\* all nodes have joined their new committees and the new leaders' workers run.  So none
\* waits for ever for a result, a table or a pool that nobody is going to send.
IdleIsComplete == Idle => Complete(SeedHeight(height))

\* The same as a liveness property of LiveSpec: once its height is confirmed, a
\* reconfiguration is completed.
ReconfigCompletes ==
    \A h \in Seeds : (height = h) ~> Complete(h)

=============================================================================
