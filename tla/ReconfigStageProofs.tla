------------------------ MODULE ReconfigStageProofs ------------------------
(***************************************************************************)
(* Proofs about Layer1 and Reconfig: the nonces of geth mode, and what the *)
(* stages of a reconfiguration rest on.                                    *)
(***************************************************************************)
EXTENDS Reconfig, TLAPS

-----------------------------------------------------------------------------
(* Nonces.  In geth mode no transaction waits for ever behind a nonce that  *)
(* nobody uses, whatever processes share whatever accounts.                 *)

\* The account of the process.
Own(p) == PriKeys[p][p]

Taken(a, k) == \E t \in txs : t.from = a /\ t.nonce = k

NonceTypes ==
    /\ nonce \in [Accounts -> Nat]
    /\ lastNonce \in [Nodes -> Nat \cup {NoNonce}]
    /\ \A t \in txs : t.from \in Accounts /\ t.nonce \in Nat

\* What a process has counted up to has been used: it is mined or it waits.
CountsUsed ==
    \A p \in Nodes : lastNonce[p] # NoNonce =>
        lastNonce[p] < nonce[Own(p)] \/ Taken(Own(p), lastNonce[p])

\* The inductive invariant.
NonceInv == NonceTypes /\ NoNonceGap /\ CountsUsed

\* In geth mode a process that is at its own place in its table signs with its account.
LEMMA OwnAccount ==
    ASSUME ChainMode = 2, NEW p \in Nodes, NEW table \in [Coms -> Seq(Nodes)],
           NEW c \in Coms, NEW i \in Nat, OwnPlace(p, table, c, i)
    PROVE  myPrivateKey(p, table, c, i) = Own(p)
  BY DEF OwnPlace, myPrivateKey, Own

\* A nonce is refused exactly when it is mined or waits.
LEMMA RefusedIsUsed ==
    ASSUME NEW a, NEW k
    PROVE  Refused(a, k) <=> (k < nonce[a] \/ Taken(a, k))
  BY Zenon DEF Refused, Taken

\* The loop of AddTB and AdjustRecordedAddrs keeps the invariant: the nonce it reaches
\* is the account's first free one.
LEMMA MustSendKeeps ==
    ASSUME NonceInv, NEW p \in Nodes, NEW call, mustSend(p, Own(p), call)
    PROVE  NonceInv'
  <1> DEFINE a == Own(p)
             start == firstNonce(p, a)
  <1>a. a \in Accounts
    BY Layer1Assumption DEF Own
  <1>1. nonce[a] \in Nat /\ start \in Nat
    BY <1>a DEF NonceInv, NonceTypes, firstNonce, NoNonce
  <1>2. PICK k \in start .. start + nonce[a] + Cardinality(txs) :
            /\ IsFirstFree(a, start, k)
            /\ lastNonce' = [lastNonce EXCEPT ![p] = k]
            /\ txs' = txs \cup {[from |-> a, nonce |-> k, call |-> call]}
            /\ UNCHANGED <<nonce, addr2Shard, tbs, rejected>>
    BY Zenon DEF mustSend
  <1> DEFINE new == [from |-> a, nonce |-> k, call |-> call]
  <1>3. k \in Nat
    BY <1>1
  <1>4. /\ k >= start /\ k >= nonce[a] /\ ~Taken(a, k)
        /\ \A j \in start .. k - 1 : j < nonce[a] \/ Taken(a, j)
    <2>1. k >= start /\ ~Refused(a, k) /\ \A j \in start .. k - 1 : Refused(a, j)
      BY <1>2, Zenon DEF IsFirstFree
    <2> QED
      BY <2>1, <1>1, <1>3, RefusedIsUsed
  \* Below start the nonces are used by what the process has counted.
  <1>5. \A j \in nonce[a] .. k - 1 : Taken(a, j)
    BY <1>1, <1>3, <1>4 DEF firstNonce, NonceInv, NonceTypes, CountsUsed, Taken, NoNonceGap
  <1>7. NoNonceGap'
    BY <1>2, <1>4, <1>5 DEF Taken, NonceInv, NoNonceGap
  <1>8. CountsUsed'
    <2> SUFFICES ASSUME NEW q \in Nodes, lastNonce'[q] # NoNonce
                 PROVE  \/ lastNonce'[q] < nonce'[Own(q)]
                        \/ \E u \in txs' : u.from = Own(q) /\ u.nonce = lastNonce'[q]
      BY Zenon DEF CountsUsed, Taken
    <2>1. nonce' = nonce /\ new \in txs' /\ txs \subseteq txs'
      BY <1>2, Zenon
    <2>2. CASE q = p
      BY <1>2, <2>1, <2>2, Zenon DEF NonceInv, NonceTypes, Taken
    <2>3. CASE q # p
      BY <1>2, <2>3, Zenon DEF NonceInv, NonceTypes, CountsUsed, Taken
    <2> QED
      BY <2>2, <2>3, Zenon
  <1> QED
    BY <1>2, <1>3, <1>7, <1>8, <1>a DEF NonceInv, NonceTypes

\* Mining an account's next transaction keeps the invariant.
LEMMA MineKeeps ==
    ASSUME NonceInv, NEW t \in txs, Mine(t)
    PROVE  NonceInv'
  <1>1. /\ t.nonce = nonce[t.from] /\ t.from \in Accounts
        /\ txs' = txs \ {t}
        /\ nonce' = [nonce EXCEPT ![t.from] = @ + 1]
        /\ lastNonce' = lastNonce
    BY Zenon DEF Mine, NonceInv, NonceTypes
  <1>2. /\ nonce'[t.from] = nonce[t.from] + 1
        /\ \A a \in Accounts : a # t.from => nonce'[a] = nonce[a]
    BY <1>1, Zenon DEF NonceInv, NonceTypes
  <1>4. NoNonceGap'
    <2>1. ASSUME NEW u \in txs', NEW v \in txs', u.from = v.from, u.nonce = v.nonce
          PROVE  u = v
      BY <2>1, <1>1, Zenon DEF NonceInv, NoNonceGap
    <2>2. ASSUME NEW u \in txs'
          PROVE  /\ u.nonce >= nonce'[u.from]
                 /\ \A j \in nonce'[u.from] .. u.nonce :
                        \E v \in txs' : v.from = u.from /\ v.nonce = j
      <3>1. /\ u \in txs /\ u # t /\ u.from \in Accounts /\ u.nonce \in Nat
            /\ nonce[u.from] \in Nat /\ u.nonce >= nonce[u.from]
            /\ \A j \in nonce[u.from] .. u.nonce : Taken(u.from, j)
        BY <1>1 DEF NonceInv, NonceTypes, NoNonceGap, Taken
      <3>2. CASE u.from = t.from
        BY <1>1, <1>2, <3>1, <3>2 DEF NonceInv, NoNonceGap
      <3>3. CASE u.from # t.from
        BY <1>1, <1>2, <3>1, <3>3, Zenon DEF Taken
      <3> QED
        BY <3>2, <3>3, Zenon
    <2> QED
      BY <2>1, <2>2, Zenon DEF NoNonceGap
  <1> QED
    BY <1>1, <1>4 DEF NonceInv, NonceTypes, CountsUsed, Taken

\* The booter's transaction is mined before any other is sent.
LEMMA DeployKeeps ==
    ASSUME NonceInv, txs = {}, NEW a \in Accounts, NEW addrs, DeployContract(a, addrs)
    PROVE  NonceInv'
  BY DEF DeployContract, NonceInv, NonceTypes, NoNonceGap, CountsUsed, Taken, NoNonce

\* The invariant is inductive.
LEMMA NonceInvStep ==
    ASSUME ChainMode = 2, NonceInv, [Layer1Next]_layer1Vars
    PROVE  NonceInv'
  <1>1. CASE txs = {} /\ \E a \in Accounts, addrs \in [Coms -> SUBSET Nodes] : DeployContract(a, addrs)
    BY <1>1, DeployKeeps, Zenon
  <1>2. ASSUME NEW p \in Nodes, Sends(p)
        PROVE  NonceInv'
    <2>1. PICK table \in [Coms -> Seq(Nodes)], i \in Nat :
            \/ \E tb \in TBs : OwnPlace(p, table, tb.shardID, i) /\ AddTB(p, table, i, tb)
            \/ \E c \in Coms, addrs \in Seq(Nodes), vrfs \in Seq(Nat), h \in Nat :
                   OwnPlace(p, table, c, i) /\ AdjustRecordedAddrs(p, table, c, i, addrs, vrfs, h)
      BY <1>2, Zenon DEF Sends
    <2>2. ASSUME NEW tb \in TBs, OwnPlace(p, table, tb.shardID, i), AddTB(p, table, i, tb)
          PROVE  NonceInv'
      BY <2>2, OwnAccount, MustSendKeeps, Zenon DEF TBs, AddTB
    <2>3. ASSUME NEW c \in Coms, NEW addrs, NEW vrfs, NEW h, OwnPlace(p, table, c, i),
                 AdjustRecordedAddrs(p, table, c, i, addrs, vrfs, h)
          PROVE  NonceInv'
      BY <2>3, OwnAccount, MustSendKeeps, Zenon DEF AdjustRecordedAddrs
    <2> QED
      BY <2>1, <2>2, <2>3, Zenon
  <1>3. ASSUME NEW t \in txs, Mine(t)
        PROVE  NonceInv'
    BY <1>3, MineKeeps, Zenon
  <1>4. CASE UNCHANGED layer1Vars
    BY <1>4 DEF layer1Vars, NonceInv, NonceTypes, NoNonceGap, CountsUsed, Taken
  <1> QED
    BY <1>1, <1>2, <1>3, <1>4, Zenon DEF Layer1Next

\* In geth mode the transactions of every account that wait to be mined have consecutive
\* nonces from the account's next one on (mustSend in AddTB and AdjustRecordedAddrs), so
\* none waits behind a gap: for any number of processes, however they share accounts.
THEOREM NoNonceGapHolds ==
    ASSUME ChainMode = 2
    PROVE  Layer1Spec => []NoNonceGap
  <1>1. Layer1Init => NonceInv
    BY DEF Layer1Init, NonceInv, NonceTypes, NoNonceGap, CountsUsed
  <1>2. NonceInv /\ [Layer1Next]_layer1Vars => NonceInv'
    BY NonceInvStep, Zenon
  <1>3. NonceInv => NoNonceGap
    BY DEF NonceInv
  <1> QED
    BY <1>1, <1>2, <1>3, PTL DEF Layer1Spec

-----------------------------------------------------------------------------
(* Reconfigurations: tables that agree, and one leader at work each.       *)

\* Every draw gives every committee a node.
EnoughDrawn ==
    \A h \in Seeds, c \in Coms : \E n \in Nodes : vrfValue2ShardID(Vrf[h][n]) = c

-----------------------------------------------------------------------------
(* What the steps need to know about finite sets and numbers: assumed of    *)
(* each lemma that counts, and proved at the end (CountingHolds).           *)

IntervalsCount ==
    \A k \in Nat : /\ IsFiniteSet(1 .. k) /\ Cardinality(1 .. k) = k
                   /\ IsFiniteSet(0 .. k - 1) /\ Cardinality(0 .. k - 1) = k

PartsCount ==
    \A S : \A R \in SUBSET S :
        IsFiniteSet(S) => IsFiniteSet(R) /\ (Cardinality(R) = Cardinality(S) => R = S)

\* Different arguments, different values: there are as many of both.
ImagesCount ==
    \A D, f : IsFiniteSet(D) /\ (\A x, y \in D : f[x] = f[y] => x = y) =>
               /\ IsFiniteSet({f[x] : x \in D})
               /\ Cardinality({f[x] : x \in D}) = Cardinality(D)

\* By rank every member of a set gets one place: SortByVrf lists the set.
SortingLists ==
    \A S : /\ IsFiniteSet(S) /\ \A r \in S : r.Vrf \in Nat
           /\ \A r, s \in S : r.Vrf = s.Vrf => r = s
           => /\ Cardinality(S) \in Nat /\ DOMAIN SortByVrf(S) = 1 .. Cardinality(S)
              /\ \A i \in 1 .. Cardinality(S) : SortByVrf(S)[i] \in S
              /\ \A i, j \in 1 .. Cardinality(S) : SortByVrf(S)[i] = SortByVrf(S)[j] => i = j
              /\ \A r \in S : \E i \in 1 .. Cardinality(S) : SortByVrf(S)[i] = r
              /\ SortByVrf(S) \in Seq(S) /\ Len(SortByVrf(S)) = Cardinality(S)

LeastExists == \A S : S \subseteq Nat /\ S # {} => \E x \in S : \A y \in S : x <= y

Counting == IntervalsCount /\ PartsCount /\ ImagesCount /\ SortingLists /\ LeastExists

-----------------------------------------------------------------------------
(* What the reconfiguration of seed height e makes of the table T.          *)

Draw(T, e, n) ==
    [SeedHeight |-> e, Vrf |-> Vrf[e][n], OldNodeInfo |-> Info(T, n),
     NewComID |-> vrfValue2ShardID(Vrf[e][n])]

Draws(T, e, c) == {Draw(T, e, T[c][i]) : i \in DOMAIN T[c]}

Results(T, e, c) == [all |-> Draws(T, e, c), first |-> e, last |-> e]

Data(T, e) == [c \in Coms |-> [Results |-> Results(T, e, c), ComNodeNum |-> Len(T[c])]]

NewTable(T, e) == newComNodeTable(newCom2Results(Data(T, e)))

-----------------------------------------------------------------------------
(* The inductive invariant.  The nodes that have joined the reconfiguration *)
(* e have the table N, the others still have T.                             *)

Making == {"created", "running", "generated"}

Joined(e, n)    == node[n].epoch = e
Drawn(T, e, n)  == node[n].reconfigResult = Draw(T, e, n)
Begun(T, e, c)  == Joined(e, ComLeader(T, c)) \/ com[ComLeader(T, c)].worker = "exited"
Full(T, e, c)   == node[ComLeader(T, c)].reconfigResults = Results(T, e, c)
Spread(T, e, c) == node[ComLeader(T, c)].com2ReconfigResults = Data(T, e)

\* The fields that the handlers write.
ComFields ==
    {"txPool", "oldTxPool", "tbchain_height", "to_reconfig", "reconfig_seed_height", "worker"}

Shape ==
    /\ DOMAIN node = Nodes /\ DOMAIN com = Nodes
    /\ \A n \in Nodes :
          /\ {"up", "NodeInfo", "ComNodeTable", "comAllNodeNum", "initialAddrList", "contract",
              "reconfigResult", "reconfigResults", "com2ReconfigResults", "waits", "seen",
              "epoch"} \subseteq DOMAIN node[n]
          /\ ComFields \subseteq DOMAIN com[n]

\* e is the last seed height confirmed, and a node that has not seen it has not missed another.
HeightsOK(e) ==
    /\ e \in Seeds \cup {0} /\ height \in Heights \cup {0} /\ e <= height
    /\ \A k \in Seeds : k <= height => k <= e
    /\ \A n \in Nodes : /\ node[n].seen \in Heights \cup {0}
                        /\ \A k \in Seeds : node[n].seen < k /\ k <= height => k = e

\* Each node has the one table or the other, and its own place in it.
NodesOK(T, N, e) ==
    /\ IsTable(T) /\ IsTable(N)
    /\ e # 0 => N = NewTable(T, e)
    /\ \A n \in Nodes :
          /\ node[n].epoch \in Nat /\ node[n].epoch <= e
          /\ node[n].ComNodeTable = IF Joined(e, n) THEN N ELSE T
          /\ node[n].NodeInfo = Info(node[n].ComNodeTable, n)
          /\ node[n].comAllNodeNum = Len(node[n].ComNodeTable[MyCom(n)])

\* What a node has drawn, if it has, is of an earlier reconfiguration or of this one.
ResultOK(T, e, n) ==
    \/ node[n].reconfigResult = None
    \/ node[n].reconfigResult.SeedHeight \in Nat /\ node[n].reconfigResult.SeedHeight < e
    \/ Drawn(T, e, n) /\ Begun(T, e, Place(T, n)) /\ com[n].tbchain_height >= e

\* So are the results that a leader has collected of its committee.
Collected(T, e, n, r) ==
    /\ r = [all |-> r.all, first |-> e, last |-> e]
    /\ n = ComLeader(T, Place(T, n))
    /\ \A d \in r.all : \E x \in Nodes :
           Place(T, x) = Place(T, n) /\ d = Draw(T, e, x) /\ Drawn(T, e, x)

ResultsOK(T, e, n, r) ==
    \/ r = None
    \/ r.last \in Nat /\ r.last < e
    \/ Collected(T, e, n, r)

\* And those that it has heard of the committees.
HeardOK(T, e, f) ==
    /\ f = [c \in DOMAIN f |-> f[c]] /\ DOMAIN f \subseteq Coms
    /\ \/ \A c \in DOMAIN f : f[c].Results.first \in Nat /\ f[c].Results.first < e
       \/ \A c \in DOMAIN f : f[c] = Data(T, e)[c] /\ Full(T, e, c)

\* Each stage rests on the one before.
StagesOK(T, e) ==
    \A n \in Nodes :
        /\ ResultOK(T, e, n)
        /\ ResultsOK(T, e, n, node[n].reconfigResults)
        /\ HeardOK(T, e, node[n].com2ReconfigResults)
        /\ Joined(e, n) /\ e # 0 => Drawn(T, e, n) /\ Spread(T, e, Place(T, n))

\* A node makes blocks only as a leader, and is called upon to reconfigure once.
WorkersOK(e) ==
    \A n \in Nodes :
        /\ com[n].worker \in Making => IsComLeader(n)
        /\ com[n].tbchain_height \in Nat /\ com[n].to_reconfig \in BOOLEAN
        /\ com[n].to_reconfig => ~Joined(e, n) /\ com[n].reconfig_seed_height = e

BootTypes == {"NodeSendInfo", "ShardSendGenesis", "BooterSendContract"}

\* A message is on its way only until its receiver has done what it asks for: draw, ...
AskOK(T, e, m) ==
    \E n \in Nodes :
        /\ m = [type |-> "LeaderInitReconfig", to |-> n, SeedHeight |-> e, ComID |-> Place(T, n)]
        /\ ~Joined(e, n) /\ ~Drawn(T, e, n) /\ Begun(T, e, Place(T, n))

\* ... collect the result that n has drawn, ...
Lacks(T, e, n, r) == r = None \/ r.last < e \/ Draw(T, e, n) \notin r.all

ResultMsgOK(T, e, m) ==
    \E n \in Nodes :
        /\ m = [type |-> "SendReconfigResult2ComLeader", data |-> Draw(T, e, n),
                to |-> ComLeader(T, Place(T, n))]
        /\ e # 0 /\ Drawn(T, e, n)
        /\ Lacks(T, e, n, node[ComLeader(T, Place(T, n))].reconfigResults)

\* ... note the results of committee c, ...
NotHeard(e, c, f) == c \in DOMAIN f => f[c].Results.first < e

ResultsMsgOK(T, e, m) ==
    \E c, d \in Coms :
        /\ m = [type |-> "SendReconfigResults2AllComLeaders", ComID |-> c,
                Results |-> Results(T, e, c), ComNodeNum |-> Len(T[c]), to |-> ComLeader(T, d)]
        /\ e # 0 /\ Full(T, e, c)
        /\ NotHeard(e, c, node[ComLeader(T, d)].com2ReconfigResults)

\* ... or join.
AllMsgOK(T, e, m) ==
    \E n \in Nodes :
        /\ m = [type |-> "SendReconfigResults2ComNodes", data |-> Data(T, e), to |-> n]
        /\ ~Joined(e, n) /\ Spread(T, e, Place(T, n))

MsgOK(T, e, m) ==
    /\ m.type \in BootTypes => e = 0
    /\ m.type = "LeaderInitReconfig" => AskOK(T, e, m)
    /\ m.type = "SendReconfigResult2ComLeader" => ResultMsgOK(T, e, m)
    /\ m.type = "SendReconfigResults2AllComLeaders" => ResultsMsgOK(T, e, m)
    /\ m.type = "SendReconfigResults2ComNodes" => AllMsgOK(T, e, m)

MsgsOK(T, e) == \A m \in msgs : MsgOK(T, e, m)

Inv(T, N, e) ==
    /\ Shape /\ HeightsOK(e) /\ NodesOK(T, N, e) /\ StagesOK(T, e) /\ WorkersOK(e) /\ MsgsOK(T, e)

ReconfigInv == \E T, N, e : Inv(T, N, e)

-----------------------------------------------------------------------------
(* Tables.                                                                  *)

\* A node's place in a table.
LEMMA PlaceInTable ==
    ASSUME NEW T, IsTable(T), NEW n \in Nodes
    PROVE  /\ Place(T, n) \in Coms
           /\ Index(T[Place(T, n)], n) \in DOMAIN T[Place(T, n)]
           /\ T[Place(T, n)][Index(T[Place(T, n)], n)] = n
           /\ \A c \in Coms : \A i \in DOMAIN T[c] :
                 T[c][i] = n => c = Place(T, n) /\ i = Index(T[Place(T, n)], n)
  <1>1. PICK c \in Coms : \E i \in DOMAIN T[c] : T[c][i] = n
    BY Zenon DEF IsTable
  <1>2. Place(T, n) \in Coms /\ Has(T[Place(T, n)], n)
    BY <1>1, Zenon DEF Place, Has
  <1>3. /\ Index(T[Place(T, n)], n) \in DOMAIN T[Place(T, n)]
        /\ T[Place(T, n)][Index(T[Place(T, n)], n)] = n
    BY <1>2, Zenon DEF Index, Has
  <1> QED
    BY <1>2, <1>3 DEF IsTable

\* The members of a committee, and its leader, whose NodeID is 0.
LEMMA Members ==
    ASSUME NEW T, IsTable(T), NEW c \in Coms
    PROVE  /\ DOMAIN T[c] = 1 .. Len(T[c]) /\ Len(T[c]) \in Nat /\ 1 \in DOMAIN T[c]
           /\ \A i \in DOMAIN T[c] : T[c][i] \in Nodes /\ Place(T, T[c][i]) = c
                                     /\ Info(T, T[c][i]).NodeID = i - 1
           /\ ComLeader(T, c) \in Nodes /\ Place(T, ComLeader(T, c)) = c
           /\ Info(T, ComLeader(T, c)).NodeID = 0
  <1>1. /\ DOMAIN T[c] = 1 .. Len(T[c]) /\ Len(T[c]) \in Nat /\ 1 \in DOMAIN T[c]
        /\ \A i \in DOMAIN T[c] : T[c][i] \in Nodes
    BY DEF IsTable
  <1>2. ASSUME NEW i \in DOMAIN T[c]
        PROVE  Place(T, T[c][i]) = c /\ Index(T[Place(T, T[c][i])], T[c][i]) = i
    BY <1>1, PlaceInTable
  <1> QED
    BY <1>1, <1>2 DEF ComLeader, Info

\* A node is its committee's leader by its NodeID.
LEMMA LeaderByID ==
    ASSUME NEW T, IsTable(T), NEW n \in Nodes
    PROVE  /\ Info(T, n).NodeAddr = n /\ Info(T, n).ComID = Place(T, n)
           /\ Info(T, n).NodeID = 0 <=> n = ComLeader(T, Place(T, n))
  BY Members, PlaceInTable DEF Info, ComLeader

-----------------------------------------------------------------------------
(* Draws.                                                                   *)

\* A draw names its node.
LEMMA DrawFacts ==
    ASSUME NEW T, IsTable(T), NEW e, NEW n \in Nodes
    PROVE  /\ Draw(T, e, n).OldNodeInfo = Info(T, n) /\ Draw(T, e, n).OldNodeInfo.NodeAddr = n
           /\ Draw(T, e, n).SeedHeight = e /\ Draw(T, e, n).Vrf = Vrf[e][n]
           /\ Draw(T, e, n).NewComID = vrfValue2ShardID(Vrf[e][n])
  BY LeaderByID, Zenon DEF Draw

\* A committee's draws are as many as its nodes; so many are all of them.
LEMMA DrawsCounted ==
    ASSUME Counting, NEW T, IsTable(T), NEW e, NEW c \in Coms,
           NEW S \in SUBSET Draws(T, e, c), Cardinality(S) = Len(T[c])
    PROVE  S = Draws(T, e, c)
  <1>1. PICK D, f : D = DOMAIN T[c] /\ f = [i \in D |-> Draw(T, e, T[c][i])]
    BY Zenon
  <1>2. D = 1 .. Len(T[c]) /\ Len(T[c]) \in Nat /\ \A i \in D : T[c][i] \in Nodes
    BY <1>1, Members, Zenon
  <1>4. \A i, j \in DOMAIN T[c] : T[c][i] = T[c][j] => i = j
    BY Zenon DEF IsTable
  <1>5. \A i, j \in D : f[i] = f[j] => i = j
    BY <1>1, <1>2, <1>4, DrawFacts
  <1>6. IsFiniteSet(D) /\ Cardinality(D) = Len(T[c])
    BY <1>2, Zenon DEF Counting, IntervalsCount
  <1>7. IsFiniteSet({f[i] : i \in D}) /\ Cardinality({f[i] : i \in D}) = Cardinality(D)
    <2>1. ImagesCount
      BY DEF Counting
    <2> QED
      BY <1>5, <1>6, <2>1, ZenonT(30) DEF ImagesCount
  <1>8. IsFiniteSet(Draws(T, e, c)) /\ Cardinality(Draws(T, e, c)) = Len(T[c])
    BY <1>1, <1>6, <1>7, Zenon DEF Draws
  <1> QED
    BY <1>8, Zenon DEF Counting, PartsCount

\* A node draws one of the committees.
LEMMA DrawnCom ==
    ASSUME NEW e \in Seeds, NEW n \in Nodes
    PROVE  vrfValue2ShardID(Vrf[e][n]) \in Coms
  BY Layer1Assumption, ReconfigAssumption DEF vrfValue2ShardID, Coms

\* The new committees' results: each node's draw, once, in the committee it has drawn.
LEMMA NewResults ==
    ASSUME Counting, NEW T, IsTable(T), NEW e \in Seeds, NEW c \in Coms
    PROVE  LET q == newCom2Results(Data(T, e))[c]
           IN  /\ DOMAIN q = 1 .. Len(q) /\ Len(q) \in Nat
               /\ \A i \in DOMAIN q : \E n \in Nodes :
                     q[i] = Draw(T, e, n) /\ vrfValue2ShardID(Vrf[e][n]) = c
               /\ \A i, j \in DOMAIN q : q[i] = q[j] => i = j
               /\ \A n \in Nodes : vrfValue2ShardID(Vrf[e][n]) = c =>
                     \E i \in DOMAIN q : q[i] = Draw(T, e, n)
  <1> DEFINE data == Data(T, e)
             all  == {Draw(T, e, n) : n \in Nodes}
             S    == {r \in all : r.NewComID = c}
  <1>1. UNION {data[d].Results.all : d \in DOMAIN data} = all
    BY Members, PlaceInTable DEF Data, Results, Draws
  <1>2. newCom2Results(data)[c] = SortByVrf(S)
    BY <1>1, Zenon DEF newCom2Results
  <1>3. IsFiniteSet(all)
    <2>1. PICK f : f = [n \in Nodes |-> Draw(T, e, n)]
      BY Zenon
    <2>4. all = {f[n] : n \in Nodes}
      BY <2>1
    <2> HIDE DEF all
    <2> QED
      BY <2>1, <2>4, DrawFacts, ReconfigAssumption DEF Counting, ImagesCount
  <1>4. IsFiniteSet(S)
    BY <1>3, Zenon DEF Counting, PartsCount
  <1>5. \A r \in S : r.Vrf \in Nat
    BY DrawFacts, ReconfigAssumption
  <1>6. \A r, s \in S : r.Vrf = s.Vrf => r = s
    BY DrawFacts, ReconfigAssumption
  <1>7. \A n \in Nodes : Draw(T, e, n) \in S <=> vrfValue2ShardID(Vrf[e][n]) = c
    BY DrawFacts
  <1>8. \A r \in S : \E n \in Nodes : r = Draw(T, e, n) /\ vrfValue2ShardID(Vrf[e][n]) = c
    BY <1>7, Zenon
  <1> HIDE DEF S
  <1>9. PICK q, k : q = SortByVrf(S) /\ k = Cardinality(S)
    BY Zenon
  <1>10. /\ k \in Nat /\ DOMAIN q = 1 .. k /\ Len(q) = k
         /\ \A i \in 1 .. k : q[i] \in S
         /\ \A i, j \in 1 .. k : q[i] = q[j] => i = j
         /\ \A r \in S : \E i \in 1 .. k : q[i] = r
    BY <1>4, <1>5, <1>6, <1>9, Zenon DEF Counting, SortingLists
  <1> QED
    BY <1>2, <1>7, <1>8, <1>9, <1>10

\* So the new table is one, with each node in the committee it has drawn.
LEMMA NewTableOK ==
    ASSUME Counting, EnoughDrawn, NEW T, IsTable(T), NEW e \in Seeds
    PROVE  /\ IsTable(NewTable(T, e))
           /\ \A n \in Nodes : Place(NewTable(T, e), n) = vrfValue2ShardID(Vrf[e][n])
           /\ \A c \in Coms :
                 LET q == newCom2Results(Data(T, e))[c]
                 IN  /\ DOMAIN q = DOMAIN NewTable(T, e)[c] /\ Len(q) = Len(NewTable(T, e)[c])
                     /\ \A i \in DOMAIN q : q[i] = Draw(T, e, NewTable(T, e)[c][i])
  <1>1. PICK q : q = newCom2Results(Data(T, e))
    OBVIOUS
  <1>2. PICK N : N = NewTable(T, e)
    BY Zenon
  <1>3. ASSUME NEW c \in Coms
        PROVE  /\ DOMAIN q[c] = 1 .. Len(q[c]) /\ Len(q[c]) \in Nat
               /\ \A i \in DOMAIN q[c] : \E n \in Nodes :
                     q[c][i] = Draw(T, e, n) /\ vrfValue2ShardID(Vrf[e][n]) = c
               /\ \A i, j \in DOMAIN q[c] : q[c][i] = q[c][j] => i = j
               /\ \A n \in Nodes : vrfValue2ShardID(Vrf[e][n]) = c =>
                     \E i \in DOMAIN q[c] : q[c][i] = Draw(T, e, n)
    BY <1>1, NewResults
  <1>4. N = [c \in Coms |-> [i \in DOMAIN q[c] |-> q[c][i].OldNodeInfo.NodeAddr]]
    BY <1>1, <1>2, Zenon DEF NewTable, newComNodeTable
  <1>5. ASSUME NEW c \in Coms, NEW i \in DOMAIN q[c]
        PROVE  /\ N[c][i] \in Nodes /\ q[c][i] = Draw(T, e, N[c][i])
               /\ vrfValue2ShardID(Vrf[e][N[c][i]]) = c
    <2>1. PICK n \in Nodes : q[c][i] = Draw(T, e, n) /\ vrfValue2ShardID(Vrf[e][n]) = c
      BY <1>3, Zenon
    <2>2. N[c][i] = q[c][i].OldNodeInfo.NodeAddr
      BY <1>4, Zenon
    <2> QED
      BY <2>1, <2>2, DrawFacts
  <1>6. ASSUME NEW c \in Coms
        PROVE  /\ DOMAIN N[c] = DOMAIN q[c] /\ N[c] \in Seq(Nodes) /\ Len(N[c]) = Len(q[c])
    <2>1. N[c] = [i \in 1 .. Len(q[c]) |-> q[c][i].OldNodeInfo.NodeAddr]
      BY <1>3, <1>4, Zenon
    <2> QED
      BY <1>5, <2>1
  <1>7. ASSUME NEW n \in Nodes
        PROVE  LET c == vrfValue2ShardID(Vrf[e][n])
               IN  c \in Coms /\ \E i \in DOMAIN N[c] : N[c][i] = n
    <2>1. PICK c \in Coms : c = vrfValue2ShardID(Vrf[e][n])
      BY DrawnCom, Zenon
    <2>2. PICK i \in DOMAIN q[c] : q[c][i] = Draw(T, e, n)
      BY <1>3, <2>1, Zenon
    <2>3. N[c][i] = n
      BY <1>4, <2>2, DrawFacts
    <2> QED
      BY <1>6, <2>1, <2>3, Zenon
  <1>8. IsTable(N)
    <2>2. \A c \in Coms : Len(N[c]) > 0
      BY <1>7 DEF EnoughDrawn
    <2>3. \A n \in Nodes : \E c \in Coms : \E i \in DOMAIN N[c] : N[c][i] = n
      BY <1>7, Zenon
    <2>4. ASSUME NEW c \in Coms, NEW d \in Coms, NEW i \in DOMAIN N[c], NEW j \in DOMAIN N[d],
                 N[c][i] = N[d][j]
          PROVE  c = d /\ i = j
      <3>1. i \in DOMAIN q[c] /\ j \in DOMAIN q[d]
        BY <1>6, Zenon
      <3>2. q[c][i] = Draw(T, e, N[c][i]) /\ vrfValue2ShardID(Vrf[e][N[c][i]]) = c
        BY <1>5, <3>1, Zenon
      <3>3. q[d][j] = Draw(T, e, N[d][j]) /\ vrfValue2ShardID(Vrf[e][N[d][j]]) = d
        BY <1>5, <3>1, Zenon
      <3>4. c = d /\ q[c][i] = q[c][j]
        BY <2>4, <3>2, <3>3, Zenon
      <3> QED
        BY <1>3, <3>1, <3>4, Zenon
    <2> QED
      BY <1>4, <1>6, <2>2, <2>3, <2>4, Zenon DEF IsTable
  <1>9. ASSUME NEW n \in Nodes PROVE Place(N, n) = vrfValue2ShardID(Vrf[e][n])
    BY <1>7, <1>8, PlaceInTable, ZenonT(30)
  <1> QED
    BY <1>1, <1>2, <1>5, <1>6, <1>8, <1>9, Zenon

\* The node finds its own place in the new table.
LEMMA JoinsAt ==
    ASSUME Counting, EnoughDrawn, NEW T, IsTable(T), NEW e \in Seeds, NEW n \in Nodes,
           node[n].NodeInfo = Info(T, n), Drawn(T, e, n)
    PROVE  newNodeInfo(n, newCom2Results(Data(T, e))) = Info(NewTable(T, e), n)
  <1>1. PICK q : q = newCom2Results(Data(T, e))
    BY Zenon
  <1>2. PICK N : N = NewTable(T, e)
    BY Zenon
  <1>3. /\ IsTable(N) /\ Place(N, n) = vrfValue2ShardID(Vrf[e][n])
        /\ \A c \in Coms : DOMAIN q[c] = DOMAIN N[c]
                           /\ \A i \in DOMAIN q[c] : q[c][i] = Draw(T, e, N[c][i])
    BY <1>1, <1>2, NewTableOK
  <1> DEFINE k    == Index(N[Place(N, n)], n)
             mine == UNION {{i \in DOMAIN q[c] : q[c][i].OldNodeInfo = node[n].NodeInfo} :
                                c \in Coms}
  <1>4. ASSUME NEW c \in Coms, NEW i \in DOMAIN q[c]
        PROVE  q[c][i].OldNodeInfo = node[n].NodeInfo <=> N[c][i] = n
    <2>1. N[c][i] \in Nodes
      BY <1>3, Members, Zenon
    <2>2. q[c][i].OldNodeInfo = Info(T, N[c][i])
      BY <1>3, <2>1, DrawFacts
    <2> QED
      BY <2>1, <2>2, LeaderByID
  <1>5. /\ Place(N, n) \in Coms /\ k \in DOMAIN q[Place(N, n)] /\ N[Place(N, n)][k] = n
        /\ \A c \in Coms : \A i \in DOMAIN q[c] : N[c][i] = n => c = Place(N, n) /\ i = k
    BY <1>3, PlaceInTable
  <1>6. mine = {k}
    BY <1>4, <1>5
  <1>7. node[n].reconfigResult.NewComID = Place(N, n)
    BY <1>3, DrawFacts DEF Drawn
  <1> QED
    BY <1>1, <1>2, <1>6, <1>7 DEF Info, newNodeInfo

-----------------------------------------------------------------------------
(* What the invariant says of the stages.                                   *)

\* Records with other fields.
LEMMA NotNone ==
    ASSUME NEW T, NEW e, NEW n, NEW c
    PROVE  Draw(T, e, n) # None /\ Results(T, e, c) # None
  BY Zenon DEF Draw, Results, None

\* The tables and the height of the invariant.
LEMMA Basics ==
    ASSUME NEW T, NEW N, NEW e, Inv(T, N, e)
    PROVE  /\ IsTable(T) /\ IsTable(N) /\ e \in Nat /\ (e # 0 => e \in Seeds /\ N = NewTable(T, e))
           /\ height \in Nat /\ e <= height
           /\ Shape /\ HeightsOK(e) /\ NodesOK(T, N, e) /\ StagesOK(T, e) /\ WorkersOK(e)
           /\ MsgsOK(T, e)
  <1>1. /\ Shape /\ HeightsOK(e) /\ NodesOK(T, N, e) /\ StagesOK(T, e) /\ WorkersOK(e)
        /\ MsgsOK(T, e)
    BY Zenon DEF Inv
  <1>2. /\ IsTable(T) /\ IsTable(N) /\ (e # 0 => N = NewTable(T, e))
        /\ e \in Seeds \cup {0} /\ height \in Heights \cup {0} /\ e <= height
    BY <1>1, Zenon DEF HeightsOK, NodesOK
  <1>3. Seeds \subseteq Heights /\ Heights \subseteq Nat
    BY ReconfigAssumption, Zenon DEF Seeds
  <1>4. e \in Nat /\ height \in Nat /\ (e # 0 => e \in Seeds)
    BY <1>2, <1>3
  <1> QED
    BY <1>1, <1>2, <1>4, Zenon

\* A node that has drawn was asked to by its leader, whose worker has exited.
LEMMA DrawnWasAsked ==
    ASSUME NEW T, NEW N, NEW e, Inv(T, N, e), NEW n \in Nodes, Drawn(T, e, n)
    PROVE  Begun(T, e, Place(T, n)) /\ com[n].tbchain_height >= e
  <1>1. ResultOK(T, e, n) /\ e \in Nat
    BY Basics, Zenon DEF StagesOK
  <1>2. Draw(T, e, n) # None /\ Draw(T, e, n).SeedHeight = e
    BY NotNone, Zenon DEF Draw
  <1>3. ~(e < e)
    BY <1>1
  <1> QED
    BY <1>1, <1>2, <1>3, Zenon DEF Drawn, ResultOK

\* When a leader has all of a committee's results, its nodes have drawn.
LEMMA FullAreDrawn ==
    ASSUME NEW T, NEW N, NEW e, Inv(T, N, e), NEW n \in Nodes, Full(T, e, Place(T, n))
    PROVE  Drawn(T, e, n)
  <1>1. IsTable(T) /\ e \in Nat
    BY Basics, Zenon
  <1>2. PICK c \in Coms : c = Place(T, n)
    BY <1>1, PlaceInTable, Zenon
  <1>3. PICK l \in Nodes : l = ComLeader(T, c) /\ Place(T, l) = c
    BY <1>1, Members, Zenon
  <1>4. PICK r : r = node[l].reconfigResults /\ r = Results(T, e, c)
    BY <1>2, <1>3, Zenon DEF Full
  <1>5. r # None /\ r.last = e /\ r.all = Draws(T, e, c)
    BY <1>4, NotNone DEF Results
  <1>6. Collected(T, e, l, r)
    <2>1. ResultsOK(T, e, l, r)
      BY <1>4, Zenon DEF Inv, StagesOK
    <2> QED
      BY <1>5, <2>1 DEF ResultsOK
  <1>7. \E i \in DOMAIN T[c] : T[c][i] = n
    BY <1>1, <1>2, PlaceInTable, ZenonT(30)
  <1>8. PICK x \in Nodes : Draw(T, e, n) = Draw(T, e, x) /\ Drawn(T, e, x)
    BY <1>5, <1>6, <1>7, Zenon DEF Collected, Draws
  <1> QED
    BY <1>1, <1>8, DrawFacts

\* When a leader has the results of all committees, every leader has its own, and all
\* nodes have drawn.
LEMMA SpreadAreFull ==
    ASSUME NEW T, NEW N, NEW e, Inv(T, N, e), NEW c \in Coms, Spread(T, e, c)
    PROVE  /\ \A d \in Coms : Full(T, e, d)
           /\ \A n \in Nodes : Drawn(T, e, n) /\ Begun(T, e, Place(T, n))
  <1>1. IsTable(T) /\ e \in Nat
    BY Basics, Zenon
  <1>2. PICK l \in Nodes : l = ComLeader(T, c)
    BY <1>1, Members, Zenon
  <1>3. PICK f : f = node[l].com2ReconfigResults /\ f = Data(T, e)
    BY <1>2, Zenon DEF Spread
  <1>5. \A d \in Coms : Full(T, e, d)
    <2>1. HeardOK(T, e, f)
      BY <1>3, Zenon DEF Inv, StagesOK
    <2> QED
      BY <1>3, <2>1 DEF HeardOK, Data, Results
  <1>6. ASSUME NEW n \in Nodes PROVE Drawn(T, e, n) /\ Begun(T, e, Place(T, n))
    BY <1>1, <1>5, FullAreDrawn, DrawnWasAsked, PlaceInTable, Zenon
  <1> QED
    BY <1>5, <1>6, Zenon

\* At the first height no reconfiguration is left to join.
LEMMA JoinedAtFirst ==
    ASSUME NEW T, NEW N, NEW e, Inv(T, N, e), NEW n \in Nodes, ~Joined(e, n)
    PROVE  e # 0
  BY DEF Inv, NodesOK, Joined

\* A node that has not joined is still where T has it.
LEMMA OldPlace ==
    ASSUME NEW T, NEW N, NEW e, Inv(T, N, e), NEW n \in Nodes, ~Joined(e, n)
    PROVE  /\ node[n].ComNodeTable = T /\ node[n].NodeInfo = Info(T, n)
           /\ MyCom(n) = Place(T, n) /\ node[n].comAllNodeNum = Len(T[Place(T, n)])
           /\ IsComLeader(n) <=> n = ComLeader(T, Place(T, n))
           /\ e \in Seeds
  <1>1. /\ IsTable(T) /\ e \in Seeds
        /\ node[n].ComNodeTable = T /\ node[n].NodeInfo = Info(T, n)
        /\ node[n].comAllNodeNum = Len(T[MyCom(n)])
    <2>1. IsTable(T) /\ NodesOK(T, N, e) /\ e \in Seeds
      BY Basics, JoinedAtFirst, Zenon
    <2> QED
      BY <2>1 DEF NodesOK
  <1> QED
    BY <1>1, LeaderByID DEF MyCom, IsComLeader

-----------------------------------------------------------------------------
(* Heights.                                                                 *)

\* So there is a next height, as long as there is a higher one.
LEMMA NextIsNext ==
    ASSUME Counting, NEW h \in Nat, NEW j \in Heights, j > h
    PROVE  /\ NextHeight(h) \in Heights /\ NextHeight(h) > h
           /\ \A k \in Heights : k > h => k >= NextHeight(h)
  <1> DEFINE S == {k \in Heights : k > h}
  <1>2. PICK x \in S : \A y \in S : x <= y
    BY ReconfigAssumption, Zenon DEF Counting, LeastExists
  <1> QED
    BY <1>2, Zenon DEF NextHeight

-----------------------------------------------------------------------------
(* Steps during one reconfiguration.                                        *)

\* No stage that is reached is undone.
Grows(T, e) ==
    /\ \A n \in Nodes :
          /\ Joined(e, n) => Joined(e, n)'
          /\ Drawn(T, e, n) => Drawn(T, e, n)'
          /\ com'[n].tbchain_height \in Nat /\ com'[n].tbchain_height >= com[n].tbchain_height
    /\ \A c \in Coms :
          /\ Begun(T, e, c) => Begun(T, e, c)'
          /\ Full(T, e, c) => Full(T, e, c)'
          /\ Spread(T, e, c) => Spread(T, e, c)'

SamePlace(n) ==
    /\ node'[n].epoch = node[n].epoch
    /\ node'[n].NodeInfo = node[n].NodeInfo
    /\ node'[n].ComNodeTable = node[n].ComNodeTable
    /\ node'[n].comAllNodeNum = node[n].comAllNodeNum

SameStages(n) ==
    /\ node'[n].reconfigResult = node[n].reconfigResult
    /\ node'[n].reconfigResults = node[n].reconfigResults
    /\ node'[n].com2ReconfigResults = node[n].com2ReconfigResults

\* What a node holds stays right, as the stages it rests on do.
LEMMA StageKept ==
    ASSUME NEW T, NEW N, NEW e, Inv(T, N, e), Grows(T, e), NEW n \in Nodes
    PROVE  /\ node'[n].reconfigResult = node[n].reconfigResult => ResultOK(T, e, n)'
           /\ \A r : ResultsOK(T, e, n, r) => ResultsOK(T, e, n, r)'
           /\ \A f : HeardOK(T, e, f) => HeardOK(T, e, f)'
           /\ Joined(e, n) /\ e # 0 => Drawn(T, e, n)' /\ Spread(T, e, Place(T, n))'
  <1>1. Place(T, n) \in Coms /\ e \in Nat
    BY Basics, PlaceInTable, Zenon
  <1>2. ASSUME node'[n].reconfigResult = node[n].reconfigResult PROVE ResultOK(T, e, n)'
    <2>1. ResultOK(T, e, n) /\ com[n].tbchain_height \in Nat
      BY Basics, Zenon DEF StagesOK, WorkersOK
    <2>2. com'[n].tbchain_height \in Nat /\ com'[n].tbchain_height >= com[n].tbchain_height
      BY Zenon DEF Grows
    <2>3. com[n].tbchain_height >= e => com'[n].tbchain_height >= e
      BY <1>1, <2>1, <2>2
    <2> QED
      BY <1>1, <1>2, <2>1, <2>3, Zenon DEF ResultOK, Grows
  <1>3. ASSUME NEW r, ResultsOK(T, e, n, r) PROVE ResultsOK(T, e, n, r)'
    BY <1>3, Zenon DEF ResultsOK, Collected, Grows
  <1>4. ASSUME NEW f, HeardOK(T, e, f) PROVE HeardOK(T, e, f)'
    BY <1>4, Zenon DEF HeardOK, Grows
  <1>5. ASSUME Joined(e, n), e # 0 PROVE Drawn(T, e, n)' /\ Spread(T, e, Place(T, n))'
    BY <1>1, <1>5, Basics, Zenon DEF StagesOK, Grows
  <1> QED
    BY <1>2, <1>3, <1>4, <1>5, Zenon

\* A message stays right unless its receiver does what it asks for.
LEMMA MsgKept ==
    ASSUME NEW T, NEW N, NEW e, Inv(T, N, e), Grows(T, e), NEW m \in msgs,
           m.type = "LeaderInitReconfig" =>
               /\ node'[m.to].epoch = node[m.to].epoch
               /\ node'[m.to].reconfigResult = node[m.to].reconfigResult,
           m.type = "SendReconfigResult2ComLeader" =>
               node'[m.to].reconfigResults = node[m.to].reconfigResults,
           m.type = "SendReconfigResults2AllComLeaders" =>
               node'[m.to].com2ReconfigResults = node[m.to].com2ReconfigResults,
           m.type = "SendReconfigResults2ComNodes" => node'[m.to].epoch = node[m.to].epoch
    PROVE  MsgOK(T, e, m)'
  <1>1. MsgOK(T, e, m) /\ \A n \in Nodes : Place(T, n) \in Coms
    BY Basics, PlaceInTable, Zenon DEF MsgsOK
  <1>2. ASSUME m.type = "LeaderInitReconfig" PROVE AskOK(T, e, m)'
    <2>1. PICK n \in Nodes :
             /\ m = [type |-> "LeaderInitReconfig", to |-> n, SeedHeight |-> e, ComID |-> Place(T, n)]
             /\ ~Joined(e, n) /\ ~Drawn(T, e, n) /\ Begun(T, e, Place(T, n))
      BY <1>1, <1>2, ZenonT(30) DEF MsgOK, AskOK
    <2>2. m.to = n
      BY <2>1
    <2> QED
      BY <1>1, <1>2, <2>1, <2>2, Zenon DEF AskOK, Grows, Joined, Drawn
  <1>3. ASSUME m.type = "SendReconfigResult2ComLeader" PROVE ResultMsgOK(T, e, m)'
    <2>1. PICK n \in Nodes :
             /\ m = [type |-> "SendReconfigResult2ComLeader", data |-> Draw(T, e, n),
                     to |-> ComLeader(T, Place(T, n))]
             /\ e # 0 /\ Drawn(T, e, n)
             /\ Lacks(T, e, n, node[ComLeader(T, Place(T, n))].reconfigResults)
      BY <1>1, <1>3, ZenonT(30) DEF MsgOK, ResultMsgOK
    <2>2. m.to = ComLeader(T, Place(T, n))
      BY <2>1
    <2> QED
      BY <1>3, <2>1, <2>2, Zenon DEF ResultMsgOK, Lacks, Grows
  <1>4. ASSUME m.type = "SendReconfigResults2AllComLeaders" PROVE ResultsMsgOK(T, e, m)'
    <2>1. PICK c \in Coms, d \in Coms :
             /\ m = [type |-> "SendReconfigResults2AllComLeaders", ComID |-> c,
                     Results |-> Results(T, e, c), ComNodeNum |-> Len(T[c]), to |-> ComLeader(T, d)]
             /\ e # 0 /\ Full(T, e, c)
             /\ NotHeard(e, c, node[ComLeader(T, d)].com2ReconfigResults)
      BY <1>1, <1>4, Zenon DEF MsgOK, ResultsMsgOK
    <2>2. m.to = ComLeader(T, d)
      BY <2>1
    <2> QED
      BY <1>4, <2>1, <2>2, Zenon DEF ResultsMsgOK, NotHeard, Grows
  <1>5. ASSUME m.type = "SendReconfigResults2ComNodes" PROVE AllMsgOK(T, e, m)'
    <2>1. PICK n \in Nodes :
             /\ m = [type |-> "SendReconfigResults2ComNodes", data |-> Data(T, e), to |-> n]
             /\ ~Joined(e, n) /\ Spread(T, e, Place(T, n))
      BY <1>1, <1>5, Zenon DEF MsgOK, AllMsgOK
    <2>2. m.to = n
      BY <2>1
    <2> QED
      BY <1>1, <1>5, <2>1, <2>2, Zenon DEF AllMsgOK, Grows, Joined
  <1> QED
    BY <1>1, <1>2, <1>3, <1>4, <1>5, Zenon DEF MsgOK

\* The messages of the stages go to nodes.
LEMMA Receivers ==
    ASSUME NEW T, NEW N, NEW e, Inv(T, N, e), NEW m \in msgs
    PROVE  /\ m.type = "LeaderInitReconfig" => m.to \in Nodes
           /\ m.type = "SendReconfigResult2ComLeader" => m.to \in Nodes
           /\ m.type = "SendReconfigResults2AllComLeaders" => m.to \in Nodes
           /\ m.type = "SendReconfigResults2ComNodes" => m.to \in Nodes
  <1>1. MsgOK(T, e, m) /\ IsTable(T)
    BY Basics, Zenon DEF MsgsOK
  <1>2. /\ \A c \in Coms : ComLeader(T, c) \in Nodes
        /\ \A n \in Nodes : ComLeader(T, Place(T, n)) \in Nodes
    BY <1>1, Members, PlaceInTable, Zenon
  <1>3. ASSUME AskOK(T, e, m) \/ AllMsgOK(T, e, m) PROVE m.to \in Nodes
    BY <1>3 DEF AskOK, AllMsgOK
  <1>4. ASSUME ResultMsgOK(T, e, m) PROVE m.to \in Nodes
    BY <1>2, <1>4 DEF ResultMsgOK
  <1>5. ASSUME ResultsMsgOK(T, e, m) PROVE m.to \in Nodes
    BY <1>2, <1>5 DEF ResultsMsgOK
  <1> QED
    BY <1>1, <1>3, <1>4, <1>5, Zenon DEF MsgOK

\* The tables stay right when no node joins.
LEMMA NodesKept ==
    ASSUME NEW T, NEW N, NEW e, Inv(T, N, e), \A n \in Nodes : SamePlace(n)
    PROVE  NodesOK(T, N, e)'
  <1>1. NodesOK(T, N, e)
    BY Basics, Zenon
  <1>2. ASSUME NEW n \in Nodes
        PROVE  /\ node'[n].epoch \in Nat /\ node'[n].epoch <= e
               /\ node'[n].ComNodeTable = IF Joined(e, n)' THEN N ELSE T
               /\ node'[n].NodeInfo = Info(node'[n].ComNodeTable, n)
               /\ node'[n].comAllNodeNum = Len(node'[n].ComNodeTable[MyCom(n)'])
    BY <1>1, ZenonT(30) DEF NodesOK, SamePlace, Joined, MyCom
  <1> QED
    BY <1>1, <1>2, Zenon DEF NodesOK

\* What a node's committee may do in between: a worker that has exited stays so.
Works(e, n) ==
    /\ com'[n].tbchain_height \in Nat /\ com'[n].tbchain_height >= com[n].tbchain_height
    /\ com'[n].to_reconfig \in BOOLEAN
    /\ com'[n].to_reconfig => ~Joined(e, n) /\ com'[n].reconfig_seed_height = e
    /\ \/ com'[n].worker = com[n].worker
       \/ /\ com[n].worker # "exited" \/ e = 0
          /\ com'[n].worker \in Making => IsComLeader(n)

\* A step that leaves the tables and the stages alone.
LEMMA InBetween ==
    ASSUME NEW T, NEW N, NEW e, Inv(T, N, e), Shape', HeightsOK(e)',
           \A n \in Nodes : SamePlace(n) /\ SameStages(n) /\ Works(e, n),
           \A m \in msgs' : m \in msgs \/ MsgOK(T, e, m)'
    PROVE  Inv(T, N, e)'
  <1>1. Grows(T, e)
    <2>1. ASSUME NEW n \in Nodes
          PROVE  /\ Joined(e, n) => Joined(e, n)'
                 /\ Drawn(T, e, n) => Drawn(T, e, n)'
                 /\ com'[n].tbchain_height \in Nat
                 /\ com'[n].tbchain_height >= com[n].tbchain_height
      BY Zenon DEF Joined, Drawn, SamePlace, SameStages, Works
    <2>2. ASSUME NEW c \in Coms
          PROVE  /\ Begun(T, e, c) => Begun(T, e, c)'
                 /\ Full(T, e, c) => Full(T, e, c)'
                 /\ Spread(T, e, c) => Spread(T, e, c)'
      BY <2>1, Basics, JoinedAtFirst, Members, Zenon DEF Begun, Full, Spread, SameStages,
         Works
    <2> QED
      BY <2>1, <2>2, Zenon DEF Grows
  <1>4. WorkersOK(e)'
    BY Basics, ZenonT(30) DEF WorkersOK, Works, SamePlace, Joined, IsComLeader
  <1>5. MsgsOK(T, e)'
    <2>1. ASSUME NEW m \in msgs PROVE MsgOK(T, e, m)'
      BY <1>1, MsgKept, Receivers, Zenon DEF SamePlace, SameStages
    <2> QED
      BY <2>1, Zenon DEF MsgsOK
  <1> QED
    BY <1>1, <1>4, <1>5, Basics, NodesKept, StageKept, ZenonT(30) DEF Inv, SamePlace, Joined,
       SameStages, StagesOK

\* The same when Layer1 does not show either.
Ordinary(e, n) ==
    /\ DOMAIN node'[n] = DOMAIN node[n] /\ DOMAIN com'[n] = DOMAIN com[n]
    /\ SamePlace(n) /\ SameStages(n) /\ Works(e, n) /\ node'[n].seen = node[n].seen

\* Steps outside of reconfigurations (boot, transactions, blocks) keep the invariant.
LEMMA OrdinaryStep ==
    ASSUME NEW T, NEW N, NEW e, Inv(T, N, e), height' = height,
           DOMAIN node' = DOMAIN node, DOMAIN com' = DOMAIN com,
           \A n \in Nodes : Ordinary(e, n),
           \A m \in msgs' : m \in msgs \/ MsgOK(T, e, m)'
    PROVE  Inv(T, N, e)'
  BY Basics, InBetween, ZenonT(30) DEF Shape, Ordinary, HeightsOK

\* A node whose fields are left alone, and its committee.
LEMMA Untouched ==
    ASSUME NEW T, NEW N, NEW e, Inv(T, N, e), NEW n \in Nodes
    PROVE  /\ node'[n] = node[n] => SamePlace(n) /\ SameStages(n) /\ node'[n].seen = node[n].seen
           /\ com'[n] = com[n] => Works(e, n)
           /\ node'[n] = node[n] /\ com'[n] = com[n] => Ordinary(e, n)
  BY Basics DEF SamePlace, SameStages, Works, WorkersOK, Ordinary

\* A message that is not about the reconfiguration.
LEMMA OtherMsg ==
    ASSUME NEW T, NEW e, NEW m,
           \/ m.type \in {"SendNewNodeTable2Client", "GetPoolTx", "PoolTx"}
           \/ m.type \in BootTypes /\ e = 0
    PROVE  MsgOK(T, e, m)'
  BY Zenon DEF MsgOK, BootTypes

\* A committee's worker that was making blocks goes on, or leaves off.
LEMMA WorkGoesOn ==
    ASSUME NEW T, NEW N, NEW e, Inv(T, N, e), NEW n \in Nodes,
           com'[n].tbchain_height = com[n].tbchain_height,
           com'[n].to_reconfig = com[n].to_reconfig,
           com'[n].reconfig_seed_height = com[n].reconfig_seed_height,
           com'[n].worker = com[n].worker \/ com[n].worker \in Making
    PROVE  Works(e, n)
  <1>1. /\ com[n].tbchain_height \in Nat /\ com[n].to_reconfig \in BOOLEAN
        /\ com[n].to_reconfig => ~Joined(e, n) /\ com[n].reconfig_seed_height = e
        /\ com[n].worker \in Making => IsComLeader(n)
    BY Basics, Zenon DEF WorkersOK
  <1>2. \A k \in Nat : k >= k
    OBVIOUS
  <1> QED
    BY <1>1, <1>2, Zenon DEF Works, Making

\* The booter's and the nodes' first messages.
LEMMA BootSteps ==
    ASSUME NEW T, NEW N, NEW e, Inv(T, N, e), NEW m \in msgs,
           \/ \E n \in Nodes : m.type = "NodeSendInfo" /\ HandleNodeSendInfo(n, m)
           \/ m.type = "ShardSendGenesis" /\ HandleShardSendGenesis(m)
    PROVE  Inv(T, N, e)'
  <1>2. \A x \in msgs' : x \in msgs \/ x.type \in BootTypes
    <2>1. ASSUME NEW n \in Nodes, HandleNodeSendInfo(n, m)
          PROVE  \A x \in msgs' : x \in msgs \/ x.type \in BootTypes
      <3>1. PICK c, addrs : \A x \in msgs' : x \in msgs \/ x \in shardSendGenesis(c, addrs)
        BY <2>1, Zenon DEF HandleNodeSendInfo, Receives
      <3> QED
        BY <3>1 DEF shardSendGenesis, BootTypes
    <2>2. ASSUME HandleShardSendGenesis(m)
          PROVE  \A x \in msgs' : x \in msgs \/ x.type \in BootTypes
      <3>1. \A x \in msgs' : x \in msgs \/ x \in booterSendContract
        BY <2>2, Zenon DEF HandleShardSendGenesis
      <3>2. \A x \in booterSendContract : x.type = "BooterSendContract"
        BY DEF booterSendContract
      <3> QED
        BY <3>1, <3>2, Zenon DEF BootTypes
    <2> QED
      BY <2>1, <2>2, Zenon
  <1>3. \A x \in msgs' : x \in msgs \/ MsgOK(T, e, x)'
    BY <1>2, Basics DEF MsgsOK, MsgOK, BootTypes
  <1>4. CASE HandleShardSendGenesis(m)
    BY <1>3, <1>4, OrdinaryStep, Untouched, Zenon DEF HandleShardSendGenesis
  <1>5. ASSUME NEW n \in Nodes, HandleNodeSendInfo(n, m) PROVE Inv(T, N, e)'
    BY <1>3, <1>5, Basics, OrdinaryStep, Untouched, Zenon DEF HandleNodeSendInfo, Ordinary,
       SamePlace, SameStages, Shape, ComFields
  <1> QED
    BY <1>4, <1>5, Zenon

\* The node gets to know the contract.
LEMMA ContractStep ==
    ASSUME NEW T, NEW N, NEW e, Inv(T, N, e), NEW m \in msgs, NEW n \in Nodes,
           m.type = "BooterSendContract", HandleBooterSendContract(n, m)
    PROVE  Inv(T, N, e)'
  <1>1. e = 0
    BY Basics DEF MsgsOK, MsgOK, BootTypes
  <1>2. /\ node' = [node EXCEPT ![n].contract = TRUE, ![n].seen = height] /\ height' = height
        /\ \/ com' = com
           \/ com' = [com EXCEPT ![n].worker = "running"] /\ IsComLeader(n)
        /\ \A x \in msgs' : x \in msgs
    BY Zenon DEF HandleBooterSendContract, Receives
  <1>3. ASSUME NEW x \in Nodes
        PROVE  /\ SamePlace(x) /\ SameStages(x) /\ DOMAIN node'[x] = DOMAIN node[x]
               /\ node'[x].seen = node[x].seen \/ node'[x].seen = height
    BY <1>2, Basics, Zenon DEF SamePlace, SameStages, Shape
  <1>4. ASSUME NEW x \in Nodes
        PROVE  /\ DOMAIN com'[x] = DOMAIN com[x]
               /\ com'[x].tbchain_height = com[x].tbchain_height
               /\ com'[x].to_reconfig = com[x].to_reconfig
               /\ com'[x].reconfig_seed_height = com[x].reconfig_seed_height
               /\ com'[x].worker = com[x].worker \/ IsComLeader(x)
    <2>1. CASE com' = com
      BY <2>1, Zenon
    <2>2. CASE com' = [com EXCEPT ![n].worker = "running"] /\ IsComLeader(n)
      BY <2>2, Basics, Zenon DEF Shape, ComFields
    <2> QED
      BY <1>2, <2>1, <2>2, Zenon
  <1>5. ASSUME NEW x \in Nodes PROVE Works(e, x)
    <2>1. WorkersOK(e)
      BY Basics, Zenon
    <2> QED
      BY <1>1, <1>4, <2>1 DEF Works, WorkersOK
  <1>6. Shape'
    BY <1>2, <1>3, <1>4, Basics, ZenonT(30) DEF Shape
  <1>7. HeightsOK(e)'
    <2>1. HeightsOK(e) /\ height \in Nat
      BY Basics, Zenon
    <2>2. \A k \in Seeds : k \in Nat
      BY ReconfigAssumption, Zenon DEF Seeds
    <2>3. \A k \in Seeds : ~(height < k /\ k <= height)
      BY <2>1, <2>2
    <2> QED
      BY <1>2, <1>3, <2>1, <2>3, Zenon DEF HeightsOK
  <1> QED
    BY <1>2, <1>3, <1>5, <1>6, <1>7, InBetween, ZenonT(30)

\* Transactions and pools on their way.
LEMMA PoolSteps ==
    ASSUME NEW T, NEW N, NEW e, Inv(T, N, e),
           \/ \E tx \in unsent : HandleClientSendtx(tx)
           \/ \E m \in msgs : HandleSendNewNodeTable2Client(m)
           \/ \E m \in msgs, n \in Nodes : HandleGetPoolTx(n, m) \/ ReceivePoolTx(n, m)
           \/ \E t \in txs : Layer1Mines(t)
    PROVE  Inv(T, N, e)'
  <1>1. CASE \E tx \in unsent : HandleClientSendtx(tx)
    <2>1. PICK n, tx : /\ com' = [com EXCEPT ![n].txPool = Append(@, tx)]
                       /\ node' = node /\ msgs' = msgs /\ height' = height
      BY <1>1, Zenon DEF HandleClientSendtx
    <2>2. ASSUME NEW x \in Nodes PROVE Ordinary(e, x)
      <3>1. /\ DOMAIN com'[x] = DOMAIN com[x] /\ com'[x].worker = com[x].worker
            /\ com'[x].tbchain_height = com[x].tbchain_height
            /\ com'[x].to_reconfig = com[x].to_reconfig
            /\ com'[x].reconfig_seed_height = com[x].reconfig_seed_height
        BY <2>1, Basics, Zenon DEF Shape, ComFields
      <3> QED
        BY <2>1, <3>1, Untouched, WorkGoesOn, Zenon DEF Ordinary
    <2>3. DOMAIN com' = DOMAIN com
      BY <2>1, Zenon
    <2> QED
      BY <2>1, <2>2, <2>3, OrdinaryStep, Zenon
  <1>2. CASE \E m \in msgs : HandleSendNewNodeTable2Client(m)
    BY <1>2, OrdinaryStep, Untouched, Zenon DEF HandleSendNewNodeTable2Client
  <1>3. ASSUME NEW m \in msgs, NEW n \in Nodes, HandleGetPoolTx(n, m) PROVE Inv(T, N, e)'
    <2>1. /\ node' = [node EXCEPT ![n].up = FALSE] \/ node' = node
          /\ com' = com /\ height' = height
      BY <1>3, Zenon DEF HandleGetPoolTx, Ends
    <2>3. ASSUME NEW x \in Nodes PROVE Ordinary(e, x)
      <3>1. CASE node' = node
        BY <2>1, <3>1, Untouched, Zenon
      <3>2. CASE node' = [node EXCEPT ![n].up = FALSE]
        BY <2>1, <3>2, Basics, Untouched, ZenonT(30) DEF Ordinary, SamePlace, SameStages, Shape
      <3> QED
        BY <2>1, <3>1, <3>2, Zenon
    <2> QED
      BY <1>3, <2>1, <2>3, OrdinaryStep, OtherMsg, Zenon DEF HandleGetPoolTx, Receives
  <1>4. ASSUME NEW m \in msgs, NEW n \in Nodes, ReceivePoolTx(n, m) PROVE Inv(T, N, e)'
    <2>1. /\ node' = [node EXCEPT ![n].waits = FALSE] /\ height' = height
          /\ com' = [com EXCEPT ![n] = StartsWorker(SetPoolTx(com[n], m.pool))]
          /\ \A x \in msgs' : x \in msgs
      BY <1>4, Zenon DEF ReceivePoolTx, Receives
    <2>2. ASSUME NEW x \in Nodes PROVE Works(e, x) /\ DOMAIN com'[x] = DOMAIN com[x]
      <3>1. CASE x # n
        BY <2>1, <3>1, Basics, Untouched, Zenon DEF Shape
      <3>2. CASE x = n
        <4>1. PICK d : /\ d = com'[n] /\ DOMAIN d = DOMAIN com[n]
                       /\ d.tbchain_height = com[n].tbchain_height
                       /\ d.to_reconfig = com[n].to_reconfig
                       /\ d.reconfig_seed_height = com[n].reconfig_seed_height
                       /\ \/ d.worker = com[n].worker
                          \/ com[n].worker = "created" /\ d.worker = "running"
          <5>1. PICK b : b = SetPoolTx(com[n], m.pool)
            OBVIOUS
          <5>3. com'[n] = [b EXCEPT !.worker = IF @ = "created" THEN "running" ELSE @]
            BY <2>1, <5>1, Basics, Zenon DEF Shape, StartsWorker
          <5> QED
            BY <5>1, <5>3, Basics, Zenon DEF Shape, ComFields, SetPoolTx
        <4> QED
          BY <3>2, <4>1, WorkGoesOn, Zenon DEF Making
      <3> QED
        BY <3>1, <3>2, Zenon
    <2>3. ASSUME NEW x \in Nodes PROVE Ordinary(e, x)
      BY <2>1, <2>2, Basics, Zenon DEF Ordinary, SamePlace, SameStages, Shape, ComFields
    <2> QED
      BY <2>1, <2>3, OrdinaryStep, Zenon
  <1>5. CASE \E t \in txs : Layer1Mines(t)
    BY <1>5, OrdinaryStep, Untouched, Zenon DEF Layer1Mines
  <1> QED
    BY <1>1, <1>2, <1>3, <1>4, <1>5, Zenon

\* A block.
LEMMA BlockStep ==
    ASSUME NEW T, NEW N, NEW e, Inv(T, N, e), NEW n \in Nodes, commit(n)
    PROVE  Inv(T, N, e)'
  <1>1. PICK w \in {"generated", "stuck"} :
           com' = [com EXCEPT ![n].txPool = <<>>, ![n].worker = w]
    BY Zenon DEF commit
  <1>2. com[n].worker = "running" /\ node' = node /\ msgs' = msgs /\ height' = height
    BY Zenon DEF commit
  <1>3. ASSUME NEW x \in Nodes
        PROVE  /\ DOMAIN com'[x] = DOMAIN com[x]
               /\ com'[x].tbchain_height = com[x].tbchain_height
               /\ com'[x].to_reconfig = com[x].to_reconfig
               /\ com'[x].reconfig_seed_height = com[x].reconfig_seed_height
               /\ com'[x].worker = com[x].worker \/ com[x].worker \in Making
    BY <1>1, <1>2, Basics, Zenon DEF Shape, ComFields, Making
  <1>4. ASSUME NEW x \in Nodes PROVE Ordinary(e, x)
    BY <1>2, <1>3, Untouched, WorkGoesOn, Zenon DEF Ordinary
  <1>5. DOMAIN com' = DOMAIN com
    BY <1>1, Zenon
  <1> QED
    BY <1>2, <1>4, <1>5, OrdinaryStep, Zenon

\* Layer1 goes on, or a node hears of it, and no reconfiguration is due that was not.
LEMMA AddTBsStep ==
    ASSUME Counting, NEW T, NEW N, NEW e, Inv(T, N, e), NEW n \in Nodes, AddTBs(n)
    PROVE  Inv(T, N, e)'
  <1>1. PICK h : h = NextHeight(node[n].seen)
    BY Zenon
  <1>2. /\ node[n].seen < height /\ msgs' = msgs /\ height' = height
        /\ node' = [node EXCEPT ![n].seen = h]
        /\ \/ com' = com
           \/ /\ ~(h <= com[n].tbchain_height)
              /\ com' = [com EXCEPT ![n].tbchain_height = h,
                            ![n].to_reconfig = @ \/ h % Height2Reconfig = 0,
                            ![n].reconfig_seed_height =
                                IF h % Height2Reconfig = 0 THEN h ELSE @]
    BY <1>1, Zenon DEF AddTBs
  <1>3. HeightsOK(e) /\ node[n].seen \in Nat /\ height \in Heights /\ height \in Nat
    <2>1. HeightsOK(e) /\ height \in Nat
      BY Basics, Zenon
    <2>2. node[n].seen \in Heights \cup {0} /\ height \in Heights \cup {0}
      BY <2>1, Zenon DEF HeightsOK
    <2>3. Heights \subseteq Nat \ {0}
      BY ReconfigAssumption, Zenon
    <2> QED
      BY <1>2, <2>1, <2>2, <2>3
  <1>4. h \in Heights /\ h \in Nat /\ h > node[n].seen /\ h <= height
    BY <1>1, <1>2, <1>3, NextIsNext, ReconfigAssumption, Zenon
  <1>5. h \in Seeds => h = e
    BY <1>3, <1>4, Zenon DEF HeightsOK
  <1>6. ASSUME NEW x \in Nodes
        PROVE  /\ SamePlace(x) /\ SameStages(x) /\ DOMAIN node'[x] = DOMAIN node[x]
               /\ node'[x].seen = IF x = n THEN h ELSE node[x].seen
    BY <1>2, Basics, ZenonT(30) DEF SamePlace, SameStages, Shape
  <1>7. HeightsOK(e)'
    <2>1. \A k \in Seeds : k \in Nat
      BY ReconfigAssumption, Zenon DEF Seeds
    <2>2. \A k \in Seeds : h < k /\ k <= height => k = e
      BY <1>3, <1>4, <2>1 DEF HeightsOK
    <2>3. ASSUME NEW x \in Nodes
          PROVE  /\ node'[x].seen \in Heights \cup {0}
                 /\ \A k \in Seeds : node'[x].seen < k /\ k <= height => k = e
      <3>1. CASE x = n
        BY <1>4, <1>6, <2>2, <3>1, Zenon
      <3>2. CASE x # n
        BY <1>3, <1>6, <3>2, Zenon DEF HeightsOK
      <3> QED
        BY <3>1, <3>2, Zenon
    <2> QED
      BY <1>2, <1>3, <2>3, Zenon DEF HeightsOK
  <1>8. ASSUME NEW x \in Nodes PROVE Works(e, x) /\ DOMAIN com'[x] = DOMAIN com[x]
    <2>1. CASE com'[x] = com[x]
      BY <2>1, Untouched, Zenon
    <2>2. CASE com'[x] # com[x]
      <3>0. /\ x = n /\ ~(h <= com[n].tbchain_height)
            /\ com' = [com EXCEPT ![n].tbchain_height = h,
                          ![n].to_reconfig = @ \/ h % Height2Reconfig = 0,
                          ![n].reconfig_seed_height =
                              IF h % Height2Reconfig = 0 THEN h ELSE @]
        BY <1>2, <2>2, Basics, Zenon DEF Shape
      <3>1. /\ x = n /\ ~(h <= com[n].tbchain_height)
            /\ DOMAIN com'[n] = DOMAIN com[n] /\ com'[n].worker = com[n].worker
            /\ com'[n].tbchain_height = h
            /\ com'[n].to_reconfig = (com[n].to_reconfig \/ h % Height2Reconfig = 0)
            /\ com'[n].reconfig_seed_height =
                   IF h % Height2Reconfig = 0 THEN h ELSE com[n].reconfig_seed_height
        BY <3>0, Basics, Zenon DEF Shape, ComFields
      <3>2. /\ com[n].tbchain_height \in Nat /\ com[n].to_reconfig \in BOOLEAN
            /\ com[n].to_reconfig => ~Joined(e, n) /\ com[n].reconfig_seed_height = e
        BY Basics, Zenon DEF WorkersOK
      <3>3. h >= com[n].tbchain_height
        BY <1>4, <3>1, <3>2
      \* A node that has joined has drawn, and its committee knows of the height.
      <3>4. h % Height2Reconfig = 0 => h = e /\ ~Joined(e, n)
        <4>1. SUFFICES ASSUME h % Height2Reconfig = 0 PROVE h = e /\ ~Joined(e, n)
          OBVIOUS
        <4>2. h = e /\ h # 0
          BY <1>4, <1>5, <4>1, ReconfigAssumption DEF Seeds
        <4>3. Drawn(T, e, n) => com[n].tbchain_height >= e
          BY DrawnWasAsked, ZenonT(30)
        <4>4. ~Drawn(T, e, n)
          BY <1>4, <3>1, <3>2, <4>2, <4>3
        <4> QED
          BY <4>2, <4>4, Basics, Zenon DEF StagesOK
      <3>5. com'[n].to_reconfig \in BOOLEAN
        BY <3>1, Zenon
      <3>6. com'[n].to_reconfig => ~Joined(e, n) /\ com'[n].reconfig_seed_height = e
        BY <3>1, <3>2, <3>4, Zenon
      <3> QED
        BY <1>4, <3>1, <3>3, <3>5, <3>6, Zenon DEF Works
    <2> QED
      BY <2>1, <2>2, Zenon
  <1>9. Shape'
    <2>1. DOMAIN node' = DOMAIN node /\ DOMAIN com' = DOMAIN com
      BY <1>2, Zenon
    <2> QED
      BY <1>6, <1>8, <2>1, Basics, Zenon DEF Shape
  <1> QED
    BY <1>2, <1>6, <1>7, <1>8, <1>9, InBetween, ZenonT(30)

\* After its block the worker goes on, or exits and has its nodes draw.
LEMMA GeneratedStep ==
    ASSUME NEW T, NEW N, NEW e, Inv(T, N, e), NEW n \in Nodes, NewBlockGenerated(n)
    PROVE  Inv(T, N, e)'
  <1>1. /\ com[n].worker = "generated" /\ node' = node /\ height' = height
        /\ IsComLeader(n) /\ com[n].to_reconfig \in BOOLEAN
    BY Basics, Zenon DEF NewBlockGenerated, WorkersOK, Making
  <1>2. CASE ~com[n].to_reconfig
    <2>1. com' = [com EXCEPT ![n].worker = "running"] /\ msgs' = msgs
      BY <1>2, Zenon DEF NewBlockGenerated
    <2>2. ASSUME NEW x \in Nodes
          PROVE  /\ DOMAIN com'[x] = DOMAIN com[x]
                 /\ com'[x].tbchain_height = com[x].tbchain_height
                 /\ com'[x].to_reconfig = com[x].to_reconfig
                 /\ com'[x].reconfig_seed_height = com[x].reconfig_seed_height
                 /\ com'[x].worker = com[x].worker \/ com[x].worker \in Making
      BY <1>1, <2>1, Basics, Zenon DEF Shape, ComFields, Making
    <2>3. ASSUME NEW x \in Nodes PROVE Ordinary(e, x)
      BY <1>1, <2>2, Untouched, WorkGoesOn, Zenon DEF Ordinary
    <2>4. DOMAIN com' = DOMAIN com
      BY <2>1, Zenon
    <2> QED
      BY <1>1, <2>1, <2>3, <2>4, OrdinaryStep, ZenonT(30)
  <1>3. CASE com[n].to_reconfig
    <2>1. /\ com[n].reconfig_seed_height = e /\ ~Joined(e, n) /\ e # 0
      BY <1>3, Basics, JoinedAtFirst, Zenon DEF WorkersOK
    <2>2. /\ com' = [com EXCEPT ![n] = [SetOldTxPool(com[n]) EXCEPT !.worker = "exited",
                                                                   !.to_reconfig = FALSE]]
          /\ msgs' = msgs \cup leaderInitReconfig(n, e)
      BY <1>3, <2>1, Zenon DEF NewBlockGenerated
    <2>3. /\ DOMAIN com'[n] = DOMAIN com[n] /\ com'[n].worker = "exited"
          /\ com'[n].to_reconfig = FALSE /\ com'[n].tbchain_height = com[n].tbchain_height
      BY <2>2, Basics, Zenon DEF SetOldTxPool, Shape, ComFields
    <2>4. ASSUME NEW x \in Nodes PROVE Ordinary(e, x)
      <3>1. Works(e, x) /\ DOMAIN com'[x] = DOMAIN com[x]
        <4>1. CASE x = n
          <5>1. com[n].tbchain_height \in Nat
            BY Basics, Zenon DEF WorkersOK
          <5>2. com'[n].tbchain_height \in Nat /\ com'[n].tbchain_height >= com[n].tbchain_height
            BY <2>3, <5>1
          <5> QED
            BY <1>1, <2>3, <4>1, <5>2, ZenonT(30) DEF Works, Making
        <4>2. CASE x # n
          BY <2>2, <4>2, Basics, Untouched, ZenonT(30) DEF Shape
        <4> QED
          BY <4>1, <4>2, Zenon
      <3> QED
        BY <1>1, <3>1, Untouched, Zenon DEF Ordinary
    <2>5. PICK c \in Coms : /\ c = Place(T, n) /\ n = ComLeader(T, c) /\ MyCom(n) = c
                            /\ node[n].ComNodeTable = T /\ node[n].comAllNodeNum = Len(T[c])
      <3>1. /\ node[n].ComNodeTable = T /\ MyCom(n) = Place(T, n)
            /\ n = ComLeader(T, Place(T, n)) /\ node[n].comAllNodeNum = Len(T[Place(T, n)])
        BY <1>1, <2>1, OldPlace
      <3> QED
        BY <3>1, Basics, PlaceInTable, ZenonT(30)
    <2>8. ASSUME NEW m \in leaderInitReconfig(n, e) PROVE MsgOK(T, e, m)'
      <3>1. PICK i \in DOMAIN T[c] :
               m = [type |-> "LeaderInitReconfig", to |-> T[c][i], SeedHeight |-> e, ComID |-> c]
        <4>1. DOMAIN T[c] = 1 .. Len(T[c])
          BY Basics, Members, Zenon
        <4> QED
          BY <2>5, <4>1, Zenon DEF leaderInitReconfig
      <3>2. T[c][i] \in Nodes /\ Place(T, T[c][i]) = c
        BY Basics, Members, Zenon
      <3>3. ~Begun(T, e, c)
        BY <1>1, <2>1, <2>5, Zenon DEF Begun
      <3>4. ~Drawn(T, e, T[c][i])
        BY <3>2, <3>3, DrawnWasAsked, Zenon
      <3>5. ~Joined(e, T[c][i])
        BY <2>1, <3>2, <3>4, Basics, Zenon DEF StagesOK
      <3>6. ~Drawn(T, e, T[c][i])' /\ ~Joined(e, T[c][i])'
        BY <1>1, <3>4, <3>5, ZenonT(30) DEF Drawn, Joined
      <3> QED
        BY <2>3, <2>5, <3>1, <3>2, <3>6, ZenonT(30) DEF MsgOK, AskOK, BootTypes, Begun
    <2> QED
      BY <1>1, <2>2, <2>4, <2>8, OrdinaryStep, Zenon
  <1> QED
    BY <1>2, <1>3, Zenon

-----------------------------------------------------------------------------
(* The stages of a reconfiguration.                                         *)

\* The step of a stage leaves the tables alone, and the committees go on.
Stays(e, n) ==
    /\ DOMAIN node'[n] = DOMAIN node[n] /\ DOMAIN com'[n] = DOMAIN com[n]
    /\ SamePlace(n) /\ Works(e, n) /\ node'[n].seen = node[n].seen

\* Nobody falls back behind a stage: who has joined or drawn has, and so have the committees
\* that have begun.
LEMMA StageGrows ==
    ASSUME NEW T, NEW N, NEW e, Inv(T, N, e), \A n \in Nodes : Stays(e, n),
           \A n \in Nodes : Drawn(T, e, n) => Drawn(T, e, n)',
           \A c \in Coms : Full(T, e, c) => Full(T, e, c)',
           \A c \in Coms : Spread(T, e, c) => Spread(T, e, c)'
    PROVE  Grows(T, e)
  <1>1. ASSUME NEW n \in Nodes
        PROVE  /\ Joined(e, n) => Joined(e, n)'
               /\ com'[n].tbchain_height \in Nat
               /\ com'[n].tbchain_height >= com[n].tbchain_height
               /\ com[n].worker = "exited" => com'[n].worker = "exited" \/ e = 0
    BY Zenon DEF Stays, SamePlace, Joined, Works
  <1>2. ASSUME NEW c \in Coms, Begun(T, e, c) PROVE Begun(T, e, c)'
    <2>1. PICK l \in Nodes : l = ComLeader(T, c)
      BY Basics, Members, Zenon
    <2> QED
      BY <1>1, <1>2, <2>1, JoinedAtFirst, Zenon DEF Begun
  <1> QED
    BY <1>1, <1>2, Zenon DEF Grows

\* A step keeps the invariant if every node either keeps its results or has new ones that
\* its stage allows, and so for the messages.
LEMMA StageStep ==
    ASSUME NEW T, NEW N, NEW e, Inv(T, N, e), \A n \in Nodes : Stays(e, n), Grows(T, e),
           DOMAIN node' = DOMAIN node, DOMAIN com' = DOMAIN com, height' = height,
           \A n \in Nodes :
               /\ node'[n].reconfigResult = node[n].reconfigResult \/ ResultOK(T, e, n)'
               /\ \/ node'[n].reconfigResults = node[n].reconfigResults
                  \/ ResultsOK(T, e, n, node[n].reconfigResults)'
               /\ \/ node'[n].com2ReconfigResults = node[n].com2ReconfigResults
                  \/ HeardOK(T, e, node[n].com2ReconfigResults)',
           \A m \in msgs' : MsgOK(T, e, m)'
    PROVE  Inv(T, N, e)'
  <1>1. \A n \in Nodes : SamePlace(n)
    BY Zenon DEF Stays
  <1>2. Shape' /\ HeightsOK(e)'
    BY Basics, Zenon DEF Shape, HeightsOK, Stays
  <1>3. WorkersOK(e)'
    <2>1. \A n \in Nodes : /\ (Joined(e, n)' <=> Joined(e, n)) /\ (IsComLeader(n)' <=> IsComLeader(n))
                           /\ Works(e, n)
      BY Zenon DEF Stays, SamePlace, Joined, IsComLeader
    <2> QED
      BY <2>1, Basics, Zenon DEF WorkersOK, Works
  <1>4. StagesOK(T, e)'
    BY <1>1, Basics, StageKept, Zenon DEF SamePlace, Joined, StagesOK
  <1>5. NodesOK(T, N, e)'
    BY <1>1, NodesKept, Zenon
  <1> QED
    BY <1>2, <1>3, <1>4, <1>5, ZenonT(30) DEF Inv, MsgsOK

\* A node draws.
LEMMA AskStep ==
    ASSUME NEW T, NEW N, NEW e, Inv(T, N, e), NEW n \in Nodes, NEW m \in msgs, m.to = n,
           m.type = "LeaderInitReconfig", HandleLeaderInitReconfig(n, m)
    PROVE  Inv(T, N, e)'
  <1>1. /\ m = [type |-> "LeaderInitReconfig", to |-> n, SeedHeight |-> e, ComID |-> Place(T, n)]
        /\ ~Joined(e, n) /\ ~Drawn(T, e, n) /\ Begun(T, e, Place(T, n))
    <2>1. PICK x \in Nodes :
             /\ m = [type |-> "LeaderInitReconfig", to |-> x, SeedHeight |-> e, ComID |-> Place(T, x)]
             /\ ~Joined(e, x) /\ ~Drawn(T, e, x) /\ Begun(T, e, Place(T, x))
      BY Basics, Zenon DEF MsgsOK, MsgOK, AskOK
    <2>2. x = n
      BY <2>1
    <2> QED
      BY <2>1, <2>2, Zenon
  <1>2. PICK c \in Coms, l \in Nodes : c = Place(T, n) /\ l = ComLeader(T, c)
    <2>1. Place(T, n) \in Coms
      BY Basics, PlaceInTable, Zenon
    <2>2. ComLeader(T, Place(T, n)) \in Nodes
      BY <2>1, Basics, Members, Zenon
    <2> QED
      BY <2>1, <2>2, Zenon
  <1>3. PICK new : new = [type |-> "SendReconfigResult2ComLeader", data |-> Draw(T, e, n), to |-> l]
    BY Zenon
  <1>4. /\ node' = [node EXCEPT ![n].reconfigResult = Draw(T, e, n)]
        /\ com' = [com EXCEPT ![n].tbchain_height = IF e > @ THEN e ELSE @]
        /\ msgs' = (msgs \ {m}) \cup {new} /\ height' = height
    <2>1. node[n].ComNodeTable = T /\ node[n].NodeInfo = Info(T, n)
      BY <1>1, OldPlace, SMTT(30)
    <2> QED
      BY <1>1, <1>2, <1>3, <2>1, ZenonT(30) DEF HandleLeaderInitReconfig, Receives,
         sendReconfigResult2Leader, Draw
  <1>5. ASSUME NEW x \in Nodes
        PROVE  /\ Stays(e, x)
               /\ node'[x].reconfigResults = node[x].reconfigResults
               /\ node'[x].com2ReconfigResults = node[x].com2ReconfigResults
               /\ x # n => node'[x].reconfigResult = node[x].reconfigResult
    <2>1. /\ DOMAIN node'[x] = DOMAIN node[x] /\ SamePlace(x) /\ node'[x].seen = node[x].seen
          /\ node'[x].reconfigResults = node[x].reconfigResults
          /\ node'[x].com2ReconfigResults = node[x].com2ReconfigResults
          /\ x # n => node'[x].reconfigResult = node[x].reconfigResult
      BY <1>4, Basics, Zenon DEF Shape, SamePlace
    <2>2. /\ DOMAIN com'[x] = DOMAIN com[x] /\ com'[x].worker = com[x].worker
          /\ com'[x].to_reconfig = com[x].to_reconfig
          /\ com'[x].reconfig_seed_height = com[x].reconfig_seed_height
          /\ \/ com'[x].tbchain_height = com[x].tbchain_height
             \/ com'[x].tbchain_height = e /\ e > com[x].tbchain_height
      BY <1>4, Basics, Zenon DEF Shape, ComFields
    <2>3. /\ com[x].tbchain_height \in Nat /\ com[x].to_reconfig \in BOOLEAN /\ e \in Nat
          /\ com[x].to_reconfig => ~Joined(e, x) /\ com[x].reconfig_seed_height = e
      BY Basics, ZenonT(30) DEF WorkersOK
    <2>4. com'[x].tbchain_height \in Nat /\ com'[x].tbchain_height >= com[x].tbchain_height
      BY <2>2, <2>3
    <2> QED
      BY <2>1, <2>2, <2>3, <2>4, ZenonT(30) DEF Stays, Works
  <1>6. Drawn(T, e, n)' /\ com'[n].tbchain_height >= e
    <2>1. /\ node'[n].reconfigResult = Draw(T, e, n)
          /\ com'[n].tbchain_height = IF e > com[n].tbchain_height THEN e
                                      ELSE com[n].tbchain_height
      BY <1>4, Basics, ZenonT(30) DEF Shape, ComFields
    <2>2. com[n].tbchain_height \in Nat /\ e \in Nat
      BY Basics, Zenon DEF WorkersOK
    <2>3. com'[n].tbchain_height >= e
      BY <2>1, <2>2
    <2> QED
      BY <2>1, <2>3, Zenon DEF Drawn
  <1>7. Grows(T, e)
    <2>1. \A x \in Nodes : Drawn(T, e, x) => Drawn(T, e, x)'
      BY <1>5, <1>6, Zenon DEF Drawn
    <2>2. \A d \in Coms : ComLeader(T, d) \in Nodes
      BY Basics, Members, Zenon
    <2>3. \A d \in Coms : /\ Full(T, e, d) => Full(T, e, d)'
                          /\ Spread(T, e, d) => Spread(T, e, d)'
      BY <1>5, <2>2, ZenonT(30) DEF Full, Spread
    <2> QED
      BY <1>5, <2>1, <2>3, StageGrows, ZenonT(30)
  <1>8. ResultOK(T, e, n)'
    BY <1>1, <1>2, <1>6, <1>7, ZenonT(30) DEF ResultOK, Grows
  <1>9. MsgOK(T, e, new)'
    <2>1. PICK r : r = node[l].reconfigResults /\ r = node'[l].reconfigResults
      BY <1>5, Zenon
    <2>3. Collected(T, e, l, r) => Draw(T, e, n) \notin r.all
      BY <1>1, Basics, DrawFacts, SMTT(30) DEF Collected
    <2>5. e # 0
      BY <1>1, JoinedAtFirst, ZenonT(30)
    <2> QED
      BY <1>2, <1>3, <1>6, <2>1, <2>3, <2>5, Basics, ZenonT(30) DEF MsgOK, ResultMsgOK, BootTypes,
         ResultsOK, Lacks, StagesOK
  <1>10. ASSUME NEW x \in msgs, x # m PROVE MsgOK(T, e, x)'
    <2>1. x.type = "LeaderInitReconfig" => x.to # n
      BY <1>1, <1>10, Basics, SMTT(30) DEF MsgsOK, MsgOK, AskOK
    <2> QED
      BY <1>5, <1>7, <2>1, MsgKept, Receivers, ZenonT(30) DEF Stays, SamePlace
  <1> QED
    BY <1>4, <1>5, <1>7, <1>8, <1>9, <1>10, StageStep, ZenonT(30)
=============================================================================
