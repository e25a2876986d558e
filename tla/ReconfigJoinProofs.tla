------------------------- MODULE ReconfigJoinProofs -------------------------
(***************************************************************************)
(* Proofs about Reconfig, part 2: the steps from the results of a          *)
(* committee to the nodes that join their new ones.  Every step keeps the  *)
(* invariant, and by it each committee has one leader at work.             *)
(***************************************************************************)
EXTENDS ReconfigStageProofs

\* A leader n collects what x of its committee c has drawn.
Collects(T, e, n, m, x, c) ==
    /\ m = [type |-> "SendReconfigResult2ComLeader", data |-> Draw(T, e, x), to |-> n]
    /\ c = Place(T, x) /\ n = ComLeader(T, c) /\ Place(T, n) = c /\ e \in Seeds /\ e # 0
    /\ Drawn(T, e, x) /\ Lacks(T, e, x, node[n].reconfigResults)
    /\ ~Full(T, e, c) /\ ~Joined(e, n) /\ IsComLeader(n)

\* A result that a leader handles is of its own committee, of this reconfiguration, and new to it
\* (so that AddReconfigResult meets none that it must refuse).
LEMMA CollectFacts ==
    ASSUME NEW T, NEW N, NEW e, Inv(T, N, e), NEW n \in Nodes, NEW m \in msgs, m.to = n,
           m.type = "SendReconfigResult2ComLeader"
    PROVE  \E x \in Nodes, c \in Coms : Collects(T, e, n, m, x, c)
  <1>1. PICK x \in Nodes :
           /\ m = [type |-> "SendReconfigResult2ComLeader", data |-> Draw(T, e, x),
                   to |-> ComLeader(T, Place(T, x))]
           /\ e # 0 /\ Drawn(T, e, x)
           /\ Lacks(T, e, x, node[ComLeader(T, Place(T, x))].reconfigResults)
    BY Basics, Zenon DEF MsgsOK, MsgOK, ResultMsgOK
  <1>2. PICK c \in Coms : c = Place(T, x) /\ n = ComLeader(T, c) /\ Place(T, n) = c
    <2>1. PICK c \in Coms : c = Place(T, x) /\ n = ComLeader(T, c)
      <3>1. Place(T, x) \in Coms
        BY Basics, PlaceInTable, Zenon
      <3> QED
        BY <1>1, <3>1
    <2> QED
      BY <2>1, Basics, Members
  <1>3. ~Full(T, e, c)
    <2>1. SUFFICES ASSUME node[n].reconfigResults = Results(T, e, c) PROVE FALSE
      BY <1>2, Zenon DEF Full
    <2>3. Draw(T, e, x) \in Draws(T, e, c)
      BY <1>2, Basics, PlaceInTable DEF Draws
    <2>4. PICK r : r = node[n].reconfigResults /\ r # None /\ r.last = e /\ r.all = Draws(T, e, c)
      BY <2>1, NotNone DEF Results
    <2>5. Lacks(T, e, x, r) /\ e \in Nat
      BY <1>1, <1>2, <2>4, Basics, Zenon
    <2> QED
      BY <2>3, <2>4, <2>5 DEF Lacks
  <1>4. ~Joined(e, n)
    <2>1. Spread(T, e, c) => Full(T, e, c)
      BY SpreadAreFull, Zenon
    <2> QED
      BY <1>1, <1>2, <1>3, <2>1, Basics, Zenon DEF StagesOK
  <1>5. IsComLeader(n) /\ e \in Seeds
    BY <1>2, <1>4, OldPlace
  <1> QED
    BY <1>1, <1>2, <1>3, <1>4, <1>5, Zenon DEF Collects

\* A leader collects a result of its committee; with the last it sends all to the leaders
\* (HandleSendReconfigResult2ComLeader).
LEMMA CollectStep ==
    ASSUME Counting, NEW T, NEW N, NEW e, Inv(T, N, e), NEW n \in Nodes, NEW m \in msgs, m.to = n,
           m.type = "SendReconfigResult2ComLeader", HandleSendReconfigResult2ComLeader(n, m)
    PROVE  Inv(T, N, e)'
  <1>1. PICK x \in Nodes, c \in Coms :
           /\ m = [type |-> "SendReconfigResult2ComLeader", data |-> Draw(T, e, x), to |-> n]
           /\ c = Place(T, x) /\ n = ComLeader(T, c) /\ Place(T, n) = c /\ e \in Seeds /\ e # 0
           /\ Drawn(T, e, x) /\ Lacks(T, e, x, node[n].reconfigResults)
           /\ ~Full(T, e, c) /\ ~Joined(e, n) /\ IsComLeader(n)
    BY CollectFacts, ZenonT(30) DEF Collects
  <1>2. PICK old : old = node[n].reconfigResults
    OBVIOUS
  <1>3. PICK R : R = AddReconfigResult(old, Draw(T, e, x))
    BY Zenon
  <1>4. PICK new : new = IF Cardinality(R.all) = Len(T[c])
                         THEN sendReconfigResults2AllLeaders(n, R) ELSE {}
    BY Zenon
  <1>5. /\ node' = [node EXCEPT ![n].reconfigResults = R] /\ com' = com /\ height' = height
        /\ msgs' = (msgs \ {m}) \cup new
    <2>1. m.data = Draw(T, e, x)
      BY <1>1
    <2>2. node[n].comAllNodeNum = Len(T[c])
      BY <1>1, OldPlace
    <2> QED
      BY <1>1, <1>2, <1>3, <1>4, <2>1, <2>2, Zenon
         DEF HandleSendReconfigResult2ComLeader, Receives
  <1>6. /\ R = [all |-> R.all, first |-> e, last |-> e] /\ Draw(T, e, x) \in R.all
        /\ \A d \in R.all : d = Draw(T, e, x) \/ (Collected(T, e, n, old) /\ d \in old.all)
    <2>1. e \in Nat /\ Draw(T, e, x).SeedHeight = e
      BY Basics, DrawFacts
    <2>3. CASE old = None \/ old.last < e
      BY <1>3, <2>1, <2>3, Zenon DEF AddReconfigResult
    <2>4. CASE ~(old = None \/ old.last < e)
      <3>1. Collected(T, e, n, old)
        BY <1>2, <2>1, <2>4, Basics, Zenon DEF ResultsOK, StagesOK
      <3>2. PICK S : old = [all |-> S, first |-> e, last |-> e]
        BY <3>1, Zenon DEF Collected
      <3> QED
        BY <1>3, <2>1, <2>4, <3>1, <3>2, Zenon DEF AddReconfigResult
    <2> QED
      BY <2>3, <2>4, Zenon
  <1>7. Collected(T, e, n, R)
    BY <1>1, <1>6, Zenon DEF Collected
  <1>8. Cardinality(R.all) = Len(T[c]) => R = Results(T, e, c)
    <2>1. ASSUME NEW z \in Nodes, Place(T, z) = c PROVE Draw(T, e, z) \in Draws(T, e, c)
      BY <2>1, Basics, PlaceInTable DEF Draws
    <2>2. R.all \subseteq Draws(T, e, c)
      BY <1>1, <1>7, <2>1, Zenon DEF Collected
    <2> QED
      BY <1>6, <2>2, DrawsCounted, Basics, Zenon DEF Results
  <1>9. ASSUME NEW y \in Nodes
        PROVE  /\ Stays(e, y)
               /\ node'[y].reconfigResult = node[y].reconfigResult
               /\ node'[y].com2ReconfigResults = node[y].com2ReconfigResults
               /\ node'[y].reconfigResults = IF y = n THEN R ELSE node[y].reconfigResults
    BY <1>5, Basics, Untouched, Zenon DEF Stays, SamePlace, Shape, ComFields
  <1>10. Grows(T, e)
    <2>1. \A d \in Coms : ComLeader(T, d) \in Nodes /\ Place(T, ComLeader(T, d)) = d
      BY Basics, Members, Zenon
    <2>2. \A d \in Coms : /\ Full(T, e, d) => Full(T, e, d)'
                          /\ Spread(T, e, d) => Spread(T, e, d)'
      BY <1>1, <1>9, <2>1, Zenon DEF Full, Spread
    <2> QED
      BY <1>9, <2>2, StageGrows, ZenonT(30) DEF Drawn
  <1>11. ResultsOK(T, e, n, node[n].reconfigResults)'
    BY <1>7, <1>9, <1>10, StageKept, Zenon DEF ResultsOK
  <1>12. ASSUME NEW y \in new PROVE MsgOK(T, e, y)'
    <2>1. R = Results(T, e, c) /\ y \in sendReconfigResults2AllLeaders(n, R)
      BY <1>4, <1>8, <1>12, Zenon
    <2>2. PICK d \in Coms :
             y = [type |-> "SendReconfigResults2AllComLeaders", ComID |-> c,
                  Results |-> Results(T, e, c), ComNodeNum |-> Len(T[c]), to |-> ComLeader(T, d)]
      <3>1. node[n].ComNodeTable = T /\ MyCom(n) = c /\ node[n].comAllNodeNum = Len(T[c])
        BY <1>1, OldPlace
      <3> QED
        BY <2>1, <3>1, Zenon DEF sendReconfigResults2AllLeaders
    <2>4. PICK l \in Nodes : l = ComLeader(T, d)
      BY Basics, Members, Zenon
    <2>5. PICK f : f = node[l].com2ReconfigResults /\ f = node'[l].com2ReconfigResults
      BY <1>9, Zenon
    <2>6. NotHeard(e, c, f)
      BY <1>1, <2>5, Basics, Zenon DEF StagesOK, HeardOK, NotHeard
    <2> QED
      BY <1>1, <1>9, <2>1, <2>2, <2>4, <2>5, <2>6, Zenon DEF MsgOK, ResultsMsgOK, BootTypes, Full
  <1>13. ASSUME NEW y \in msgs, y # m PROVE MsgOK(T, e, y)'
    <2>1. CASE y.type = "SendReconfigResult2ComLeader" /\ y.to = n
      <3>0. PICK z \in Nodes, d \in Coms : Collects(T, e, n, y, z, d)
        BY <2>1, CollectFacts, Zenon
      <3>1. /\ y = [type |-> "SendReconfigResult2ComLeader", data |-> Draw(T, e, z), to |-> n]
            /\ d = Place(T, z) /\ n = ComLeader(T, d)
            /\ Drawn(T, e, z) /\ Lacks(T, e, z, node[n].reconfigResults)
        BY <3>0, Zenon DEF Collects
      <3>2. Draw(T, e, z) # Draw(T, e, x)
        BY <1>1, <1>13, <3>1, Zenon
      <3>3. Draw(T, e, z) \notin R.all
        <4>1. Collected(T, e, n, old) => old # None /\ ~(old.last < e)
          <5>1. e \in Nat
            BY Basics, Zenon
          <5>2. \A S : [all |-> S, first |-> e, last |-> e] # None
            BY DEF None
          <5> QED
            BY <5>1, <5>2 DEF Collected
        <4> QED
          BY <1>2, <1>6, <3>1, <3>2, <4>1, Zenon DEF Lacks
      <3>4. Drawn(T, e, z)' /\ node'[n].reconfigResults = R
        BY <1>9, <1>10, <3>1, Zenon DEF Grows
      <3> QED
        BY <1>1, <3>1, <3>3, <3>4, Zenon DEF Lacks, MsgOK, ResultMsgOK, BootTypes
    <2>2. CASE ~(y.type = "SendReconfigResult2ComLeader" /\ y.to = n)
      <3>1. \A p \in Nodes : node'[p].epoch = node[p].epoch
        BY <1>9, Zenon DEF Stays, SamePlace
      <3> QED
        BY <1>9, <1>10, <2>2, <3>1, Receivers, MsgKept, Zenon
    <2> QED
      BY <2>1, <2>2, Zenon
  <1> QED
    BY <1>5, <1>9, <1>10, <1>11, <1>12, <1>13, StageStep, ZenonT(30)

\* A leader hears of a committee's results.
LEMMA HeardFacts ==
    ASSUME NEW T, NEW N, NEW e, Inv(T, N, e), NEW n \in Nodes, NEW m \in msgs, m.to = n,
           m.type = "SendReconfigResults2AllComLeaders"
    PROVE  \E c, d \in Coms :
              /\ m = [type |-> "SendReconfigResults2AllComLeaders", ComID |-> c,
                      Results |-> Results(T, e, c), ComNodeNum |-> Len(T[c]), to |-> n]
              /\ n = ComLeader(T, d) /\ Place(T, n) = d /\ e # 0 /\ Full(T, e, c)
              /\ NotHeard(e, c, node[n].com2ReconfigResults)
              /\ ~Spread(T, e, d) /\ ~Joined(e, n)
  <1>1. PICK c, d \in Coms :
           /\ m = [type |-> "SendReconfigResults2AllComLeaders", ComID |-> c,
                   Results |-> Results(T, e, c), ComNodeNum |-> Len(T[c]), to |-> ComLeader(T, d)]
           /\ e # 0 /\ Full(T, e, c)
           /\ NotHeard(e, c, node[ComLeader(T, d)].com2ReconfigResults)
    BY Basics, Zenon DEF MsgsOK, MsgOK, ResultsMsgOK
  <1>3. ~Spread(T, e, d)
    <2>1. c \in DOMAIN Data(T, e) /\ Data(T, e)[c].Results.first = e /\ e \in Nat
      BY Basics, Zenon DEF Data, Results
    <2> QED
      BY <1>1, <2>1 DEF Spread, NotHeard
  <1>4. n = ComLeader(T, d) /\ Place(T, n) = d
    <2>1. n = ComLeader(T, d)
      BY <1>1
    <2> QED
      BY <2>1, Basics, Members
  <1>5. ~Joined(e, n)
    BY <1>1, <1>3, <1>4, Basics, ZenonT(30) DEF StagesOK
  <1> QED
    BY <1>1, <1>3, <1>4, <1>5, Zenon

\* A leader has noted the results of one more committee, and all it has noted is of this
\* reconfiguration; with those of every committee, it sends them on to its own nodes.
HearsOf(T, e, n, m, new) ==
    /\ HeardOK(T, e, new) /\ m.ComID \in DOMAIN new
    /\ \A x \in DOMAIN new : new[x] = Data(T, e)[x] /\ Full(T, e, x)
    /\ \A x \in DOMAIN new : x = m.ComID
                             \/ ~NotHeard(e, x, node[n].com2ReconfigResults)
    /\ Receives(n, m, IF Cardinality(DOMAIN new) = ShardNum
                      THEN sendReconfigResults2ComNodes(n, new) ELSE {})
    /\ node' = [node EXCEPT ![n].com2ReconfigResults = new]

\* It adds them to those it has of this reconfiguration.
LEMMA HeardAdds ==
    ASSUME NEW T, NEW N, NEW e, Inv(T, N, e), NEW n \in Nodes, NEW m \in msgs, m.to = n,
           m.type = "SendReconfigResults2AllComLeaders",
           HandleSendReconfigResults2AllComLeaders(n, m)
    PROVE  \E new : HearsOf(T, e, n, m, new)
  <1>1. PICK c, d \in Coms :
           /\ m = [type |-> "SendReconfigResults2AllComLeaders", ComID |-> c,
                   Results |-> Results(T, e, c), ComNodeNum |-> Len(T[c]), to |-> n]
           /\ Full(T, e, c) /\ NotHeard(e, c, node[n].com2ReconfigResults)
    BY HeardFacts, ZenonT(30)
  <1>2. PICK f : f = node[n].com2ReconfigResults
    OBVIOUS
  <1>3. PICK res : res = [Results |-> m.Results, ComNodeNum |-> m.ComNodeNum]
    BY Zenon
  <1>4. res = Data(T, e)[c] /\ m.ComID = c /\ res.Results.first = e /\ e \in Nat
    BY <1>1, <1>3, Basics DEF Data, Results
  <1>5. HeardOK(T, e, f)
    BY <1>2, Basics, Zenon DEF StagesOK
  <1>7. PICK new : /\ Receives(n, m, IF Cardinality(DOMAIN new) = ShardNum
                                     THEN sendReconfigResults2ComNodes(n, new) ELSE {})
                   /\ node' = [node EXCEPT ![n].com2ReconfigResults = new]
                   /\ \/ new = With(<<>>, c, res)
                      \/ /\ new = With(f, c, res)
                         /\ \E x \in DOMAIN f : ~(f[x].Results.first < e)
    <2>1. ASSUME NEW x \in DOMAIN f, ~(f[x].Results.first < e) PROVE c \notin DOMAIN f
      <3>1. c \in DOMAIN f => f[c].Results.first < e
        BY <1>1, <1>2, Zenon DEF NotHeard
      <3>2. f[c] = Data(T, e)[c] => ~(f[c].Results.first < e)
        BY <1>4
      <3> QED
        BY <1>5, <2>1, <3>1, <3>2, Zenon DEF HeardOK
    <2> QED
      BY <1>2, <1>3, <1>4, <2>1, ZenonT(30) DEF HandleSendReconfigResults2AllComLeaders, AreOld
  <1>8. CASE new = With(<<>>, c, res)
    <2>1. new = [x \in {c} |-> res]
      BY <1>8 DEF With
    <2> QED
      BY <1>1, <1>4, <1>7, <2>1, ZenonT(30) DEF HeardOK, HearsOf
  <1>9. CASE new = With(f, c, res) /\ \E x \in DOMAIN f : ~(f[x].Results.first < e)
    <2>1. new = [x \in DOMAIN f \cup {c} |-> IF x = c THEN res ELSE f[x]]
      BY <1>9 DEF With
    <2>2. \A x \in DOMAIN f : f[x] = Data(T, e)[x] /\ Full(T, e, x)
      BY <1>5, <1>9, Zenon DEF HeardOK
    <2>3. \A x \in DOMAIN f : ~NotHeard(e, x, f)
      <3>1. \A x \in Coms : Data(T, e)[x].Results.first = e
        BY Zenon DEF Data, Results
      <3> QED
        BY <1>4, <1>5, <2>2, <3>1 DEF NotHeard, HeardOK
    <2>4. DOMAIN new \subseteq Coms /\ c \in DOMAIN new /\ new = [x \in DOMAIN new |-> new[x]]
      BY <1>5, <2>1, Zenon DEF HeardOK
    <2>5. \A x \in DOMAIN new : new[x] = Data(T, e)[x] /\ Full(T, e, x)
      BY <1>1, <1>4, <2>1, <2>2, Zenon
    <2>6. \A x \in DOMAIN new : x = c \/ ~NotHeard(e, x, f)
      BY <2>1, <2>3
    <2> QED
      BY <1>2, <1>4, <1>7, <2>4, <2>5, <2>6, ZenonT(30) DEF HeardOK, HearsOf
  <1> QED
    BY <1>7, <1>8, <1>9, Zenon

\* As many committees as there are, are all.
LEMMA AllComs ==
    ASSUME Counting, NEW D \in SUBSET Coms, Cardinality(D) = ShardNum
    PROVE  D = Coms
  <1>1. IsFiniteSet(Coms) /\ Cardinality(Coms) = ShardNum
    BY Layer1Assumption, Zenon DEF Coms, Counting, IntervalsCount
  <1> QED
    BY <1>1 DEF Counting, PartsCount

\* A leader hears of a committee's results; with the last it sends all to its nodes
\* (HandleSendReconfigResults2AllComLeaders).
LEMMA HeardStep ==
    ASSUME Counting, NEW T, NEW N, NEW e, Inv(T, N, e), NEW n \in Nodes, NEW m \in msgs, m.to = n,
           m.type = "SendReconfigResults2AllComLeaders",
           HandleSendReconfigResults2AllComLeaders(n, m)
    PROVE  Inv(T, N, e)'
  <1>1. PICK c, d \in Coms :
           /\ m = [type |-> "SendReconfigResults2AllComLeaders", ComID |-> c,
                   Results |-> Results(T, e, c), ComNodeNum |-> Len(T[c]), to |-> n]
           /\ n = ComLeader(T, d) /\ Place(T, n) = d /\ e # 0 /\ Full(T, e, c)
           /\ NotHeard(e, c, node[n].com2ReconfigResults)
           /\ ~Spread(T, e, d) /\ ~Joined(e, n)
    BY HeardFacts, Zenon
  <1>2. PICK new :
           /\ HeardOK(T, e, new) /\ c \in DOMAIN new
           /\ \A x \in DOMAIN new : new[x] = Data(T, e)[x] /\ Full(T, e, x)
           /\ \A x \in DOMAIN new : x = c \/ ~NotHeard(e, x, node[n].com2ReconfigResults)
           /\ Receives(n, m, IF Cardinality(DOMAIN new) = ShardNum
                             THEN sendReconfigResults2ComNodes(n, new) ELSE {})
           /\ node' = [node EXCEPT ![n].com2ReconfigResults = new]
    <2>1. m.ComID = c
      BY <1>1
    <2>2. PICK new : HearsOf(T, e, n, m, new)
      BY HeardAdds, Zenon
    <2> QED
      BY <2>1, <2>2, Zenon DEF HearsOf
  <1>3. PICK sent : sent = IF Cardinality(DOMAIN new) = ShardNum
                           THEN sendReconfigResults2ComNodes(n, new) ELSE {}
    BY Zenon
  <1>4. com' = com /\ height' = height /\ msgs' = (msgs \ {m}) \cup sent
    BY <1>2, <1>3, Zenon DEF Receives, HandleSendReconfigResults2AllComLeaders
  <1>6. ASSUME NEW y \in Nodes
        PROVE  /\ Stays(e, y)
               /\ node'[y].reconfigResult = node[y].reconfigResult
               /\ node'[y].reconfigResults = node[y].reconfigResults
               /\ node'[y].com2ReconfigResults = IF y = n THEN new
                                                 ELSE node[y].com2ReconfigResults
    BY <1>2, <1>4, Basics, Untouched, ZenonT(30) DEF Stays, SamePlace, Shape, ComFields
  <1>7. Grows(T, e)
    <2>2. \A x \in Coms : /\ Full(T, e, x) => Full(T, e, x)'
                          /\ Spread(T, e, x) => Spread(T, e, x)'
      BY <1>1, <1>6, Basics, Members, Zenon DEF Full, Spread
    <2> QED
      BY <1>6, <2>2, StageGrows, ZenonT(30) DEF Drawn
  <1>8. HeardOK(T, e, node[n].com2ReconfigResults)'
    BY <1>2, <1>6, <1>7, StageKept
  <1>9. ASSUME NEW y \in sent PROVE MsgOK(T, e, y)'
    <2>1. new = Data(T, e) /\ y \in sendReconfigResults2ComNodes(n, new)
      BY <1>2, <1>3, <1>9, AllComs, Zenon DEF HeardOK, Data
    <2>2. /\ node[n].ComNodeTable = T /\ MyCom(n) = d /\ new[d].ComNodeNum = Len(T[d])
          /\ DOMAIN T[d] = 1 .. Len(T[d])
      <3>1. node[n].ComNodeTable = T /\ MyCom(n) = d
        BY <1>1, OldPlace
      <3>2. DOMAIN T[d] = 1 .. Len(T[d])
        BY Basics, Members, Zenon
      <3> QED
        BY <2>1, <3>1, <3>2, Zenon DEF Data
    <2>3. PICK i \in DOMAIN T[d] :
             y = [type |-> "SendReconfigResults2ComNodes", data |-> Data(T, e), to |-> T[d][i]]
      BY <2>1, <2>2, ZenonT(30) DEF sendReconfigResults2ComNodes
    <2>4. T[d][i] \in Nodes /\ Place(T, T[d][i]) = d
      BY Basics, Members, Zenon
    <2>5. ~Joined(e, T[d][i])'
      <3>1. ~Joined(e, T[d][i])
        BY <1>1, <2>4, Basics, Zenon DEF StagesOK
      <3> QED
        BY <1>6, <2>4, <3>1, Zenon DEF Joined, Stays, SamePlace
    <2> QED
      BY <1>1, <1>6, <2>1, <2>3, <2>4, <2>5, ZenonT(30) DEF MsgOK, AllMsgOK, BootTypes, Spread
  <1>10. ASSUME NEW y \in msgs, y # m PROVE MsgOK(T, e, y)'
    <2>1. CASE y.type = "SendReconfigResults2AllComLeaders" /\ y.to = n
      <3>1. PICK x \in Coms :
               /\ y = [type |-> "SendReconfigResults2AllComLeaders", ComID |-> x,
                       Results |-> Results(T, e, x), ComNodeNum |-> Len(T[x]), to |-> n]
               /\ Full(T, e, x) /\ NotHeard(e, x, node[n].com2ReconfigResults)
        BY <2>1, HeardFacts, ZenonT(30)
      <3>2. x # c
        BY <1>1, <1>10, <3>1, Zenon
      <3>3. x \notin DOMAIN new
        BY <1>2, <3>1, <3>2, Zenon
      <3>4. Full(T, e, x)' /\ node'[n].com2ReconfigResults = new
        BY <1>6, <1>7, <3>1, Zenon DEF Grows
      <3> QED
        BY <1>1, <3>1, <3>3, <3>4, Zenon DEF NotHeard, MsgOK, ResultsMsgOK, BootTypes
    <2>2. CASE ~(y.type = "SendReconfigResults2AllComLeaders" /\ y.to = n)
      <3>1. \A p \in Nodes : node'[p].epoch = node[p].epoch
        BY <1>6, Zenon DEF Stays, SamePlace
      <3> QED
        BY <1>6, <1>7, <2>2, <3>1, Receivers, MsgKept, ZenonT(30)
    <2> QED
      BY <2>1, <2>2, Zenon
  <1> QED
    BY <1>2, <1>4, <1>6, <1>7, <1>8, <1>9, <1>10, StageStep, ZenonT(30)

\* A node that is told to join: all nodes have drawn, and it finds its place.
LEMMA JoinFacts ==
    ASSUME Counting, EnoughDrawn, NEW T, NEW N, NEW e, Inv(T, N, e), NEW n \in Nodes, NEW m \in msgs,
           m.to = n, m.type = "SendReconfigResults2ComNodes"
    PROVE  /\ m = [type |-> "SendReconfigResults2ComNodes", data |-> Data(T, e), to |-> n]
           /\ e \in Seeds /\ e # 0 /\ ~Joined(e, n) /\ Spread(T, e, Place(T, n))
           /\ \A x \in Nodes : Drawn(T, e, x) /\ Begun(T, e, Place(T, x))
           /\ com[n].worker \notin Making
           /\ newNodeInfo(n, newCom2Results(m.data)) = Info(N, n)
           /\ newComNodeTable(newCom2Results(m.data)) = N
           /\ \A c \in Coms : Len(newCom2Results(m.data)[c]) = Len(N[c])
  <1>1. /\ m = [type |-> "SendReconfigResults2ComNodes", data |-> Data(T, e), to |-> n]
        /\ ~Joined(e, n) /\ Spread(T, e, Place(T, n))
    <2>1. PICK p \in Nodes :
             /\ m = [type |-> "SendReconfigResults2ComNodes", data |-> Data(T, e), to |-> p]
             /\ ~Joined(e, p) /\ Spread(T, e, Place(T, p))
      BY Basics, Zenon DEF MsgsOK, MsgOK, AllMsgOK
    <2>2. p = n
      BY <2>1
    <2> QED
      BY <2>1, <2>2, Zenon
  <1>2. e \in Seeds /\ e # 0 /\ IsTable(T) /\ N = NewTable(T, e)
    BY <1>1, Basics, JoinedAtFirst, Zenon
  <1>3. \A x \in Nodes : Drawn(T, e, x) /\ Begun(T, e, Place(T, x))
    BY <1>1, <1>2, PlaceInTable, SpreadAreFull, Zenon
  <1>4. node[n].NodeInfo = Info(T, n) /\ (IsComLeader(n) => n = ComLeader(T, Place(T, n)))
    BY <1>1, OldPlace
  <1>5. com[n].worker \notin Making
    <2>1. n = ComLeader(T, Place(T, n)) => com[n].worker = "exited"
      BY <1>1, <1>3, Zenon DEF Begun
    <2> QED
      BY <1>4, <2>1, Basics, Zenon DEF WorkersOK, Making
  <1>6. m.data = Data(T, e)
    BY <1>1
  <1>7. newNodeInfo(n, newCom2Results(Data(T, e))) = Info(NewTable(T, e), n)
    BY <1>2, <1>3, <1>4, JoinsAt, Zenon
  <1>8. newComNodeTable(newCom2Results(Data(T, e))) = NewTable(T, e)
    BY Zenon DEF NewTable
  <1>9. \A c \in Coms : Len(newCom2Results(Data(T, e))[c]) = Len(NewTable(T, e)[c])
    BY <1>2, NewTableOK, Zenon
  <1> QED
    BY <1>1, <1>2, <1>3, <1>5, <1>6, <1>7, <1>8, <1>9, ZenonT(30)

\* What joining makes of the committee's fields.
BegunAnew(c, id, g) ==
    /\ DOMAIN g = DOMAIN c /\ g.to_reconfig \in {FALSE}
    /\ g.tbchain_height = c.tbchain_height
    /\ g.worker = IF id = 0 THEN "created" ELSE c.worker
    /\ g.oldTxPool # None

\* A pool is not none.
LEMMA PoolIsNotNone == [current |-> TRUE] # None /\ \A v : [txs |-> v] # None
  <1>1. "none" \in DOMAIN None /\ "none" \notin DOMAIN [current |-> TRUE]
    BY DEF None
  <1>2. ASSUME NEW v PROVE "none" \notin DOMAIN [txs |-> v]
    OBVIOUS
  <1> QED
    BY <1>1, <1>2, Zenon

\* committee.Start, after SetOldTxPool, ends the call for a reconfiguration and gives a leader,
\* and no other node, a new worker.
LEMMA StartFacts ==
    ASSUME NEW c, NEW id, ComFields \subseteq DOMAIN c, NEW g, g = Start(SetOldTxPool(c), id)
    PROVE  BegunAnew(c, id, g)
  <1>1. PICK f : f = SetOldTxPool(c)
    OBVIOUS
  <1>2. /\ DOMAIN f = DOMAIN c /\ f.oldTxPool = [current |-> TRUE]
        /\ f.tbchain_height = c.tbchain_height /\ f.worker = c.worker
    BY <1>1, Zenon DEF SetOldTxPool, ComFields
  <1>3. /\ DOMAIN g = DOMAIN f /\ g.to_reconfig = FALSE /\ g.tbchain_height = f.tbchain_height
        /\ g.worker = IF id = 0 THEN "created" ELSE f.worker
        /\ g.oldTxPool = IF f.oldTxPool = [current |-> TRUE] THEN [txs |-> f.txPool] ELSE f.oldTxPool
    BY <1>1, <1>2, Zenon DEF ComFields, Start
  <1> QED
    BY <1>2, <1>3, PoolIsNotNone, Zenon DEF BegunAnew

\* And what the pool's arrival makes of them.
WithPool(g, d) ==
    /\ DOMAIN d = DOMAIN g /\ d.to_reconfig = g.to_reconfig
    /\ d.tbchain_height = g.tbchain_height /\ d.oldTxPool = g.oldTxPool
    /\ \/ d.worker = g.worker
       \/ d.worker = "running" /\ g.worker = "created"

\* SetPoolTx and StartWorker change the pool, and a new worker runs.
LEMMA PoolFacts ==
    ASSUME NEW g, NEW pool, ComFields \subseteq DOMAIN g, NEW d,
           d = StartsWorker(SetPoolTx(g, pool))
    PROVE  WithPool(g, d)
  BY Zenon DEF SetPoolTx, ComFields, StartsWorker, WithPool

\* It installs the new table and takes its place.
TakesPlace(N, e, n, server, d, new) ==
    /\ \A y \in new : \/ y.type = "SendNewNodeTable2Client"
                      \/ y.type = "GetPoolTx" /\ y.to \in server
    /\ node' = [node EXCEPT ![n].NodeInfo = Info(N, n), ![n].ComNodeTable = N,
                            ![n].comAllNodeNum = Len(N[Place(N, n)]),
                            ![n].waits = n \notin server, ![n].epoch = e]
    /\ com' = [com EXCEPT ![n] = d]
    /\ DOMAIN d = DOMAIN com[n] /\ d.to_reconfig \in {FALSE} /\ d.oldTxPool # None
    /\ d.tbchain_height = com[n].tbchain_height
    /\ \/ d.worker = com[n].worker
       \/ d.worker \in {"created", "running"} /\ Info(N, n).NodeID = 0

\* It does, or it ends.
LEMMA Joins ==
    ASSUME Counting, EnoughDrawn, NEW T, NEW N, NEW e, Inv(T, N, e), NEW n \in Nodes, NEW m \in msgs,
           m.to = n, m.type = "SendReconfigResults2ComNodes",
           HandleSendReconfigResults2ComNodes(n, m)
    PROVE  \E server, d, new :
              /\ height' = height /\ msgs' = (msgs \ {m}) \cup new
              /\ server = oldComLeaders(n, newCom2Results(m.data))
              /\ \/ /\ new = {} /\ com' = com /\ Ends(n)
                    /\ Len(N[Place(N, n)]) < MinComNodes \/ server = {}
                 \/ TakesPlace(N, e, n, server, d, new)
  <1>1. /\ newNodeInfo(n, newCom2Results(m.data)) = Info(N, n)
        /\ newComNodeTable(newCom2Results(m.data)) = N
        /\ \A c \in Coms : Len(newCom2Results(m.data)[c]) = Len(N[c])
        /\ com[n].worker \notin Making /\ Drawn(T, e, n)
    BY JoinFacts
  <1>2. PICK q, server : /\ q = newCom2Results(m.data) /\ server = oldComLeaders(n, q)
    OBVIOUS
  <1>3. PICK c \in Coms : c = Place(N, n) /\ Info(N, n).ComID = c /\ Len(q[c]) = Len(N[c])
    <2>1. Place(N, n) \in Coms
      BY Basics, PlaceInTable, Zenon
    <2>2. Info(N, n).ComID = Place(N, n)
      BY DEF Info
    <2> QED
      BY <1>1, <1>2, <2>1, <2>2, Zenon
  <1>4. node[n].reconfigResult.SeedHeight = e
    BY <1>1, Basics, DrawFacts DEF Drawn
  <1>5. PICK id : id = Info(N, n).NodeID
    OBVIOUS
  <1>6. PICK fresh : fresh = Start(SetOldTxPool(com[n]), id)
    OBVIOUS
  <1>7. EndReconfig(n, m, q, N, Info(N, n), server) /\ height' = height
    BY <1>1, <1>2, Zenon DEF HandleSendReconfigResults2ComNodes
  <1>8. CASE Len(q[c]) < MinComNodes \/ server = {}
    BY <1>2, <1>3, <1>7, <1>8, Zenon DEF EndReconfig, Receives
  <1>9. CASE ~(Len(q[c]) < MinComNodes \/ server = {})
    <2>1. PICK new : new = (IF id = 0 THEN sendNewNodeTable2Client(N) ELSE {})
                           \cup sendGetPoolTx(n, server \ {n})
      BY Zenon
    <2>2. PICK d : d = IF n \in server THEN StartsWorker(SetPoolTx(fresh, PoolOf(fresh))) ELSE fresh
      OBVIOUS
    <2>3. /\ Receives(n, m, new) /\ com' = [com EXCEPT ![n] = d]
          /\ node' = [node EXCEPT ![n].NodeInfo = Info(N, n), ![n].ComNodeTable = N,
                                  ![n].comAllNodeNum = Len(N[c]),
                                  ![n].waits = n \notin server, ![n].epoch = e]
      <3>1. /\ Receives(n, m, (IF id = 0 THEN sendNewNodeTable2Client(N) ELSE {})
                              \cup sendGetPoolTx(n, server \ {n}))
            /\ node' = [node EXCEPT ![n].NodeInfo = Info(N, n), ![n].ComNodeTable = N,
                                    ![n].comAllNodeNum = Len(q[c]),
                                    ![n].waits = n \notin server,
                                    ![n].epoch = node[n].reconfigResult.SeedHeight]
            /\ com' = [com EXCEPT ![n] = IF n \in server
                                         THEN StartsWorker(SetPoolTx(fresh, PoolOf(fresh)))
                                         ELSE fresh]
        BY <1>3, <1>5, <1>6, <1>7, <1>9, ZenonT(30) DEF EndReconfig
      <3> QED
        BY <1>3, <1>4, <2>1, <2>2, <3>1, ZenonT(30)
    <2>4. \A y \in new : \/ y.type = "SendNewNodeTable2Client"
                         \/ y.type = "GetPoolTx" /\ y.to \in server
      BY <2>1 DEF sendNewNodeTable2Client, sendGetPoolTx
    <2>5. /\ DOMAIN d = DOMAIN com[n] /\ d.oldTxPool # None
          /\ d.to_reconfig \in {FALSE} /\ d.tbchain_height = com[n].tbchain_height
          /\ id = 0 => d.worker \in {"created", "running"}
          /\ id # 0 => d.worker = com[n].worker \/ com[n].worker = "created"
      <3>1. PICK f, p : f = com[n] /\ p = PoolOf(fresh)
        OBVIOUS
      <3>2. ComFields \subseteq DOMAIN f /\ fresh = Start(SetOldTxPool(f), id)
        BY <1>6, <3>1, Basics, Zenon DEF Shape
      <3>3. BegunAnew(f, id, fresh)
        BY <3>2, StartFacts, Zenon
      <3>5. CASE d = fresh
        BY <3>1, <3>3, <3>5, Zenon DEF BegunAnew
      <3>6. CASE d = StartsWorker(SetPoolTx(fresh, p))
        <4>1. ComFields \subseteq DOMAIN fresh
          BY <3>2, <3>3, Zenon DEF BegunAnew
        <4>2. WithPool(fresh, d)
          BY <3>6, <4>1, PoolFacts, Zenon
        <4> QED
          BY <3>1, <3>3, <4>2, Zenon DEF BegunAnew, WithPool
      <3> QED
        BY <2>2, <3>1, <3>5, <3>6, ZenonT(30)
    <2>6. \/ d.worker = com[n].worker
          \/ d.worker \in {"created", "running"} /\ Info(N, n).NodeID = 0
      BY <1>1, <1>5, <2>5, Zenon DEF Making
    <2>7. msgs' = (msgs \ {m}) \cup new
      BY <2>3, Zenon DEF Receives
    <2> QED
      BY <1>2, <1>3, <1>7, <2>3, <2>4, <2>5, <2>6, <2>7, ZenonT(30) DEF TakesPlace
  <1> QED
    BY <1>8, <1>9, Zenon

\* A node computes the new committees and joins its own, or its process ends
\* (HandleSendReconfigResults2ComNodes, EndReconfig).
LEMMA JoinStep ==
    ASSUME Counting, EnoughDrawn, NEW T, NEW N, NEW e, Inv(T, N, e), NEW n \in Nodes, NEW m \in msgs,
           m.to = n, m.type = "SendReconfigResults2ComNodes",
           HandleSendReconfigResults2ComNodes(n, m)
    PROVE  Inv(T, N, e)'
  <1>1. PICK server, d, new :
           /\ height' = height /\ msgs' = (msgs \ {m}) \cup new
           /\ \/ /\ new = {} /\ com' = com /\ Ends(n)
              \/ TakesPlace(N, e, n, server, d, new)
    BY Joins, ZenonT(30)
  <1>2. CASE new = {} /\ com' = com /\ Ends(n)
    BY <1>1, <1>2, Basics, OrdinaryStep, Untouched, ZenonT(30) DEF Ends, Ordinary, SamePlace,
       SameStages, Shape, ComFields
  <1>3. CASE TakesPlace(N, e, n, server, d, new)
    <2>1. /\ m = [type |-> "SendReconfigResults2ComNodes", data |-> Data(T, e), to |-> n]
          /\ e # 0 /\ ~Joined(e, n) /\ Spread(T, e, Place(T, n))
          /\ \A x \in Nodes : Drawn(T, e, x) /\ Begun(T, e, Place(T, x))
          /\ com[n].worker \notin Making
      BY JoinFacts
    <2>2. ASSUME NEW x \in Nodes
          PROVE  /\ DOMAIN node'[x] = DOMAIN node[x] /\ DOMAIN com'[x] = DOMAIN com[x]
                 /\ SameStages(x) /\ node'[x].seen = node[x].seen
                 /\ com'[x].tbchain_height = com[x].tbchain_height
                 /\ x # n => node'[x] = node[x] /\ com'[x] = com[x]
      <3>1. CASE x # n
        BY <1>3, <3>1, Basics, Zenon DEF TakesPlace, SameStages, Shape
      <3>2. CASE x = n
        <4>1. DOMAIN node'[n] = DOMAIN node[n] /\ SameStages(n) /\ node'[n].seen = node[n].seen
          BY <1>3, Basics, ZenonT(30) DEF TakesPlace, SameStages, Shape
        <4>2. DOMAIN com'[n] = DOMAIN com[n] /\ com'[n].tbchain_height = com[n].tbchain_height
          BY <1>3, Basics, Zenon DEF TakesPlace, Shape
        <4> QED
          BY <3>2, <4>1, <4>2, Zenon
      <3> QED
        BY <3>1, <3>2, Zenon
    <2>3. /\ node'[n].epoch = e /\ node'[n].ComNodeTable = N /\ node'[n].NodeInfo = Info(N, n)
          /\ node'[n].comAllNodeNum = Len(N[Place(N, n)])
          /\ com'[n] = d
      BY <1>3, Basics, Zenon DEF TakesPlace, Shape
    <2>4. Shape' /\ HeightsOK(e)'
      <3>1. DOMAIN node' = DOMAIN node /\ DOMAIN com' = DOMAIN com
        BY <1>3, Zenon DEF TakesPlace
      <3>2. Shape'
        BY <2>2, <3>1, Basics, ZenonT(30) DEF Shape
      <3>3. HeightsOK(e)'
        BY <1>1, <2>2, Basics, Zenon DEF HeightsOK
      <3> QED
        BY <3>2, <3>3, Zenon
    <2>5. Grows(T, e)
      <3>1. \A x \in Nodes : /\ Joined(e, x) => Joined(e, x)'
                             /\ Drawn(T, e, x) => Drawn(T, e, x)'
        BY <2>2, <2>3, Zenon DEF Joined, Drawn, SameStages
      <3>3. ASSUME NEW c \in Coms
            PROVE  /\ Begun(T, e, c) => Begun(T, e, c)'
                   /\ Full(T, e, c) => Full(T, e, c)'
                   /\ Spread(T, e, c) => Spread(T, e, c)'
        BY <2>2, <2>3, <3>1, Basics, Members, ZenonT(30) DEF Joined, Begun, Full, Spread,
           SameStages
      <3>4. \A x \in Nodes : /\ com'[x].tbchain_height \in Nat
                             /\ com'[x].tbchain_height >= com[x].tbchain_height
        <4>1. \A x \in Nodes : com[x].tbchain_height \in Nat
          BY Basics, Zenon DEF WorkersOK
        <4>2. \A k \in Nat : k >= k
          OBVIOUS
        <4> QED
          BY <2>2, <4>1, <4>2, Zenon
      <3> QED
        BY <3>1, <3>3, <3>4, Zenon DEF Grows
    <2>6. NodesOK(T, N, e)'
      <3>1. ASSUME NEW x \in Nodes
            PROVE  /\ node'[x].epoch \in Nat /\ node'[x].epoch <= e
                   /\ node'[x].ComNodeTable = IF Joined(e, x)' THEN N ELSE T
                   /\ node'[x].NodeInfo = Info(node'[x].ComNodeTable, x)
                   /\ node'[x].comAllNodeNum = Len(node'[x].ComNodeTable[MyCom(x)'])
        <4>1. CASE x = n
          <5>1. Info(N, n).ComID = Place(N, n)
            BY DEF Info
          <5>2. e \in Nat /\ e <= e
            BY Basics
          <5> QED
            BY <2>3, <4>1, <5>1, <5>2, Zenon DEF Joined, MyCom
        <4>2. CASE x # n
          <5>1. NodesOK(T, N, e) /\ node'[x] = node[x]
            BY <2>2, <4>2, Basics, Zenon
          <5> QED
            BY <5>1, Zenon DEF NodesOK, Joined, MyCom
        <4> QED
          BY <4>1, <4>2, Zenon
      <3> QED
        BY <3>1, Basics, Zenon DEF NodesOK
    <2>7. StagesOK(T, e)'
      <3>1. ASSUME NEW x \in Nodes, Joined(e, x)'
            PROVE  Drawn(T, e, x)' /\ Spread(T, e, Place(T, x))'
        <4>1. Drawn(T, e, x)' /\ Place(T, x) \in Coms
          BY <2>1, <2>5, Basics, PlaceInTable, ZenonT(30) DEF Grows
        <4>2. CASE x = n
          BY <2>1, <2>5, <4>1, <4>2, Zenon DEF Grows
        <4>3. CASE x # n
          BY <2>1, <2>2, <2>5, <3>1, <4>3, StageKept, ZenonT(30) DEF Joined
        <4> QED
          BY <4>1, <4>2, <4>3, Zenon
      <3> QED
        BY <2>2, <2>5, <3>1, Basics, StageKept, ZenonT(30) DEF SameStages, StagesOK
    <2>8. WorkersOK(e)'
      <3>1. ASSUME NEW x \in Nodes
            PROVE  /\ com'[x].worker \in Making => IsComLeader(x)'
                   /\ com'[x].tbchain_height \in Nat /\ com'[x].to_reconfig \in BOOLEAN
                   /\ com'[x].to_reconfig => ~Joined(e, x)' /\ com'[x].reconfig_seed_height = e
        <4>1. CASE x # n
          <5>1. node'[x] = node[x] /\ com'[x] = com[x] /\ WorkersOK(e)
            BY <2>2, <4>1, Basics, ZenonT(30)
          <5> QED
            BY <5>1, Zenon DEF WorkersOK, IsComLeader, Joined
        <4>2. CASE x = n
          <5>1. /\ d.to_reconfig \in {FALSE} /\ d.tbchain_height = com[n].tbchain_height
                /\ d.worker = com[n].worker \/ Info(N, n).NodeID = 0
            BY <1>3, Zenon DEF TakesPlace
          <5>2. com[n].tbchain_height \in Nat
            BY Basics, Zenon DEF WorkersOK
          <5>3. d.worker \in Making => IsComLeader(n)'
            BY <2>1, <2>3, <5>1, Zenon DEF IsComLeader
          <5> QED
            BY <2>3, <4>2, <5>1, <5>2, <5>3, ZenonT(30)
        <4> QED
          BY <4>1, <4>2, Zenon
      <3> QED
        BY <3>1, Zenon DEF WorkersOK
    <2>9. ASSUME NEW y \in msgs, y # m PROVE MsgOK(T, e, y)'
      <3>1. MsgOK(T, e, y)
        BY Basics, Zenon DEF MsgsOK
      <3>2. y.type # "LeaderInitReconfig"
        BY <2>1, <3>1, Zenon DEF MsgOK, AskOK
      <3>3. y.type = "SendReconfigResults2ComNodes" => y.to # n
        <4>1. SUFFICES ASSUME y.type = "SendReconfigResults2ComNodes" PROVE y.to # n
          OBVIOUS
        <4>2. PICK p :
                 y = [type |-> "SendReconfigResults2ComNodes", data |-> Data(T, e), to |-> p]
          BY <3>1, <4>1, Zenon DEF MsgOK, AllMsgOK
        <4>3. y.to = p /\ p # n
          BY <2>1, <2>9, <4>2
        <4> QED
          BY <4>3, Zenon
      <3> QED
        BY <2>2, <2>5, <3>2, <3>3, Receivers, MsgKept, ZenonT(30) DEF SameStages
    <2>10. MsgsOK(T, e)'
      BY <1>1, <1>3, <2>9, OtherMsg, Zenon DEF TakesPlace, MsgsOK
    <2> QED
      BY <2>4, <2>6, <2>7, <2>8, <2>10, ZenonT(30) DEF Inv
  <1> QED
    BY <1>1, <1>2, <1>3, Zenon

\* Layer1 confirms a height that calls for no reconfiguration.
LEMMA PlainHeightStep ==
    ASSUME NEW T, NEW N, NEW e, Inv(T, N, e), NEW h \in Heights, h \notin Seeds,
           height' = h, height < h, \A k \in Heights : k > height => k >= h,
           UNCHANGED <<node, com, msgs>>
    PROVE  Inv(T, N, e)'
  <1>1. \A k \in Seeds : k \in Heights /\ k \in Nat /\ k # h
    BY ReconfigAssumption, Zenon DEF Seeds
  <1>2. h \in Nat /\ height \in Nat /\ e \in Nat
    BY Basics, ReconfigAssumption, Zenon
  <1>3. HeightsOK(e)'
    BY <1>1, <1>2, Basics DEF HeightsOK
  <1>4. Shape'
    BY Basics, Zenon DEF Shape
  <1> QED
    BY <1>3, <1>4, Untouched, InBetween, Zenon

\* Or one that does, and all have ended the same reconfiguration: the next begins, with
\* the table that they all have.
LEMMA SeedStep ==
    ASSUME Counting, EnoughDrawn, NEW T, NEW N, NEW e, Inv(T, N, e), NEW h \in Seeds, Quiet,
           height' = h, height < h, \A k \in Heights : k > height => k >= h,
           UNCHANGED <<node, com, msgs>>
    PROVE  ReconfigInv'
  <1>0. h \in Nat /\ h \in Heights
    BY ReconfigAssumption, Zenon DEF Seeds
  <1>1. h \in Nat /\ height \in Nat /\ e \in Nat /\ e < h /\ h \in Heights
    BY <1>0, Basics
  <1>2. PICK U : IsTable(U) /\ \A n \in Nodes : node[n].ComNodeTable = U
    BY Basics DEF Quiet, Joined, NodesOK
  <1>3. PICK M : M = NewTable(U, h) /\ IsTable(M)
    BY <1>2, NewTableOK, Zenon
  <1>4. Shape' /\ HeightsOK(h)'
    <2>1. \A k \in Seeds : k \in Heights /\ k \in Nat
      BY ReconfigAssumption, Zenon DEF Seeds
    <2>2. ASSUME NEW n \in Nodes PROVE node[n].seen = height
      BY Zenon DEF Quiet
    <2>3. HeightsOK(h)'
      BY <1>1, <2>1, <2>2, Basics DEF HeightsOK
    <2> QED
      BY <2>3, Basics, Zenon DEF Shape
  <1>5. ASSUME NEW n \in Nodes PROVE ~Joined(h, n)'
    BY <1>1, Basics DEF NodesOK, Joined
  <1>6. NodesOK(U, M, h)'
    <2>1. ASSUME NEW n \in Nodes
          PROVE  /\ node[n].epoch \in Nat /\ node[n].epoch <= h
                 /\ node[n].NodeInfo = Info(U, n)
                 /\ node[n].comAllNodeNum = Len(U[MyCom(n)])
      BY <1>1, <1>2, Basics DEF NodesOK
    <2> QED
      BY <1>2, <1>3, <1>5, <2>1, ZenonT(30) DEF NodesOK, MyCom
  <1>7. StagesOK(U, h)'
    <2>1. ASSUME NEW n \in Nodes
          PROVE  /\ ResultOK(U, h, n)'
                 /\ ResultsOK(U, h, n, node[n].reconfigResults)'
                 /\ HeardOK(U, h, node[n].com2ReconfigResults)'
      <3>1. PICK r, f : r = node[n].reconfigResults /\ f = node[n].com2ReconfigResults
        OBVIOUS
      <3>2. ResultOK(T, e, n) /\ ResultsOK(T, e, n, r) /\ HeardOK(T, e, f)
        BY <3>1, Basics, Zenon DEF StagesOK
      <3>3. ResultOK(U, h, n)'
        <4>1. PICK x : x = node[n].reconfigResult
          OBVIOUS
        <4>2. x = None \/ (x.SeedHeight \in Nat /\ x.SeedHeight < e) \/ x.SeedHeight = e
          <5>1. Draw(T, e, n).SeedHeight = e
            BY Zenon DEF Draw
          <5> QED
            BY <3>2, <4>1, <5>1, Zenon DEF ResultOK, Drawn
        <4>3. x = None \/ (x.SeedHeight \in Nat /\ x.SeedHeight < h)
          BY <1>1, <4>2
        <4> QED
          BY <4>1, <4>3, Zenon DEF ResultOK
      <3>4. ResultsOK(U, h, n, r)'
        BY <1>1, <3>2 DEF ResultsOK, Collected
      <3>5. HeardOK(U, h, f)'
        <4>1. \A c \in Coms : Data(T, e)[c].Results.first = e
          BY Zenon DEF Data, Results
        <4> QED
          BY <1>1, <3>2, <4>1 DEF HeardOK
      <3> QED
        BY <3>1, <3>3, <3>4, <3>5, Zenon
    <2> QED
      BY <1>5, <2>1, Zenon DEF StagesOK
  <1>8. WorkersOK(h)'
    BY Basics, Zenon DEF Quiet, WorkersOK, IsComLeader
  <1>9. MsgsOK(U, h)'
    BY Zenon DEF Quiet, MsgsOK
  <1>10. Inv(U, M, h)'
    BY <1>4, <1>6, <1>7, <1>8, <1>9, ZenonT(30) DEF Inv
  <1> QED
    BY <1>10 DEF ReconfigInv

\* At first all have the first table.
LEMMA InvInit ==
    ASSUME Init
    PROVE  ReconfigInv
  <1>2. Shape
    BY ZenonT(30) DEF Init, Shape, ComFields
  <1>3. HeightsOK(0)
    BY ReconfigAssumption DEF Init, HeightsOK, Seeds
  <1>4. NodesOK(InitTable, InitTable, 0)
    <2>1. IsTable(InitTable)
      BY ReconfigAssumption, Zenon
    <2>2. ASSUME NEW n \in Nodes
          PROVE  /\ node[n].epoch = 0 /\ node[n].ComNodeTable = InitTable
                 /\ node[n].NodeInfo = Info(InitTable, n)
                 /\ node[n].comAllNodeNum = Len(InitTable[Place(InitTable, n)])
                 /\ MyCom(n) = Place(InitTable, n)
      BY <2>1, LeaderByID, Zenon DEF Init, MyCom
    <2>3. 0 \in Nat /\ 0 <= 0
      OBVIOUS
    <2> QED
      BY <2>1, <2>2, <2>3, Zenon DEF NodesOK
  <1>5. StagesOK(InitTable, 0)
    <2>1. ASSUME NEW n \in Nodes
          PROVE  /\ node[n].reconfigResult = None /\ node[n].reconfigResults = None
                 /\ node[n].com2ReconfigResults = <<>>
      BY Zenon DEF Init
    <2>2. \A T, e : HeardOK(T, e, <<>>)
      BY DEF HeardOK
    <2> QED
      BY <2>1, <2>2, Zenon DEF StagesOK, ResultOK, ResultsOK
  <1>6. WorkersOK(0)
    BY Zenon DEF Init, WorkersOK, Making, IsComLeader
  <1>7. MsgsOK(InitTable, 0)
    <2>1. ASSUME NEW m \in msgs PROVE m.type = "NodeSendInfo"
      <3>1. PICK n \in Nodes : m = sendNodeInfo(n)
        BY Zenon DEF Init
      <3> QED
        BY <3>1 DEF sendNodeInfo
    <2>2. ASSUME NEW T, NEW m, m.type = "NodeSendInfo" PROVE MsgOK(T, 0, m)
      BY <2>2 DEF MsgOK
    <2> QED
      BY <2>1, <2>2, Zenon DEF MsgsOK
  <1>8. Inv(InitTable, InitTable, 0)
    BY <1>2, <1>3, <1>4, <1>5, <1>6, <1>7, ZenonT(30) DEF Inv
  <1> QED
    BY <1>8, Zenon DEF ReconfigInv

\* Each step keeps the invariant.
LEMMA InvStep ==
    ASSUME Counting, SeedsInTime, EnoughDrawn, ReconfigInv, [Next]_vars
    PROVE  ReconfigInv'
  <1>1. PICK T, N, e : Inv(T, N, e)
    BY DEF ReconfigInv
  <1>2. ASSUME Inv(T, N, e)' PROVE ReconfigInv'
    BY <1>2, Zenon DEF ReconfigInv
  <1>3. CASE Progress
    <2>1. ASSUME NEW m \in msgs, m.to \in Nodes, Handle(m.to, m) PROVE Inv(T, N, e)'
      <3>1. PICK n \in Nodes : n = m.to /\ Handle(n, m)
        BY <2>1, Zenon
      <3> QED
        BY <1>1, <3>1, BootSteps, ContractStep, AskStep, CollectStep, HeardStep, JoinStep,
           PoolSteps, ZenonT(30) DEF Handle
    <2>2. ASSUME NEW m \in msgs,
                 \/ m.type = "ShardSendGenesis" /\ HandleShardSendGenesis(m)
                 \/ m.type = "SendNewNodeTable2Client" /\ HandleSendNewNodeTable2Client(m)
          PROVE  Inv(T, N, e)'
      BY <1>1, <2>2, BootSteps, PoolSteps, Zenon
    <2>3. ASSUME NEW n \in Nodes, AddTBs(n) \/ commit(n) \/ NewBlockGenerated(n)
          PROVE  Inv(T, N, e)'
      BY <1>1, <2>3, AddTBsStep, BlockStep, GeneratedStep, ZenonT(30)
    <2>4. ASSUME NEW t \in txs, Layer1Mines(t) PROVE Inv(T, N, e)'
      BY <1>1, <2>4, PoolSteps, Zenon
    <2> QED
      BY <1>2, <1>3, <2>1, <2>2, <2>3, <2>4, ZenonT(30) DEF Progress
  <1>4. CASE \E tx \in unsent : HandleClientSendtx(tx)
    BY <1>1, <1>2, <1>4, PoolSteps, Zenon
  <1>5. CASE ConfirmLayer1Block
    <2>1. PICK h : h = NextHeight(height)
      BY Zenon
    <2>2. /\ h \in Heights /\ height < h /\ \A k \in Heights : k > height => k >= h
      BY <1>1, <1>5, <2>1, Basics, NextIsNext, ReconfigAssumption, ZenonT(30) DEF ConfirmLayer1Block
    <2>3. height' = h /\ UNCHANGED <<node, com, msgs>> /\ (h \in Seeds => Quiet)
      BY <1>5, <2>1, Zenon DEF ConfirmLayer1Block, Seeds
    <2> QED
      BY <1>1, <1>2, <2>2, <2>3, PlainHeightStep, SeedStep, ZenonT(30)
  <1>6. CASE UNCHANGED vars
    <2>1. UNCHANGED <<node, com, msgs, height>>
      BY <1>6, Zenon DEF vars
    <2> QED
      BY <1>1, <1>2, <2>1, Untouched, OrdinaryStep, ZenonT(30)
  <1> QED
    BY <1>3, <1>4, <1>5, <1>6 DEF Next

-----------------------------------------------------------------------------
(* What the invariant says of the committees.                               *)

\* Of two nodes at work for one committee one cannot have joined and the other not: it
\* would have drawn, asked by a leader whose worker has exited, and that is itself.
LEMMA OldLeaderHasEnded ==
    ASSUME NEW T, NEW N, NEW e, Inv(T, N, e), NEW m \in Nodes, NEW n \in Nodes,
           Joined(e, m), ~Joined(e, n), IsComLeader(n)
    PROVE  com[n].worker = "exited"
  <1>1. IsTable(T) /\ e \in Nat /\ e # 0
    BY Basics DEF NodesOK, Joined
  <1>2. Spread(T, e, Place(T, m))
    BY <1>1, Basics, Zenon DEF StagesOK
  <1>3. Full(T, e, Place(T, n))
    BY <1>1, <1>2, SpreadAreFull, PlaceInTable, ZenonT(30)
  <1>4. Begun(T, e, Place(T, n))
    BY <1>3, FullAreDrawn, DrawnWasAsked, ZenonT(30)
  <1>5. n = ComLeader(T, Place(T, n))
    BY <1>1, Basics, LeaderByID DEF NodesOK, IsComLeader
  <1> QED
    BY <1>4, <1>5, ZenonT(30) DEF Begun

\* What the stages say of tables and workers is that each committee has one leader.
LEMMA LeadersFollow ==
    ASSUME ReconfigInv
    PROVE  OneLeaderEach
  <1>1. PICK T, N, e : Inv(T, N, e)
    BY DEF ReconfigInv
  <1>2. TablesAgree
    BY <1>1, Basics DEF NodesOK, Joined, TablesAgree
  <1>3. ASSUME NEW m \in Nodes, NEW n \in Nodes,
               com[m].worker \in {"running", "generated"},
               com[n].worker \in {"running", "generated"}, MyCom(m) = MyCom(n)
        PROVE  m = n
    <2>1. IsComLeader(m) /\ IsComLeader(n)
      BY <1>1, <1>3, Basics, Zenon DEF WorkersOK, Making
    <2>2. Joined(e, m) <=> Joined(e, n)
      BY <1>1, <1>3, <2>1, OldLeaderHasEnded, ZenonT(30)
    <2>3. PICK U : IsTable(U) /\ node[m].NodeInfo = Info(U, m) /\ node[n].NodeInfo = Info(U, n)
      BY <1>1, <2>2, Basics DEF NodesOK
    <2> QED
      BY <1>3, <2>1, <2>3, LeaderByID DEF IsComLeader, MyCom
  <1> QED
    BY <1>2, <1>3, Zenon DEF OneLeaderEach, OneWorker
=============================================================================
