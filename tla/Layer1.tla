------------------------------- MODULE Layer1 -------------------------------
(***************************************************************************)
(* Layer1 as the nodes use it in geth and ganache mode                     *)
(* (eth_chain/eth_chain.go, cfg/account.go, eth_chain/timebeacon.sol).     *)
(* A process sends transactions from an account, with the nonce it keeps   *)
(* in lastNonce; Layer1 mines the transactions of an account by nonce.     *)
(* The contract keeps, for each address, the shard it may sign time        *)
(* beacons (TBs) of.  An event that reports a refusal makes log.Error end  *)
(* the process of every subscriber.  Cryptography is abstract: the only    *)
(* vrf of an address for a seed height is the one in Vrf, and signatures   *)
(* on TBs are those MultiSign collects.                                    *)
(***************************************************************************)
EXTENDS Integers, Sequences, FiniteSets

CONSTANTS
    Nodes,            \* node addresses; each is the process and the signer at it too
    ShardNum,
    Accounts,         \* Layer1 accounts
    ChainMode,        \* 1 for ganache, 2 for geth
    GanacheChainAccounts,   \* committee -> its account
    PriKeys,          \* process -> node address -> account, as this process pairs them
    Vrf,              \* seed height -> node -> its vrf, read as a number
    VrfRest,          \* how many values the bytes of a vrf after the first may have
    minSigCnt

Coms    == 0 .. ShardNum - 1
NoNonce == -1         \* math.MaxUint64, before the first transaction

ASSUME Layer1Assumption ==
    /\ ShardNum \in Nat \ {0} /\ minSigCnt \in Nat \ {0} /\ VrfRest \in Nat \ {0}
    /\ ChainMode \in {1, 2}
    /\ GanacheChainAccounts \in [Coms -> Accounts]
    /\ PriKeys \in [Nodes -> [Nodes -> Accounts]]
    /\ \A p, m, n \in Nodes : PriKeys[p][m] = PriKeys[p][n] => m = n

VARIABLES
    nonce,            \* account -> the nonce of its next transaction to be mined
    txs,              \* transactions sent and not mined
    lastNonce,        \* process -> lastNonce
    addr2Shard,       \* the contract's map, with addrRecorded as its domain
    tbs,              \* TBs the contract has stored
    rejected          \* history: the calls the contract has emitted an event of a refusal for

layer1Vars == <<nonce, txs, lastNonce, addr2Shard, tbs, rejected>>

\* Before the contract is deployed; the accounts have sent nothing yet.
Layer1Init ==
    /\ nonce = [a \in Accounts |-> 0] /\ txs = {}
    /\ lastNonce = [p \in Nodes |-> NoNonce]
    /\ addr2Shard = <<>>
    /\ tbs = {} /\ rejected = {}

-----------------------------------------------------------------------------
(* The client side.                                                         *)

\* The table is a committee's nodes in the order of their NodeIDs, which count from 0.
myPrivateKey(p, table, comID, nodeID) ==
    IF ChainMode = 1 THEN GanacheChainAccounts[comID]
                     ELSE PriKeys[p][table[comID][nodeID + 1]]

\* Layer1 refuses a nonce that is mined ("nonce too low") or taken ("replacement
\* transaction underpriced").
Refused(a, k) == k < nonce[a] \/ \E t \in txs : t.from = a /\ t.nonce = k

\* k is what the retries reach that begin at start.
IsFirstFree(a, start, k) ==
    /\ k >= start /\ ~Refused(a, k)
    /\ \A j \in start .. k - 1 : Refused(a, j)

\* Mutant: the first nonce is one too high when the process has sent before.
firstNonce_SkipsOne(p, a) == IF lastNonce[p] = NoNonce THEN nonce[a] ELSE lastNonce[p] + 2

\* PendingNonceAt, which the first transaction of a process begins with, is the free
\* nonce that the retries from nonce[a] would reach.
firstNonce(p, a) == IF lastNonce[p] = NoNonce THEN nonce[a] ELSE lastNonce[p] + 1

\* The loop of AddTB and AdjustRecordedAddrs, which ends when Layer1 accepts the
\* transaction; one more than lastNonce after each refusal.
mustSend(p, a, call) ==
    LET start == firstNonce(p, a)
    IN  \E k \in start .. start + nonce[a] + Cardinality(txs) :
            /\ IsFirstFree(a, start, k)
            /\ lastNonce' = [lastNonce EXCEPT ![p] = k]
            /\ txs' = txs \cup {[from |-> a, nonce |-> k, call |-> call]}
            /\ UNCHANGED <<nonce, addr2Shard, tbs, rejected>>

\* tb has the fields shardID, height and signers; epoch is history, the reconfiguration
\* its sender had ended last.
AddTB(p, table, nodeID, tb) ==
    mustSend(p, myPrivateKey(p, table, tb.shardID, nodeID), [addTB |-> tb])

\* Mutant: sent from the committee's account of ganache mode in geth mode too.
AdjustRecordedAddrs_ComAccount(p, table, comID, nodeID, addrs, vrfs, seedHeight) ==
    mustSend(p, GanacheChainAccounts[comID],
             [adjust |-> [addrs |-> addrs, vrfs |-> vrfs, seedHeight |-> seedHeight]])

AdjustRecordedAddrs(p, table, comID, nodeID, addrs, vrfs, seedHeight) ==
    mustSend(p, myPrivateKey(p, table, comID, nodeID),
             [adjust |-> [addrs |-> addrs, vrfs |-> vrfs, seedHeight |-> seedHeight]])

-----------------------------------------------------------------------------
(* The contract.                                                            *)

\* The constructor; addrs is committee -> the set of its first nodes.  DeployContract
\* returns when its transaction is mined.
DeployContract(a, addrs) ==
    /\ nonce' = [nonce EXCEPT ![a] = @ + 1]
    /\ addr2Shard' = [n \in UNION {addrs[c] : c \in Coms} |->
                          CHOOSE c \in Coms : n \in addrs[c]]
    /\ UNCHANGED <<txs, lastNonce, tbs, rejected>>

verifyVrfResult(seedHeight, vrf, n) ==
    seedHeight \in DOMAIN Vrf /\ vrf = Vrf[seedHeight][n]

\* By the first byte.
vrfValue2ShardID(vrf) == (vrf \div VrfRest) % ShardNum

Valid(tb, n) == n \in DOMAIN addr2Shard /\ addr2Shard[n] = tb.shardID

\* The signatures before the i-th that count.
validSigCnt(tb, i) == Cardinality({j \in 1 .. i - 1 : Valid(tb, tb.signers[j])})

addTB(tb) ==
    LET sufficient == validSigCnt(tb, Len(tb.signers) + 1) >= minSigCnt
        refused    == \E i \in DOMAIN tb.signers :
                          validSigCnt(tb, i) < minSigCnt /\ ~Valid(tb, tb.signers[i])
    IN  /\ tbs' = IF sufficient THEN tbs \cup {tb} ELSE tbs
        /\ rejected' = IF refused \/ ~sufficient THEN rejected \cup {[addTB |-> tb]} ELSE rejected
        /\ UNCHANGED addr2Shard

adjustRecordedAddrs(call) ==
    LET ok == {j \in DOMAIN call.addrs :
                   /\ call.addrs[j] \in DOMAIN addr2Shard
                   /\ verifyVrfResult(call.seedHeight, call.vrfs[j], call.addrs[j])}
    IN  /\ addr2Shard' = [n \in DOMAIN addr2Shard |->
                              IF \E j \in ok : call.addrs[j] = n
                              THEN vrfValue2ShardID(call.vrfs[CHOOSE j \in ok : call.addrs[j] = n])
                              ELSE addr2Shard[n]]
        /\ rejected' = IF ok # DOMAIN call.addrs THEN rejected \cup {[adjust |-> call]} ELSE rejected
        /\ UNCHANGED tbs

\* Layer1 mines the next transaction of an account.
Mine(t) ==
    /\ t \in txs /\ t.nonce = nonce[t.from]
    /\ txs' = txs \ {t}
    /\ nonce' = [nonce EXCEPT ![t.from] = @ + 1]
    /\ IF "addTB" \in DOMAIN t.call THEN addTB(t.call.addTB) ELSE adjustRecordedAddrs(t.call.adjust)
    /\ UNCHANGED lastNonce

-----------------------------------------------------------------------------
(* Layer1 on its own: any process may send at any time, as the i-th node of *)
(* a committee in its table, where it finds its own address.                *)

TBs == [shardID : Coms, height : Nat, signers : Seq(Nodes), epoch : Nat]

OwnPlace(p, table, c, i) == i + 1 \in DOMAIN table[c] /\ table[c][i + 1] = p

Sends(p) ==
    \E table \in [Coms -> Seq(Nodes)], i \in Nat :
        \/ \E tb \in TBs : OwnPlace(p, table, tb.shardID, i) /\ AddTB(p, table, i, tb)
        \/ \E c \in Coms, addrs \in Seq(Nodes), vrfs \in Seq(Nat), h \in Nat :
               OwnPlace(p, table, c, i) /\ AdjustRecordedAddrs(p, table, c, i, addrs, vrfs, h)

\* The booter deploys before any node can send.
Layer1Next ==
    \/ txs = {} /\ \E a \in Accounts, addrs \in [Coms -> SUBSET Nodes] : DeployContract(a, addrs)
    \/ \E p \in Nodes : Sends(p)
    \/ \E t \in txs : Mine(t)

Layer1Spec == Layer1Init /\ [][Layer1Next]_layer1Vars

\* Every transaction sent can be mined: those of an account that wait have the nonces
\* from its next one on, each once, although the processes that share the account each
\* count in a lastNonce of their own.
NoNonceGap ==
    /\ \A t, u \in txs : t.from = u.from /\ t.nonce = u.nonce => t = u
    /\ \A t \in txs :
           /\ t.nonce >= nonce[t.from]
           /\ \A k \in nonce[t.from] .. t.nonce : \E u \in txs : u.from = t.from /\ u.nonce = k

=============================================================================
