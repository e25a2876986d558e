----------------------------- MODULE ShardState -----------------------------
(***************************************************************************)
(* The accounts of one shard and the committee that executes for it        *)
(* without having them.  The worker asks the shard for the accounts of its *)
(* transactions (HandleComGetState), gets them with Merkle proofs, checks  *)
(* the proofs, executes, and computes the new root from the nodes of the   *)
(* proofs alone (rebuildTrie).  The shard executes the block again and     *)
(* ends its process when the roots differ.  Active accounts are recorded   *)
(* for the nodes that synchronize after a reconfiguration.                 *)
(*                                                                         *)
(* The shard's own trie is go-ethereum's, of which trie/ is a copy.        *)
(***************************************************************************)
EXTENDS TrieProof

CONSTANTS
    Addrs,             \* the addresses
    AddrHash,          \* a function: the hash of an address, a sequence of bytes
    Initial,           \* the addresses the shard knows from the start
    MaxValue,          \* what each of them has then
    Txs,               \* the transactions and halves this shard executes
    MaxBlockSize,
    Height2Reconfig,
    fastsyncBlockNum,
    MaxHeight          \* bound: TBBlocks the shard hears of

ASSUME ShardStateAssumption ==
    /\ Initial \subseteq Addrs
    /\ \A t \in Txs : t.sender \in Addrs /\ t.recipient \in Addrs
    /\ Height2Reconfig \in Nat \ {0} /\ fastsyncBlockNum \in Nat

VARIABLES
    accounts,          \* the shard's stateDB: a state for every account it has
    blocks,            \* the shard's chain, without the genesis block
    activeAddrs, tMPT_activeAddrs,
    tbchain_height,
    work,              \* where the worker is
    toShard,           \* blocks on their way to the shard
    packed,            \* the transactions taken from the pool
    agreed,            \* FALSE after a root mismatch, which ends the process
    overtaken          \* history: an account was created with a block on its way

vars == <<accounts, blocks, activeAddrs, tMPT_activeAddrs, tbchain_height,
          work, toShard, packed, agreed, overtaken>>

Account(nonce, balance) == <<nonce, balance>>
Empty == Account(0, 0)

NoDb == NewDatabase({}, {})

(* The state trie over hashed addresses *)
StateTrieOf(accs) ==
    FoldLeft(LAMBDA n, a : insert(NoDb, n, keybytesToHex(AddrHash[a]), ValueNode(accs[a])).n,
             Nil, SetToSeq(DOMAIN accs))

IntermediateRoot(accs) == RootHash(StateTrieOf(accs))

(* GetBalance and GetNonce of an account that does not exist give 0.       *)
StateOf(accs, a) == IF a \in DOMAIN accs THEN accs[a] ELSE Empty

SetState(accs, a, st) == [x \in DOMAIN accs \union {a} |-> IF x = a THEN st ELSE accs[x]]

(* NewShard and SetInitialAccountState *)
SetInitialAccountState == [a \in Initial |-> Account(0, MaxValue)]

Idle == [phase |-> "idle"]

Init ==
    /\ accounts = SetInitialAccountState
    /\ blocks = <<>>
    /\ activeAddrs = {} /\ tMPT_activeAddrs = {}
    /\ tbchain_height = 0
    /\ work = Idle /\ toShard = {} /\ packed = {} /\ agreed = TRUE
    /\ overtaken = FALSE

-----------------------------------------------------------------------------
(* Executing a transaction: what it does to the nonce and the balance *)

Debit(accs, t)  == LET s == StateOf(accs, t.sender)
                   IN  SetState(accs, t.sender, Account(s[1] + 1, s[2] - t.value))

Credit(accs, t) == LET s == StateOf(accs, t.recipient)
                   IN  SetState(accs, t.recipient, Account(s[1], s[2] + t.value))

\* Mutant: a rollback counts as one more transaction of the sender.
Undo_NonceUp(accs, t) ==
    LET s == StateOf(accs, t.sender)
    IN  SetState(accs, t.sender, Account(s[1] + 1, s[2] + t.value))

Undo(accs, t)   == LET s == StateOf(accs, t.sender)
                   IN  SetState(accs, t.sender, Account(s[1] - 1, s[2] + t.value))

executeTransaction(accs, t) ==
    CASE t.type = "intra"    -> Credit(Debit(accs, t), t)
      [] t.type = "cross1"   -> Debit(accs, t)
      [] t.type = "cross2"   -> Credit(accs, t)
      [] t.type = "rollback" -> Undo(accs, t)

executeTransactions(accs, txs) == FoldLeft(executeTransaction, accs, txs)

-----------------------------------------------------------------------------
(* The committee *)

(* The accounts a transaction changes: the ones the worker asks for, and    *)
(* the ones its executeTransaction puts into updatedStates                 *)
getTxRelatedAddrs(txs) ==
    UNION {CASE txs[i].type = "intra"  -> {txs[i].sender, txs[i].recipient}
             [] txs[i].type = "cross2" -> {txs[i].recipient}
             [] OTHER -> {txs[i].sender} : i \in DOMAIN txs}

IsRollback(t) == t.type = "rollback"

InChain(t) == \E i \in DOMAIN blocks : t \in Range(blocks[i].txs)

(* What the client has sent by now: everything but rollbacks of first      *)
(* halves that are in no block yet.                                        *)
Sent == {t \in Txs : IsRollback(t) => \E u \in Txs : u.id = t.id /\ u.type = "cross1" /\ InChain(u)}

(* commit up to the request: the height, which may be that of before the   *)
(* worker's own last block, and the transactions, rollbacks first          *)
commitStart ==
    /\ agreed /\ work = Idle
    /\ \E S \in SUBSET (Sent \ packed) :
          /\ S # {} /\ Cardinality(S) <= MaxBlockSize
          /\ \E txs \in SetToSeqs(S) :
                /\ \A i, j \in DOMAIN txs : i < j /\ IsRollback(txs[j]) => IsRollback(txs[i])
                /\ work' = [phase |-> "asked", txs |-> txs, parent |-> Len(blocks)]
          /\ packed' = packed \union S
    /\ UNCHANGED <<accounts, blocks, activeAddrs, tMPT_activeAddrs, tbchain_height, toShard, agreed,
                   overtaken>>

(* HandleComGetState: missing accounts are created, and change the root.   *)
HandleComGetState ==
    /\ agreed /\ work.phase = "asked"
    /\ LET addrs == getTxRelatedAddrs(work.txs)
           accs  == [a \in DOMAIN accounts \union addrs |-> StateOf(accounts, a)]
           trie  == StateTrieOf(accs)
       IN  /\ accounts' = accs
           /\ overtaken' = (overtaken \/ (toShard # {} /\ accs # accounts))
           /\ work' = [phase |-> "answered", txs |-> work.txs, parent |-> work.parent,
                       root |-> IntermediateRoot(accs),
                       data |-> [a \in addrs |-> StateOf(accs, a)],
                       proofs |-> [a \in addrs |-> Prove(NoDb, trie, AddrHash[a], 0).proof]]
    /\ UNCHANGED <<blocks, activeAddrs, tMPT_activeAddrs, tbchain_height, toShard, packed, agreed>>

(* getStatusFromShard's check of the answer *)
ProofsVerified ==
    \A a \in DOMAIN work.data :
        LET r == VerifyProof(work.root, AddrHash[a], work.proofs[a])
        IN  ~r.err /\ r.value = ValueNode(work.data[a])

(* analyseStates: the nodes of all proofs, by hash *)
analyseStates == UNION Range(work.proofs)

RECURSIVE rebuildHelper(_, _, _, _)

\* Mutant: the key of a node above the leaves stays in its hex form.
rebuildHelper_HexKey(h, hash2Node, keyPrefix, updated) ==
    LET n      == decodeNode(h, h.of)
        curKey == keyPrefix \o n.key
    IN  CASE h \notin hash2Node -> h
          [] h \in hash2Node /\ h.of.kind = "full" ->
                hashData(encode([n EXCEPT !.ch = [i \in DOMAIN n.ch |->
                    rebuildHelper(n.ch[i], hash2Node, keyPrefix \o <<i>>, updated)]]))
          [] h \in hash2Node /\ h.of.kind = "short" /\ n.val.kind = "hash" ->
                hashData(encode([n EXCEPT !.val = rebuildHelper(n.val, hash2Node, curKey, updated)]))
          [] h \in hash2Node /\ h.of.kind = "short" /\ n.val.kind = "value" ->
                LET key == hexToKeybytes(curKey)
                IN  hashData(encode([n EXCEPT
                        !.val = IF key \in DOMAIN updated THEN ValueNode(updated[key]) ELSE @,
                        !.key = hexToCompact(@)]))

(* rebuildHelper: from a hash down to the leaves that are known, and the   *)
(* new hashes up again.  The children of a full node are hashes, as an     *)
(* account takes more than 32 bytes.                                       *)
rebuildHelper(h, hash2Node, keyPrefix, updated) ==
    LET n      == decodeNode(h, h.of)
        curKey == keyPrefix \o n.key
    IN  CASE h \notin hash2Node -> h
          [] h \in hash2Node /\ h.of.kind = "full" ->
                hashData(encode([n EXCEPT !.ch = [i \in DOMAIN n.ch |->
                    rebuildHelper(n.ch[i], hash2Node, keyPrefix \o <<i>>, updated)]]))
          [] h \in hash2Node /\ h.of.kind = "short" /\ n.val.kind = "hash" ->
                hashData(encode([n EXCEPT
                    !.val = rebuildHelper(n.val, hash2Node, curKey, updated),
                    !.key = hexToCompact(@)]))
          [] h \in hash2Node /\ h.of.kind = "short" /\ n.val.kind = "value" ->
                LET key == hexToKeybytes(curKey)
                IN  hashData(encode([n EXCEPT
                        !.val = IF key \in DOMAIN updated THEN ValueNode(updated[key]) ELSE @,
                        !.key = hexToCompact(@)]))

rebuildTrie(root, hash2Node, updated) == rebuildHelper(root, hash2Node, <<>>, updated)

(* The sequence numbers PBFT has decided, whose replies it ignores *)
gotEnoughReply == {b.number : b \in Range(blocks) \union toShard}

(* commit from the answer on: a block that goes to the shard once          *)
(* consensus has ended, which it never does for a number decided before    *)
commitEnd ==
    /\ work.phase = "answered" /\ ProofsVerified
    /\ work.parent + 1 \notin gotEnoughReply
    /\ LET after   == executeTransactions(work.data, work.txs)
           updated == [k \in {AddrHash[a] : a \in getTxRelatedAddrs(work.txs)} |->
                         after[CHOOSE a \in Addrs : AddrHash[a] = k]]
       IN  toShard' = toShard \union
              {[number |-> work.parent + 1, txs |-> work.txs,
                root |-> rebuildTrie(work.root, analyseStates, updated)]}
    /\ work' = Idle
    /\ UNCHANGED <<accounts, blocks, activeAddrs, tMPT_activeAddrs, tbchain_height, packed, agreed, overtaken>>

-----------------------------------------------------------------------------
(* The shard *)

(* executeTransactions counts both ends of a transaction as active.        *)
BothEnds(txs) == UNION {{txs[i].sender, txs[i].recipient} : i \in DOMAIN txs}

\* Mutant: only the senders count as active.
HandleComSendBlock_Senders(b) ==
    /\ agreed /\ b \in toShard
    /\ toShard' = toShard \ {b}
    /\ blocks' = Append(blocks, [number |-> b.number, txs |-> b.txs, tb |-> tbchain_height])
    /\ accounts' = executeTransactions(accounts, b.txs)
    /\ agreed' = (IntermediateRoot(accounts') = b.root)
    /\ activeAddrs' = activeAddrs \union {b.txs[i].sender : i \in DOMAIN b.txs}
    /\ tMPT_activeAddrs' = tMPT_activeAddrs
    /\ UNCHANGED <<tbchain_height, work, packed, overtaken>>

(* HandleComSendBlock: write, execute, compare.  In the first interval     *)
(* after a reconfiguration every block clears tMPT_activeAddrs.            *)
HandleComSendBlock(b) ==
    /\ agreed /\ b \in toShard
    /\ toShard' = toShard \ {b}
    /\ blocks' = Append(blocks, [number |-> b.number, txs |-> b.txs, tb |-> tbchain_height])
    /\ accounts' = executeTransactions(accounts, b.txs)
    /\ agreed' = (IntermediateRoot(accounts') = b.root)
    /\ LET addrs == BothEnds(b.txs)
           old   == IF tbchain_height % Height2Reconfig = 1 THEN {} ELSE tMPT_activeAddrs
       IN  /\ activeAddrs' = activeAddrs \union addrs
           /\ tMPT_activeAddrs' = old \union addrs
    /\ UNCHANGED <<tbchain_height, work, packed, overtaken>>

(* AddTBs *)
AddTBs(height) ==
    /\ agreed /\ height > tbchain_height
    /\ tbchain_height' = height
    /\ UNCHANGED <<accounts, blocks, activeAddrs, tMPT_activeAddrs, work, toShard, packed, agreed,
                   overtaken>>

(* HandleGetSyncData *)
SyncStates(type) ==
    [a \in CASE type = "fastsync" -> activeAddrs
             [] type = "tMPTsync" -> tMPT_activeAddrs
             [] type = "fullsync" -> {} |-> StateOf(accounts, a)]

SyncBlocks(type) ==
    CASE type = "fastsync" ->
            LET n == Min({Len(blocks) + 1, fastsyncBlockNum})    \* with the genesis block
            IN  SubSeq(blocks, Max({1, Len(blocks) - n + 1}), Len(blocks))
      [] type = "tMPTsync" -> <<>>
      [] type = "fullsync" -> blocks

Next ==
    \/ commitStart \/ HandleComGetState \/ commitEnd
    \/ \E b \in toShard : HandleComSendBlock(b)
    \/ \E h \in 1..MaxHeight : AddTBs(h)

Spec == Init /\ [][Next]_vars

-----------------------------------------------------------------------------

TypeOK ==
    /\ Initial \subseteq DOMAIN accounts /\ DOMAIN accounts \subseteq Addrs
    /\ \A a \in DOMAIN accounts : accounts[a] \in Nat \X Nat
    /\ tMPT_activeAddrs \subseteq activeAddrs /\ activeAddrs \subseteq Addrs
    /\ work.phase \in {"idle", "asked", "answered"}
    /\ packed \subseteq Txs /\ tbchain_height \in 0..MaxHeight

(* The root the committee computes from proofs is the root of the shard    *)
(* after the block (the comparison in HandleComSendBlock), for accounts    *)
(* that are new, alone in their branch, or deep below shared nodes, unless *)
(* an account was created for the worker's next request with the block     *)
(* still on its way, as a comment there says; and the proofs the shard     *)
(* sends always pass the committee's check, without which the worker has   *)
(* no states at all (getStatusFromShard).                                  *)
RootsAgree == (agreed \/ overtaken) /\ (work.phase = "answered" => ProofsVerified)

(* Nonces and balances are what the transactions in the chain add up to,   *)
(* each counted once, whatever the order of blocks, and a rollback takes   *)
(* back exactly its debit (executeTransaction of the shard).               *)
LedgerAddsUp ==
    LET done      == {t \in Txs : InChain(t)}
        Of(types) == {t \in done : t.type \in types}
        Value(S)  == MapThenSumSet(LAMBDA t : t.value, S)
        Out(a)    == {t \in Of({"intra", "cross1"}) : t.sender = a}
        Back(a)   == {t \in Of({"rollback"}) : t.sender = a}
        In(a)     == {t \in Of({"intra", "cross2"}) : t.recipient = a}
    IN  \A a \in DOMAIN accounts : accounts[a] =
            Account(Cardinality(Out(a)) - Cardinality(Back(a)),
                    (IF a \in Initial THEN MaxValue ELSE 0) + Value(In(a)) + Value(Back(a)) - Value(Out(a)))

(* A node that has the genesis accounts and is sent the states of          *)
(* "fastsync" has the shard's state (activeAddrs: accounts that have had a *)
(* transaction).                                                           *)
FastSyncSuffices ==
    \A a \in DOMAIN accounts :
        accounts[a] = IF a \in DOMAIN SyncStates("fastsync") THEN SyncStates("fastsync")[a]
                      ELSE StateOf(SetInitialAccountState, a)

(* The blocks of "fullsync", executed from genesis, give the shard's       *)
(* state; the blocks of "fastsync" are the last of them.                   *)
FullSyncReplays ==
    LET replayed == FoldLeft(LAMBDA accs, b : executeTransactions(accs, b.txs),
                             SetInitialAccountState, SyncBlocks("fullsync"))
    IN  /\ \A a \in DOMAIN accounts : accounts[a] = StateOf(replayed, a)
        /\ IsSuffix(SyncBlocks("fastsync"), SyncBlocks("fullsync"))

(* Either way of synchronizing leaves a new node with the shard's state.   *)
SyncSuffices == FastSyncSuffices /\ FullSyncReplays

(* What a comment promises of tMPT_activeAddrs: the accounts of all        *)
(* transactions since the last reconfiguration.                            *)
TMPTHoldsEpoch ==
    LET Epoch(h) == (h - 1) \div Height2Reconfig
    IN  \A i \in DOMAIN blocks : Epoch(blocks[i].tb) = Epoch(tbchain_height) =>
            BothEnds(blocks[i].txs) \subseteq tMPT_activeAddrs
=============================================================================
