----------------------------- MODULE TrieNodes -----------------------------
(***************************************************************************)
(* The nodes of the Merkle Patricia trie of trie/: the three encodings of  *)
(* a key (encoding.go), the node types and their RLP form (node.go,        *)
(* node_enc.go) and the hasher that collapses a node to its hash           *)
(* (hasher.go).                                                            *)
(*                                                                         *)
(* A byte is a number, a key a sequence of bytes or nibbles.  A node is a  *)
(* record with a kind; the children of a full node are a function whose    *)
(* domain is the set of the non-nil ones.  A hash is injective: the hash   *)
(* of an encoding holds the encoding.  An RLP encoding is the node without *)
(* its flags; only its length is computed, because nodes shorter than 32   *)
(* bytes are stored inside their parent.                                   *)
(***************************************************************************)
EXTENDS Integers, Sequences, FiniteSets, FiniteSetsExt, SequencesExt

CONSTANT
    ValueLen    \* a function: the length in bytes of every value

Values == DOMAIN ValueLen

hashLen == 32

-----------------------------------------------------------------------------
(* encoding.go *)

hasTerm(s) == s # <<>> /\ s[Len(s)] = 16

WithoutTerm(hex) == IF hasTerm(hex) THEN Front(hex) ELSE hex

decodeNibbles(nibbles) ==
    [i \in 1..(Len(nibbles) \div 2) |-> 16 * nibbles[2 * i - 1] + nibbles[2 * i]]

hexToCompact(hex) ==
    LET nibbles == WithoutTerm(hex)
        flag    == IF hasTerm(hex) THEN 32 ELSE 0
    IN  IF Len(nibbles) % 2 = 1
        THEN <<flag + 16 + nibbles[1]>> \o decodeNibbles(Tail(nibbles))
        ELSE <<flag>> \o decodeNibbles(nibbles)

(* The stack trie's variant overwrites the key it reads: byte bi is        *)
(* written from the nibbles ni and ni + 1 of the same buffer.              *)
hexToCompactInPlace(hex) ==
    LET hexLen == Len(WithoutTerm(hex))
        odd    == hexLen % 2
        first  == (IF hasTerm(hex) THEN 32 ELSE 0) + (IF odd = 1 THEN 16 + hex[1] ELSE 0)
        Pack(buf, j) == [buf EXCEPT ![j + 1] = 16 * buf[2 * j - 1 + odd] + buf[2 * j + odd]]
        packed == FoldLeft(Pack, hex, [j \in 1..(hexLen \div 2) |-> j])
    IN  SubSeq([packed EXCEPT ![1] = first], 1, hexLen \div 2 + 1)

keybytesToHex(str) ==
    [i \in 1..(2 * Len(str)) |->
        IF i % 2 = 1 THEN str[(i + 1) \div 2] \div 16 ELSE str[i \div 2] % 16] \o <<16>>

OnlyLeafTerm(base) == IF base[1] < 2 THEN Front(base) ELSE base
WithoutFlag(base)  == SubSeq(base, 3 - (base[1] % 2), Len(base))

compactToHex(compact) ==
    IF compact = <<>> THEN compact ELSE WithoutFlag(OnlyLeafTerm(keybytesToHex(compact)))

(* Only for keys of even length: the code panics on the others. *)
hexToKeybytes(hex) == decodeNibbles(WithoutTerm(hex))

prefixLen(a, b) ==
    Max({i \in 0..Min({Len(a), Len(b)}) : SubSeq(a, 1, i) = SubSeq(b, 1, i)})

(* bytes.Compare *)
RECURSIVE Compare(_, _)
Compare(a, b) ==
    CASE a = <<>> /\ b = <<>> -> 0
      [] a = <<>> /\ b # <<>> -> -1
      [] a # <<>> /\ b = <<>> -> 1
      [] OTHER -> IF Head(a) = Head(b) THEN Compare(Tail(a), Tail(b))
                  ELSE IF Head(a) < Head(b) THEN -1 ELSE 1

-----------------------------------------------------------------------------
(* node.go *)

Nil          == [kind |-> "nil"]
ValueNode(v) == [kind |-> "value", v |-> v]
HashNode(e)  == [kind |-> "hash", of |-> e]

newFlag   == [hash |-> Nil, dirty |-> TRUE]
Clean(h)  == [hash |-> h, dirty |-> FALSE]

ShortNode(key, val, flags) == [kind |-> "short", key |-> key, val |-> val, flags |-> flags]
FullNode(ch, flags)        == [kind |-> "full", ch |-> ch, flags |-> flags]

IsInner(n) == n.kind \in {"short", "full"}
cache(n)   == IF IsInner(n) THEN n.flags ELSE newFlag

Child(n, i)       == IF i \in DOMAIN n.ch THEN n.ch[i] ELSE Nil
SetChild(n, i, c) ==
    IF c = Nil
    THEN [n EXCEPT !.ch = [j \in DOMAIN n.ch \ {i} |-> n.ch[j]]]
    ELSE [n EXCEPT !.ch = [j \in DOMAIN n.ch \union {i} |-> IF j = i THEN c ELSE n.ch[j]]]

-----------------------------------------------------------------------------
(* node_enc.go: the RLP form of a collapsed node *)

RECURSIVE encode(_)
encode(n) ==
    CASE n.kind = "short" -> [kind |-> "short", key |-> n.key, val |-> encode(n.val)]
      [] n.kind = "full"  -> [kind |-> "full", ch |-> [i \in DOMAIN n.ch |-> encode(n.ch[i])]]
      [] OTHER -> n

StringLen(n) == IF n = 1 THEN 1 ELSE IF n < 56 THEN n + 1 ELSE n + 2
ListLen(n)   == IF n < 56 THEN n + 1 ELSE IF n < 256 THEN n + 2 ELSE n + 3

RECURSIVE rlpLen(_)
rlpLen(e) ==
    CASE e.kind = "nil"   -> 1
      [] e.kind = "value" -> StringLen(ValueLen[e.v])
      [] e.kind = "hash"  -> StringLen(hashLen)
      [] e.kind = "short" -> ListLen(StringLen(Len(e.key)) + rlpLen(e.val))
      [] e.kind = "full"  ->
            ListLen(17 - Cardinality(DOMAIN e.ch)
                    + MapThenSumSet(LAMBDA i : rlpLen(e.ch[i]), DOMAIN e.ch))

(* A list inside a node is an embedded node and gets no hash (decodeRef).  *)
RECURSIVE decodeNode(_, _)
decodeRef(e) == IF IsInner(e) THEN decodeNode(Nil, e) ELSE e

decodeShort(hash, key, val) ==
    ShortNode(key, IF hasTerm(key) THEN val ELSE decodeRef(val), Clean(hash))

decodeFull(hash, ch) ==
    FullNode([i \in DOMAIN ch |-> IF i < 16 THEN decodeRef(ch[i]) ELSE ch[i]], Clean(hash))

decodeNode(hash, e) ==
    IF e.kind = "short" THEN decodeShort(hash, compactToHex(e.key), e.val) ELSE decodeFull(hash, e.ch)

-----------------------------------------------------------------------------
(* hasher.go *)

hashData(e) == HashNode(e)

(* shortnodeToHash and fullnodeToHash *)
nodeToHash(collapsed, force) ==
    LET e == encode(collapsed)
    IN  IF rlpLen(e) < hashLen /\ ~force THEN collapsed ELSE hashData(e)

(* hash returns the collapsed node and a copy of the original that caches  *)
(* the hash.  A cached hash ends the walk.  In the next two h is what hash *)
(* returned for the children.                                              *)
hashShortNodeChildren(n, h) ==
    [collapsed |-> [n EXCEPT !.key = hexToCompact(n.key), !.val = h.hashed],
     cached    |-> [n EXCEPT !.val = h.cached]]

hashFullNodeChildren(n, h) ==
    [collapsed |-> [n EXCEPT !.ch = [i \in DOMAIN n.ch |-> h[i].hashed]],
     cached    |-> [n EXCEPT !.ch = [i \in DOMAIN n.ch |-> h[i].cached]]]

RECURSIVE hash(_, _)
hashChildren(n) ==
    IF n.kind = "short" THEN hashShortNodeChildren(n, hash(n.val, FALSE))
    ELSE hashFullNodeChildren(n, [i \in DOMAIN n.ch |-> hash(n.ch[i], FALSE)])

KeepHash(cached, hashed) ==
    [hashed |-> hashed,
     cached |-> [cached EXCEPT !.flags.hash = IF hashed.kind = "hash" THEN hashed ELSE Nil]]

HashCollapsed(c, force) == KeepHash(c.cached, nodeToHash(c.collapsed, force))

hash(n, force) ==
    IF ~IsInner(n) THEN [hashed |-> n, cached |-> n]
    ELSE IF n.flags.hash # Nil THEN [hashed |-> n.flags.hash, cached |-> n]
    ELSE HashCollapsed(hashChildren(n), force)

CollapsedHash(collapsed) == [collapsed |-> collapsed, hashed |-> nodeToHash(collapsed, FALSE)]

proofHash(n) == CollapsedHash(hashChildren(n).collapsed)

(* What a proof holds of a node, given its proofHash: nothing for a node   *)
(* that is inside its parent.                                              *)
ProofOf(p, isRoot) ==
    IF p.hashed.kind = "hash" THEN {p.hashed}
    ELSE IF isRoot THEN {hashData(encode(p.collapsed))} ELSE {}

(* The hash of the trie without any node *)
emptyRoot == HashNode(Nil)
=============================================================================
