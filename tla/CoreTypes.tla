----------------------------- MODULE CoreTypes -----------------------------
(***************************************************************************)
(* Transactions and what the client, the committees' transaction pools and *)
(* the shards all say about them (core/transaction.go, result/).           *)
(*                                                                         *)
(* A transaction moves value from an account of Sender_sid to an account   *)
(* of Recipient_sid.  When the two differ it is executed in two halves, or *)
(* its first half is rolled back.                                          *)
(***************************************************************************)
EXTENDS Integers, FiniteSets

CONSTANTS
    Shard,           \* shard identifiers; committee s packages the blocks of shard s
    Tx,              \* transaction identifiers
    Sender_sid,      \* [Tx -> Shard]
    Recipient_sid,   \* [Tx -> Shard]
    RollbackHeight   \* blocks the recipient shard has to include the second half

ASSUME TypesAssumption ==
    /\ IsFiniteSet(Tx)
    /\ Sender_sid \in [Tx -> Shard]
    /\ Recipient_sid \in [Tx -> Shard]
    /\ RollbackHeight \in Nat

IntraTXType    == "intra"
CrossTXType1   == "cross1"
CrossTXType2   == "cross2"
RollbackTXType == "rollback"

TXTypes == {IntraTXType, CrossTXType1, CrossTXType2, RollbackTXType}

\* Cross1ConfirmHeight is only meaningful in a second half; it is 0 elsewhere.
Transaction == [id : Tx, TXtype : TXTypes, Cross1ConfirmHeight : Nat]

\* The status a transaction of each type gets once it is in a block.
StatusOf(type) ==
    CASE type = IntraTXType    -> "IntraSuccess"
      [] type = CrossTXType1   -> "CrossTXType1Success"
      [] type = CrossTXType2   -> "CrossTXType2Success"
      [] type = RollbackTXType -> "RollbackSuccess"

Statuses == {"IntraSuccess", "CrossTXType1Success", "CrossTXType2Success", "RollbackSuccess"}

\* A receipt says in which block of which shard a transaction was included.
TXReceipt == [TxID : Tx, TxStatus : Statuses, ShardID : Shard, BlockHeight : Nat]

\* The committee a transaction is sent to.
Destination(tx) ==
    IF tx.TXtype = CrossTXType2 THEN Recipient_sid[tx.id] ELSE Sender_sid[tx.id]

\* The first form of a transaction, as the client injects it.
FirstHalf(t) ==
    [id |-> t,
     TXtype |-> IF Sender_sid[t] = Recipient_sid[t] THEN IntraTXType ELSE CrossTXType1,
     Cross1ConfirmHeight |-> 0]

SecondHalf(t, confirmHeight) ==
    [id |-> t, TXtype |-> CrossTXType2, Cross1ConfirmHeight |-> confirmHeight]

RollbackOf(t) == [id |-> t, TXtype |-> RollbackTXType, Cross1ConfirmHeight |-> 0]

\* A second half may only be included up to this height of the recipient shard.
Deadline(tx) == tx.Cross1ConfirmHeight + RollbackHeight

\* Mutant: no deadline.
Late_Never(tx, height) == FALSE

\* A second half that a block of the given height may no longer include.
Late(tx, height) == tx.TXtype = CrossTXType2 /\ height > Deadline(tx)

Minimum(a, b) == IF a < b THEN a ELSE b

Maximum(a, b) == IF a > b THEN a ELSE b
============================================================================
