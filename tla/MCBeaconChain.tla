---------------------------- MODULE MCBeaconChain ----------------------------
(* Instances of BeaconChain for TLC. *)
EXTENDS BeaconChain, TLC

CONSTANTS s1, s2

MCShard == {s1, s2}

\* The shards are interchangeable.
ShardSymmetry == Permutations(MCShard)
=============================================================================
