----------------------------- MODULE MCMultiSign -----------------------------
(* Instances of MultiSign for TLC. *)
EXTENDS MultiSign

CONSTANTS n0, n1, n2

MCComNode == {n0, n1, n2}
=============================================================================
