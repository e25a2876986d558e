------------------------------- MODULE MCPbft -------------------------------
(* Instances of Pbft for TLC. *)
EXTENDS Pbft, TLC

CONSTANTS n0, n1, n2, n3

MCBackup == {n1, n2, n3}

\* The backups are interchangeable.
BackupSymmetry == Permutations(MCBackup)
=============================================================================
