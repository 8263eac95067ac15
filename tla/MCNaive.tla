------------------------------ MODULE MCNaive ------------------------------
(* NaiveCluster with two backups that are like each other.                 *)
EXTENDS NaiveCluster

Symmetry == Permutations(Backup)
=============================================================================
