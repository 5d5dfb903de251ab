---------------------------- MODULE MCConnection ----------------------------
(* Instances of Connection for TLC: the application threads and Handles of  *)
(* each run are given in the .cfg, they are interchangeable.                *)
EXTENDS Connection, TLC

Symmetry == Permutations(Users) \cup Permutations(Handles)

=============================================================================
