------------------------------ MODULE MCLifecycle ----------------------------
(* Lifecycle on small instances.                                            *)
EXTENDS Lifecycle, TLC

\* Connections are not told apart.
Symmetry == Permutations(Connections)

=============================================================================
