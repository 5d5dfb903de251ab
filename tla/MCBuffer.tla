------------------------------ MODULE MCBuffer ------------------------------
(* Buffer on small instances.                                              *)
EXTENDS Buffer

\* Addresses are not told apart, and neither are characters.
Symmetry == Permutations(Chunks) \cup Permutations(Chars) \cup Permutations(Buffers)

=============================================================================
