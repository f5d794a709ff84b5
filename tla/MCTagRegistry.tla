--------------------------- MODULE MCTagRegistry ---------------------------
(* Instances of TagRegistry for TLC. *)
EXTENDS TagRegistry, TLC

Symmetry == Permutations(Thread) \cup Permutations(Key)
=============================================================================
