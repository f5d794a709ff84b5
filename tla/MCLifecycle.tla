---------------------------- MODULE MCLifecycle ----------------------------
(* Instances of Lifecycle for TLC. *)
EXTENDS Lifecycle, TLC

(* As many free entries as in the code, with the same neighbours among     *)
(* them, in a smaller table.                                               *)
MCNI == <<2, 4, 6, 7, 9, 10, 12>>

MCWalks == Translation \ {<<"absent">>, <<"table", "absent">>}

(* Arrays of equal pointers before, between and behind the tables of these *)
(* sizes: none; one that is too short; one at the very beginning, with no  *)
(* room for a table's first entries in front; and some that look like the  *)
(* end of a table that lies on one page or on two.                         *)
MCArrays ==
    {[at |-> 0, len |-> 0], [at |-> 40, len |-> 10], [at |-> 0, len |-> 14],
     [at |-> 4, len |-> 11], [at |-> 28, len |-> 12], [at |-> 60, len |-> 13]}

(* The product of four numbers of free entries fits an int, and is not 0:  *)
(* install_syscalls may take it for the conjunction of four successes.     *)
RealNI == {134, 174, 182, 183, 214, 215, 236}
ASSUME ProductFits ==
    \A a, b, c, d \in RealNI : Cardinality({a, b, c, d}) = 4 =>
        a * b * c * d \in 1 .. 2147483647

Symmetry == Permutations(Thread)
=============================================================================
