---------------------------- MODULE MCKeyStore ----------------------------
(* Instances of KeyStore for TLC. *)
EXTENDS KeyStore, TLC

CONSTANTS k1, k2, k3, k4

(* Two keys collide in every size of the map, one of them with a third     *)
(* when the map is small; k4's bucket follows theirs round the end.         *)
MCKey == {k1, k2, k3, k4}
MCHash == [k \in MCKey |-> CASE k \in {k1, k2} -> 3 [] k = k3 -> 7 [] k = k4 -> 0]

(* k1 and k2 have the same hash. *)
Symmetry == Permutations({k1, k2})
=============================================================================
