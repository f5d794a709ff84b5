----------------------------- MODULE FiniteMap -----------------------------
(* What hashmap.h promises: a finite map that remembers the last item set  *)
(* for a key until it is deleted, and leaves everything as it was when     *)
(* hashmap_set finds no memory.                                            *)

CONSTANTS Key, Val, None

VARIABLES
    map,        \* key -> value, or None: what hashmap_get returns for the key
    oom         \* hashmap_oom: the last hashmap_set found no memory

vars == <<map, oom>>

Init == map = [k \in Key |-> None] /\ oom = FALSE

Set(k, v) == oom' = FALSE /\ map' = [map EXCEPT ![k] = v]

SetNoMemory == oom' = TRUE /\ UNCHANGED map

Delete(k) == oom' = FALSE /\ map' = [map EXCEPT ![k] = None]

Next ==
    \/ \E k \in Key, v \in Val : Set(k, v)
    \/ \E k \in Key : Delete(k)
    \/ SetNoMemory

Spec == Init /\ [][Next]_vars
=============================================================================
