----------------------------- MODULE NameTable -----------------------------
(***************************************************************************)
(* What tag_get and clear_tag_common promise to each other about the names *)
(* of tags: a creation gets the lowest free descriptor and its key, unless *)
(* IPC_PRIVATE, names that descriptor and no other; both are given up      *)
(* together.  A call that fails, for whatever reason, changes nothing.     *)
(***************************************************************************)
EXTENDS Integers

CONSTANTS Key, Sizes, None

VARIABLES
    size,       \* MAX_TAGS
    table,      \* key -> descriptor, or None
    used        \* the descriptors in use

vars == <<size, table, used>>

Init == size \in Sizes /\ table = [k \in Key |-> None] /\ used = {}

Free == (0 .. (size - 1)) \ used
IsLowestFree(d) == d \in Free /\ \A e \in Free : d <= e

Register(k) == \E d \in Free :
    /\ IsLowestFree(d) /\ table[k] = None
    /\ used' = used \cup {d}
    /\ table' = [table EXCEPT ![k] = d]
    /\ UNCHANGED size

RegisterPrivate == \E d \in Free :
    /\ IsLowestFree(d)
    /\ used' = used \cup {d}
    /\ UNCHANGED <<size, table>>

Unregister(k) ==
    /\ table[k] \in used
    /\ used' = used \ {table[k]}
    /\ table' = [table EXCEPT ![k] = None]
    /\ UNCHANGED size

(* A descriptor that a key names is not given up without the key. *)
UnregisterPrivate(d) ==
    /\ used' = used \ {d}
    /\ \A k \in Key : table[k] # d
    /\ UNCHANGED <<size, table>>

Next ==
    \/ RegisterPrivate \/ \E d \in used : UnregisterPrivate(d)
    \/ \E k \in Key : Register(k) \/ Unregister(k)

Spec == Init /\ [][Next]_vars
=============================================================================
