--------------------------- MODULE DescriptorPool ---------------------------
(* What the bitmask promises to tag_get and clear_tag_common: a pool of    *)
(* numbers 0 .. size - 1 that gives the lowest free one and takes it back. *)
EXTENDS Integers

CONSTANTS
    Sizes,      \* the sizes a pool is made with
    Numbers     \* the numbers it may be asked to take back

VARIABLES
    size,       \* how many numbers there are
    used,       \* those that are taken
    ret         \* what the last call returned

vars == <<size, used, ret>>

Number == 0 .. (size - 1)

Init == size \in Sizes /\ used = {} /\ ret = 0

(* The lowest number that is free, or -1 when the pool is exhausted. *)
Take ==
    /\ \/ \E n \in Number \ used :
            /\ \A m \in 0 .. (n - 1) : m \in used
            /\ used' = used \cup {n} /\ ret' = n
       \/ Number \subseteq used /\ ret' = -1 /\ UNCHANGED used
    /\ UNCHANGED size

(* 1 if n was taken, 0 if it was free, -1 if there is no such number. *)
Give(n) ==
    /\ used' = used \ {n}
    /\ ret' = IF n \in used THEN 1 ELSE IF n \in Number THEN 0 ELSE -1
    /\ UNCHANGED size

Next == Take \/ \E n \in Numbers : Give(n)

Spec == Init /\ [][Next]_vars
=============================================================================
