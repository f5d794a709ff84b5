------------------------------ MODULE Bitmask ------------------------------
(***************************************************************************)
(* utils/bitmask: numbers in use kept as the bits of an array of words.  A *)
(* word is the set of the positions of its bits that are set.              *)
(***************************************************************************)
EXTENDS Integers

CONSTANTS
    Sizes,      \* values of number_bits
    W,          \* bits_per_slot (64 in the code)
    Numbers     \* arguments of clear_number

VARIABLES n_bits, mask, ret
vars == <<n_bits, mask, ret>>

Bit == 0 .. (W - 1)

Slots(n) == n \div W + (IF n % W # 0 THEN 1 ELSE 0)
Slot == 0 .. (Slots(n_bits) - 1)

(* initialize_bitmask: the words are zeroed. *)
Init ==
    /\ n_bits \in Sizes
    /\ mask = [i \in Slot |-> {}]
    /\ ret = 0

(* Mutant: the loops run from the other end. *)
IsHighest(x, S) == x \in S /\ \A y \in S : x >= y

IsLowest(x, S) == x \in S /\ \A y \in S : x <= y

(* The first word with a clear bit is the only one that is tried, and its  *)
(* lowest clear bit may lie past n_bits when the last word is partly used. *)
get_avail_number ==
    LET notFull == {i \in Slot : mask[i] # Bit} IN
    /\ \/ notFull = {} /\ ret' = -1 /\ UNCHANGED mask
       \/ \E i \in Slot, b \in Bit :
            /\ IsLowest(i, notFull) /\ IsLowest(b, Bit \ mask[i])
            /\ IF i * W + b >= n_bits
                  THEN ret' = -1 /\ UNCHANGED mask
                  ELSE ret' = i * W + b /\ mask' = [mask EXCEPT ![i] = @ \cup {b}]
    /\ UNCHANGED n_bits

clear_number(n) ==
    LET slot == n \div W  bit == n % W IN
    /\ \/ n >= n_bits /\ ret' = -1 /\ UNCHANGED mask
       \/ n < n_bits /\ bit \notin mask[slot] /\ ret' = 0 /\ UNCHANGED mask
       \/ n < n_bits /\ bit \in mask[slot] /\ ret' = 1
                     /\ mask' = [mask EXCEPT ![slot] = @ \ {bit}]
    /\ UNCHANGED n_bits

Next == get_avail_number \/ \E n \in Numbers : clear_number(n)

Spec == Init /\ [][Next]_vars

-----------------------------------------------------------------------------
(* The numbers whose bit is set. *)
InUse == {n \in 0 .. (Slots(n_bits) * W - 1) : n % W \in mask[n \div W]}

(* The words implement the pool: get_avail_number gives the lowest free    *)
(* number whichever word it is in, never one past n_bits, and says -1 only *)
(* when all are taken; clear_number frees that number and no other.        *)
Pool == INSTANCE DescriptorPool WITH size <- n_bits, used <- InUse
ImplementsPool == Pool!Spec
=============================================================================
