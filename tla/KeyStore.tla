----------------------------- MODULE KeyStore -----------------------------
(***************************************************************************)
(* What tag_get (CREAT, OPEN) and clear_tag_common do while they hold      *)
(* common_lock, over the real structures: the hash map of keys (Hashmap)   *)
(* and the bitmask of descriptors (Bitmask).  One step per call of either. *)
(* common_lock lets one creation or clearing in at a time, or many OPENs,  *)
(* which only look a key up; so there is one thread here.  What happens    *)
(* between creations and clearings is in TagRegistry.                      *)
(***************************************************************************)
EXTENDS Integers, FiniteSets

CONSTANTS
    Key,            \* keys other than IPC_PRIVATE
    IPC_PRIVATE,
    Hash, MIN_CAP, Caps,
    Sizes, W,       \* values of MAX_TAGS; bits of a word of the bitmask
    None

ASSUME KeyStoreAssumption ==
    /\ Hash \in [Key -> Nat] /\ MIN_CAP \in Nat \ {0} /\ Caps \subseteq Nat
    /\ Sizes \subseteq Nat \ {0} /\ W \in Nat \ {0}
    /\ \E n \in Sizes : \A m \in Sizes : m <= n
    /\ IPC_PRIVATE \notin Key /\ None \notin Key \cup Nat \cup {IPC_PRIVATE}

VARIABLES
    buckets, cap, count, oom,           \* tag_table
    n_bits, mask, number,               \* tag_bitmask, and what its call returned
    pc, key, tag_key,                   \* place and locals of the call
    held                                \* history: the key each tag was made with

hashmap == <<buckets, cap, count, oom>>
bitmask == <<n_bits, mask, number>>
call == <<pc, key, tag_key>>
vars == <<hashmap, bitmask, call, held>>

MostDesc == CHOOSE n \in Sizes : \A m \in Sizes : m <= n
Desc == 0 .. (MostDesc - 1)
MAX_TAGS == n_bits
H == INSTANCE Hashmap WITH Val <- Desc
B == INSTANCE Bitmask WITH Numbers <- Desc, ret <- number

Init ==
    /\ H!Init /\ B!Init
    /\ pc = "idle" /\ key = IPC_PRIVATE /\ tag_key = 0
    /\ held = [d \in Desc |-> None]

hashmap_get(k) == H!Lookup(buckets, k)
Return == pc' = "idle" /\ key' = IPC_PRIVATE /\ tag_key' = 0

-----------------------------------------------------------------------------
(* tag_get, TAG_CREAT.  -EMAXTAG: the call changes nothing.                *)
HasRoom == count < MAX_TAGS

(* A descriptor is taken first (-EPROTO: there is none); a private tag has *)
(* no key.                                                                 *)
CreateReserve(k) ==
    /\ pc = "idle" /\ HasRoom
    /\ B!get_avail_number
    /\ \/ number' < 0 /\ Return /\ UNCHANGED held
       \/ number' >= 0 /\ k = IPC_PRIVATE
            /\ held' = [held EXCEPT ![number'] = k] /\ Return
       \/ number' >= 0 /\ k \in Key
            /\ pc' = "c_get" /\ key' = k /\ tag_key' = number' /\ UNCHANGED held
    /\ UNCHANGED hashmap

CreateLookup ==
    /\ pc = "c_get"
    /\ pc' = IF hashmap_get(key) # None THEN "c_undo" ELSE "c_set"
    /\ UNCHANGED <<hashmap, bitmask, key, tag_key, held>>

(* hashmap_set returns a null pointer and hashmap_oom is true, or the key  *)
(* is in (it is new, so the pointer is null then too).                     *)
CreateAdd ==
    /\ pc = "c_set"
    /\ H!hashmap_set(key, tag_key)
    /\ \/ oom' /\ pc' = "c_undo" /\ UNCHANGED <<key, tag_key, held>>
       \/ ~oom' /\ held' = [held EXCEPT ![tag_key] = key] /\ Return
    /\ UNCHANGED bitmask

(* Mutant: -EBUSY and -ENOMEM keep the descriptor. *)
CreateUndoForgets ==
    /\ pc = "c_undo"
    /\ Return
    /\ UNCHANGED <<hashmap, bitmask, held>>

(* -EBUSY, -ENOMEM: the descriptor is given back. *)
CreateUndo ==
    /\ pc = "c_undo"
    /\ B!clear_number(tag_key)
    /\ Return
    /\ UNCHANGED <<hashmap, held>>

-----------------------------------------------------------------------------
(* clear_tag_common, for a tag that was created and not cleared yet. *)
ClearStart(d) ==
    /\ pc = "idle" /\ held[d] # None
    /\ key' = held[d] /\ tag_key' = d
    /\ pc' = IF held[d] = IPC_PRIVATE THEN "d_number" ELSE "d_get"
    /\ UNCHANGED <<hashmap, bitmask, held>>

(* Mutant: the key stays in tag_table. *)
ClearLookupKeeps ==
    /\ pc = "d_get"
    /\ pc' = "d_number"
    /\ UNCHANGED <<hashmap, bitmask, key, tag_key, held>>

(* The entry is removed if it names this descriptor (if not, a message of  *)
(* inconsistency is all; NothingLeftBehind excludes it too).               *)
ClearLookup ==
    /\ pc = "d_get"
    /\ pc' = IF hashmap_get(key) = tag_key THEN "d_delete" ELSE "d_number"
    /\ UNCHANGED <<hashmap, bitmask, key, tag_key, held>>

ClearDelete ==
    /\ pc = "d_delete"
    /\ H!hashmap_delete(key)
    /\ pc' = "d_number"
    /\ UNCHANGED <<bitmask, key, tag_key, held>>

(* (The key would be set again if the bit were not found set, which        *)
(* NothingLeftBehind excludes.)                                            *)
ClearNumber ==
    /\ pc = "d_number"
    /\ B!clear_number(tag_key)
    /\ held' = [held EXCEPT ![tag_key] = None]
    /\ Return
    /\ UNCHANGED hashmap

Next ==
    \/ \E k \in Key \cup {IPC_PRIVATE} : CreateReserve(k)
    \/ CreateLookup \/ CreateAdd \/ CreateUndo
    \/ \E d \in Desc : ClearStart(d)
    \/ ClearLookup \/ ClearDelete \/ ClearNumber

Spec == Init /\ [][Next]_vars

-----------------------------------------------------------------------------
(* Properties                                                              *)

(* The order of Robin Hood: an entry's dib counts the buckets from the one *)
(* its hash names, none of these is empty or belongs to an entry that is   *)
(* nearer to its own, and no key is there twice.  Backward shift, swaps and *)
(* resizing keep it; the probing loops find keys by it.                    *)
RobinHood ==
    LET taken == {i \in DOMAIN buckets : H!Occupied(buckets[i])} IN
    /\ \A i \in taken :
        LET k == buckets[i].key  dib == buckets[i].dib IN
        /\ H!Bucket(buckets, k, dib - 1) = i
        /\ \A s \in 0 .. (dib - 2) : buckets[H!Bucket(buckets, k, s)].dib > s
    /\ \A i, j \in taken : buckets[i].key = buckets[j].key => i = j

(* The probing loops end: the count is that of the entries and never       *)
(* passes the limit that is only tested for equality, so that a bucket is  *)
(* always empty, also after an enlargement or reduction that failed.       *)
ProbesEnd ==
    LET taken == {i \in DOMAIN buckets : H!Occupied(buckets[i])} IN
    /\ count = Cardinality(taken)
    /\ count <= H!GrowAt(buckets) /\ taken # DOMAIN buckets
    /\ cap <= H!NBuckets(buckets)

(* With the capacity the module asks for, twice MAX_TAGS, tag_table is     *)
(* never enlarged: no creation fails there for want of memory.             *)
NeverGrows ==
    cap >= 2 * MAX_TAGS => ~oom /\ H!NBuckets(buckets) = cap

(* Between two calls, tag_table and tag_bitmask hold what the callers were  *)
(* told and nothing else, however creations fail halfway: a key is there   *)
(* with the descriptor of its tag, a bit is set for each tag.              *)
NothingLeftBehind ==
    pc = "idle" =>
        /\ {d \in Desc : held[d] # None} = B!InUse
        /\ \A k \in Key : hashmap_get(k) # None => held[hashmap_get(k)] = k
        /\ \A d \in Desc : held[d] \in Key => hashmap_get(held[d]) = d

(* tag_table implements a finite map, however keys collide. *)
Map == INSTANCE FiniteMap WITH
    Val <- Desc, map <- [k \in Key |-> hashmap_get(k)]
ImplementsMap == Map!Spec

(* tag_bitmask implements the pool of descriptors. *)
ImplementsPool == B!ImplementsPool

(* Together they implement the table of names.  A descriptor that a        *)
(* creation has reserved is not taken yet, and a key that a clearing has   *)
(* removed names its descriptor until the bit is cleared too.              *)
Reserved == IF pc \in {"c_get", "c_set", "c_undo"} THEN {tag_key} ELSE {}
NameOf(k) == IF pc = "d_number" /\ key = k THEN tag_key ELSE hashmap_get(k)
Names == INSTANCE NameTable WITH
    size <- n_bits, table <- [k \in Key |-> NameOf(k)], used <- B!InUse \ Reserved
ImplementsNames == Names!Spec
=============================================================================
