------------------------------ MODULE Hashmap ------------------------------
(***************************************************************************)
(* utils/hash-struct: an open addressed hash map with Robin Hood hashing.  *)
(* A bucket's dib is 1 more than its distance from the bucket its hash     *)
(* names, 0 when it is empty.  The map doubles when three quarters of the  *)
(* buckets are taken and halves when a tenth is left.                      *)
(***************************************************************************)
EXTENDS Integers, FiniteSets

CONSTANTS
    Key, Val,
    Hash,       \* hash of a key, its lowest 48 bits
    MIN_CAP,    \* the least number of buckets, a power of 2 (16 in the code)
    Caps,       \* values of the parameter cap of hashmap_new
    None        \* what an empty bucket holds, and a null pointer

VARIABLES
    buckets,    \* 0 .. nbuckets - 1 -> bucket
    cap,        \* the number it was made with; it never has fewer
    count,      \* how many entries there are
    oom         \* the last hashmap_set found no memory

vars == <<buckets, cap, count, oom>>

Empty == [key |-> None, val |-> None, dib |-> 0]
Entry(k, v) == [key |-> k, val |-> v, dib |-> 1]
Occupied(b) == b.dib > 0

NBuckets(bs) == Cardinality(DOMAIN bs)

(* Mutant: the map grows when it is full, not before. *)
GrowAtFull(bs) == NBuckets(bs)

(* Mutant: the map grows when a quarter is taken. *)
GrowAtQuarter(bs) == NBuckets(bs) \div 4

(* growat and shrinkat: nbuckets * 0.75 and * 0.10, cut to an integer. *)
GrowAt(bs) == (3 * NBuckets(bs)) \div 4
ShrinkAt(bs) == NBuckets(bs) \div 10

(* hashmap_new doubles MIN_CAP until it is not less than c. *)
Doubled[i \in Nat] == IF i = 0 THEN MIN_CAP ELSE 2 * Doubled[i - 1]

RoundUp(c) ==
    LET powers == {Doubled[i] : i \in 0 .. c} IN
    CHOOSE n \in powers : n >= c /\ \A m \in powers : m >= c => n <= m

New(c) == [i \in 0 .. (RoundUp(c) - 1) |-> Empty]

Init ==
    /\ \E c \in Caps : cap = RoundUp(c) /\ buckets = New(c)
    /\ count = 0 /\ oom = FALSE

-----------------------------------------------------------------------------
(* The bucket s steps behind the one that k's hash names, round the end. *)
Bucket(bs, k, s) == (Hash[k] + s) % NBuckets(bs)

(* The probing loops end at a bucket that is empty or has the key (equal   *)
(* hash, compare gives 0), the first one they meet; if there is none they  *)
(* never end: hashmap_set and hashmap_delete have no step then.            *)
Stops(bs, k) ==
    LET n == NBuckets(bs) IN
    {s \in 0 .. (n - 1) : LET b == bs[(Hash[k] + s) % n] IN Occupied(b) => b.key = k}

First(stops) == CHOOSE s \in stops : \A r \in stops : s <= r
Find(bs, k) == Bucket(bs, k, First(Stops(bs, k)))

(* hashmap_get: the value found, None for a null pointer. *)
Lookup(bs, k) ==
    LET stops == Stops(bs, k) IN
    IF stops = {} THEN None ELSE bs[Bucket(bs, k, First(stops))].val

(* One bucket i of the loop that places entry s.e: into an empty bucket;   *)
(* over the value of its key; or in the place of an entry that is nearer   *)
(* to its own bucket, which is carried on instead.                         *)
Farther(e) == [e EXCEPT !.dib = @ + 1]

(* Mutant: the entry that was there is carried on with the dib of the      *)
(* entry that takes its place.                                             *)
ProbeKeepsDib(s, i) ==
    LET b == s.bs[i] IN
    CASE s.done -> s
      [] ~s.done /\ ~Occupied(b) ->
            [s EXCEPT !.bs[i] = s.e, !.done = TRUE]
      [] ~s.done /\ Occupied(b) /\ b.key = s.e.key ->
            [s EXCEPT !.bs[i].val = s.e.val, !.done = TRUE]
      [] ~s.done /\ Occupied(b) /\ b.key # s.e.key /\ b.dib < s.e.dib ->
            [s EXCEPT !.bs[i] = s.e, !.e = [b EXCEPT !.dib = s.e.dib + 1]]
      [] OTHER -> [s EXCEPT !.e = Farther(@)]

Probe(s, i) ==
    LET b == s.bs[i] IN
    CASE s.done -> s
      [] ~s.done /\ ~Occupied(b) ->
            [s EXCEPT !.bs[i] = s.e, !.done = TRUE]
      [] ~s.done /\ Occupied(b) /\ b.key = s.e.key ->
            [s EXCEPT !.bs[i].val = s.e.val, !.done = TRUE]
      [] ~s.done /\ Occupied(b) /\ b.key # s.e.key /\ b.dib < s.e.dib ->
            [s EXCEPT !.bs[i] = s.e, !.e = Farther(b)]
      [] OTHER -> [s EXCEPT !.e = Farther(@)]

Place(bs, e) ==
    LET n == NBuckets(bs)
        after[j \in 0 .. n] ==
            IF j = 0 THEN [bs |-> bs, e |-> e, done |-> FALSE]
            ELSE Probe(after[j - 1], Bucket(bs, e.key, j - 1)) IN
    after[n].bs

(* resize: every entry goes, in the order of the buckets, into a new map.  *)
(* (There the code does not look for an equal key; there is none.)         *)
Resized(bs, c) ==
    LET n == NBuckets(bs)
        after[i \in 0 .. n] ==
            IF i = 0 THEN New(c)
            ELSE IF Occupied(bs[i - 1])
                 THEN Place(after[i - 1], [bs[i - 1] EXCEPT !.dib = 1])
                 ELSE after[i - 1] IN
    after[n]

-----------------------------------------------------------------------------
(* The map is at its limit and cannot grow. *)
SetNoMemory ==
    /\ count = GrowAt(buckets)
    /\ oom' = TRUE
    /\ UNCHANGED <<buckets, cap, count>>

Set(k, v) ==
    LET bs == IF count = GrowAt(buckets)
              THEN Resized(buckets, 2 * NBuckets(buckets)) ELSE buckets IN
    /\ Stops(bs, k) # {}
    /\ buckets' = Place(bs, Entry(k, v))
    /\ oom' = FALSE
    /\ count' = IF Lookup(bs, k) = None THEN count + 1 ELSE count
    /\ UNCHANGED cap

hashmap_set(k, v) == SetNoMemory \/ Set(k, v)

(* Mutant: the bucket is only marked empty. *)
EmptiedOnly(bs, i) == [bs EXCEPT ![i] = Empty]

(* Bucket i is emptied: the entries behind it that are not in their own    *)
(* bucket, up to the first that is or an empty one, move back by one.      *)
Shifted(bs, i) ==
    LET n == NBuckets(bs)
        steps(j) == (j - i) % n
        moving == {m \in 1 .. (n - 1) : \A l \in 1 .. m : bs[(i + l) % n].dib > 1}
        last == Cardinality(moving) IN
    [j \in DOMAIN bs |->
        CASE steps(j) < last -> [bs[(j + 1) % n] EXCEPT !.dib = @ - 1]
          [] steps(j) = last -> Empty
          [] steps(j) > last -> bs[j]]

(* The key is not there. *)
DeleteAbsent(k) ==
    /\ Stops(buckets, k) # {} /\ Lookup(buckets, k) = None
    /\ oom' = FALSE
    /\ UNCHANGED <<buckets, cap, count>>

(* The map halves when few are left; when it cannot, it stays as it is. *)
DeletePresent(k) ==
    LET bs == Shifted(buckets, Find(buckets, k))
        few == NBuckets(bs) > cap /\ count - 1 <= ShrinkAt(bs) IN
    /\ Lookup(buckets, k) # None
    /\ \/ ~few /\ buckets' = bs
       \/ few /\ buckets' \in {bs, Resized(bs, NBuckets(bs) \div 2)}
    /\ count' = count - 1
    /\ oom' = FALSE
    /\ UNCHANGED cap

hashmap_delete(k) == DeleteAbsent(k) \/ DeletePresent(k)

Next == \E k \in Key :
    hashmap_delete(k) \/ \E v \in Val : hashmap_set(k, v)

Spec == Init /\ [][Next]_vars
=============================================================================
