---------------------------- MODULE TagRegistry ----------------------------
(***************************************************************************)
(* The structures shared by all the tags: the map from keys to descriptors *)
(* (tag_table), the descriptors in use (tag_bitmask), the array tags[], and *)
(* tag_get and the DELETE command that change them.                        *)
(*                                                                         *)
(* tag_table and tag_bitmask are only touched under common_lock, so what a *)
(* thread does between taking and giving back that lock is one step.  The  *)
(* array tags[] is written outside it.  The descriptor of an entry is its  *)
(* index, so tags[d] is the entry's key, or None for a null pointer.       *)
(***************************************************************************)
EXTENDS Integers, FiniteSets, RwSem

CONSTANTS
    Thread,
    Key,            \* keys other than IPC_PRIVATE
    IPC_PRIVATE,
    MAX_TAGS,       \* size of tags[] (256 in the code)
    None,
    Interruptible   \* threads that may be killed while they queue

ASSUME RegistryAssumption ==
    /\ MAX_TAGS \in Nat \ {0}
    /\ IPC_PRIVATE \notin Key
    /\ None \notin Key \cup {IPC_PRIVATE} \cup 0 .. (MAX_TAGS - 1)

Desc == 0 .. (MAX_TAGS - 1)
AnyKey == Key \cup {IPC_PRIVATE}

VARIABLES
    table,          \* tag_table: key -> descriptor, or None
    bits,           \* tag_bitmask: the descriptors whose bit is set
    tags,           \* tags[d]: key of the entry, or None
    commonLock,
    pc, key, desc,  \* place of each thread, its locals key and tag_key
    lost            \* history: descriptors of creations killed while they undo

common == <<table, bits>>
vars == <<common, tags, commonLock, pc, key, desc, lost>>

Holding == {"c_reserve", "u_clear", "d_clear"}       \* common_lock in write mode
Owning == {"c_alloc", "u_lock", "u_clear", "d_lock", "d_clear"}
PC == {"idle", "o_lookup", "d_free"} \cup Holding \cup Owning

Init ==
    /\ table = [k \in Key |-> None] /\ bits = {}
    /\ tags = [d \in Desc |-> None]
    /\ commonLock = Unlocked
    /\ pc = [t \in Thread |-> "idle"]
    /\ key = [t \in Thread |-> IPC_PRIVATE] /\ desc = [t \in Thread |-> 0]
    /\ lost = {}

At(t, p) == pc[t] = p
Go(t, p) == pc' = [pc EXCEPT ![t] = p]
Return(t) ==
    /\ Go(t, "idle")
    /\ key' = [key EXCEPT ![t] = IPC_PRIVATE] /\ desc' = [desc EXCEPT ![t] = 0]
Unlock(t) == commonLock' = UpWrite(commonLock, t)

(* A thread that queues for common_lock is killed. *)
Killed(t) == t \in Interruptible /\ ~CanWrite(commonLock)

-----------------------------------------------------------------------------
(* hashmap_count; get_avail_number gives the lowest free descriptor.       *)
Count == Cardinality({k \in Key : table[k] # None})

(* Mutant: the bitmask hands out a descriptor past the last one. *)
FreePast == (0 .. MAX_TAGS) \ bits

Free == Desc \ bits
Lowest(d, S) == d \in S /\ \A e \in S : d <= e

(* tag_get, TAG_CREAT *)
CreateLock(t) ==
    /\ At(t, "idle")
    /\ CanWrite(commonLock)
    /\ commonLock' = DownWrite(commonLock, t)
    /\ \E k \in AnyKey : key' = [key EXCEPT ![t] = k]
    /\ Go(t, "c_reserve")
    /\ UNCHANGED <<common, tags, desc, lost>>

(* A call that is sent away before it changes anything. *)
Interrupted(t) ==
    /\ At(t, "idle") /\ Killed(t)
    /\ UNCHANGED vars

(* Mutant: a key that is there already is given a second descriptor. *)
KnownNever(t) == FALSE

(* hashmap_get finds the key. *)
Known(t) == key[t] \in Key /\ table[key[t]] # None

(* The limit is checked on the count of keys (EMAXTAG), then the bitmask   *)
(* is asked (EPROTO).                                                      *)
HasRoom == Count < MAX_TAGS /\ Free # {}

(* The call fails and has undone what it did: no room, or the key is known *)
(* (EBUSY), or hashmap_set finds no memory (ENOMEM).                       *)
CreateRefused(t) ==
    /\ At(t, "c_reserve") /\ (~HasRoom \/ key[t] \in Key)
    /\ Unlock(t) /\ Return(t)
    /\ UNCHANGED <<common, tags, lost>>

CreateReserve(t) ==
    /\ At(t, "c_reserve") /\ HasRoom /\ ~Known(t)
    /\ \E d \in Free :
        /\ Lowest(d, Free)
        /\ bits' = bits \cup {d} /\ desc' = [desc EXCEPT ![t] = d]
        /\ table' = IF key[t] \in Key THEN [table EXCEPT ![key[t]] = d] ELSE table
    /\ Unlock(t)
    /\ Go(t, "c_alloc")
    /\ UNCHANGED <<tags, key, lost>>

(* The levels and the entry are allocated and the entry is published,      *)
(* without any lock; or an allocation fails.                               *)
CreatePublish(t) ==
    /\ At(t, "c_alloc")
    /\ tags' = [tags EXCEPT ![desc[t]] = key[t]]
    /\ Return(t)
    /\ UNCHANGED <<common, commonLock, lost>>

CreateNoMemory(t) ==
    /\ At(t, "c_alloc")
    /\ Go(t, "u_lock")
    /\ UNCHANGED <<common, tags, commonLock, key, desc, lost>>

-----------------------------------------------------------------------------
(* clear_tag_common, from a failed creation (u_) and from DELETE (d_).     *)
ClearLock(t) ==
    /\ At(t, "u_lock") \/ At(t, "d_lock")
    /\ CanWrite(commonLock)
    /\ commonLock' = DownWrite(commonLock, t)
    /\ Go(t, IF At(t, "u_lock") THEN "u_clear" ELSE "d_clear")
    /\ UNCHANGED <<common, tags, key, desc, lost>>

(* A creation killed while it queues to undo its registration returns      *)
(* -EINTR and leaves key and descriptor behind.                            *)
UndoKilled(t) ==
    /\ At(t, "u_lock") /\ Killed(t)
    /\ lost' = lost \cup {desc[t]}
    /\ Return(t)
    /\ UNCHANGED <<common, tags, commonLock>>

(* Mutant: the killed DELETE forgets to put the entry back. *)
DeleteKilledForgets(t) ==
    /\ At(t, "d_lock") /\ Killed(t)
    /\ Return(t)
    /\ UNCHANGED <<common, tags, commonLock, lost>>

(* A DELETE killed while it queues puts the entry back, without tag_lock.  *)
DeleteKilled(t) ==
    /\ At(t, "d_lock") /\ Killed(t)
    /\ tags' = [tags EXCEPT ![desc[t]] = key[t]]
    /\ Return(t)
    /\ UNCHANGED <<common, commonLock, lost>>

(* The key's entry after the clearing: removed if it names this descriptor. *)
ClearKey(t) ==
    table' = [k \in Key |-> IF k = key[t] /\ table[k] = desc[t] THEN None ELSE table[k]]

(* What follows the clearing: a creation returns, DELETE frees the tag. *)
AfterClear(t) ==
    /\ Unlock(t)
    /\ IF At(t, "u_clear") THEN Return(t) ELSE Go(t, "d_free") /\ UNCHANGED <<key, desc>>
    /\ UNCHANGED <<tags, lost>>

(* Mutant: the bit of the next descriptor is cleared. *)
ClearNextBit(t) ==
    /\ At(t, "u_clear") \/ At(t, "d_clear")
    /\ ClearKey(t)
    /\ bits' = bits \ {(desc[t] + 1) % MAX_TAGS}
    /\ AfterClear(t)

(* Mutant: the key stays in tag_table. *)
ClearKeepsKey(t) ==
    /\ At(t, "u_clear") \/ At(t, "d_clear")
    /\ bits' = bits \ {desc[t]} /\ UNCHANGED table
    /\ AfterClear(t)

Clear(t) ==
    /\ At(t, "u_clear") \/ At(t, "d_clear")
    /\ ClearKey(t)
    /\ bits' = bits \ {desc[t]}
    /\ AfterClear(t)

-----------------------------------------------------------------------------
(* tag_get, TAG_OPEN: the pointer tags[d] is read without tag_lock[d].     *)
OpenLock(t) ==
    /\ At(t, "idle")
    /\ CanRead(commonLock)
    /\ commonLock' = DownRead(commonLock, t)
    /\ \E k \in Key : key' = [key EXCEPT ![t] = k]
    /\ Go(t, "o_lookup")
    /\ UNCHANGED <<common, tags, desc, lost>>

(* Otherwise the call returns -ENODATA. *)
OpenFinds(t) == table[key[t]] # None /\ tags[table[key[t]]] # None

OpenLookup(t) ==
    /\ At(t, "o_lookup")
    /\ commonLock' = UpRead(commonLock, t)
    /\ Return(t)
    /\ UNCHANGED <<common, tags, lost>>

(* tag_ctl, DELETE.  The check of the entry and tags[d] = 0 happen under   *)
(* tag_lock[d] in write mode.                                              *)
DeleteTake(t) ==
    /\ At(t, "idle")
    /\ \E d \in Desc :
        /\ tags[d] # None
        /\ key' = [key EXCEPT ![t] = tags[d]] /\ desc' = [desc EXCEPT ![t] = d]
        /\ tags' = [tags EXCEPT ![d] = None]
    /\ Go(t, "d_lock")
    /\ UNCHANGED <<common, commonLock, lost>>

DeleteFree(t) ==
    /\ At(t, "d_free")
    /\ Return(t)
    /\ UNCHANGED <<common, tags, commonLock, lost>>

Next == \E t \in Thread :
    \/ CreateLock(t) \/ Interrupted(t) \/ CreateRefused(t)
    \/ CreateReserve(t) \/ CreatePublish(t) \/ CreateNoMemory(t)
    \/ ClearLock(t) \/ UndoKilled(t) \/ DeleteKilled(t) \/ Clear(t)
    \/ OpenLock(t) \/ OpenLookup(t)
    \/ DeleteTake(t) \/ DeleteFree(t)

Spec == Init /\ [][Next]_vars

-----------------------------------------------------------------------------
(* Properties                                                              *)

(* Every variable has its type. *)
TypeOK ==
    /\ table \in [Key -> Desc \cup {None}] /\ bits \subseteq Desc
    /\ tags \in [Desc -> AnyKey \cup {None}]
    /\ commonLock \in RwSemOf(Thread)
    /\ pc \in [Thread -> PC]
    /\ key \in [Thread -> AnyKey] /\ desc \in [Thread -> Desc]
    /\ lost \subseteq Desc

(* A descriptor that a thread is creating or deleting, or whose entry is   *)
(* published, has one owner only: the bit, the key's entry and tags[d] are *)
(* written under different locks, but never for two tags at once.          *)
OneOwner ==
    /\ \A t, u \in Thread :
        t # u /\ pc[t] \in Owning /\ pc[u] \in Owning => desc[t] # desc[u]
    /\ \A t \in Thread : pc[t] \in Owning => tags[desc[t]] = None

(* An owner's descriptor has its bit set and its key, if it has one, names *)
(* it: clear_tag_common always finds what it removes, and the null pointer *)
(* its error message would follow does not occur.                          *)
Consistent ==
    /\ \A t \in Thread : pc[t] \in Owning =>
        desc[t] \in bits /\ (key[t] \in Key => table[key[t]] = desc[t])
    /\ \A d \in Desc : tags[d] # None =>
        d \in bits /\ (tags[d] \in Key => table[tags[d]] = d)

(* OPEN of a key gives the descriptor of a tag with that key, although it  *)
(* reads tags[] while creations and deletions write it.                    *)
OpenIsRight ==
    \A t \in Thread : At(t, "o_lookup") /\ OpenFinds(t) =>
        tags[table[key[t]]] = key[t]

(* No descriptor is lost, however creations fail, and a DELETE that is     *)
(* killed gives its entry back:                                            *)
(* one whose bit is set is published, or in the hands of a thread, or was  *)
(* left behind by a creation that was killed while it undid itself.        *)
NothingElseLost ==
    \A d \in bits : \/ tags[d] # None \/ d \in lost
                   \/ \E t \in Thread : pc[t] \in Owning /\ desc[t] = d

(* The registry implements the table of names: creations and clearings     *)
(* that go on at the same time, fail and are killed do what one after the  *)
(* other would, although a creation gives the lock back halfway.           *)
Names == INSTANCE NameTable WITH
    Sizes <- {MAX_TAGS}, size <- MAX_TAGS, used <- bits
ImplementsNames == Names!Spec
=============================================================================
