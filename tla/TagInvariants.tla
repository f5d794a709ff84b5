--------------------------- MODULE TagInvariants ---------------------------
(***************************************************************************)
(* Why the properties of TagService hold: its inductive invariant, in      *)
(* parts.  TLC checks it on small instances; TagServiceProofs and the      *)
(* modules that extend it prove it for all.                                *)
(***************************************************************************)
EXTENDS TagService

(* tag_lock is held exactly where the code says so, and a writer excludes  *)
(* the readers.                                                            *)
Users == {t \in Thread : pc[t] \in InTag}
TagLockInv ==
    /\ tagLock.r = Users
    /\ tagLock.w = {t \in Thread : pc[t] = "d_check"}
    /\ tagLock.r = {} \/ tagLock.w = {}

(* Why DeleteSafe holds, as an inductive invariant: down_write_trylock     *)
(* succeeds when no user is left, a counted receiver is a user, and from   *)
(* tags[tag] = 0 on nobody can become one.                                 *)
TagInv == TypeOK /\ TagLockInv /\ TagCount /\ DeleteSafe

(* Where who holds which lock, said once for each thread. *)
LevelReader(t, l) == pc[t] \in HoldsLevelRead /\ lv[t] = l
LevelWriter(t, l) == pc[t] \in HoldsLevelWrite /\ lv[t] = l
Uses(t, i) == pc[t] \in HoldsRcuRead /\ I(t) = i
RcuReader(t, i) == Uses(t, i) \/ (pc[t] \in HoldsTmpRead /\ <<lv[t], tmp[t]>> = i)
RcuWriter(t, i) == pc[t] \in HoldsRcuWrite /\ I(t) = i
MutexHolder(t, i) == pc[t] \in HoldsMutex /\ I(t) = i

(* The locks of the levels and objects are held exactly where the code     *)
(* says so.                                                                *)
LevelLockInv == \A l \in Level, t \in Thread :
    /\ t \in levelLock[l].r <=> LevelReader(t, l)
    /\ t \in levelLock[l].w <=> LevelWriter(t, l)
RcuInv == \A i \in Inst, t \in Thread :
    /\ t \in rcu[i].r <=> RcuReader(t, i)
    /\ t \in rcu[i].w <=> RcuWriter(t, i)
MutexInv == \A i \in Inst, t \in Thread : t \in mutex[i] <=> MutexHolder(t, i)

(* A writer excludes readers and, in the levels, other writers.            *)
LevelExclusion == \A l \in Level, t \in Thread, u \in Thread :
    LevelWriter(t, l) => ~LevelReader(u, l) /\ (LevelWriter(u, l) => u = t)
RcuExclusion == \A i \in Inst, t \in Thread, u \in Thread :
    RcuWriter(t, i) => ~RcuReader(u, i)

(* No pointer is ahead of the level.  Under level_lock it is the level's.  *)
PointsToCur == {"r_rcu", "s_rcu", "a_rcu", "v_rcu", "r_recheck", "r_create", "r_relock"}
Points(t) ==
    /\ pc[t] \in Derefs => at[t] <= cur[lv[t]]
    /\ pc[t] \in HoldsTmpRead => tmp[t] <= cur[lv[t]]
    /\ pc[t] \in PointsToCur => at[t] = cur[lv[t]]
    /\ pc[t] \in {"r_recheck", "r_create"} => old[t] = at[t]
    /\ pc[t] \in {"r_drop", "r_free"} => at[t] < cur[lv[t]]
PointerInv == \A t \in Thread : Points(t)

(* A receiver that has published a new object is the only one to know it   *)
(* as long as it holds level_lock, so nobody holds its rcu_lock.           *)
FreshInv == \A t \in Thread : pc[t] = "r_relock" /\ old[t] # at[t] =>
    \A u \in Thread \ {t} : pc[u] \in Derefs => I(u) # I(t)

(* One DELETE at a time has unpublished the entry. *)
Unpublished == {"d_wait", "d_common", "d_free"}
DeleteInv == \A t \in Thread : pc[t] \in Unpublished =>
    tags = "null" /\ \A u \in Thread : pc[u] \in Unpublished => u = t

(* The levels' objects are allocated until DELETE frees them, and so is    *)
(* every object whose rcu_lock somebody holds; what free_level is called   *)
(* on nobody holds or can come to hold.                                    *)
AllocInv ==
    /\ \A l \in Level : \/ alloc[<<l, cur[l]>>] = "live"
                        \/ tags = "null" /\ \A t \in Thread : pc[t] \notin Unpublished
    /\ \A i \in Inst, t \in Thread : RcuReader(t, i) => alloc[i] = "live"
    /\ \A t \in Thread, u \in Thread : pc[t] = "r_free" => ~RcuReader(u, I(t))

Enlistees(i) == {t \in Thread : pc[t] \in Enlisted /\ I(t) = i}
LevelCount == \A i \in Inst : waiting[i] = Cardinality(Enlistees(i))

(* What is posted: a message that is there is whole, and lies in an object *)
(* that exists; what a receive must not deliver is still there.            *)
MessageInv ==
    /\ \A i \in Inst : size[i] = 1 => ready[i] = 1 /\ buf[i] = "whole"
    /\ \A i \in Inst : ready[i] = 1 => i[2] <= cur[i[1]]
    /\ \A i \in Inst, t \in Thread : i \in stale[t] => ready[i] = 1

(* A receiver that has joined an object found no message there. *)
JoinInv == \A t \in Thread :
    (pc[t] \in Joined \/ (pc[t] = "r_relock")) => I(t) \notin stale[t]

(* A level is given a new object only when the old one has a message for   *)
(* everyone who uses it, and that is not taken away while anyone does.     *)
SupersededInv == \A t \in Thread :
    /\ pc[t] \in HoldsRcuRead /\ at[t] < cur[lv[t]] => ready[I(t)] = 1
    /\ pc[t] = "r_create" => ready[I(t)] = 1 \/ \A u \in Thread : ~Uses(u, I(t))

(* Two senders never write the same object, and what a sender writes to    *)
(* holds no message.                                                       *)
SenderInv ==
    /\ \A i \in Inst, t \in Thread, u \in Thread :
         MutexHolder(t, i) /\ MutexHolder(u, i) => t = u
    /\ \A t \in Thread : pc[t] \in {"s_copy", "s_empty"} => ready[I(t)] = 0

(* AWAKE_ALL begins at the first level, and its callers are those that     *)
(* perform it.                                                             *)
Outside == {"idle", "a_set"} \cup Deleting
StartInv == \A t \in Thread :
    /\ pc[t] \in Outside => lv[t] = 0
    /\ pc[t] \in Awaking => "awake" \in Ops[t]

ObjectInv ==
    /\ TagInv /\ LevelLockInv /\ RcuInv /\ MutexInv
    /\ LevelExclusion /\ RcuExclusion /\ PointerInv /\ FreshInv /\ DeleteInv /\ AllocInv /\ LevelCount
UseInv ==
    /\ ObjectInv /\ MessageInv /\ JoinInv /\ SupersededInv /\ SenderInv
    /\ NoLostWakeup /\ StartInv
=============================================================================
