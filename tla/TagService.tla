----------------------------- MODULE TagService -----------------------------
(***************************************************************************)
(* One tag service (a tag_t and its tag_level_t objects) used by a set of  *)
(* threads through tag_send, tag_receive, tag_ctl and the device's         *)
(* dev_read.  Every step of the model lies between two points at which     *)
(* another thread can interfere: a lock operation, an atomic counter, a    *)
(* flag read or written without a lock, or the sleep of a receiver.        *)
(*                                                                         *)
(* A tag_level_t is never moved, so an object is identified by its level   *)
(* and epoch; the pointer tag_entry->tag_level[l] is the epoch cur[l].     *)
(* A call that fails before it changes anything is the action Refused.     *)
(***************************************************************************)
EXTENDS Integers, FiniteSets, RwSem

CONSTANTS
    Thread,         \* threads that use the tag
    LEVELS,         \* number of levels of the tag (32 in the code)
    MAX_EPOCH,      \* bound: create_level fails (-ENOMEM) past this epoch
    Ops,            \* Ops[t]: the operations thread t performs
    Permitted,      \* threads for which CHECKPERM lets the call go on
    Interruptible   \* threads that may be sent a signal while they wait

ASSUME ThreadAssumption == IsFiniteSet(Thread)
ASSUME LevelsAssumption == LEVELS \in Nat \ {0}
ASSUME EpochAssumption == MAX_EPOCH \in Nat

Level == 0 .. (LEVELS - 1)
Epoch == 0 .. MAX_EPOCH
Inst == Level \X Epoch

VARIABLES
    tags,       \* tags[tag]: "entry" or "null"
    tagReady,   \* tag_entry->ready, an AWAKE_ALL is in force
    tagWaiting, \* tag_entry->waiting
    tagLock,    \* tag_lock[tag]
    levelLock,  \* tag_entry->level_lock[l]
    cur,        \* epoch of the object tag_entry->tag_level[l] points to
    alloc,      \* alloc[i]: the object is "none" yet, "live" or "freed"
    ready, size, buf, waiting, rcu, mutex, \* the fields of object i
    pc,         \* where each thread is
    lv,         \* local level (the loop index of AWAKE_ALL and dev_read)
    at,         \* local tag_level, as an epoch of level lv[t]
    tmp,        \* locals temp_sem and new_tag_level, as an epoch of level lv[t]
    old,        \* local old_level, as an epoch of level lv[t]
    stale,      \* history: messages whose send ended before t's receive began
    oops        \* threads stopped by a fault on freed memory

tagVars == <<tags, tagReady, tagWaiting>>
locks == <<tagLock, levelLock, rcu, mutex>>
object == <<alloc, ready, size, buf, waiting>>
locals == <<lv, at, tmp, old, stale>>
vars == <<tagVars, locks, cur, object, pc, locals, oops>>

(* The object behind the local pointer tag_level of t. *)
I(t) == <<lv[t], at[t]>>

(* Control points, grouped by what the thread holds. *)
TakesPart ==  \* receivers counted in tag_entry->waiting
    {"r_rcu", "r_ready", "r_lockw", "r_recheck", "r_create", "r_relock",
     "r_enlist", "r_check", "r_awoken", "r_sleep", "r_woken", "r_look",
     "r_copy", "r_skip", "r_last", "r_trylock", "r_reset", "r_drop", "r_free",
     "r_dec", "r_dec_level", "r_dec_rcu"}
Enlisted ==   \* receivers counted in tag_level->waiting
    {"r_check", "r_awoken", "r_sleep", "r_woken", "r_look", "r_copy",
     "r_skip", "r_last"}
LeavesAwake == {"r_clear", "r_clear_level", "r_clear_rcu"}
Arriving ==   \* receivers that are still looking for an object to join
    {"r_level", "r_rcu", "r_ready", "r_lockw", "r_recheck", "r_create",
     "r_relock"}
Joined ==     \* receivers that have, until they have dealt with the message
    {"r_enlist", "r_check", "r_awoken", "r_sleep", "r_woken", "r_look",
     "r_copy", "r_skip"}
Receiving == {"r_level"} \cup TakesPart \cup LeavesAwake
Sending == {"s_level", "s_rcu", "s_lock", "s_check", "s_copy", "s_empty",
            "s_wake"}
Awaking == {"a_set", "a_level", "a_rcu"}
Deleting == {"d_check", "d_wait", "d_common", "d_free"}
Viewing == {"v_level", "v_rcu", "v_line"}
InTag ==      \* holders of tag_lock[tag] in read mode
    Receiving \cup Sending \cup Awaking \cup Viewing
HoldsLevelRead == {"r_rcu", "r_dec_level", "r_clear_level", "s_rcu",
                   "a_rcu", "v_rcu"}
HoldsLevelWrite == {"r_recheck", "r_create", "r_relock"}
HoldsRcuRead ==   \* of I(t)
    {"r_ready", "r_enlist", "r_check", "r_awoken", "r_sleep", "r_woken",
     "r_look", "r_copy", "r_skip", "s_lock", "s_check", "s_copy", "s_empty", "s_wake",
     "v_line"}
HoldsTmpRead ==   \* of <<lv[t], tmp[t]>>
    {"r_lockw", "r_recheck", "r_create", "r_dec_rcu", "r_clear_rcu"}
HoldsRcuWrite == {"r_reset", "r_drop"}
HoldsMutex == {"s_check", "s_copy", "s_empty", "s_unlock"}
PC == {"idle", "s_unlock"} \cup InTag \cup Deleting

Init ==
    /\ tags = "entry" /\ tagReady = 0 /\ tagWaiting = 0
    /\ tagLock = Unlocked
    /\ levelLock = [l \in Level |-> Unlocked]
    /\ cur = [l \in Level |-> 0]
    /\ alloc = [i \in Inst |-> IF i[2] = 0 THEN "live" ELSE "none"]
    /\ ready = [i \in Inst |-> 0] /\ size = [i \in Inst |-> 0]
    /\ buf = [i \in Inst |-> "whole"] /\ waiting = [i \in Inst |-> 0]
    /\ rcu = [i \in Inst |-> Unlocked] /\ mutex = [i \in Inst |-> {}]
    /\ pc = [t \in Thread |-> "idle"]
    /\ lv = [t \in Thread |-> 0] /\ at = [t \in Thread |-> 0]
    /\ tmp = [t \in Thread |-> 0] /\ old = [t \in Thread |-> 0]
    /\ stale = [t \in Thread |-> {}]
    /\ oops = {}

-----------------------------------------------------------------------------
(* Steps common to the operations.                                         *)

At(t, p) == pc[t] = p /\ t \notin oops
Go(t, p) == pc' = [pc EXCEPT ![t] = p]

(* The call ends: the locals of t are gone.  A local that is not read any  *)
(* more is set to 0 elsewhere too, which merges states that do not differ. *)
Forget(t) ==
    /\ lv' = [lv EXCEPT ![t] = 0] /\ at' = [at EXCEPT ![t] = 0]
    /\ tmp' = [tmp EXCEPT ![t] = 0] /\ old' = [old EXCEPT ![t] = 0]
    /\ stale' = [stale EXCEPT ![t] = {}]
Return(t) == Go(t, "idle") /\ Forget(t)

ReleaseTag(t) == tagLock' = UpRead(tagLock, t)
ReleaseLevel(t) ==
    levelLock' = [levelLock EXCEPT ![lv[t]] = UpRead(@, t)]
ReleaseRcu(t) == rcu' = [rcu EXCEPT ![I(t)] = UpRead(@, t)]
Unlock(t) == mutex' = [mutex EXCEPT ![I(t)] = @ \ {t}]

(* A reader of level_lock[l] queues behind the writer that holds the lock  *)
(* and behind one that waits for it: only then can a signal send it away.  *)
LevelContended(l) ==
    \/ ~CanRead(levelLock[l])
    \/ \E u \in Thread : pc[u] = "r_lockw" /\ lv[u] = l

(* Mutant: wake_up in the place of wake_up_all. *)
WakeOne(t, p, q) ==
    LET asleep == {u \in Thread : pc[u] = "r_sleep" /\ I(u) = I(t)} IN
    \E w \in SUBSET asleep :
        /\ Cardinality(w) <= 1 /\ (w = {} => asleep = {})
        /\ pc' = [u \in Thread |-> IF u = t THEN q ELSE IF u \in w THEN p ELSE pc[u]]

(* t calls wake_up_all on the wait queue of its object, so that the        *)
(* sleepers look at their condition again, and goes on to label q.         *)
Wake(t, p, q) ==
    pc' = [u \in Thread |-> IF u = t THEN q
                            ELSE IF pc[u] = "r_sleep" /\ I(u) = I(t) THEN p
                            ELSE pc[u]]

(* Messages already posted by sends that have ended. *)
Settled ==
    {i \in Inst : ready[i] = 1 /\ ~ \E s \in Thread : pc[s] = "s_wake" /\ I(s) = i}

(* A call that returns an error, or 0, before it changes anything. *)
Refused(t) ==
    /\ At(t, "idle")
    /\ \/ tags = "null"
       \/ t \notin Permitted
       \/ t \in Interruptible /\ ~CanRead(tagLock)
       \/ Ops[t] \cap {"send", "awake"} # {} /\ tagWaiting = 0
       \/ "awake" \in Ops[t] /\ tagReady = 1
       \/ "delete" \in Ops[t] /\ ~CanWrite(tagLock)
    /\ UNCHANGED vars

(* tag_lock[tag] is taken in read mode, the entry exists and CHECKPERM lets *)
(* the caller in.                                                           *)
Enter(t, op) ==
    /\ At(t, "idle") /\ op \in Ops[t]
    /\ CanRead(tagLock) /\ tags = "entry"
    /\ tagLock' = DownRead(tagLock, t)

(* Mutant: the pointer is read without level_lock. *)
AccessLevelUnlocked(t) ==
    /\ at' = [at EXCEPT ![t] = cur[lv[t]]]
    /\ UNCHANGED levelLock

(* level_lock[l] is taken in read mode and the pointer to the level read. *)
AccessLevel(t) ==
    /\ CanRead(levelLock[lv[t]])
    /\ levelLock' = [levelLock EXCEPT ![lv[t]] = DownRead(@, t)]
    /\ at' = [at EXCEPT ![t] = cur[lv[t]]]

(* rcu_lock of the object is taken in read mode, level_lock given back. *)
AccessRcu(t) ==
    /\ CanRead(rcu[I(t)])
    /\ rcu' = [rcu EXCEPT ![I(t)] = DownRead(@, t)]
    /\ ReleaseLevel(t)

-----------------------------------------------------------------------------
(* tag_receive                                                             *)

ReceiveEnter(t) ==
    /\ Enter(t, "receive") /\ t \in Permitted
    /\ \E l \in Level : lv' = [lv EXCEPT ![t] = l]
    /\ stale' = [stale EXCEPT ![t] = Settled]
    /\ Go(t, "r_level")
    /\ UNCHANGED <<tagVars, levelLock, rcu, mutex, cur, object, at, tmp, old, oops>>

ReceiveLevel(t) ==
    /\ At(t, "r_level")
    /\ AccessLevel(t)
    /\ tagWaiting' = tagWaiting + 1
    /\ Go(t, "r_rcu")
    /\ UNCHANGED <<tags, tagReady, tagLock, rcu, mutex, cur, object, lv, tmp, old, stale, oops>>

ReceiveLevelIntr(t) ==
    /\ At(t, "r_level") /\ t \in Interruptible /\ LevelContended(lv[t])
    /\ ReleaseTag(t) /\ Return(t)
    /\ UNCHANGED <<tagVars, levelLock, rcu, mutex, cur, object, oops>>

ReceiveRcu(t) ==
    /\ At(t, "r_rcu")
    /\ AccessRcu(t)
    /\ Go(t, "r_ready")
    /\ UNCHANGED <<tagVars, tagLock, mutex, cur, object, locals, oops>>

(* Mutant: this early return forgets that the receiver was counted. *)
ReceiveRcuIntrUncounted(t) ==
    /\ At(t, "r_rcu") /\ t \in Interruptible /\ ~CanRead(rcu[I(t)])
    /\ ReleaseLevel(t) /\ ReleaseTag(t) /\ Return(t)
    /\ UNCHANGED <<tagVars, rcu, mutex, cur, object, oops>>

ReceiveRcuIntr(t) ==
    /\ At(t, "r_rcu") /\ t \in Interruptible /\ ~CanRead(rcu[I(t)])
    /\ Go(t, "r_dec_level")
    /\ UNCHANGED <<tagVars, locks, cur, object, locals, oops>>

(* Mutant: the receiver joins the level without looking at ready. *)
ReceiveReadyIgnored(t) ==
    /\ At(t, "r_ready") /\ Go(t, "r_enlist")
    /\ UNCHANGED <<tagVars, locks, cur, object, locals, oops>>

(* The first, unlocked look at tag_level->ready. *)
ReceiveReady(t) ==
    /\ At(t, "r_ready")
    /\ IF ready[I(t)] = 1
          THEN Go(t, "r_lockw") /\ tmp' = [tmp EXCEPT ![t] = at[t]]
          ELSE Go(t, "r_enlist") /\ UNCHANGED tmp
    /\ UNCHANGED <<tagVars, locks, cur, object, lv, at, old, stale, oops>>

(* level_lock[l] is taken in write mode and the pointer read again. *)
ReceiveLockLevel(t) ==
    /\ At(t, "r_lockw")
    /\ CanWrite(levelLock[lv[t]])
    /\ levelLock' = [levelLock EXCEPT ![lv[t]] = DownWrite(@, t)]
    /\ at' = [at EXCEPT ![t] = cur[lv[t]]]
    /\ old' = [old EXCEPT ![t] = cur[lv[t]]]
    /\ Go(t, "r_recheck")
    /\ UNCHANGED <<tagVars, tagLock, rcu, mutex, cur, object, lv, tmp, stale, oops>>

ReceiveLockLevelIntr(t) ==
    /\ At(t, "r_lockw") /\ t \in Interruptible /\ ~CanWrite(levelLock[lv[t]])
    /\ Go(t, "r_dec_rcu")
    /\ UNCHANGED <<tagVars, locks, cur, object, locals, oops>>

ReleaseTmp(t) == rcu' = [rcu EXCEPT ![<<lv[t], tmp[t]>>] = UpRead(@, t)]

(* The second look, now under level_lock. *)
ReceiveRecheck(t) ==
    /\ At(t, "r_recheck")
    /\ IF ready[I(t)] = 1
          THEN Go(t, "r_create") /\ UNCHANGED <<rcu, tmp>>
          ELSE Go(t, "r_relock") /\ ReleaseTmp(t) /\ tmp' = [tmp EXCEPT ![t] = 0]
    /\ UNCHANGED <<tagVars, tagLock, levelLock, mutex, cur, object, lv, at, old, stale, oops>>

(* create_level: a zeroed object with its locks free, published as the     *)
(* level's next epoch.                                                     *)
ReceiveCreate(t) ==
    LET new == <<lv[t], at[t] + 1>> IN
    /\ At(t, "r_create") /\ at[t] < MAX_EPOCH
    /\ alloc' = [alloc EXCEPT ![new] = "live"]
    /\ ready' = [ready EXCEPT ![new] = 0] /\ size' = [size EXCEPT ![new] = 0]
    /\ buf' = [buf EXCEPT ![new] = "whole"]
    /\ waiting' = [waiting EXCEPT ![new] = 0]
    /\ mutex' = [mutex EXCEPT ![new] = {}]
    /\ rcu' = [[rcu EXCEPT ![<<lv[t], tmp[t]>>] = UpRead(@, t)] EXCEPT ![new] = Unlocked]
    /\ cur' = [cur EXCEPT ![lv[t]] = at[t] + 1]
    /\ at' = [at EXCEPT ![t] = @ + 1]
    /\ tmp' = [tmp EXCEPT ![t] = 0]
    /\ Go(t, "r_relock")
    /\ UNCHANGED <<tagVars, tagLock, levelLock, lv, old, stale, oops>>

(* Mutant: the failed creation keeps level_lock. *)
ReceiveNoMemoryLocked(t) ==
    /\ At(t, "r_create")
    /\ Go(t, "r_dec_rcu")
    /\ UNCHANGED <<tagVars, locks, cur, object, locals, oops>>

ReceiveNoMemory(t) ==
    /\ At(t, "r_create")
    /\ levelLock' = [levelLock EXCEPT ![lv[t]] = UpWrite(@, t)]
    /\ Go(t, "r_dec_rcu")
    /\ UNCHANGED <<tagVars, tagLock, rcu, mutex, cur, object, locals, oops>>

(* rcu_lock of the level that is now current. *)
ReceiveRelock(t) ==
    /\ At(t, "r_relock")
    /\ CanRead(rcu[I(t)])
    /\ rcu' = [rcu EXCEPT ![I(t)] = DownRead(@, t)]
    /\ levelLock' = [levelLock EXCEPT ![lv[t]] = UpWrite(@, t)]
    /\ old' = [old EXCEPT ![t] = 0]
    /\ Go(t, "r_enlist")
    /\ UNCHANGED <<tagVars, tagLock, mutex, cur, object, lv, at, tmp, stale, oops>>

(* Mutant: the signal is taken although nobody holds the new rcu_lock. *)
ReceiveRelockIntrEarly(t) ==
    /\ At(t, "r_relock") /\ t \in Interruptible
    /\ cur' = [cur EXCEPT ![lv[t]] = old[t]]
    /\ levelLock' = [levelLock EXCEPT ![lv[t]] = UpWrite(@, t)]
    /\ Go(t, "r_dec")
    /\ UNCHANGED <<tagVars, tagLock, rcu, mutex, object, locals, oops>>

(* A signal while queueing for that lock: the pointer is put back. *)
ReceiveRelockIntr(t) ==
    /\ At(t, "r_relock") /\ t \in Interruptible /\ ~CanRead(rcu[I(t)])
    /\ cur' = [cur EXCEPT ![lv[t]] = old[t]]
    /\ levelLock' = [levelLock EXCEPT ![lv[t]] = UpWrite(@, t)]
    /\ Go(t, "r_dec")
    /\ UNCHANGED <<tagVars, tagLock, rcu, mutex, object, locals, oops>>

ReceiveEnlist(t) ==
    /\ At(t, "r_enlist")
    /\ waiting' = [waiting EXCEPT ![I(t)] = @ + 1]
    /\ Go(t, "r_check")
    /\ UNCHANGED <<tagVars, locks, cur, alloc, ready, size, buf, locals, oops>>

(* Mutant: the sleepers' condition leaves AWAKE_ALL out. *)
WakeConditionLevel(t) == ready[I(t)] = 1

WakeCondition(t) == ready[I(t)] = 1 \/ tagReady = 1

(* wait_event_interruptible queues the thread before it looks at the       *)
(* condition, so that no wake-up falls between the look and the sleep.     *)
ReceiveCheck(t) ==
    /\ At(t, "r_check") \/ At(t, "r_awoken")
    /\ IF WakeCondition(t) THEN Go(t, "r_woken") ELSE Go(t, "r_sleep")
    /\ UNCHANGED <<tagVars, locks, cur, object, locals, oops>>

(* A signal ends the wait; the condition, if it holds, goes first. *)
ReceiveSignal(t) ==
    /\ At(t, "r_sleep") /\ t \in Interruptible
    /\ IF WakeCondition(t) THEN Go(t, "r_woken") ELSE Go(t, "r_skip")
    /\ UNCHANGED <<tagVars, locks, cur, object, locals, oops>>

(* An AWAKE_ALL in force prevails over a message that is there too ... *)
ReceiveWoken(t) ==
    /\ At(t, "r_woken")
    /\ IF tagReady = 1 THEN Go(t, "r_skip") ELSE Go(t, "r_look")
    /\ UNCHANGED <<tagVars, locks, cur, object, locals, oops>>

(* ... for which the receiver looks afterwards. *)
ReceiveLook(t) ==
    /\ At(t, "r_look")
    /\ IF ready[I(t)] = 1 THEN Go(t, "r_copy") ELSE Go(t, "r_skip")
    /\ UNCHANGED <<tagVars, locks, cur, object, locals, oops>>

(* The message is copied to the user (or the copy fails), or skipped. *)
ReceiveCopy(t) ==
    /\ At(t, "r_copy") \/ At(t, "r_skip")
    /\ ReleaseRcu(t)
    /\ Go(t, "r_last")
    /\ UNCHANGED <<tagVars, tagLock, levelLock, mutex, cur, object, locals, oops>>

ReceiveLast(t) ==
    /\ At(t, "r_last")
    /\ waiting' = [waiting EXCEPT ![I(t)] = @ - 1]
    /\ IF waiting[I(t)] = 1 THEN Go(t, "r_trylock") ELSE Go(t, "r_dec")
    /\ UNCHANGED <<tagVars, locks, cur, alloc, ready, size, buf, locals, oops>>

(* Mutant: an object that is still the level's is dropped. *)
ReceiveTrylockDrops(t) ==
    /\ At(t, "r_trylock")
    /\ CanWrite(rcu[I(t)])
    /\ rcu' = [rcu EXCEPT ![I(t)] = DownWrite(@, t)]
    /\ IF cur[lv[t]] >= at[t]
          THEN Go(t, "r_drop") /\ tmp' = [tmp EXCEPT ![t] = cur[lv[t]]]
          ELSE Go(t, "r_reset") /\ UNCHANGED tmp
    /\ UNCHANGED <<tagVars, tagLock, levelLock, mutex, cur, object, lv, at, old, stale, oops>>

(* The loop on down_write_trylock ends, then the pointer is read without   *)
(* level_lock, into new_tag_level.  If t's object has been superseded that *)
(* is another one, whose epoch is looked at later; epochs never change.    *)
ReceiveTrylock(t) ==
    /\ At(t, "r_trylock")
    /\ CanWrite(rcu[I(t)])
    /\ rcu' = [rcu EXCEPT ![I(t)] = DownWrite(@, t)]
    /\ IF cur[lv[t]] > at[t]
          THEN Go(t, "r_drop") /\ tmp' = [tmp EXCEPT ![t] = cur[lv[t]]]
          ELSE Go(t, "r_reset") /\ UNCHANGED tmp
    /\ UNCHANGED <<tagVars, tagLock, levelLock, mutex, cur, object, lv, at, old, stale, oops>>

ReleaseRcuWrite(t) == rcu' = [rcu EXCEPT ![I(t)] = UpWrite(@, t)]

(* The message of object i is over. *)
Wipe(i) ==
    /\ ready' = [ready EXCEPT ![i] = 0] /\ size' = [size EXCEPT ![i] = 0]
    /\ stale' = [u \in Thread |-> stale[u] \ {i}]

(* ready and size are cleared; the memset that follows has length 0. *)
ReceiveReset(t) ==
    /\ At(t, "r_reset")
    /\ Wipe(I(t))
    /\ ReleaseRcuWrite(t)
    /\ Go(t, "r_dec")
    /\ UNCHANGED <<tagVars, tagLock, levelLock, mutex, cur, alloc, buf, waiting,
                   lv, at, tmp, old, oops>>

(* The epoch of *new_tag_level is greater. *)
ReceiveDrop(t) ==
    /\ At(t, "r_drop")
    /\ ReleaseRcuWrite(t)
    /\ tmp' = [tmp EXCEPT ![t] = 0]
    /\ Go(t, "r_free")
    /\ UNCHANGED <<tagVars, tagLock, levelLock, mutex, cur, object, lv, at, old, stale, oops>>

(* free_level; nothing reads the message of a freed object. *)
ReceiveFree(t) ==
    /\ At(t, "r_free")
    /\ alloc' = [alloc EXCEPT ![I(t)] = "freed"]
    /\ Wipe(I(t)) /\ buf' = [buf EXCEPT ![I(t)] = "whole"]
    /\ Go(t, "r_dec")
    /\ UNCHANGED <<tagVars, locks, cur, waiting, lv, at, tmp, old, oops>>

(* What the thread still holds when it leaves from label p. *)
Leave(t, p) ==
    /\ ReleaseTag(t) /\ Return(t)
    /\ IF p \in {"r_dec_level", "r_clear_level"} THEN ReleaseLevel(t) ELSE UNCHANGED levelLock
    /\ IF p \in {"r_dec_rcu", "r_clear_rcu"} THEN ReleaseTmp(t) ELSE UNCHANGED rcu
    /\ UNCHANGED mutex

(* atomic_dec_and_test(&tag_entry->waiting) ... *)
ReceiveDec(t, p, q) ==
    /\ At(t, p)
    /\ tagWaiting' = tagWaiting - 1
    /\ IF tagWaiting = 1
          THEN Go(t, q) /\ UNCHANGED <<locks, locals>>
          ELSE Leave(t, p)
    /\ UNCHANGED <<tags, tagReady, cur, object, oops>>

(* ... and, for the last receiver, tag_entry->ready = 0. *)
ReceiveClear(t, q) ==
    /\ At(t, q)
    /\ tagReady' = 0
    /\ Leave(t, q)
    /\ UNCHANGED <<tags, tagWaiting, cur, object, oops>>

ReceiveEnd(t) ==
    \/ ReceiveDec(t, "r_dec", "r_clear") \/ ReceiveClear(t, "r_clear")
    \/ ReceiveDec(t, "r_dec_level", "r_clear_level") \/ ReceiveClear(t, "r_clear_level")
    \/ ReceiveDec(t, "r_dec_rcu", "r_clear_rcu") \/ ReceiveClear(t, "r_clear_rcu")

-----------------------------------------------------------------------------
(* tag_send                                                                *)

SendEnter(t) ==
    /\ Enter(t, "send") /\ t \in Permitted /\ tagWaiting # 0
    /\ \E l \in Level : lv' = [lv EXCEPT ![t] = l]
    /\ Go(t, "s_level")
    /\ UNCHANGED <<tagVars, levelLock, rcu, mutex, cur, object, at, tmp, old, stale, oops>>

SendLevel(t) ==
    /\ At(t, "s_level")
    /\ AccessLevel(t)
    /\ Go(t, "s_rcu")
    /\ UNCHANGED <<tagVars, tagLock, rcu, mutex, cur, object, lv, tmp, old, stale, oops>>

SendRcu(t) ==
    /\ At(t, "s_rcu")
    /\ AccessRcu(t)
    /\ Go(t, "s_lock")
    /\ UNCHANGED <<tagVars, tagLock, mutex, cur, object, locals, oops>>

(* A signal while queueing for either lock. *)
SendIntr(t) ==
    /\ t \in Interruptible
    /\ \/ At(t, "s_level") /\ LevelContended(lv[t]) /\ UNCHANGED levelLock
       \/ At(t, "s_rcu") /\ ~CanRead(rcu[I(t)]) /\ ReleaseLevel(t)
    /\ ReleaseTag(t) /\ Return(t)
    /\ UNCHANGED <<tagVars, rcu, mutex, cur, object, oops>>

SendLock(t) ==
    /\ At(t, "s_lock") /\ mutex[I(t)] = {}
    /\ mutex' = [mutex EXCEPT ![I(t)] = {t}]
    /\ Go(t, "s_check")
    /\ UNCHANGED <<tagVars, tagLock, levelLock, rcu, cur, object, locals, oops>>

(* mutex_trylock fails: another sender is writing. *)
SendContended(t) ==
    /\ At(t, "s_lock") /\ mutex[I(t)] # {}
    /\ ReleaseRcu(t) /\ ReleaseTag(t) /\ Return(t)
    /\ UNCHANGED <<tagVars, levelLock, mutex, cur, object, oops>>

(* Mutant: the sender does not look whether a message is there. *)
CanPostOver(t) == waiting[I(t)] # 0

CanPost(t) == ready[I(t)] # 1 /\ waiting[I(t)] # 0

(* Mutant: the discarding return keeps rcu_lock. *)
SendDiscardHeld(t) ==
    /\ At(t, "s_check") /\ ~CanPost(t)
    /\ Unlock(t) /\ ReleaseTag(t) /\ Return(t)
    /\ UNCHANGED <<tagVars, levelLock, rcu, cur, object, oops>>

(* A message that waits to be read, or no receiver at the level. *)
SendDiscard(t) ==
    /\ At(t, "s_check") /\ ~CanPost(t)
    /\ Unlock(t) /\ ReleaseRcu(t) /\ ReleaseTag(t) /\ Return(t)
    /\ UNCHANGED <<tagVars, levelLock, cur, object, oops>>

(* copy_from_user begins to overwrite the buffer; a message of size 0 only *)
(* wakes the receivers.                                                    *)
SendBegin(t) ==
    /\ At(t, "s_check") /\ CanPost(t)
    /\ \/ Go(t, "s_copy") /\ buf' = [buf EXCEPT ![I(t)] = "torn"]
       \/ Go(t, "s_empty") /\ UNCHANGED buf
    /\ UNCHANGED <<tagVars, locks, cur, alloc, ready, size, waiting, locals, oops>>

(* copy_from_user fails: the mutex is given back last, when neither rcu    *)
(* nor tag_lock is held any more.                                          *)
SendFault(t) ==
    /\ At(t, "s_copy")
    /\ ReleaseRcu(t) /\ ReleaseTag(t)
    /\ Go(t, "s_unlock")
    /\ UNCHANGED <<tagVars, levelLock, mutex, cur, object, locals, oops>>

SendUnlock(t) ==
    /\ At(t, "s_unlock")
    /\ Unlock(t) /\ Return(t)
    /\ UNCHANGED <<tagVars, tagLock, levelLock, rcu, cur, object, oops>>

SendPost(t) ==
    /\ \/ At(t, "s_copy") /\ buf' = [buf EXCEPT ![I(t)] = "whole"]
                          /\ size' = [size EXCEPT ![I(t)] = 1]
       \/ At(t, "s_empty") /\ UNCHANGED buf
                           /\ size' = [size EXCEPT ![I(t)] = 0]
    /\ ready' = [ready EXCEPT ![I(t)] = 1]
    /\ Unlock(t)
    /\ Go(t, "s_wake")
    /\ UNCHANGED <<tagVars, tagLock, levelLock, rcu, cur, alloc, waiting, locals, oops>>

SendWake(t) ==
    /\ At(t, "s_wake")
    /\ Wake(t, "r_check", "idle") /\ Forget(t)
    /\ ReleaseRcu(t) /\ ReleaseTag(t)
    /\ UNCHANGED <<tagVars, levelLock, mutex, cur, object, oops>>

-----------------------------------------------------------------------------
(* tag_ctl, AWAKE_ALL                                                      *)

AwakeEnter(t) ==
    /\ Enter(t, "awake") /\ t \in Permitted /\ tagReady # 1 /\ tagWaiting # 0
    /\ Go(t, "a_set")
    /\ UNCHANGED <<tagVars, levelLock, rcu, mutex, cur, object, locals, oops>>

AwakeSet(t) ==
    /\ At(t, "a_set")
    /\ tagReady' = 1
    /\ Go(t, "a_level")
    /\ UNCHANGED <<tags, tagWaiting, locks, cur, object, locals, oops>>

AwakeLevel(t) ==
    /\ At(t, "a_level")
    /\ AccessLevel(t)
    /\ Go(t, "a_rcu")
    /\ UNCHANGED <<tagVars, tagLock, rcu, mutex, cur, object, lv, tmp, old, stale, oops>>

(* Mutant: i <= LEVELS ends the loop one level too late. *)
AwakeNextPast(t) == IF lv[t] < LEVELS THEN "a_level" ELSE "idle"

(* for(i = 0; i < LEVELS; i++) *)
AwakeNext(t) == IF lv[t] + 1 < LEVELS THEN "a_level" ELSE "idle"

(* rcu_lock is taken, the sleepers woken if there are any, both locks given *)
(* back, and the loop goes to the next level or ends.                       *)
AwakeRcu(t) ==
    /\ At(t, "a_rcu")
    /\ CanRead(rcu[I(t)])
    /\ ReleaseLevel(t)
    /\ LET next == AwakeNext(t) IN
        /\ IF waiting[I(t)] > 0 THEN Wake(t, "r_awoken", next) ELSE Go(t, next)
        /\ IF next = "a_level"
             THEN lv' = [lv EXCEPT ![t] = @ + 1] /\ UNCHANGED <<tagLock, at, tmp, old, stale>>
             ELSE ReleaseTag(t) /\ Forget(t)
    /\ UNCHANGED <<tagVars, rcu, mutex, cur, object, oops>>

(* A signal while queueing for either lock: the loop is abandoned. *)
AwakeIntr(t) ==
    /\ t \in Interruptible
    /\ \/ At(t, "a_level") /\ LevelContended(lv[t]) /\ UNCHANGED levelLock
       \/ At(t, "a_rcu") /\ ~CanRead(rcu[I(t)]) /\ ReleaseLevel(t)
    /\ ReleaseTag(t) /\ Return(t)
    /\ UNCHANGED <<tagVars, rcu, mutex, cur, object, oops>>

-----------------------------------------------------------------------------
(* tag_ctl, DELETE                                                         *)

(* Mutant: DELETE does not wait for the users of the tag to leave. *)
DeleteTrylockShared(t) ==
    /\ At(t, "idle") /\ "delete" \in Ops[t]
    /\ CanRead(tagLock)
    /\ tagLock' = DownWrite(tagLock, t)
    /\ Go(t, "d_check")
    /\ UNCHANGED <<tagVars, levelLock, rcu, mutex, cur, object, locals, oops>>

DeleteTrylock(t) ==
    /\ At(t, "idle") /\ "delete" \in Ops[t]
    /\ CanWrite(tagLock)
    /\ tagLock' = DownWrite(tagLock, t)
    /\ Go(t, "d_check")
    /\ UNCHANGED <<tagVars, levelLock, rcu, mutex, cur, object, locals, oops>>

DeleteCheck(t) ==
    /\ At(t, "d_check")
    /\ tagLock' = UpWrite(tagLock, t)
    /\ IF tags = "entry" /\ t \in Permitted
          THEN tags' = "null" /\ Go(t, "d_wait") ELSE Go(t, "idle") /\ UNCHANGED tags
    /\ UNCHANGED <<tagReady, tagWaiting, levelLock, rcu, mutex, cur, object, locals, oops>>

(* The entry is put back if a receiver is still counted. *)
DeleteWait(t) ==
    /\ At(t, "d_wait")
    /\ IF tagWaiting # 0
          THEN tags' = "entry" /\ Go(t, "idle") ELSE Go(t, "d_common") /\ UNCHANGED tags
    /\ UNCHANGED <<tagReady, tagWaiting, locks, cur, object, locals, oops>>

(* clear_tag_common succeeds, or is killed while it queues for common_lock *)
(* and the entry is put back.                                              *)
DeleteCommon(t) ==
    /\ At(t, "d_common")
    /\ \/ Go(t, "d_free") /\ UNCHANGED tags
       \/ t \in Interruptible /\ tags' = "entry" /\ Go(t, "idle")
    /\ UNCHANGED <<tagReady, tagWaiting, locks, cur, object, locals, oops>>

(* clear_tag_level frees the objects the pointers lead to. *)
DeleteFree(t) ==
    /\ At(t, "d_free")
    /\ alloc' = [i \in Inst |-> IF cur[i[1]] = i[2] THEN "freed" ELSE alloc[i]]
    /\ Go(t, "idle")
    /\ UNCHANGED <<tagVars, locks, cur, ready, size, buf, waiting, locals, oops>>

-----------------------------------------------------------------------------
(* dev_read, for this tag                                                  *)

ViewEnter(t) ==
    /\ Enter(t, "view")
    /\ Go(t, "v_level")
    /\ UNCHANGED <<tagVars, levelLock, rcu, mutex, cur, object, locals, oops>>

(* The loop goes to the next level, or leaves the tag. *)
ViewNext(t) ==
    \/ /\ lv[t] + 1 < LEVELS
       /\ Go(t, "v_level") /\ lv' = [lv EXCEPT ![t] = @ + 1]
       /\ UNCHANGED <<tagLock, at, tmp, old, stale>>
    \/ /\ lv[t] + 1 = LEVELS
       /\ ReleaseTag(t) /\ Return(t)

ViewLevel(t) ==
    /\ At(t, "v_level")
    /\ AccessLevel(t)
    /\ Go(t, "v_rcu")
    /\ UNCHANGED <<tagVars, tagLock, rcu, mutex, cur, object, lv, tmp, old, stale, oops>>

ViewRcu(t) ==
    /\ At(t, "v_rcu")
    /\ AccessRcu(t)
    /\ Go(t, "v_line")
    /\ UNCHANGED <<tagVars, tagLock, mutex, cur, object, locals, oops>>

(* A signal while queueing for either lock: the level is left out. *)
ViewIntr(t) ==
    /\ t \in Interruptible
    /\ \/ At(t, "v_level") /\ LevelContended(lv[t]) /\ UNCHANGED levelLock
       \/ At(t, "v_rcu") /\ ~CanRead(rcu[I(t)]) /\ ReleaseLevel(t)
    /\ ViewNext(t)
    /\ UNCHANGED <<tagVars, rcu, mutex, cur, object, oops>>

(* The line of the level is appended; the loop stops early when enough     *)
(* bytes are there or the buffer cannot grow.                              *)
ViewLine(t) ==
    /\ At(t, "v_line")
    /\ ReleaseRcu(t)
    /\ ViewNext(t) \/ (ReleaseTag(t) /\ Return(t))
    /\ UNCHANGED <<tagVars, levelLock, mutex, cur, object, oops>>

-----------------------------------------------------------------------------
(* Labels at which the next step dereferences the object I(t). *)
Derefs ==
    {"r_rcu", "r_ready", "r_recheck", "r_create", "r_relock", "r_enlist",
     "r_check", "r_awoken", "r_sleep", "r_woken", "r_look", "r_copy", "r_skip",
     "r_last", "r_trylock", "r_reset", "r_drop", "r_free", "s_rcu", "s_lock",
     "s_check", "s_copy", "s_empty", "s_wake", "s_unlock", "a_rcu", "v_rcu",
     "v_line"}

(* The objects that t reads or writes in its next step. *)
Touched(t) ==
    {i \in {I(t)} : pc[t] \in Derefs} \cup {i \in {<<lv[t], tmp[t]>>} : pc[t] = "r_drop"}

(* What an access to a freed object does is undefined: the memory may      *)
(* still hold the old contents, and then t goes on, or the access faults   *)
(* and the kernel stops t where it is, with the locks it holds.            *)
Fault(t) ==
    /\ t \notin oops /\ \E i \in Touched(t) : alloc[i] = "freed"
    /\ oops' = oops \cup {t}
    /\ UNCHANGED <<tagVars, locks, cur, object, pc, locals>>

Call(t) == \/ ReceiveEnter(t) \/ SendEnter(t) \/ AwakeEnter(t)
           \/ DeleteTrylock(t) \/ ViewEnter(t)

(* What happens to t from outside: signals, failed allocations and copies. *)
Upset(t) == \/ ReceiveLevelIntr(t) \/ ReceiveRcuIntr(t) \/ ReceiveLockLevelIntr(t)
            \/ ReceiveNoMemory(t) \/ ReceiveRelockIntr(t) \/ ReceiveSignal(t)
            \/ SendIntr(t) \/ SendFault(t) \/ AwakeIntr(t) \/ ViewIntr(t)
            \/ Fault(t)

Progress(t) ==
    \/ ReceiveLevel(t) \/ ReceiveRcu(t) \/ ReceiveReady(t)
    \/ ReceiveLockLevel(t) \/ ReceiveRecheck(t) \/ ReceiveCreate(t)
    \/ ReceiveRelock(t) \/ ReceiveEnlist(t) \/ ReceiveCheck(t)
    \/ ReceiveWoken(t) \/ ReceiveLook(t) \/ ReceiveCopy(t) \/ ReceiveLast(t)
    \/ ReceiveTrylock(t) \/ ReceiveReset(t) \/ ReceiveDrop(t)
    \/ ReceiveFree(t) \/ ReceiveEnd(t)
    \/ SendLevel(t) \/ SendRcu(t) \/ SendLock(t) \/ SendContended(t)
    \/ SendDiscard(t) \/ SendBegin(t) \/ SendPost(t) \/ SendUnlock(t)
    \/ SendWake(t)
    \/ AwakeSet(t) \/ AwakeLevel(t) \/ AwakeRcu(t)
    \/ DeleteCheck(t) \/ DeleteWait(t) \/ DeleteCommon(t) \/ DeleteFree(t)
    \/ ViewLevel(t) \/ ViewRcu(t) \/ ViewLine(t)

Next == \E t \in Thread : Call(t) \/ Refused(t) \/ Upset(t) \/ Progress(t)

Spec == Init /\ [][Next]_vars

(* A thread that can go on is scheduled; calls, signals and failures are   *)
(* not forced to happen, so at the bound a creation may fail as well.      *)
FairSpec == Spec /\ \A t \in Thread : WF_vars(Progress(t) \/ ReceiveNoMemory(t))

-----------------------------------------------------------------------------
(* Properties                                                              *)

(* Every variable has its type; the counters are C ints. *)
TypeOK ==
    /\ tags \in {"null", "entry"} /\ tagReady \in 0 .. 1 /\ tagWaiting \in Int
    /\ tagLock \in RwSemOf(Thread)
    /\ levelLock \in [Level -> RwSemOf(Thread)]
    /\ cur \in [Level -> Epoch]
    /\ alloc \in [Inst -> {"none", "live", "freed"}]
    /\ ready \in [Inst -> 0 .. 1] /\ size \in [Inst -> 0 .. 1]
    /\ buf \in [Inst -> {"torn", "whole"}]
    /\ waiting \in [Inst -> Int]
    /\ rcu \in [Inst -> RwSemOf(Thread)] /\ mutex \in [Inst -> SUBSET Thread]
    /\ pc \in [Thread -> PC]
    /\ lv \in [Thread -> Level] /\ at \in [Thread -> Epoch]
    /\ tmp \in [Thread -> Epoch] /\ old \in [Thread -> Epoch]
    /\ stale \in [Thread -> SUBSET Inst]
    /\ oops \subseteq Thread

Counted == {t \in Thread : pc[t] \in TakesPart}
TagCount == tagWaiting = Cardinality(Counted)

(* The two counters count exactly: tag_entry->waiting the receivers between *)
(* their increment and their decrement on whatever path they left, and     *)
(* tag_level->waiting those enlisted on the object.                        *)
WaitingExact ==
    /\ TagCount
    /\ \A i \in Inst :
         waiting[i] = Cardinality({t \in Thread : pc[t] \in Enlisted /\ I(t) = i})

(* A thread that has returned to user space holds none of the four locks,  *)
(* whichever of the early returns it took.                                 *)
NoLockLeak ==
    \A t \in Thread : pc[t] = "idle" =>
        /\ t \notin tagLock.r \cup tagLock.w
        /\ \A l \in Level : t \notin levelLock[l].r \cup levelLock[l].w
        /\ \A i \in Inst : t \notin rcu[i].r \cup rcu[i].w \cup mutex[i]

(* Once DELETE has unpublished the entry no thread is using it and no      *)
(* receiver is counted: the check on waiting that follows never fails, and *)
(* the entry can be freed.                                                 *)
DeleteSafe ==
    tags = "null" => tagWaiting = 0 /\ \A t \in Thread : pc[t] \notin InTag

(* The locks do protect the object: a thread that follows a pointer read   *)
(* under level_lock, or holds the object's rcu_lock, finds it allocated,   *)
(* however many epochs were created and freed meanwhile.                   *)
ProtectedAccess ==
    \A t \in Thread :
        pc[t] \in Derefs \ {"r_last", "r_trylock", "r_reset", "r_drop", "r_free", "s_unlock"}
            => alloc[I(t)] = "live"

(* No message is read while a sender overwrites the buffer, and what a     *)
(* failed copy_from_user left there is never delivered.                    *)
NoTornRead ==
    \A t \in Thread : pc[t] = "r_copy" /\ size[I(t)] = 1 => buf[I(t)] = "whole"

(* A receive that began when a send had already returned does not get that *)
(* send's message: it waits for the next one, on a new epoch if need be.   *)
NoStaleDelivery ==
    \A t \in Thread : pc[t] = "r_copy" => I(t) \notin stale[t]

(* A receiver asleep on an object that holds a message is about to be      *)
(* woken by the sender that posted it.                                     *)
NoLostWakeup ==
    \A t \in Thread : pc[t] = "r_sleep" /\ ready[I(t)] = 1 =>
        \E s \in Thread : pc[s] = "s_wake" /\ I(s) = I(t)

(* No receiver sleeps, with no message, on an object that has been         *)
(* superseded: no later sender would find it there.                        *)
NoStranded ==
    \A t \in Thread : pc[t] = "r_sleep" /\ ready[I(t)] = 0 => at[t] = cur[lv[t]]

(* While AWAKE_ALL is in force, every sleeper will still be visited by a   *)
(* thread that is going through the levels.                                *)
AwakeReachesSleepers ==
    \A t \in Thread : tagReady = 1 /\ pc[t] = "r_sleep" =>
        \/ ready[I(t)] = 1
        \/ \E a \in Thread : pc[a] \in {"a_level", "a_rcu"} /\ lv[a] <= lv[t]

(* The pointer to a level never goes back to an older epoch, even through  *)
(* the assignment that undoes a publication when the wait for the new      *)
(* level's rcu_lock is interrupted.                                        *)
EpochMonotonic == [][\A l \in Level : cur'[l] >= cur[l]]_cur

(* "TAG_CTL is not requested to be a blocking service", and tag_send is    *)
(* not either.  Once calls stop arriving, every call returns, whatever     *)
(* path it takes and whatever signals come, except the receivers that      *)
(* sleep and those that spin (632) for the rcu_lock a sleeper holds: no    *)
(* lock is left taken and no wait closes a circle.  A thread stopped by a  *)
(* fault is not excepted: it would block others, but it takes three        *)
(* receivers, or a DELETE beside a sender's -EFAULT, and the run has two   *)
(* receivers and one thread for all other calls.                           *)
NoMoreCalls == <>[][\A t \in Thread : pc[t] = "idle" => pc'[t] = "idle"]_pc
SpinsBehindSleeper(t) ==
    pc[t] = "r_trylock" /\ \E u \in Thread : pc[u] = "r_sleep" /\ I(u) = I(t)
OnlySleepersBlock ==
    NoMoreCalls =>
        <>[](\A t \in Thread : pc[t] \in {"idle", "r_sleep"} \/ SpinsBehindSleeper(t))

(* Epochs, locks and counters together make the meeting that Rendezvous    *)
(* describes: every receiver of a round finds its message for as long as   *)
(* it takes, no message goes to a round that is over, and a new round      *)
(* leaves nobody behind in the old one.                                    *)
Members == [i \in Inst |-> {t \in Thread : pc[t] \in Joined /\ I(t) = i}]
Newcomers == {t \in Thread : pc[t] \in Arriving}
Past == [t \in Thread |-> IF pc[t] \in Arriving THEN stale[t] ELSE {}]
Posted == {i \in Inst : ready[i] = 1}
BeingSent == {i \in Inst : \E s \in Thread : pc[s] = "s_wake" /\ I(s) = i}
Getting == {t \in Thread : pc[t] = "r_copy"}
Meeting == INSTANCE Rendezvous WITH
    current <- cur, members <- Members, arriving <- Newcomers, past <- Past,
    posted <- Posted, sending <- BeingSent, got <- Getting
ImplementsMeeting == Meeting!Spec

-----------------------------------------------------------------------------
(* What comments and tests of the repository say, and the code does not do *)

(* "If the thread is the last one reading from the level" it may free it:  *)
(* no thread dereferences an object that has been freed.                   *)
NoUseAfterFree ==
    \A t \in Thread : \A i \in Touched(t) : alloc[i] # "freed"

(* tag_send returns 1 "on success, 0 on discarded message (no receiver     *)
(* waiting or occupied)": when it decides to post, a receiver is waiting   *)
(* for the message, not just on its way out.                               *)
PostsToWaiting ==
    [][\A s \in Thread : pc[s] = "s_check" /\ pc'[s] \in {"s_copy", "s_empty"} =>
        \E t \in Thread : pc[t] \in {"r_check", "r_awoken", "r_sleep"} /\ I(t) = I(s)]_pc

(* AWAKE_ALL returns "0 on discarded command (no receiver waiting or tag   *)
(* occupied)": while sleepers wait for a wake-up, the flag that makes the  *)
(* next AWAKE_ALL return 0 means that one is going on.                     *)
OccupiedMeansAwaking ==
    \A t \in Thread : tagReady = 1 /\ pc[t] = "r_sleep" /\ ready[I(t)] = 0 =>
        \E a \in Thread : pc[a] \in Awaking
=============================================================================
