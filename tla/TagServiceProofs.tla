-------------------------- MODULE TagServiceProofs --------------------------
(* Theorems about TagService, for every set of threads, every number of    *)
(* levels and every bound on the epochs.                                   *)
EXTENDS TagInvariants, FiniteSetTheorems, TLAPS

-----------------------------------------------------------------------------
(* The lock operations keep a semaphore a semaphore. *)
LEMMA RwSemType ==
    ASSUME NEW T, NEW t \in T, NEW sem \in RwSemOf(T)
    PROVE  /\ DownRead(sem, t) \in RwSemOf(T) /\ UpRead(sem, t) \in RwSemOf(T)
           /\ DownWrite(sem, t) \in RwSemOf(T) /\ UpWrite(sem, t) \in RwSemOf(T)
           /\ Unlocked \in RwSemOf(T)
BY DEF RwSemOf, DownRead, UpRead, DownWrite, UpWrite, Unlocked

(* What the lock operations do to the two sets. *)
LEMMA RwSemEffect ==
    ASSUME NEW T, NEW t \in T, NEW sem \in RwSemOf(T)
    PROVE  /\ DownRead(sem, t).r = sem.r \cup {t} /\ DownRead(sem, t).w = sem.w
           /\ UpRead(sem, t).r = sem.r \ {t} /\ UpRead(sem, t).w = sem.w
           /\ DownWrite(sem, t).r = sem.r /\ DownWrite(sem, t).w = sem.w \cup {t}
           /\ UpWrite(sem, t).r = sem.r /\ UpWrite(sem, t).w = sem.w \ {t}
BY DEF RwSemOf, DownRead, UpRead, DownWrite, UpWrite

(* An object of a level is the pair of the level and an epoch. *)
LEMMA InstType ==
    ASSUME NEW l \in Level, NEW e \in Epoch
    PROVE  <<l, e>> \in Inst
BY DEF Inst

(* The first level and the first epoch exist. *)
LEMMA ZeroType == 0 \in Level /\ 0 \in Epoch
BY LevelsAssumption, EpochAssumption DEF Level, Epoch

(* The local pointer of a thread leads to an object of a level. *)
LEMMA IType ==
    ASSUME TypeOK, NEW t \in Thread
    PROVE  I(t) \in Inst
BY InstType DEF TypeOK, I

(* Every label a step goes to is a label. *)
LEMMA LabelTypes ==
    /\ {"r_level", "r_rcu", "r_ready", "r_lockw", "r_recheck", "r_create", "r_relock",
        "r_enlist", "r_check", "r_awoken", "r_sleep", "r_woken", "r_copy", "r_skip"} \subseteq PC
    /\ {"r_last", "r_trylock", "r_reset", "r_drop", "r_free", "r_dec", "r_dec_level",
        "r_dec_rcu", "r_clear", "r_clear_level", "r_clear_rcu"} \subseteq PC
    /\ {"s_level", "s_rcu", "s_lock", "s_check", "s_copy", "s_empty", "s_wake", "s_unlock"} \subseteq PC
    /\ {"a_set", "a_level", "a_rcu", "d_check", "d_wait", "d_common", "d_free"} \subseteq PC
    /\ {"v_level", "v_rcu", "v_line", "idle"} \subseteq PC
BY DEF PC, InTag, Receiving, TakesPart, LeavesAwake, Sending, Awaking, Deleting, Viewing

(* The initial state. *)
LEMMA InitType == Init => TypeOK
<1> SUFFICES ASSUME Init PROVE TypeOK
    OBVIOUS
<1>1. Unlocked \in RwSemOf(Thread)
    BY DEF Unlocked, RwSemOf
<1> QED
    BY <1>1, ZeroType, LabelTypes DEF Init, TypeOK

(* What the common steps do to the types of the variables they change. *)
LEMMA StepTypes ==
    ASSUME TypeOK, NEW t \in Thread
    PROVE  /\ \A p \in PC : Go(t, p) => pc' \in [Thread -> PC]
           /\ \A p \in PC, q \in PC : Wake(t, p, q) => pc' \in [Thread -> PC]
           /\ ReleaseTag(t) => tagLock' \in RwSemOf(Thread)
           /\ ReleaseLevel(t) => levelLock' \in [Level -> RwSemOf(Thread)]
           /\ ReleaseRcu(t) => rcu' \in [Inst -> RwSemOf(Thread)]
           /\ ReleaseRcuWrite(t) => rcu' \in [Inst -> RwSemOf(Thread)]
           /\ ReleaseTmp(t) => rcu' \in [Inst -> RwSemOf(Thread)]
           /\ Unlock(t) => mutex' \in [Inst -> SUBSET Thread]
           /\ AccessLevel(t) => /\ levelLock' \in [Level -> RwSemOf(Thread)]
                                /\ at' \in [Thread -> Epoch]
           /\ AccessRcu(t) => /\ levelLock' \in [Level -> RwSemOf(Thread)]
                              /\ rcu' \in [Inst -> RwSemOf(Thread)]
<1>1. I(t) \in Inst /\ <<lv[t], tmp[t]>> \in Inst /\ lv[t] \in Level
    BY IType, InstType DEF TypeOK
<1>2. /\ \A p \in PC : Go(t, p) => pc' \in [Thread -> PC]
      /\ \A p \in PC, q \in PC : Wake(t, p, q) => pc' \in [Thread -> PC]
    BY DEF TypeOK, Go, Wake
<1>3. /\ ReleaseTag(t) => tagLock' \in RwSemOf(Thread)
      /\ ReleaseLevel(t) => levelLock' \in [Level -> RwSemOf(Thread)]
    BY <1>1, RwSemType DEF TypeOK, ReleaseTag, ReleaseLevel
<1>4. /\ ReleaseRcu(t) => rcu' \in [Inst -> RwSemOf(Thread)]
      /\ ReleaseRcuWrite(t) => rcu' \in [Inst -> RwSemOf(Thread)]
      /\ ReleaseTmp(t) => rcu' \in [Inst -> RwSemOf(Thread)]
      /\ Unlock(t) => mutex' \in [Inst -> SUBSET Thread]
    <2>1. /\ UpRead(rcu[I(t)], t) \in RwSemOf(Thread)
          /\ UpWrite(rcu[I(t)], t) \in RwSemOf(Thread)
          /\ UpRead(rcu[<<lv[t], tmp[t]>>], t) \in RwSemOf(Thread)
        BY <1>1, RwSemType DEF TypeOK
    <2>2. /\ ReleaseRcu(t) => rcu' \in [Inst -> RwSemOf(Thread)]
          /\ ReleaseRcuWrite(t) => rcu' \in [Inst -> RwSemOf(Thread)]
        BY <1>1, <2>1 DEF TypeOK, ReleaseRcu, ReleaseRcuWrite
    <2>3. ReleaseTmp(t) => rcu' \in [Inst -> RwSemOf(Thread)]
        <3> DEFINE sem == <<lv[t], tmp[t]>>
        <3>1. ReleaseTmp(t) => rcu' = [rcu EXCEPT ![sem] = UpRead(@, t)]
            BY DEF ReleaseTmp
        <3>2. sem \in Inst /\ UpRead(rcu[sem], t) \in RwSemOf(Thread)
            BY <1>1, <2>1
        <3> HIDE DEF sem
        <3> QED
            BY <3>1, <3>2 DEF TypeOK
    <2>4. Unlock(t) => mutex' \in [Inst -> SUBSET Thread]
        BY <1>1 DEF TypeOK, Unlock
    <2> QED
        BY <2>2, <2>3, <2>4
<1>5. AccessLevel(t) => /\ levelLock' \in [Level -> RwSemOf(Thread)]
                        /\ at' \in [Thread -> Epoch]
    BY <1>1, RwSemType DEF TypeOK, AccessLevel
<1>6. AccessRcu(t) => /\ levelLock' \in [Level -> RwSemOf(Thread)]
                      /\ rcu' \in [Inst -> RwSemOf(Thread)]
    <2> SUFFICES ASSUME AccessRcu(t)
                 PROVE  /\ levelLock' \in [Level -> RwSemOf(Thread)]
                        /\ rcu' \in [Inst -> RwSemOf(Thread)]
        OBVIOUS
    <2>1. ReleaseLevel(t) /\ rcu' = [rcu EXCEPT ![I(t)] = DownRead(@, t)]
        BY DEF AccessRcu
    <2>2. DownRead(rcu[I(t)], t) \in RwSemOf(Thread)
        BY <1>1, RwSemType DEF TypeOK
    <2> QED
        BY <1>1, <1>3, <2>1, <2>2 DEF TypeOK
<1> QED
    BY <1>2, <1>3, <1>4, <1>5, <1>6

(* The locals keep their types when a call ends. *)
LEMMA ForgetType ==
    ASSUME TypeOK, NEW t \in Thread, Forget(t)
    PROVE  /\ lv' \in [Thread -> Level] /\ at' \in [Thread -> Epoch]
           /\ tmp' \in [Thread -> Epoch] /\ old' \in [Thread -> Epoch]
           /\ stale' \in [Thread -> SUBSET Inst]
BY ZeroType DEF TypeOK, Forget

(* The loop over the levels stays within them. *)
LEMMA NextLevelType ==
    ASSUME TypeOK, NEW t \in Thread, lv[t] + 1 < LEVELS, lv' = [lv EXCEPT ![t] = @ + 1]
    PROVE  lv' \in [Thread -> Level]
BY LevelsAssumption DEF TypeOK, Level

-----------------------------------------------------------------------------
(* Type correctness.                                                       *)

(* Every step keeps the types: one step of the proof per action. *)
LEMMA NextType ==
    ASSUME TypeOK, NEW t \in Thread, Call(t) \/ Refused(t) \/ Upset(t) \/ Progress(t)
    PROVE  TypeOK'
<1> USE LabelTypes, StepTypes, ForgetType, IType, RwSemType DEF At
<1>1. CASE ReceiveEnter(t)
    BY <1>1 DEF TypeOK, ReceiveEnter, tagVars, locks, object, locals, Enter, Settled
<1>2. CASE ReceiveLevel(t)
    BY <1>2 DEF TypeOK, ReceiveLevel, tagVars, locks, object, locals
<1>3. CASE ReceiveLevelIntr(t)
    BY <1>3 DEF TypeOK, ReceiveLevelIntr, tagVars, locks, object, locals, Return
<1>4. CASE ReceiveRcu(t)
    BY <1>4 DEF TypeOK, ReceiveRcu, tagVars, locks, object, locals
<1>5. CASE ReceiveRcuIntr(t)
    BY <1>5 DEF TypeOK, ReceiveRcuIntr, tagVars, locks, object, locals
<1>6. CASE ReceiveReady(t)
    BY <1>6 DEF TypeOK, ReceiveReady, tagVars, locks, object, locals
<1>7. CASE ReceiveLockLevel(t)
    BY <1>7 DEF TypeOK, ReceiveLockLevel, tagVars, locks, object, locals
<1>8. CASE ReceiveLockLevelIntr(t)
    BY <1>8 DEF TypeOK, ReceiveLockLevelIntr, tagVars, locks, object, locals
<1>9. CASE ReceiveRecheck(t)
    <2>1. /\ pc' \in [Thread -> PC] /\ rcu' \in [Inst -> RwSemOf(Thread)]
          /\ tmp' \in [Thread -> Epoch]
        <3>1. CASE ready[I(t)] = 1
            BY <1>9, <3>1 DEF TypeOK, ReceiveRecheck
        <3>2. CASE ready[I(t)] # 1
            <4>1. Go(t, "r_relock") /\ ReleaseTmp(t) /\ tmp' = [tmp EXCEPT ![t] = 0]
                BY <1>9, <3>2 DEF ReceiveRecheck
            <4> QED
                BY <4>1, ZeroType DEF TypeOK
        <3> QED
            BY <3>1, <3>2
    <2> QED
        BY <1>9, <2>1 DEF TypeOK, ReceiveRecheck, tagVars, object
<1>10. CASE ReceiveCreate(t)
    <2> DEFINE new == <<lv[t], at[t] + 1>>
               sem == <<lv[t], tmp[t]>>
    <2>1. lv[t] \in Level /\ at[t] + 1 \in Epoch /\ tmp[t] \in Epoch
        BY <1>10, EpochAssumption DEF TypeOK, ReceiveCreate, Epoch
    <2>2. new \in Inst /\ sem \in Inst
        BY <2>1, InstType
    <2>3. rcu' \in [Inst -> RwSemOf(Thread)]
        <3>1. /\ Unlocked \in RwSemOf(Thread)
              /\ \A x \in RwSemOf(Thread) : UpRead(x, t) \in RwSemOf(Thread)
            BY RwSemType, <2>2 DEF TypeOK
        <3>2. rcu' = [[rcu EXCEPT ![sem] = UpRead(@, t)] EXCEPT ![new] = Unlocked]
            BY <1>10 DEF ReceiveCreate
        <3> HIDE DEF new, sem
        <3> QED
            BY <2>2, <3>1, <3>2 DEF TypeOK
    <2>4. /\ alloc' \in [Inst -> {"none", "live", "freed"}]
          /\ ready' \in [Inst -> 0 .. 1] /\ size' \in [Inst -> 0 .. 1]
          /\ buf' \in [Inst -> {"torn", "whole"}]
          /\ waiting' \in [Inst -> Int]
          /\ mutex' \in [Inst -> SUBSET Thread]
        BY <1>10, <2>2 DEF TypeOK, ReceiveCreate
    <2>5. /\ cur' \in [Level -> Epoch] /\ at' \in [Thread -> Epoch]
          /\ tmp' \in [Thread -> Epoch] /\ pc' \in [Thread -> PC]
        BY <1>10, <2>1, ZeroType DEF TypeOK, ReceiveCreate
    <2>6. UNCHANGED <<tags, tagReady, tagWaiting, tagLock, levelLock, lv, old, stale, oops>>
        BY <1>10 DEF ReceiveCreate, tagVars
    <2> QED
        BY <2>3, <2>4, <2>5, <2>6 DEF TypeOK
<1>11. CASE ReceiveNoMemory(t)
    BY <1>11 DEF TypeOK, ReceiveNoMemory, tagVars, locks, object, locals
<1>12. CASE ReceiveRelock(t)
    BY <1>12, ZeroType DEF TypeOK, ReceiveRelock, tagVars, locks, object, locals
<1>13. CASE ReceiveRelockIntr(t)
    BY <1>13 DEF TypeOK, ReceiveRelockIntr, tagVars, locks, object, locals
<1>14. CASE ReceiveEnlist(t)
    BY <1>14 DEF TypeOK, ReceiveEnlist, tagVars, locks, object, locals
<1>15. CASE ReceiveCheck(t)
    BY <1>15 DEF TypeOK, ReceiveCheck, tagVars, locks, object, locals
<1>16. CASE ReceiveSignal(t)
    BY <1>16 DEF TypeOK, ReceiveSignal, tagVars, locks, object, locals
<1>17. CASE ReceiveWoken(t) \/ ReceiveLook(t)
    <2>1. UNCHANGED <<tagVars, locks, cur, object, locals, oops>>
        BY <1>17 DEF ReceiveWoken, ReceiveLook
    <2>2. \E p \in {"r_look", "r_copy", "r_skip"} : Go(t, p)
        BY <1>17 DEF ReceiveWoken, ReceiveLook
    <2>3. pc' \in [Thread -> PC]
        BY <2>2, StepTypes DEF PC, InTag, Receiving, TakesPart
    <2> QED
        BY <2>1, <2>3 DEF TypeOK, tagVars, locks, object, locals
<1>18. CASE ReceiveCopy(t)
    BY <1>18 DEF TypeOK, ReceiveCopy, tagVars, locks, object, locals
<1>19. CASE ReceiveLast(t)
    BY <1>19 DEF TypeOK, ReceiveLast, tagVars, locks, object, locals
<1>20. CASE ReceiveTrylock(t)
    <2>1. rcu' \in [Inst -> RwSemOf(Thread)]
        BY <1>20 DEF TypeOK, ReceiveTrylock
    <2>2. cur[lv[t]] \in Epoch
        BY DEF TypeOK
    <2>3. tmp' \in [Thread -> Epoch] /\ pc' \in [Thread -> PC]
        BY <1>20, <2>2 DEF TypeOK, ReceiveTrylock
    <2> QED
        BY <1>20, <2>1, <2>3 DEF TypeOK, ReceiveTrylock, tagVars, object
<1>21. CASE ReceiveReset(t)
    BY <1>21 DEF TypeOK, ReceiveReset, tagVars, locks, object, locals, Wipe
<1>22. CASE ReceiveDrop(t)
    BY <1>22, ZeroType DEF TypeOK, ReceiveDrop, tagVars, object
<1>23. CASE ReceiveFree(t)
    BY <1>23 DEF TypeOK, ReceiveFree, tagVars, locks, object, locals, Wipe
<1>24. CASE ReceiveEnd(t)
    BY <1>24 DEF TypeOK, ReceiveEnd, tagVars, locks, object, locals, ReceiveDec, ReceiveClear, Leave, Return
<1>25. CASE SendEnter(t)
    BY <1>25 DEF TypeOK, SendEnter, tagVars, locks, object, locals, Enter
<1>26. CASE SendLevel(t)
    BY <1>26 DEF TypeOK, SendLevel, tagVars, locks, object, locals
<1>27. CASE SendRcu(t)
    BY <1>27 DEF TypeOK, SendRcu, tagVars, locks, object, locals
<1>28. CASE SendIntr(t)
    BY <1>28 DEF TypeOK, SendIntr, tagVars, locks, object, locals, Return
<1>29. CASE SendLock(t)
    BY <1>29 DEF TypeOK, SendLock, tagVars, locks, object, locals
<1>30. CASE SendContended(t)
    BY <1>30 DEF TypeOK, SendContended, tagVars, locks, object, locals, Return
<1>31. CASE SendDiscard(t)
    BY <1>31 DEF TypeOK, SendDiscard, tagVars, locks, object, locals, Return
<1>32. CASE SendBegin(t)
    BY <1>32 DEF TypeOK, SendBegin, tagVars, locks, object, locals
<1>33. CASE SendFault(t)
    BY <1>33 DEF TypeOK, SendFault, tagVars, locks, object, locals
<1>34. CASE SendUnlock(t)
    BY <1>34 DEF TypeOK, SendUnlock, tagVars, locks, object, locals, Return
<1>35. CASE SendPost(t)
    <2>1. /\ buf' \in [Inst -> {"torn", "whole"}] /\ size' \in [Inst -> 0 .. 1]
          /\ ready' \in [Inst -> 0 .. 1]
        <3>1. /\ buf' = [buf EXCEPT ![I(t)] = "whole"] \/ buf' = buf
              /\ \E n \in 0 .. 1 : size' = [size EXCEPT ![I(t)] = n]
              /\ ready' = [ready EXCEPT ![I(t)] = 1]
            BY <1>35 DEF SendPost
        <3>2. buf' \in [Inst -> {"torn", "whole"}]
            BY <3>1 DEF TypeOK
        <3>3. size' \in [Inst -> 0 .. 1]
            BY <3>1 DEF TypeOK
        <3>4. ready' \in [Inst -> 0 .. 1]
            BY <3>1 DEF TypeOK
        <3> QED
            BY <3>2, <3>3, <3>4
    <2>2. mutex' \in [Inst -> SUBSET Thread] /\ pc' \in [Thread -> PC]
        BY <1>35 DEF SendPost
    <2> QED
        BY <1>35, <2>1, <2>2 DEF TypeOK, SendPost, tagVars, locals
<1>36. CASE SendWake(t)
    BY <1>36 DEF TypeOK, SendWake, tagVars, locks, object, locals
<1>37. CASE AwakeEnter(t)
    BY <1>37 DEF TypeOK, AwakeEnter, tagVars, locks, object, locals, Enter
<1>38. CASE AwakeSet(t)
    BY <1>38 DEF TypeOK, AwakeSet, tagVars, locks, object, locals
<1>39. CASE AwakeLevel(t)
    BY <1>39 DEF TypeOK, AwakeLevel, tagVars, locks, object, locals
<1>40. CASE AwakeRcu(t)
    BY <1>40, NextLevelType, ZeroType DEF TypeOK, AwakeRcu, tagVars, locks, object, locals, AwakeNext
<1>41. CASE AwakeIntr(t)
    BY <1>41 DEF TypeOK, AwakeIntr, tagVars, locks, object, locals, Return
<1>42. CASE DeleteTrylock(t)
    BY <1>42 DEF TypeOK, DeleteTrylock, tagVars, locks, object, locals
<1>43. CASE DeleteCheck(t)
    BY <1>43 DEF TypeOK, DeleteCheck, tagVars, locks, object, locals
<1>44. CASE DeleteWait(t)
    BY <1>44 DEF TypeOK, DeleteWait, tagVars, locks, object, locals
<1>45. CASE DeleteCommon(t)
    BY <1>45 DEF TypeOK, DeleteCommon, tagVars, locks, object, locals
<1>46. CASE DeleteFree(t)
    BY <1>46 DEF TypeOK, DeleteFree, tagVars, locks, object, locals
<1>47. CASE ViewEnter(t)
    BY <1>47 DEF TypeOK, ViewEnter, tagVars, locks, object, locals, Enter
<1>48. CASE ViewLevel(t)
    BY <1>48 DEF TypeOK, ViewLevel, tagVars, locks, object, locals
<1>49. CASE ViewRcu(t)
    BY <1>49 DEF TypeOK, ViewRcu, tagVars, locks, object, locals
<1>50. CASE ViewIntr(t)
    BY <1>50, NextLevelType DEF TypeOK, ViewIntr, tagVars, locks, object, locals, ViewNext, Return
<1>51. CASE ViewLine(t)
    BY <1>51, NextLevelType DEF TypeOK, ViewLine, tagVars, locks, object, locals, ViewNext, Return
<1>52. CASE Fault(t)
    BY <1>52 DEF TypeOK, Fault, tagVars, locks, object, locals
<1>53. CASE Refused(t)
    BY <1>53 DEF TypeOK, Refused, vars, tagVars, locks, object, locals
<1> QED
    BY <1>1, <1>2, <1>3, <1>4, <1>5, <1>6, <1>7, <1>8, <1>9, <1>10, <1>11, <1>12, <1>13, <1>14, <1>15, <1>16, <1>17, <1>18, <1>19, <1>20, <1>21, <1>22, <1>23, <1>24, <1>25, <1>26, <1>27, <1>28, <1>29, <1>30, <1>31, <1>32, <1>33, <1>34, <1>35, <1>36, <1>37, <1>38, <1>39, <1>40, <1>41, <1>42, <1>43, <1>44, <1>45, <1>46, <1>47, <1>48, <1>49, <1>50, <1>51, <1>52, <1>53 DEF Call, Upset, Progress

(* Every variable keeps its type, for every instance: no index runs past   *)
(* the levels, no epoch past the bound, no label is unknown.               *)
THEOREM TypeCorrect == Spec => []TypeOK
<1>1. TypeOK /\ [Next]_vars => TypeOK'
    <2> SUFFICES ASSUME TypeOK, [Next]_vars PROVE TypeOK'
        OBVIOUS
    <2>1. CASE Next
        BY <2>1, NextType DEF Next
    <2>2. CASE UNCHANGED vars
        BY <2>2 DEF TypeOK, vars, tagVars, locks, object, locals
    <2> QED
        BY <2>1, <2>2
<1> QED
    BY InitType, <1>1, PTL DEF Spec

-----------------------------------------------------------------------------
(* The users of the tag: tag_lock, the count of receivers, DELETE.         *)

(* What a change of label means for this invariant. *)
SameClass(p, q) ==
    /\ p \in InTag <=> q \in InTag
    /\ p \in TakesPart <=> q \in TakesPart
    /\ p = "d_check" <=> q = "d_check"

Others(t) == \A u \in Thread \ {t} : SameClass(pc[u], pc'[u])

(* The classes of the labels, as sets: who is inside and who is counted. *)
LEMMA LabelClasses ==
    /\ TakesPart \subseteq InTag /\ LeavesAwake \subseteq InTag
    /\ TakesPart \cap LeavesAwake = {}
    /\ {"s_level", "s_rcu", "s_lock", "s_check", "s_copy", "s_empty", "s_wake",
        "a_set", "a_level", "a_rcu", "v_level", "v_rcu", "v_line", "r_level"}
          \subseteq InTag \ TakesPart
    /\ {"idle", "s_unlock", "d_check", "d_wait", "d_common", "d_free"} \cap InTag = {}
BY DEF InTag, TakesPart, LeavesAwake, Receiving, Sending, Awaking, Viewing

(* The receivers counted are finitely many. *)
LEMMA CountedFinite == IsFiniteSet(Counted) /\ Cardinality(Counted) \in Nat
<1>1. IsFiniteSet(Counted)
    BY ThreadAssumption, FS_Subset DEF Counted
<1> QED
    BY <1>1, FS_CardinalityType

(* No user, no receiver counted. *)
LEMMA NobodyCounted ==
    ASSUME TagCount, Users = {}
    PROVE  tagWaiting = 0
<1>1. Counted = {}
    BY LabelClasses DEF Counted, Users
<1> QED
    BY <1>1, FS_EmptySet DEF TagCount

(* A step after which every thread is where it was, as far as the tag is   *)
(* concerned.                                                              *)
LEMMA Inside ==
    ASSUME TagInv, TypeOK', UNCHANGED <<tagWaiting, tagLock>>,
           tags' \in {tags, "entry"},
           \A u \in Thread : SameClass(pc[u], pc'[u])
    PROVE  TagInv'
<1>1. Users' = Users /\ Counted' = Counted
    BY DEF Users, Counted, SameClass
<1>2. {t \in Thread : pc'[t] = "d_check"} = {t \in Thread : pc[t] = "d_check"}
    BY DEF SameClass
<1>3. TagLockInv' /\ TagCount'
    BY <1>1, <1>2 DEF TagInv, TagLockInv, TagCount
<1>4. DeleteSafe'
    BY DEF TagInv, DeleteSafe, SameClass
<1> QED
    BY <1>3, <1>4 DEF TagInv

(* A user of the tag that is not counted gives tag_lock back. *)
LEMMA Exit ==
    ASSUME TagInv, TypeOK', UNCHANGED <<tags, tagWaiting>>,
           NEW t \in Thread, pc[t] \in InTag \ TakesPart,
           ReleaseTag(t), pc'[t] \in {"idle", "s_unlock"}, Others(t)
    PROVE  TagInv'
<1>1. pc'[t] \notin InTag /\ pc'[t] \notin TakesPart /\ pc'[t] # "d_check" /\ pc[t] # "d_check"
    BY LabelClasses
<1>2. Users' = Users \ {t} /\ Counted' = Counted
    BY <1>1 DEF Users, Counted, Others, SameClass
<1>3. {u \in Thread : pc'[u] = "d_check"} = {u \in Thread : pc[u] = "d_check"}
    BY <1>1 DEF Others, SameClass
<1>4. tagLock'.r = tagLock.r \ {t} /\ tagLock'.w = tagLock.w
    BY RwSemEffect DEF ReleaseTag, TagInv, TypeOK
<1>5. TagLockInv' /\ TagCount'
    BY <1>2, <1>3, <1>4 DEF TagInv, TagLockInv, TagCount
<1>6. DeleteSafe'
    BY <1>1 DEF TagInv, DeleteSafe, Others, SameClass
<1> QED
    BY <1>5, <1>6 DEF TagInv

(* A call takes tag_lock and finds the entry. *)
LEMMA Entry ==
    ASSUME TagInv, TypeOK', UNCHANGED <<tags, tagWaiting>>,
           NEW t \in Thread, NEW op, Enter(t, op),
           pc'[t] \in InTag \ TakesPart, Others(t)
    PROVE  TagInv'
<1>1. /\ pc'[t] # "d_check" /\ pc[t] # "d_check"
      /\ pc[t] \notin InTag /\ pc[t] \notin TakesPart
    BY LabelClasses DEF Enter, At
<1>2. Users' = Users \cup {t} /\ Counted' = Counted
    BY <1>1 DEF Users, Counted, Others, SameClass
<1>3. {u \in Thread : pc'[u] = "d_check"} = {u \in Thread : pc[u] = "d_check"}
    BY <1>1 DEF Others, SameClass
<1>4. tagLock'.r = tagLock.r \cup {t} /\ tagLock'.w = tagLock.w /\ tagLock.w = {}
    <2>1. tagLock' = DownRead(tagLock, t) /\ tagLock.w = {} /\ tagLock \in RwSemOf(Thread)
        BY DEF Enter, CanRead, TagInv, TypeOK
    <2> QED
        BY <2>1, RwSemEffect
<1>5. TagLockInv' /\ TagCount'
    BY <1>2, <1>3, <1>4 DEF TagInv, TagLockInv, TagCount
<1>6. DeleteSafe'
    BY DEF Enter, DeleteSafe
<1> QED
    BY <1>5, <1>6 DEF TagInv

(* atomic_inc of the tag's counter, and the decrement. *)
LEMMA CountUp ==
    ASSUME TagInv, TypeOK', UNCHANGED <<tags, tagLock>>,
           NEW t \in Thread, pc[t] \in InTag \ TakesPart, pc'[t] \in TakesPart,
           tagWaiting' = tagWaiting + 1, Others(t)
    PROVE  TagInv'
<1>1. /\ pc'[t] # "d_check" /\ pc[t] # "d_check" /\ pc'[t] \in InTag
    BY LabelClasses
<1>2. Users' = Users /\ Counted' = Counted \cup {t} /\ t \notin Counted
    BY <1>1 DEF Users, Counted, Others, SameClass
<1>3. {u \in Thread : pc'[u] = "d_check"} = {u \in Thread : pc[u] = "d_check"}
    BY <1>1 DEF Others, SameClass
<1>4. Cardinality(Counted') = Cardinality(Counted) + 1
    BY <1>2, CountedFinite, FS_AddElement
<1>5. TagLockInv' /\ TagCount'
    BY <1>2, <1>3, <1>4 DEF TagInv, TagLockInv, TagCount
<1>6. DeleteSafe'
    BY <1>1 DEF TagInv, DeleteSafe
<1> QED
    BY <1>5, <1>6 DEF TagInv

(* A receiver that leaves is counted out. *)
LEMMA CountDown ==
    ASSUME TagInv, TypeOK', UNCHANGED tags,
           NEW t \in Thread, pc[t] \in TakesPart, tagWaiting' = tagWaiting - 1, Others(t),
           \/ pc'[t] \in LeavesAwake /\ UNCHANGED tagLock
           \/ pc'[t] = "idle" /\ ReleaseTag(t)
    PROVE  TagInv'
<1>1. /\ pc'[t] # "d_check" /\ pc[t] # "d_check" /\ pc[t] \in InTag
      /\ pc'[t] \notin TakesPart
      /\ pc'[t] \in LeavesAwake => pc'[t] \in InTag
      /\ pc'[t] = "idle" => pc'[t] \notin InTag
    BY LabelClasses
<1>2. Counted' = Counted \ {t} /\ t \in Counted
    BY <1>1 DEF Counted, Others, SameClass
<1>3. {u \in Thread : pc'[u] = "d_check"} = {u \in Thread : pc[u] = "d_check"}
    BY <1>1 DEF Others, SameClass
<1>4. Cardinality(Counted') = Cardinality(Counted) - 1
    BY <1>2, CountedFinite, FS_RemoveElement
<1>5. TagLockInv'
    <2>1. CASE pc'[t] \in LeavesAwake /\ UNCHANGED tagLock
        <3>1. Users' = Users
            BY <1>1, <2>1 DEF Users, Others, SameClass
        <3> QED
            BY <1>3, <2>1, <3>1 DEF TagInv, TagLockInv
    <2>2. CASE pc'[t] = "idle" /\ ReleaseTag(t)
        <3>1. Users' = Users \ {t}
            BY <1>1, <2>2 DEF Users, Others, SameClass
        <3>2. tagLock'.r = tagLock.r \ {t} /\ tagLock'.w = tagLock.w
            BY <2>2, RwSemEffect DEF ReleaseTag, TagInv, TypeOK
        <3> QED
            BY <1>3, <3>1, <3>2 DEF TagInv, TagLockInv
    <2> QED
        BY <2>1, <2>2
<1>6. tags # "null"
    BY <1>1 DEF TagInv, DeleteSafe
<1> QED
    BY <1>4, <1>5, <1>6 DEF TagInv, TagCount, DeleteSafe

(* Labels before and after a step, seen by the other threads. *)
LEMMA GoOthers ==
    ASSUME TypeOK, NEW t \in Thread, NEW q, Go(t, q)
    PROVE  /\ pc'[t] = q /\ Others(t)
           /\ SameClass(pc[t], q) => \A u \in Thread : SameClass(pc[u], pc'[u])
BY DEF TypeOK, Go, Others, SameClass

(* A wake-up moves receivers only between labels of counted receivers. *)
LEMMA WakeOthers ==
    ASSUME TypeOK, NEW t \in Thread, NEW p \in {"r_check", "r_awoken"}, NEW q, Wake(t, p, q)
    PROVE  pc'[t] = q /\ Others(t)
<1>1. {"r_sleep", "r_check", "r_awoken"} \subseteq TakesPart
    BY DEF TakesPart
<1> QED
    BY <1>1, LabelClasses DEF TypeOK, Wake, Others, SameClass

(* The steps of a receiver that is counted, up to its decrement. *)
LEMMA CountedStep ==
    ASSUME TypeOK, NEW t \in Thread,
           \/ ReceiveRcu(t) \/ ReceiveRcuIntr(t) \/ ReceiveReady(t) \/ ReceiveLockLevel(t)
           \/ ReceiveLockLevelIntr(t) \/ ReceiveRecheck(t) \/ ReceiveCreate(t) \/ ReceiveNoMemory(t)
           \/ ReceiveRelock(t) \/ ReceiveRelockIntr(t) \/ ReceiveEnlist(t) \/ ReceiveCheck(t)
           \/ ReceiveSignal(t) \/ ReceiveWoken(t) \/ ReceiveLook(t) \/ ReceiveCopy(t) \/ ReceiveLast(t)
           \/ ReceiveTrylock(t) \/ ReceiveReset(t) \/ ReceiveDrop(t) \/ ReceiveFree(t)
    PROVE  /\ UNCHANGED <<tags, tagWaiting, tagLock>>
           /\ \E q \in TakesPart : pc[t] \in TakesPart /\ Go(t, q)
<1>1. CASE ReceiveRcu(t)
    BY <1>1 DEF ReceiveRcu, At, tagVars, locks, TakesPart
<1>2. CASE ReceiveRcuIntr(t)
    BY <1>2 DEF ReceiveRcuIntr, At, tagVars, locks, TakesPart
<1>3. CASE ReceiveReady(t)
    BY <1>3 DEF ReceiveReady, At, tagVars, locks, TakesPart
<1>4. CASE ReceiveLockLevel(t)
    BY <1>4 DEF ReceiveLockLevel, At, tagVars, locks, TakesPart
<1>5. CASE ReceiveLockLevelIntr(t)
    BY <1>5 DEF ReceiveLockLevelIntr, At, tagVars, locks, TakesPart
<1>6. CASE ReceiveRecheck(t)
    BY <1>6 DEF ReceiveRecheck, At, tagVars, locks, TakesPart
<1>7. CASE ReceiveCreate(t)
    BY <1>7 DEF ReceiveCreate, At, tagVars, locks, TakesPart
<1>8. CASE ReceiveNoMemory(t)
    BY <1>8 DEF ReceiveNoMemory, At, tagVars, locks, TakesPart
<1>9. CASE ReceiveRelock(t)
    BY <1>9 DEF ReceiveRelock, At, tagVars, locks, TakesPart
<1>10. CASE ReceiveRelockIntr(t)
    BY <1>10 DEF ReceiveRelockIntr, At, tagVars, locks, TakesPart
<1>11. CASE ReceiveEnlist(t)
    BY <1>11 DEF ReceiveEnlist, At, tagVars, locks, TakesPart
<1>12. CASE ReceiveCheck(t)
    BY <1>12 DEF ReceiveCheck, At, tagVars, locks, TakesPart
<1>13. CASE ReceiveSignal(t)
    BY <1>13 DEF ReceiveSignal, At, tagVars, locks, TakesPart
<1>14. CASE ReceiveWoken(t) \/ ReceiveLook(t)
    BY <1>14 DEF ReceiveWoken, ReceiveLook, At, tagVars, locks, TakesPart
<1>15. CASE ReceiveCopy(t)
    BY <1>15 DEF ReceiveCopy, At, tagVars, locks, TakesPart
<1>16. CASE ReceiveLast(t)
    BY <1>16 DEF ReceiveLast, At, tagVars, locks, TakesPart
<1>17. CASE ReceiveTrylock(t)
    BY <1>17 DEF ReceiveTrylock, At, tagVars, locks, TakesPart
<1>18. CASE ReceiveReset(t)
    BY <1>18 DEF ReceiveReset, At, tagVars, locks, TakesPart
<1>19. CASE ReceiveDrop(t)
    BY <1>19 DEF ReceiveDrop, At, tagVars, locks, TakesPart
<1>20. CASE ReceiveFree(t)
    BY <1>20 DEF ReceiveFree, At, tagVars, locks, TakesPart
<1> QED
    BY <1>1, <1>2, <1>3, <1>4, <1>5, <1>6, <1>7, <1>8, <1>9, <1>10, <1>11, <1>12, <1>13, <1>14, <1>15, <1>16, <1>17, <1>18, <1>19, <1>20

(* The steps of the other operations between their entry and their exit. *)
LEMMA InsideStep ==
    ASSUME TypeOK, NEW t \in Thread,
           \/ SendLevel(t) \/ SendRcu(t) \/ SendLock(t) \/ SendBegin(t)
           \/ SendPost(t) \/ AwakeSet(t) \/ AwakeLevel(t) \/ ViewLevel(t)
           \/ ViewRcu(t) \/ SendUnlock(t) \/ DeleteFree(t) \/ DeleteWait(t)
           \/ DeleteCommon(t)
    PROVE  /\ UNCHANGED <<tagWaiting, tagLock>> /\ tags' \in {tags, "entry"}
           /\ \E q \in PC : SameClass(pc[t], q) /\ Go(t, q)
<1> USE LabelClasses, LabelTypes
<1>1. CASE SendLevel(t)
    BY <1>1 DEF SendLevel, At, tagVars, locks, SameClass
<1>2. CASE SendRcu(t)
    BY <1>2 DEF SendRcu, At, tagVars, locks, SameClass
<1>3. CASE SendLock(t)
    BY <1>3 DEF SendLock, At, tagVars, locks, SameClass
<1>4. CASE SendBegin(t)
    BY <1>4 DEF SendBegin, At, tagVars, locks, SameClass
<1>5. CASE SendPost(t)
    BY <1>5 DEF SendPost, At, tagVars, locks, SameClass
<1>6. CASE AwakeSet(t)
    BY <1>6 DEF AwakeSet, At, tagVars, locks, SameClass
<1>7. CASE AwakeLevel(t)
    BY <1>7 DEF AwakeLevel, At, tagVars, locks, SameClass
<1>8. CASE ViewLevel(t)
    BY <1>8 DEF ViewLevel, At, tagVars, locks, SameClass
<1>9. CASE ViewRcu(t)
    BY <1>9 DEF ViewRcu, At, tagVars, locks, SameClass
<1>10. CASE SendUnlock(t)
    BY <1>10 DEF SendUnlock, At, tagVars, locks, SameClass, Return
<1>11. CASE DeleteFree(t)
    BY <1>11 DEF DeleteFree, At, tagVars, locks, SameClass
<1>12. CASE DeleteWait(t)
    BY <1>12 DEF DeleteWait, At, tagVars, locks, SameClass
<1>13. CASE DeleteCommon(t)
    BY <1>13 DEF DeleteCommon, At, tagVars, locks, SameClass
<1> QED
    BY <1>1, <1>2, <1>3, <1>4, <1>5, <1>6, <1>7, <1>8, <1>9, <1>10, <1>11, <1>12, <1>13

(* The returns of the operations that are not counted. *)
LEMMA ExitStep ==
    ASSUME TypeOK, NEW t \in Thread,
           \/ ReceiveLevelIntr(t) \/ SendIntr(t) \/ SendContended(t) \/ SendDiscard(t)
           \/ SendFault(t) \/ AwakeIntr(t)
           \/ SendWake(t) \/ \E q \in LeavesAwake : ReceiveClear(t, q)
    PROVE  /\ UNCHANGED <<tags, tagWaiting>> /\ pc[t] \in InTag \ TakesPart
           /\ ReleaseTag(t) /\ pc'[t] \in {"idle", "s_unlock"} /\ Others(t)
<1> USE LabelClasses, GoOthers
<1>1. CASE ReceiveLevelIntr(t)
    BY <1>1 DEF ReceiveLevelIntr, At, tagVars, locks, Return
<1>2. CASE SendIntr(t)
    BY <1>2 DEF SendIntr, At, tagVars, locks, Return
<1>3. CASE SendContended(t)
    BY <1>3 DEF SendContended, At, tagVars, locks, Return
<1>4. CASE SendDiscard(t)
    BY <1>4 DEF SendDiscard, At, tagVars, locks, Return
<1>5. CASE SendFault(t)
    BY <1>5 DEF SendFault, At, tagVars, locks, Return
<1>6. CASE AwakeIntr(t)
    BY <1>6 DEF AwakeIntr, At, tagVars, locks, Return
<1>7. CASE SendWake(t)
    BY <1>7, WakeOthers DEF SendWake, At, tagVars
<1>8. CASE \E q \in LeavesAwake : ReceiveClear(t, q)
    BY <1>8 DEF ReceiveClear, Leave, At, Return
<1> QED
    BY <1>1, <1>2, <1>3, <1>4, <1>5, <1>6, <1>7, <1>8

(* The inductive invariant holds initially. *)
LEMMA InitTag == Init => TagInv
<1> SUFFICES ASSUME Init PROVE TagInv
    OBVIOUS
<1>1. TypeOK
    BY InitType
<1>2. Users = {} /\ Counted = {}
    BY LabelClasses DEF Init, Users, Counted
<1>3. TagLockInv
    BY <1>2 DEF Init, TagLockInv, Unlocked
<1>4. TagCount
    BY <1>2, FS_EmptySet DEF Init, TagCount
<1> QED
    BY <1>1, <1>3, <1>4 DEF TagInv, Init, DeleteSafe

(* One step keeps the invariant: one step of the proof per kind of action. *)
LEMMA NextTag ==
    ASSUME TagInv, NEW t \in Thread, Call(t) \/ Refused(t) \/ Upset(t) \/ Progress(t)
    PROVE  TagInv'
<1>1. TypeOK /\ TypeOK'
    BY NextType DEF TagInv
<1>2. ASSUME \/ ReceiveRcu(t) \/ ReceiveRcuIntr(t) \/ ReceiveReady(t) \/ ReceiveLockLevel(t)
                \/ ReceiveLockLevelIntr(t) \/ ReceiveRecheck(t) \/ ReceiveCreate(t) \/ ReceiveNoMemory(t)
                \/ ReceiveRelock(t) \/ ReceiveRelockIntr(t) \/ ReceiveEnlist(t) \/ ReceiveCheck(t)
                \/ ReceiveSignal(t) \/ ReceiveWoken(t) \/ ReceiveLook(t) \/ ReceiveCopy(t) \/ ReceiveLast(t)
                \/ ReceiveTrylock(t) \/ ReceiveReset(t) \/ ReceiveDrop(t) \/ ReceiveFree(t)
      PROVE  TagInv'
    <2>1. /\ UNCHANGED <<tags, tagWaiting, tagLock>>
          /\ \E q \in TakesPart : pc[t] \in TakesPart /\ Go(t, q)
        BY <1>1, <1>2, CountedStep
    <2>2. \A p, q \in TakesPart : SameClass(p, q)
        BY LabelClasses DEF SameClass
    <2>3. \A u \in Thread : SameClass(pc[u], pc'[u])
        BY <1>1, <2>1, <2>2, GoOthers
    <2> QED
        BY <1>1, <2>1, <2>3, Inside
<1>3. ASSUME \/ SendLevel(t) \/ SendRcu(t) \/ SendLock(t) \/ SendBegin(t)
                \/ SendPost(t) \/ AwakeSet(t) \/ AwakeLevel(t) \/ ViewLevel(t)
                \/ ViewRcu(t) \/ SendUnlock(t) \/ DeleteFree(t) \/ DeleteWait(t)
                \/ DeleteCommon(t)
      PROVE  TagInv'
    <2>1. /\ UNCHANGED <<tagWaiting, tagLock>> /\ tags' \in {tags, "entry"}
          /\ \E q \in PC : SameClass(pc[t], q) /\ Go(t, q)
        BY <1>1, <1>3, InsideStep
    <2> QED
        BY <1>1, <2>1, GoOthers, Inside
<1>4. ASSUME \/ ReceiveLevelIntr(t) \/ SendIntr(t) \/ SendContended(t) \/ SendDiscard(t)
                \/ SendFault(t) \/ AwakeIntr(t)
             \/ SendWake(t) \/ \E q \in LeavesAwake : ReceiveClear(t, q)
      PROVE  TagInv'
    BY <1>1, <1>4, ExitStep, Exit
<1>5. CASE ReceiveEnter(t) \/ SendEnter(t) \/ AwakeEnter(t) \/ ViewEnter(t)
    <2>1. /\ UNCHANGED <<tags, tagWaiting>> /\ \E op : Enter(t, op)
          /\ \E q \in InTag \ TakesPart : Go(t, q)
        BY <1>5, LabelClasses DEF ReceiveEnter, SendEnter, AwakeEnter, ViewEnter, tagVars
    <2> QED
        BY <1>1, <2>1, GoOthers, Entry
<1>6. CASE ReceiveLevel(t)
    <2>1. /\ UNCHANGED <<tags, tagLock>> /\ tagWaiting' = tagWaiting + 1
          /\ pc[t] = "r_level" /\ Go(t, "r_rcu")
        BY <1>6 DEF ReceiveLevel, At
    <2>2. "r_rcu" \in TakesPart
        BY DEF TakesPart
    <2> QED
        BY <1>1, <2>1, <2>2, GoOthers, LabelClasses, CountUp
<1>7. ASSUME NEW p \in TakesPart, NEW q \in LeavesAwake, ReceiveDec(t, p, q)
      PROVE  TagInv'
    <2>1. UNCHANGED tags /\ tagWaiting' = tagWaiting - 1 /\ pc[t] \in TakesPart
        BY <1>7 DEF ReceiveDec, At
    <2>2. \/ Go(t, q) /\ UNCHANGED tagLock
          \/ Go(t, "idle") /\ ReleaseTag(t)
        BY <1>7 DEF ReceiveDec, Leave, Return, locks
    <2> QED
        BY <1>1, <2>1, <2>2, GoOthers, CountDown
<1>8. CASE ReceiveEnd(t)
    <2>1. /\ {"r_dec", "r_dec_level", "r_dec_rcu"} \subseteq TakesPart
          /\ {"r_clear", "r_clear_level", "r_clear_rcu"} \subseteq LeavesAwake
        BY DEF TakesPart, LeavesAwake
    <2> QED
        BY <1>4, <1>7, <1>8, <2>1 DEF ReceiveEnd
<1>9. CASE DeleteTrylock(t)
    <2>1. /\ tagLock' = DownWrite(tagLock, t) /\ tagLock.r = {} /\ tagLock.w = {}
          /\ pc[t] = "idle" /\ Go(t, "d_check") /\ UNCHANGED <<tags, tagWaiting>>
        BY <1>9 DEF DeleteTrylock, CanWrite, At, tagVars
    <2>2. tagLock'.r = {} /\ tagLock'.w = {t}
        <3>1. tagLock \in RwSemOf(Thread)
            BY <1>1 DEF TypeOK
        <3>2. tagLock'.r = tagLock.r /\ tagLock'.w = tagLock.w \cup {t}
            BY <2>1, <3>1, RwSemEffect
        <3> QED
            BY <2>1, <3>2
    <2>3. pc'[t] = "d_check" /\ Others(t)
        BY <1>1, <2>1, GoOthers
    <2>4. Users' = Users /\ Counted' = Counted
        BY <2>1, <2>3, LabelClasses DEF Users, Counted, Others, SameClass
    <2>5. {u \in Thread : pc'[u] = "d_check"} = {t}
        BY <2>1, <2>3 DEF TagInv, TagLockInv, Others, SameClass
    <2>6. TagLockInv' /\ TagCount'
        BY <2>1, <2>2, <2>4, <2>5 DEF TagInv, TagLockInv, TagCount
    <2>7. DeleteSafe'
        BY <2>1, <2>3, LabelClasses DEF TagInv, DeleteSafe, Others, SameClass
    <2> QED
        BY <1>1, <2>6, <2>7 DEF TagInv
<1>10. CASE DeleteCheck(t)
    <2>1. /\ tagLock' = UpWrite(tagLock, t) /\ pc[t] = "d_check" /\ UNCHANGED tagWaiting
          /\ \/ tags' = "null" /\ Go(t, "d_wait")
             \/ tags' = tags /\ Go(t, "idle")
        BY <1>10 DEF DeleteCheck, At
    <2>2. tagLock'.r = tagLock.r /\ tagLock'.w = tagLock.w \ {t}
        BY <1>1, <2>1, RwSemEffect DEF TypeOK
    <2>3. pc'[t] \in {"d_wait", "idle"} /\ Others(t)
        BY <1>1, <2>1, GoOthers
    <2>4. Users' = Users /\ Counted' = Counted
        BY <2>1, <2>3, LabelClasses DEF Users, Counted, Others, SameClass
    <2>5. {u \in Thread : pc'[u] = "d_check"} = {u \in Thread : pc[u] = "d_check"} \ {t}
        BY <2>3 DEF Others, SameClass
    <2>6. TagLockInv' /\ TagCount'
        BY <2>1, <2>2, <2>4, <2>5 DEF TagInv, TagLockInv, TagCount
    <2>7. Users = {}
        BY <2>1 DEF TagInv, TagLockInv
    <2>8. tagWaiting = 0
        BY <2>7, NobodyCounted DEF TagInv
    <2>9. DeleteSafe'
        BY <2>1, <2>4, <2>7, <2>8 DEF DeleteSafe, Users
    <2> QED
        BY <1>1, <2>6, <2>9 DEF TagInv
<1>11. CASE AwakeRcu(t)
    <2>1. /\ UNCHANGED <<tags, tagWaiting>> /\ pc[t] = "a_rcu"
          /\ \E q \in {"a_level", "idle"} :
               /\ Wake(t, "r_awoken", q) \/ Go(t, q)
               /\ q = "a_level" => UNCHANGED tagLock
               /\ q = "idle" => ReleaseTag(t)
        BY <1>11 DEF AwakeRcu, AwakeNext, At, tagVars
    <2>2. PICK q \in {"a_level", "idle"} :
               /\ pc'[t] = q /\ Others(t)
               /\ q = "a_level" => UNCHANGED tagLock
               /\ q = "idle" => ReleaseTag(t)
        BY <1>1, <2>1, GoOthers, WakeOthers
    <2>3. CASE q = "a_level"
        <3>1. SameClass(pc[t], pc'[t])
            BY <2>1, <2>2, <2>3, LabelClasses DEF SameClass
        <3> QED
            BY <1>1, <2>1, <2>2, <2>3, <3>1, Inside DEF Others
    <2>4. CASE q = "idle"
        BY <1>1, <2>1, <2>2, <2>4, LabelClasses, Exit
    <2> QED
        BY <2>3, <2>4
<1>12. CASE ViewIntr(t) \/ ViewLine(t)
    <2>1. /\ UNCHANGED <<tags, tagWaiting>> /\ pc[t] \in {"v_level", "v_rcu", "v_line"}
          /\ \/ Go(t, "v_level") /\ UNCHANGED tagLock
             \/ Go(t, "idle") /\ ReleaseTag(t)
        BY <1>12 DEF ViewIntr, ViewLine, ViewNext, Return, At, tagVars
    <2>2. CASE Go(t, "v_level") /\ UNCHANGED tagLock
        <3>1. SameClass(pc[t], "v_level")
            BY <2>1, LabelClasses DEF SameClass
        <3> QED
            BY <1>1, <2>1, <2>2, <3>1, GoOthers, Inside
    <2>3. CASE Go(t, "idle") /\ ReleaseTag(t)
        BY <1>1, <2>1, <2>3, LabelClasses, GoOthers, Exit
    <2> QED
        BY <2>1, <2>2, <2>3
<1>13. CASE Refused(t) \/ Fault(t)
    <2>1. UNCHANGED <<tags, tagWaiting, tagLock, pc>>
        BY <1>13 DEF Refused, Fault, vars, tagVars, locks
    <2> QED
        BY <1>1, <2>1, Inside DEF SameClass
<1> QED
    BY <1>2, <1>3, <1>4, <1>5, <1>6, <1>8, <1>9, <1>10, <1>11, <1>12, <1>13
    DEF Call, Upset, Progress

(* The inductive invariant holds in every state of the specification. *)
LEMMA TagInvariant == Spec => []TagInv
<1>1. TagInv /\ [Next]_vars => TagInv'
    <2> SUFFICES ASSUME TagInv, [Next]_vars PROVE TagInv'
        OBVIOUS
    <2>1. CASE Next
        BY <2>1, NextTag DEF Next
    <2>2. CASE UNCHANGED vars
        <3>1. UNCHANGED <<tags, tagWaiting, tagLock, pc>> /\ TypeOK'
            BY <2>2, NextType DEF TagInv, TypeOK, vars, tagVars, locks, object, locals
        <3> QED
            BY <3>1, Inside DEF SameClass
    <2> QED
        BY <2>1, <2>2
<1> QED
    BY InitTag, <1>1, PTL DEF Spec

(* DELETE never frees a tag that is in use: from the moment the entry is   *)
(* unpublished no thread is inside an operation on it and no receiver is   *)
(* counted, so its check on waiting cannot fail.                           *)
THEOREM DeleteIsSafe == Spec => []DeleteSafe
<1>1. TagInv => DeleteSafe
    BY DEF TagInv
<1> QED
    BY TagInvariant, <1>1, PTL

(* tag_entry->waiting is the number of receivers between their increment   *)
(* and their decrement, on every return path.                              *)
THEOREM TagWaitingExact == Spec => []TagCount
<1>1. TagInv => TagCount
    BY DEF TagInv
<1> QED
    BY TagInvariant, <1>1, PTL
=============================================================================
