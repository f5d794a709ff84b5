--------------------------- MODULE TagObjectProofs ---------------------------
(***************************************************************************)
(* The locks, pointers and objects of TagService: who holds which lock,    *)
(* that the locks do protect the objects, and that the counters count      *)
(* exactly, for every set of threads, number of levels and bound on        *)
(* epochs.                                                                 *)
(***************************************************************************)
EXTENDS TagServiceProofs

Step(t) == Call(t) \/ Refused(t) \/ Upset(t) \/ Progress(t)

-----------------------------------------------------------------------------
(* What a step leaves alone                                                *)

(* Another thread keeps its locals and its place, unless it is woken.      *)
Stays(u) ==
    /\ UNCHANGED <<lv[u], at[u], tmp[u], old[u]>>
    /\ pc'[u] = pc[u] \/ (pc[u] = "r_sleep" /\ pc'[u] \in {"r_check", "r_awoken"})

LEMMA Frame ==
    ASSUME TypeOK, NEW t \in Thread, Step(t), NEW u \in Thread \ {t}
    PROVE  Stays(u)
<1> USE DEF Stays, TypeOK
<1>1. /\ UNCHANGED locals \/ Forget(t) => UNCHANGED <<lv[u], at[u], tmp[u], old[u]>>
      /\ \A q : Go(t, q) \/ Wake(t, "r_check", q) \/ Wake(t, "r_awoken", q) =>
            pc'[u] = pc[u] \/ (pc[u] = "r_sleep" /\ pc'[u] \in {"r_check", "r_awoken"})
    BY DEF locals, Forget, Go, Wake
<1>2. CASE Call(t) \/ Refused(t) \/ Fault(t)
    BY <1>1, <1>2 DEF Call, Refused, Fault, vars, ReceiveEnter, SendEnter, AwakeEnter,
                      DeleteTrylock, ViewEnter, locals
<1>3. CASE \/ ReceiveLevel(t) \/ ReceiveRcu(t) \/ ReceiveReady(t) \/ ReceiveLockLevel(t)
           \/ ReceiveRecheck(t) \/ ReceiveCreate(t) \/ ReceiveRelock(t) \/ ReceiveEnlist(t)
           \/ ReceiveCheck(t)
    BY <1>1, <1>3 DEF ReceiveLevel, AccessLevel, ReceiveRcu, ReceiveReady, ReceiveLockLevel,
                      ReceiveRecheck, ReceiveCreate, ReceiveRelock, ReceiveEnlist, ReceiveCheck,
                      locals
<1>4. CASE \/ ReceiveWoken(t) \/ ReceiveLook(t) \/ ReceiveCopy(t) \/ ReceiveLast(t) \/ ReceiveTrylock(t)
           \/ ReceiveReset(t) \/ ReceiveDrop(t) \/ ReceiveFree(t) \/ ReceiveEnd(t)
    BY <1>1, <1>4 DEF ReceiveWoken, ReceiveLook, ReceiveCopy, ReceiveLast, ReceiveTrylock, ReceiveReset,
                      ReceiveDrop, ReceiveFree, ReceiveEnd, ReceiveDec, ReceiveClear, Leave,
                      Return, locals
<1>5. CASE \/ ReceiveLevelIntr(t) \/ ReceiveRcuIntr(t) \/ ReceiveLockLevelIntr(t)
           \/ ReceiveNoMemory(t) \/ ReceiveRelockIntr(t) \/ ReceiveSignal(t)
           \/ SendIntr(t) \/ SendFault(t) \/ AwakeIntr(t) \/ ViewIntr(t)
    BY <1>1, <1>5 DEF ReceiveLevelIntr, ReceiveRcuIntr, ReceiveLockLevelIntr, ReceiveNoMemory,
                      ReceiveRelockIntr, ReceiveSignal, SendIntr, SendFault, AwakeIntr, ViewIntr,
                      ViewNext, Return, locals
<1>6. CASE \/ SendLevel(t) \/ SendRcu(t) \/ SendLock(t) \/ SendContended(t) \/ SendDiscard(t)
           \/ SendBegin(t) \/ SendPost(t) \/ SendUnlock(t) \/ SendWake(t)
    BY <1>1, <1>6 DEF SendLevel, AccessLevel, SendRcu, SendLock, SendContended, SendDiscard,
                      SendBegin, SendPost, SendUnlock, SendWake, Return, locals
<1>7. CASE \/ AwakeSet(t) \/ AwakeLevel(t) \/ AwakeRcu(t) \/ DeleteCheck(t) \/ DeleteWait(t)
           \/ DeleteCommon(t) \/ DeleteFree(t) \/ ViewLevel(t) \/ ViewRcu(t) \/ ViewLine(t)
    BY <1>1, <1>7 DEF AwakeSet, AwakeLevel, AccessLevel, AwakeRcu, DeleteCheck, DeleteWait,
                      DeleteCommon, DeleteFree, ViewLevel, ViewRcu, ViewLine, ViewNext, Return,
                      locals
<1> QED
    BY <1>2, <1>3, <1>4, <1>5, <1>6, <1>7 DEF Step, Call, Upset, Progress

(* So it holds what it held, as far as the labels say.                     *)
LEMMA FrameLabels ==
    ASSUME NEW u \in Thread, Stays(u)
    PROVE  /\ I(u)' = I(u) /\ (pc[u] # "r_sleep" => pc'[u] = pc[u])
           /\ \A S \in {HoldsLevelRead, HoldsLevelWrite, HoldsRcuRead, HoldsTmpRead, HoldsRcuWrite,
                        HoldsMutex, Derefs, Enlisted, PointsToCur, Unpublished,
                        Joined, Arriving} :
                pc'[u] \in S <=> pc[u] \in S
BY DEF Stays, I, HoldsLevelRead, HoldsLevelWrite, HoldsRcuRead, HoldsTmpRead, HoldsRcuWrite,
       HoldsMutex, Derefs, Enlisted, PointsToCur, Unpublished, Joined, Arriving

-----------------------------------------------------------------------------
(* level_lock                                                              *)

(* What the operations on it do, thread by thread.                         *)
LevelDownWrite(t) == levelLock' = [levelLock EXCEPT ![lv[t]] = DownWrite(@, t)]
LevelUpWrite(t) == levelLock' = [levelLock EXCEPT ![lv[t]] = UpWrite(@, t)]

LEMMA LevelEffects ==
    ASSUME TypeOK, NEW t \in Thread
    PROVE  /\ ReleaseLevel(t) => \A l \in Level, u \in Thread :
                /\ u \in levelLock'[l].r <=> u \in levelLock[l].r /\ ~(u = t /\ l = lv[t])
                /\ u \in levelLock'[l].w <=> u \in levelLock[l].w
           /\ AccessLevel(t) => CanRead(levelLock[lv[t]]) /\ \A l \in Level, u \in Thread :
                /\ u \in levelLock'[l].r <=> u \in levelLock[l].r \/ (u = t /\ l = lv[t])
                /\ u \in levelLock'[l].w <=> u \in levelLock[l].w
           /\ LevelDownWrite(t) => \A l \in Level, u \in Thread :
                /\ u \in levelLock'[l].r <=> u \in levelLock[l].r
                /\ u \in levelLock'[l].w <=> u \in levelLock[l].w \/ (u = t /\ l = lv[t])
           /\ LevelUpWrite(t) => \A l \in Level, u \in Thread :
                /\ u \in levelLock'[l].r <=> u \in levelLock[l].r
                /\ u \in levelLock'[l].w <=> u \in levelLock[l].w /\ ~(u = t /\ l = lv[t])
<1>1. lv[t] \in Level /\ \A l \in Level : levelLock[l] \in RwSemOf(Thread)
    BY DEF TypeOK
<1>2. \A l \in Level :
        /\ DownRead(levelLock[l], t).r = levelLock[l].r \cup {t}
        /\ DownRead(levelLock[l], t).w = levelLock[l].w
        /\ UpRead(levelLock[l], t).r = levelLock[l].r \ {t}
        /\ UpRead(levelLock[l], t).w = levelLock[l].w
        /\ DownWrite(levelLock[l], t).r = levelLock[l].r
        /\ DownWrite(levelLock[l], t).w = levelLock[l].w \cup {t}
        /\ UpWrite(levelLock[l], t).r = levelLock[l].r
        /\ UpWrite(levelLock[l], t).w = levelLock[l].w \ {t}
    BY <1>1, RwSemEffect
<1> QED
    BY <1>1, <1>2 DEF TypeOK, ReleaseLevel, AccessLevel, LevelDownWrite, LevelUpWrite

(* What a step of t has to do to keep the lock and the labels together.    *)
LevelStep(t) == \A l \in Level :
    /\ \A u \in Thread \ {t} : /\ u \in levelLock'[l].r <=> u \in levelLock[l].r
                               /\ u \in levelLock'[l].w <=> u \in levelLock[l].w
    /\ t \in levelLock'[l].r <=> LevelReader(t, l)'
    /\ t \in levelLock'[l].w <=> LevelWriter(t, l)'
    /\ LevelReader(t, l)' => LevelReader(t, l) \/ CanRead(levelLock[l])
    /\ LevelWriter(t, l)' => LevelWriter(t, l) \/ CanWrite(levelLock[l])

LEMMA LevelStepHolds ==
    ASSUME TypeOK, LevelLockInv, NEW t \in Thread, Step(t)
    PROVE  LevelStep(t)
<1> USE LevelEffects DEF TypeOK, LevelLockInv, LevelStep, LevelReader, LevelWriter,
        HoldsLevelRead, HoldsLevelWrite, At, Go
<1>1. CASE Call(t) \/ Refused(t) \/ Fault(t)
    BY <1>1 DEF Call, Refused, Fault, vars, ReceiveEnter, SendEnter, AwakeEnter, DeleteTrylock,
        ViewEnter, Enter, locals, locks
<1>2. CASE \/ ReceiveLevel(t) \/ ReceiveRcu(t) \/ ReceiveReady(t) \/ ReceiveRecheck(t)
           \/ ReceiveCreate(t) \/ ReceiveEnlist(t) \/ ReceiveCheck(t)
    BY <1>2 DEF ReceiveLevel, ReceiveRcu, AccessRcu, ReceiveReady, ReceiveRecheck, ReceiveCreate,
        ReceiveEnlist, ReceiveCheck, locals, locks
<1>3. CASE \/ ReceiveWoken(t) \/ ReceiveLook(t) \/ ReceiveCopy(t) \/ ReceiveLast(t) \/ ReceiveTrylock(t)
           \/ ReceiveReset(t) \/ ReceiveDrop(t) \/ ReceiveFree(t) \/ ReceiveEnd(t)
    BY <1>3 DEF ReceiveWoken, ReceiveLook, ReceiveCopy, ReceiveLast, ReceiveTrylock, ReceiveReset, ReceiveDrop,
        ReceiveFree, ReceiveEnd, ReceiveDec, ReceiveClear, Leave, Return, Forget, locals, locks
<1>4. CASE \/ ReceiveLevelIntr(t) \/ ReceiveRcuIntr(t) \/ ReceiveLockLevelIntr(t)
           \/ ReceiveSignal(t) \/ SendIntr(t) \/ SendFault(t) \/ AwakeIntr(t)
    BY <1>4 DEF ReceiveLevelIntr, ReceiveRcuIntr, ReceiveLockLevelIntr, ReceiveSignal, SendIntr,
        SendFault, AwakeIntr, Return, Forget, locals, locks
<1>5. CASE ViewIntr(t)
    BY <1>5 DEF ViewIntr, ViewNext, Return, Forget
<1>6. CASE ReceiveLockLevel(t)
    <2>1. LevelDownWrite(t)
        BY <1>6 DEF ReceiveLockLevel, LevelDownWrite
    <2>2. /\ lv' = lv /\ pc[t] = "r_lockw" /\ pc' = [pc EXCEPT ![t] = "r_recheck"]
          /\ CanWrite(levelLock[lv[t]])
        BY <1>6 DEF ReceiveLockLevel
    <2>3. \A l \in Level : t \notin levelLock[l].r /\ t \notin levelLock[l].w
        BY <2>2
    <2>4. \A l \in Level, u \in Thread :
             /\ u \in levelLock'[l].r <=> u \in levelLock[l].r
             /\ u \in levelLock'[l].w <=> u \in levelLock[l].w \/ (u = t /\ l = lv[t])
        BY <2>1
    <2>5. pc'[t] = "r_recheck" /\ lv'[t] = lv[t]
        BY <2>2
    <2>6. \A l \in Level : LevelWriter(t, l)' => CanWrite(levelLock[l])
        BY <2>2, <2>5
    <2> QED
        BY <2>3, <2>4, <2>5, <2>6
<1>7. CASE ReceiveRelock(t) \/ ReceiveRelockIntr(t) \/ ReceiveNoMemory(t)
    <2>1. LevelUpWrite(t)
        BY <1>7 DEF ReceiveRelock, ReceiveRelockIntr, ReceiveNoMemory, LevelUpWrite
    <2> QED
        BY <1>7, <2>1 DEF ReceiveRelock, ReceiveRelockIntr, ReceiveNoMemory, locals
<1>8. CASE \/ SendLevel(t) \/ SendRcu(t) \/ SendLock(t) \/ SendContended(t) \/ SendDiscard(t)
           \/ SendBegin(t) \/ SendPost(t) \/ SendUnlock(t) \/ SendWake(t)
    BY <1>8 DEF SendLevel, SendRcu, AccessRcu, SendLock, SendContended, SendDiscard, SendBegin,
        SendPost, SendUnlock, SendWake, Wake, Return, Forget, locals, locks
<1>9. CASE \/ AwakeSet(t) \/ AwakeLevel(t) \/ AwakeRcu(t) \/ DeleteCheck(t) \/ DeleteWait(t)
           \/ DeleteCommon(t) \/ DeleteFree(t) \/ ViewLevel(t) \/ ViewRcu(t) \/ ViewLine(t)
    BY <1>9 DEF AwakeSet, AwakeLevel, AwakeRcu, AwakeNext, Wake, DeleteCheck, DeleteWait,
        DeleteCommon, DeleteFree, ViewLevel, ViewRcu, AccessRcu, ViewLine, ViewNext, Return,
        Forget, locals, locks
<1> QED
    BY <1>1, <1>2, <1>3, <1>4, <1>5, <1>6, <1>7, <1>8, <1>9 DEF Step, Call, Upset, Progress

LEMMA NextLevelLock ==
    ASSUME TypeOK, LevelLockInv, LevelExclusion, NEW t \in Thread, Step(t)
    PROVE  LevelLockInv' /\ LevelExclusion'
<1>1. \A u \in Thread \ {t}, l \in Level :
        /\ LevelReader(u, l)' <=> LevelReader(u, l)
        /\ LevelWriter(u, l)' <=> LevelWriter(u, l)
    BY Frame, FrameLabels DEF Stays, LevelReader, LevelWriter
<1>2. LevelStep(t)
    BY LevelStepHolds
<1>3. LevelLockInv'
    BY <1>1, <1>2 DEF LevelLockInv, LevelStep
<1>4. LevelExclusion'
    <2> SUFFICES ASSUME NEW l \in Level, NEW a \in Thread, NEW b \in Thread, LevelWriter(a, l)'
                 PROVE  ~LevelReader(b, l)' /\ (LevelWriter(b, l)' => b = a)
        BY DEF LevelExclusion
    <2>1. CASE a # t /\ b # t
        BY <1>1, <2>1 DEF LevelExclusion
    <2>2. CASE a = t
        <3>1. LevelWriter(t, l) \/ CanWrite(levelLock[l])
            BY <1>2, <2>2 DEF LevelStep
        <3>2. CASE b # t
            BY <1>1, <2>2, <3>1, <3>2 DEF LevelExclusion, LevelLockInv, CanWrite
        <3>3. CASE b = t
            BY <2>2, <3>3 DEF LevelReader, LevelWriter, HoldsLevelRead, HoldsLevelWrite
        <3> QED
            BY <3>2, <3>3
    <2>3. CASE a # t /\ b = t
        <3>1. LevelWriter(a, l)
            BY <1>1, <2>3
        <3>2. ~CanRead(levelLock[l]) /\ ~CanWrite(levelLock[l])
            BY <3>1 DEF LevelLockInv, CanRead, CanWrite
        <3> QED
            BY <1>2, <2>3, <3>1, <3>2 DEF LevelStep, LevelExclusion
    <2> QED
        BY <2>1, <2>2, <2>3
<1> QED
    BY <1>3, <1>4

-----------------------------------------------------------------------------
(* rcu_lock                                                                *)

(* What the operations on it do, thread by thread.                         *)
RcuDownRead(t) == rcu' = [rcu EXCEPT ![I(t)] = DownRead(@, t)]
RcuDownWrite(t) == rcu' = [rcu EXCEPT ![I(t)] = DownWrite(@, t)]

LEMMA RcuEffects ==
    ASSUME TypeOK, NEW t \in Thread
    PROVE  /\ RcuDownRead(t) => \A i \in Inst, u \in Thread :
                /\ u \in rcu'[i].r <=> u \in rcu[i].r \/ (u = t /\ i = I(t))
                /\ u \in rcu'[i].w <=> u \in rcu[i].w
           /\ ReleaseRcu(t) => \A i \in Inst, u \in Thread :
                /\ u \in rcu'[i].r <=> u \in rcu[i].r /\ ~(u = t /\ i = I(t))
                /\ u \in rcu'[i].w <=> u \in rcu[i].w
           /\ ReleaseTmp(t) => \A i \in Inst, u \in Thread :
                /\ u \in rcu'[i].r <=> u \in rcu[i].r /\ ~(u = t /\ i = <<lv[t], tmp[t]>>)
                /\ u \in rcu'[i].w <=> u \in rcu[i].w
           /\ RcuDownWrite(t) => \A i \in Inst, u \in Thread :
                /\ u \in rcu'[i].r <=> u \in rcu[i].r
                /\ u \in rcu'[i].w <=> u \in rcu[i].w \/ (u = t /\ i = I(t))
           /\ ReleaseRcuWrite(t) => \A i \in Inst, u \in Thread :
                /\ u \in rcu'[i].r <=> u \in rcu[i].r
                /\ u \in rcu'[i].w <=> u \in rcu[i].w /\ ~(u = t /\ i = I(t))
<1> DEFINE j == I(t)
           k == <<lv[t], tmp[t]>>
<1>1. j \in Inst /\ k \in Inst /\ \A i \in Inst : rcu[i] \in RwSemOf(Thread)
    BY IType, InstType DEF TypeOK
<1>2. \A i \in Inst :
        /\ DownRead(rcu[i], t).r = rcu[i].r \cup {t} /\ DownRead(rcu[i], t).w = rcu[i].w
        /\ UpRead(rcu[i], t).r = rcu[i].r \ {t} /\ UpRead(rcu[i], t).w = rcu[i].w
        /\ DownWrite(rcu[i], t).r = rcu[i].r /\ DownWrite(rcu[i], t).w = rcu[i].w \cup {t}
        /\ UpWrite(rcu[i], t).r = rcu[i].r /\ UpWrite(rcu[i], t).w = rcu[i].w \ {t}
    BY <1>1, RwSemEffect
<1>3. rcu = [i \in Inst |-> rcu[i]]
    BY DEF TypeOK
<1>4. /\ RcuDownRead(t) <=> rcu' = [rcu EXCEPT ![j] = DownRead(@, t)]
      /\ ReleaseRcu(t) <=> rcu' = [rcu EXCEPT ![j] = UpRead(@, t)]
      /\ ReleaseTmp(t) <=> rcu' = [rcu EXCEPT ![k] = UpRead(@, t)]
      /\ RcuDownWrite(t) <=> rcu' = [rcu EXCEPT ![j] = DownWrite(@, t)]
      /\ ReleaseRcuWrite(t) <=> rcu' = [rcu EXCEPT ![j] = UpWrite(@, t)]
    BY DEF RcuDownRead, ReleaseRcu, ReleaseTmp, RcuDownWrite, ReleaseRcuWrite
<1> HIDE DEF j, k
<1>5. /\ RcuDownRead(t) => \A i \in Inst, u \in Thread :
                /\ u \in rcu'[i].r <=> u \in rcu[i].r \/ (u = t /\ i = j)
                /\ u \in rcu'[i].w <=> u \in rcu[i].w
      /\ ReleaseRcu(t) => \A i \in Inst, u \in Thread :
                /\ u \in rcu'[i].r <=> u \in rcu[i].r /\ ~(u = t /\ i = j)
                /\ u \in rcu'[i].w <=> u \in rcu[i].w
      /\ ReleaseTmp(t) => \A i \in Inst, u \in Thread :
                /\ u \in rcu'[i].r <=> u \in rcu[i].r /\ ~(u = t /\ i = k)
                /\ u \in rcu'[i].w <=> u \in rcu[i].w
      /\ RcuDownWrite(t) => \A i \in Inst, u \in Thread :
                /\ u \in rcu'[i].r <=> u \in rcu[i].r
                /\ u \in rcu'[i].w <=> u \in rcu[i].w \/ (u = t /\ i = j)
      /\ ReleaseRcuWrite(t) => \A i \in Inst, u \in Thread :
                /\ u \in rcu'[i].r <=> u \in rcu[i].r
                /\ u \in rcu'[i].w <=> u \in rcu[i].w /\ ~(u = t /\ i = j)
    BY <1>1, <1>2, <1>3, <1>4
<1> QED
    BY <1>5 DEF j, k

(* What a step of t has to do to keep the lock and the labels together.    *)
RcuStep(t) == \A i \in Inst :
    /\ \A u \in Thread \ {t} : /\ u \in rcu'[i].r <=> u \in rcu[i].r
                               /\ u \in rcu'[i].w <=> u \in rcu[i].w
    /\ t \in rcu'[i].r <=> RcuReader(t, i)'
    /\ t \in rcu'[i].w <=> RcuWriter(t, i)'
    /\ RcuReader(t, i)' => RcuReader(t, i) \/ CanRead(rcu[i])
    /\ RcuWriter(t, i)' => RcuWriter(t, i) \/ CanWrite(rcu[i])

LEMMA RcuStepHolds ==
    ASSUME TypeOK, RcuInv, PointerInv, NEW t \in Thread, Step(t)
    PROVE  RcuStep(t)
<1> USE DEF TypeOK, RcuStep, Uses, RcuReader, RcuWriter, I,
        HoldsRcuRead, HoldsRcuWrite, HoldsTmpRead, At, Go
<1>i. \A i \in Inst : (t \in rcu[i].r <=> RcuReader(t, i)) /\ (t \in rcu[i].w <=> RcuWriter(t, i))
    BY DEF RcuInv
<1>1. CASE Call(t) \/ Refused(t) \/ Fault(t)
    BY <1>1, <1>i DEF Call, Refused, Fault, vars, ReceiveEnter, SendEnter, AwakeEnter,
                DeleteTrylock, ViewEnter, Enter, locals, locks
<1>2. CASE \/ ReceiveLevel(t) \/ ReceiveLevelIntr(t) \/ ReceiveRcuIntr(t)
           \/ ReceiveLockLevelIntr(t) \/ ReceiveNoMemory(t) \/ ReceiveRelockIntr(t)
           \/ ReceiveEnlist(t) \/ ReceiveCheck(t) \/ ReceiveSignal(t)
           \/ ReceiveWoken(t) \/ ReceiveLook(t) \/ ReceiveLast(t) \/ ReceiveFree(t)
    BY <1>2, <1>i DEF ReceiveLevel, ReceiveLevelIntr, ReceiveRcuIntr, ReceiveLockLevelIntr,
                ReceiveNoMemory, ReceiveRelockIntr, ReceiveEnlist, ReceiveCheck, ReceiveSignal,
                ReceiveWoken, ReceiveLook, ReceiveLast, ReceiveFree, Return, Forget, locals, locks
<1>3. CASE ReceiveReady(t)
    BY <1>3, <1>i DEF ReceiveReady, locks
<1>4. CASE ReceiveLockLevel(t)
    BY <1>4, <1>i DEF ReceiveLockLevel
<1>5. CASE \/ SendLevel(t) \/ SendIntr(t) \/ SendLock(t) \/ SendBegin(t) \/ SendUnlock(t)
           \/ SendPost(t) \/ AwakeSet(t) \/ AwakeLevel(t) \/ AwakeRcu(t) \/ AwakeIntr(t)
           \/ ViewLevel(t) \/ ViewIntr(t)
    BY <1>5, <1>i DEF SendLevel, SendIntr, SendLock, SendBegin, SendUnlock, SendPost, AwakeSet,
                AwakeLevel, AwakeRcu, AwakeNext, AwakeIntr, ViewLevel, ViewIntr, ViewNext,
                Wake, Return, Forget, locals, locks
<1>6. CASE DeleteCheck(t) \/ DeleteWait(t) \/ DeleteCommon(t) \/ DeleteFree(t)
    BY <1>6, <1>i DEF DeleteCheck, DeleteWait, DeleteCommon, DeleteFree, locals, locks
<1>7. CASE ReceiveRcu(t) \/ SendRcu(t) \/ ViewRcu(t) \/ ReceiveRelock(t)
    <2>1. RcuDownRead(t) /\ CanRead(rcu[I(t)])
        BY <1>7 DEF ReceiveRcu, SendRcu, ViewRcu, ReceiveRelock, AccessRcu, RcuDownRead
    <2>2. /\ UNCHANGED <<lv, at, tmp>> /\ pc[t] \in {"r_rcu", "s_rcu", "v_rcu", "r_relock"}
          /\ pc'[t] \in {"r_ready", "s_lock", "v_line", "r_enlist"}
        BY <1>7 DEF ReceiveRcu, SendRcu, ViewRcu, ReceiveRelock, locals
    <2>3. \A i \in Inst, u \in Thread :
              /\ u \in rcu'[i].r <=> u \in rcu[i].r \/ (u = t /\ i = I(t))
              /\ u \in rcu'[i].w <=> u \in rcu[i].w
        BY <2>1, RcuEffects
    <2> QED
        BY <2>1, <2>2, <2>3, <1>i
<1>8. CASE \/ ReceiveCopy(t) \/ SendContended(t) \/ SendDiscard(t) \/ SendFault(t)
           \/ SendWake(t) \/ ViewLine(t)
    <2>1. ReleaseRcu(t)
        BY <1>8 DEF ReceiveCopy, SendContended, SendDiscard, SendFault, SendWake, ViewLine
    <2>2. /\ pc[t] \in HoldsRcuRead
          /\ pc'[t] \in {"r_last", "idle", "s_unlock", "v_level"}
        BY <1>8 DEF ReceiveCopy, SendContended, SendDiscard, SendFault, SendWake, ViewLine, ViewNext, Wake, Return
    <2> QED
        BY <2>1, <2>2, <1>i, RcuEffects
<1>9. CASE ReceiveTrylock(t)
    <2>1. RcuDownWrite(t) /\ CanWrite(rcu[I(t)])
        BY <1>9 DEF ReceiveTrylock, RcuDownWrite
    <2>2. UNCHANGED <<lv, at>> /\ pc[t] = "r_trylock" /\ pc'[t] \in {"r_drop", "r_reset"}
        BY <1>9 DEF ReceiveTrylock
    <2>3. \A i \in Inst, u \in Thread :
              /\ u \in rcu'[i].r <=> u \in rcu[i].r
              /\ u \in rcu'[i].w <=> u \in rcu[i].w \/ (u = t /\ i = I(t))
        BY <2>1, RcuEffects
    <2> QED
        BY <2>1, <2>2, <2>3, <1>i
<1>10. CASE ReceiveReset(t) \/ ReceiveDrop(t)
    <2>1. ReleaseRcuWrite(t)
        BY <1>10 DEF ReceiveReset, ReceiveDrop
    <2>2. UNCHANGED <<lv, at>> /\ pc[t] \in {"r_drop", "r_reset"} /\ pc'[t] \in {"r_free", "r_dec"}
        BY <1>10 DEF ReceiveReset, ReceiveDrop
    <2> QED
        BY <2>1, <2>2, <1>i, RcuEffects
<1>11. CASE ReceiveRecheck(t)
    <2>1. CASE ready[I(t)] = 1
        <3>1. UNCHANGED <<lv, at, tmp, rcu>> /\ pc[t] = "r_recheck" /\ pc'[t] = "r_create"
            BY <1>11, <2>1 DEF ReceiveRecheck
        <3> QED
            BY <3>1, <1>i
    <2>2. CASE ready[I(t)] # 1
        <3>1. ReleaseTmp(t) /\ UNCHANGED <<lv, at>> /\ pc[t] = "r_recheck" /\ pc'[t] = "r_relock"
            BY <1>11, <2>2 DEF ReceiveRecheck
        <3> QED
            BY <3>1, <1>i, RcuEffects
    <2> QED
        BY <2>1, <2>2
<1>12. ASSUME NEW p \in {"r_dec", "r_dec_level", "r_dec_rcu"}, NEW q \in LeavesAwake,
              (p = "r_dec_rcu") <=> (q = "r_clear_rcu"), ReceiveDec(t, p, q) \/ ReceiveClear(t, q)
       PROVE  RcuStep(t)
    <2>1. CASE UNCHANGED <<locks, locals>> /\ pc[t] = p /\ pc'[t] = q
        BY <2>1, <1>12, <1>i DEF locks, locals, LeavesAwake
    <2>2. ASSUME NEW x \in {p, q}, pc[t] = x, Leave(t, x) PROVE RcuStep(t)
        <3>1. pc'[t] = "idle" /\ lv[t] \in Level
            BY <2>2 DEF Leave, Return
        <3>2. CASE x \in {"r_dec_rcu", "r_clear_rcu"}
            <4>1. ReleaseTmp(t)
                BY <2>2, <3>2 DEF Leave
            <4> QED
                <5>1. \A i \in Inst, u \in Thread :
                          /\ u \in rcu'[i].r <=> u \in rcu[i].r /\ ~(u = t /\ i = <<lv[t], tmp[t]>>)
                          /\ u \in rcu'[i].w <=> u \in rcu[i].w
                    BY <4>1, RcuEffects
                <5> QED
                    BY <2>2, <3>1, <3>2, <5>1, <1>i
        <3>3. CASE x \notin {"r_dec_rcu", "r_clear_rcu"}
            <4>1. UNCHANGED rcu
                BY <2>2, <3>3 DEF Leave
            <4> QED
                BY <1>12, <2>2, <3>1, <3>3, <4>1, <1>i DEF LeavesAwake
        <3> QED
            BY <3>2, <3>3
    <2> QED
        BY <1>12, <2>1, <2>2 DEF ReceiveDec, ReceiveClear
<1>13. CASE ReceiveEnd(t)
    BY <1>12, <1>13 DEF ReceiveEnd, LeavesAwake
<1>14. CASE ReceiveCreate(t)
    <2> DEFINE new == <<lv[t], at[t] + 1>>
               k == <<lv[t], tmp[t]>>
    <2>1. /\ pc[t] = "r_create" /\ pc'[t] = "r_relock" /\ at[t] = cur[lv[t]] /\ lv[t] \in Level
          /\ rcu' = [[rcu EXCEPT ![k] = UpRead(@, t)] EXCEPT ![new] = Unlocked]
          /\ lv' = lv
        BY <1>14 DEF ReceiveCreate, PointerInv, Points, PointsToCur
    <2>2. \A u \in Thread : ~RcuReader(u, new) /\ ~RcuWriter(u, new)
        BY <2>1 DEF PointerInv, Points, Derefs, Epoch
    <2>3. new \in Inst /\ k \in Inst
        BY <1>14, EpochAssumption, InstType DEF ReceiveCreate, Epoch
    <2>4. \A u \in Thread : u \notin rcu[new].r /\ u \notin rcu[new].w
        BY <2>2, <2>3 DEF RcuInv
    <2>5. /\ UpRead(rcu[k], t).r = rcu[k].r \ {t} /\ UpRead(rcu[k], t).w = rcu[k].w
          /\ Unlocked.r = {} /\ Unlocked.w = {}
        BY <2>3, RwSemEffect DEF Unlocked
    <2>6. \A i \in Inst, u \in Thread :
              /\ u \in rcu'[i].r <=> u \in rcu[i].r /\ ~(u = t /\ i = k)
              /\ u \in rcu'[i].w <=> u \in rcu[i].w
        <3> HIDE DEF new, k
        <3> QED
            BY <2>1, <2>3, <2>4, <2>5
    <2> QED
        BY <2>1, <2>6, <1>i
<1> QED
    BY <1>1, <1>2, <1>3, <1>4, <1>5, <1>6, <1>7, <1>8, <1>9, <1>10, <1>11, <1>13, <1>14
    DEF Step, Call, Upset, Progress

LEMMA NextRcuLock ==
    ASSUME TypeOK, RcuInv, RcuExclusion, PointerInv, NEW t \in Thread, Step(t)
    PROVE  RcuInv' /\ RcuExclusion'
<1>1. \A u \in Thread \ {t}, i \in Inst :
        /\ RcuReader(u, i)' <=> RcuReader(u, i)
        /\ RcuWriter(u, i)' <=> RcuWriter(u, i)
    BY Frame, FrameLabels DEF Stays, Uses, RcuReader, RcuWriter
<1>2. RcuStep(t)
    BY RcuStepHolds
<1>3. RcuInv'
    BY <1>1, <1>2 DEF RcuInv, RcuStep
<1>4. RcuExclusion'
    <2> SUFFICES ASSUME NEW i \in Inst, NEW a \in Thread, NEW b \in Thread, RcuWriter(a, i)'
                 PROVE  ~RcuReader(b, i)'
        BY DEF RcuExclusion
    <2>1. CASE a # t /\ b # t
        BY <1>1, <2>1 DEF RcuExclusion
    <2>2. CASE a = t
        <3>1. RcuWriter(t, i) \/ CanWrite(rcu[i])
            BY <1>2, <2>2 DEF RcuStep
        <3>2. CASE b # t
            BY <1>1, <2>2, <3>1, <3>2 DEF RcuExclusion, RcuInv, CanWrite
        <3>3. CASE b = t
            BY <2>2, <3>3 DEF RcuReader, Uses, RcuWriter, HoldsRcuRead, HoldsTmpRead, HoldsRcuWrite
        <3> QED
            BY <3>2, <3>3
    <2>3. CASE a # t /\ b = t
        <3>1. RcuWriter(a, i)
            BY <1>1, <2>3
        <3>2. ~CanRead(rcu[i])
            BY <3>1 DEF RcuInv, CanRead
        <3> QED
            BY <1>2, <2>3, <3>1, <3>2 DEF RcuStep, RcuExclusion
    <2> QED
        BY <2>1, <2>2, <2>3
<1> QED
    BY <1>3, <1>4

-----------------------------------------------------------------------------
(* The senders' mutex                                                      *)

LEMMA NextMutex ==
    ASSUME TypeOK, MutexInv, PointerInv, NEW t \in Thread, Step(t)
    PROVE  MutexInv'
<1> USE DEF At, Go, MutexHolder, HoldsMutex, I, TypeOK
<1>1. \A u \in Thread \ {t}, i \in Inst : MutexHolder(u, i)' <=> MutexHolder(u, i)
    BY Frame, FrameLabels DEF Stays
<1>2. \A u \in Thread, i \in Inst : u \in mutex[i] <=> MutexHolder(u, i)
    BY DEF MutexInv
<1>3. ASSUME UNCHANGED mutex, pc[t] \notin HoldsMutex, pc'[t] \notin HoldsMutex
      PROVE  MutexInv'
    BY <1>1, <1>2, <1>3, SMTT(30) DEF MutexInv
<1>4. CASE Call(t) \/ Refused(t) \/ Fault(t)
    BY <1>1, <1>2, <1>4 DEF MutexInv, Call, Refused, Fault, vars, ReceiveEnter, SendEnter,
        AwakeEnter, DeleteTrylock, ViewEnter, Enter, locals, locks
<1>5. CASE \/ ReceiveLevel(t) \/ ReceiveRcu(t) \/ ReceiveReady(t) \/ ReceiveLockLevel(t)
           \/ ReceiveRecheck(t) \/ ReceiveRelock(t) \/ ReceiveEnlist(t) \/ ReceiveCheck(t)
    BY <1>3, <1>5 DEF ReceiveLevel, ReceiveRcu, ReceiveReady, ReceiveLockLevel, ReceiveRecheck,
        ReceiveRelock, ReceiveEnlist, ReceiveCheck, locks
<1>6. CASE \/ ReceiveWoken(t) \/ ReceiveLook(t) \/ ReceiveCopy(t) \/ ReceiveLast(t) \/ ReceiveTrylock(t)
           \/ ReceiveReset(t) \/ ReceiveDrop(t) \/ ReceiveFree(t) \/ ReceiveEnd(t)
    BY <1>3, <1>6 DEF ReceiveWoken, ReceiveLook, ReceiveCopy, ReceiveLast, ReceiveTrylock, ReceiveReset,
        ReceiveDrop, ReceiveFree, ReceiveEnd, ReceiveDec, ReceiveClear, Leave, Return, locks
<1>7. CASE \/ ReceiveLevelIntr(t) \/ ReceiveRcuIntr(t) \/ ReceiveLockLevelIntr(t)
           \/ ReceiveNoMemory(t) \/ ReceiveRelockIntr(t) \/ ReceiveSignal(t)
           \/ SendIntr(t) \/ AwakeIntr(t) \/ ViewIntr(t)
    BY <1>3, <1>7 DEF ReceiveLevelIntr, ReceiveRcuIntr, ReceiveLockLevelIntr, ReceiveNoMemory,
        ReceiveRelockIntr, ReceiveSignal, SendIntr, AwakeIntr, ViewIntr, ViewNext, Return, locks
<1>8. CASE SendLevel(t) \/ SendRcu(t) \/ SendContended(t) \/ SendWake(t)
    BY <1>3, <1>8 DEF SendLevel, SendRcu, SendContended, SendWake, Wake, Return, locks
<1>9. CASE SendBegin(t) \/ SendFault(t)
    BY <1>1, <1>2, <1>9 DEF MutexInv, SendBegin, SendFault, locals, locks
<1>10. CASE SendLock(t)
    <2>1. UNCHANGED <<lv, at>> /\ pc[t] = "s_lock" /\ pc'[t] = "s_check"
        BY <1>10 DEF SendLock, locals
    <2>2. \A i \in Inst, u \in Thread : u \in mutex'[i] <=> u \in mutex[i] \/ (u = t /\ i = I(t))
        BY <1>10, IType DEF SendLock
    <2> QED
        BY <1>1, <1>2, <2>1, <2>2 DEF MutexInv
<1>11. CASE SendDiscard(t) \/ SendUnlock(t) \/ SendPost(t)
    <2>1. pc[t] \in HoldsMutex /\ pc'[t] \notin HoldsMutex /\ Unlock(t)
        BY <1>11 DEF SendDiscard, SendUnlock, SendPost, Return
    <2>2. \A i \in Inst, u \in Thread : u \in mutex'[i] <=> u \in mutex[i] /\ ~(u = t /\ i = I(t))
        BY <2>1, IType DEF Unlock
    <2> QED
        BY <1>1, <1>2, <2>1, <2>2, SMTT(30) DEF MutexInv
<1>12. CASE \/ AwakeSet(t) \/ AwakeLevel(t) \/ AwakeRcu(t) \/ DeleteCheck(t) \/ DeleteWait(t)
            \/ DeleteCommon(t) \/ DeleteFree(t) \/ ViewLevel(t) \/ ViewRcu(t) \/ ViewLine(t)
    BY <1>3, <1>12 DEF AwakeSet, AwakeLevel, AwakeRcu, AwakeNext, Wake, DeleteCheck, DeleteWait,
        DeleteCommon, DeleteFree, ViewLevel, ViewRcu, ViewLine, ViewNext, Return, locks
<1>13. CASE ReceiveCreate(t)
    <2> DEFINE new == <<lv[t], at[t] + 1>>
    <2>1. /\ pc[t] = "r_create" /\ pc'[t] = "r_relock" /\ at[t] = cur[lv[t]]
          /\ lv[t] \in Level /\ mutex' = [mutex EXCEPT ![new] = {}]
        BY <1>13 DEF ReceiveCreate, PointerInv, Points, PointsToCur
    <2>2. new \in Inst
        BY <1>13, EpochAssumption, InstType DEF ReceiveCreate, Epoch
    <2>3. \A u \in Thread : ~MutexHolder(u, new)
        BY <2>1 DEF PointerInv, Points, Derefs, Epoch
    <2>4. \A i \in Inst, u \in Thread : u \in mutex'[i] <=> u \in mutex[i]
        <3> HIDE DEF new
        <3> QED
            BY <1>2, <2>1, <2>2, <2>3
    <2> QED
        BY <1>1, <1>2, <2>1, <2>4, SMTT(30) DEF MutexInv
<1> QED
    BY <1>4, <1>5, <1>6, <1>7, <1>8, <1>9, <1>10, <1>11, <1>12, <1>13 DEF Step, Call, Upset, Progress

-----------------------------------------------------------------------------
(* The pointers                                                            *)

(* A step gives at most one level a new object, and never an older one:    *)
(* the assignment that undoes a publication undoes nothing, because a      *)
(* signal ends the wait for rcu_lock only when somebody holds it.          *)
LEMMA CurStep ==
    ASSUME TypeOK, RcuInv, PointerInv, FreshInv, NEW t \in Thread, Step(t)
    PROVE  \/ cur' = cur
           \/ /\ ReceiveCreate(t) /\ pc[t] = "r_create" /\ at[t] = cur[lv[t]]
              /\ cur' = [cur EXCEPT ![lv[t]] = at[t] + 1]
<1>1. CASE ReceiveCreate(t)
    BY <1>1 DEF ReceiveCreate, At, PointerInv, Points, PointsToCur
<1>2. CASE ReceiveRelockIntr(t)
    <2>1. pc[t] = "r_relock" /\ ~CanRead(rcu[I(t)]) /\ cur' = [cur EXCEPT ![lv[t]] = old[t]]
        BY <1>2 DEF ReceiveRelockIntr, At
    <2>2. I(t) \in Inst
        BY IType
    <2>3. PICK u \in Thread : RcuWriter(u, I(t))
        <3>1. rcu[I(t)].w \subseteq Thread
            BY <2>2 DEF TypeOK, RwSemOf
        <3> QED
            BY <2>1, <2>2, <3>1 DEF CanRead, RcuInv
    <2>4. u # t /\ pc[u] \in Derefs /\ I(u) = I(t)
        BY <2>1, <2>3 DEF RcuWriter, HoldsRcuWrite, Derefs
    <2>5. old[t] = at[t] /\ at[t] = cur[lv[t]]
        BY <2>1, <2>4 DEF FreshInv, PointerInv, Points, PointsToCur
    <2> QED
        BY <2>1, <2>5 DEF TypeOK
<1>3. CASE Call(t) \/ Refused(t) \/ (Upset(t) /\ ~ReceiveRelockIntr(t))
    BY <1>3 DEF Call, Refused, Upset, vars, ReceiveEnter, SendEnter, AwakeEnter, DeleteTrylock,
        ViewEnter, ReceiveLevelIntr, ReceiveRcuIntr, ReceiveLockLevelIntr, ReceiveNoMemory,
        ReceiveSignal, SendIntr, SendFault, AwakeIntr, ViewIntr, Fault
<1>4. CASE Progress(t) /\ ~ReceiveCreate(t)
    BY <1>4 DEF Progress, ReceiveLevel, ReceiveRcu, ReceiveReady, ReceiveLockLevel,
        ReceiveRecheck, ReceiveRelock, ReceiveEnlist, ReceiveCheck, ReceiveWoken, ReceiveLook, ReceiveCopy,
        ReceiveLast, ReceiveTrylock, ReceiveReset, ReceiveDrop, ReceiveFree, ReceiveEnd,
        ReceiveDec, ReceiveClear, SendLevel, SendRcu, SendLock, SendContended, SendDiscard,
        SendBegin, SendPost, SendUnlock, SendWake, AwakeSet, AwakeLevel, AwakeRcu, DeleteCheck,
        DeleteWait, DeleteCommon, DeleteFree, ViewLevel, ViewRcu, ViewLine
<1> QED
    BY <1>1, <1>2, <1>3, <1>4 DEF Step, Upset, Progress

(* What is assumed of the state before a step from here on.                *)
PointerParts ==
    /\ TypeOK /\ LevelLockInv /\ LevelExclusion /\ RcuInv /\ RcuExclusion
    /\ PointerInv /\ FreshInv

(* The pointers of the other threads.                                      *)
LEMMA OtherPoints ==
    ASSUME PointerParts, NEW t \in Thread, Step(t), NEW u \in Thread \ {t}
    PROVE  Points(u)'
<1> USE DEF TypeOK, PointerParts
<1>1. /\ UNCHANGED <<lv[u], at[u], tmp[u], old[u]>> /\ lv[u] \in Level
      /\ pc'[u] \in Derefs <=> pc[u] \in Derefs
      /\ pc'[u] \in HoldsTmpRead <=> pc[u] \in HoldsTmpRead
      /\ pc'[u] \in PointsToCur <=> pc[u] \in PointsToCur
      /\ pc'[u] \in {"r_recheck", "r_create"} <=> pc[u] \in {"r_recheck", "r_create"}
      /\ pc'[u] \in {"r_drop", "r_free"} <=> pc[u] \in {"r_drop", "r_free"}
    BY Frame, FrameLabels DEF Stays
<1>2. Points(u)
    BY DEF PointerInv
<1>3. CASE cur' = cur
    BY <1>1, <1>2, <1>3 DEF Points
<1>4. CASE pc[t] = "r_create" /\ at[t] = cur[lv[t]] /\ cur' = [cur EXCEPT ![lv[t]] = at[t] + 1]
    <2>1. cur'[lv[u]] = cur[lv[u]] \/ (lv[u] = lv[t] /\ cur'[lv[u]] = cur[lv[u]] + 1)
        BY <1>1, <1>4
    <2>2. lv[u] = lv[t] => pc[u] \notin PointsToCur
        BY <1>1, <1>4 DEF LevelExclusion, LevelReader, LevelWriter, HoldsLevelRead,
            HoldsLevelWrite, PointsToCur
    <2>3. at[u] \in Int /\ tmp[u] \in Int /\ cur[lv[u]] \in Int
        BY <1>1 DEF Epoch
    <2> QED
        BY <1>1, <1>2, <2>1, <2>2, <2>3 DEF Points
<1> QED
    BY <1>3, <1>4, CurStep

(* The pointers of the thread that takes the step.                         *)
LEMMA OwnPoints ==
    ASSUME PointerParts, NEW t \in Thread, Step(t)
    PROVE  Points(t)'
<1> USE DEF TypeOK, At, Go, Points, Derefs, HoldsTmpRead, PointsToCur
<1>1. Points(t) /\ lv[t] \in Level /\ at[t] \in Int /\ tmp[t] \in Int /\ cur[lv[t]] \in Int
    BY DEF PointerParts, PointerInv, Epoch
<1>t. TypeOK /\ TypeOK'
    BY NextType DEF PointerParts, Step
<1>2. CASE ReceiveCreate(t)
    BY <1>1, <1>t, <1>2 DEF ReceiveCreate
<1>3. CASE ReceiveRelock(t)
    BY <1>1, <1>t, <1>3 DEF ReceiveRelock
<1>4. CASE Call(t) \/ Refused(t) \/ Fault(t)
    BY <1>1, <1>t, <1>4 DEF Call, Refused, Fault, vars, ReceiveEnter, SendEnter,
        AwakeEnter, DeleteTrylock, ViewEnter, Enter, locals
<1>5. CASE \/ ReceiveLevel(t) \/ ReceiveRcu(t) \/ ReceiveReady(t) \/ ReceiveLockLevel(t)
           \/ ReceiveEnlist(t) \/ ReceiveCheck(t)
    BY <1>1, <1>t, <1>5 DEF ReceiveLevel, AccessLevel, ReceiveRcu, ReceiveReady, ReceiveLockLevel,
        ReceiveEnlist, ReceiveCheck, locals
<1>6. CASE ReceiveRecheck(t)
    BY <1>1, <1>t, <1>6 DEF ReceiveRecheck
<1>7. CASE \/ ReceiveWoken(t) \/ ReceiveLook(t) \/ ReceiveCopy(t) \/ ReceiveLast(t) \/ ReceiveTrylock(t)
           \/ ReceiveReset(t) \/ ReceiveDrop(t) \/ ReceiveFree(t)
    BY <1>1, <1>t, <1>7 DEF ReceiveWoken, ReceiveLook, ReceiveCopy, ReceiveLast, ReceiveTrylock, ReceiveReset,
        ReceiveDrop, ReceiveFree, locals
<1>8. CASE ReceiveEnd(t)
    BY <1>1, <1>t, <1>8 DEF ReceiveEnd, ReceiveDec, ReceiveClear, Leave, Return, locals
<1>9. CASE \/ ReceiveLevelIntr(t) \/ ReceiveRcuIntr(t) \/ ReceiveLockLevelIntr(t)
           \/ ReceiveNoMemory(t) \/ ReceiveSignal(t)
           \/ SendIntr(t) \/ SendFault(t) \/ AwakeIntr(t) \/ ViewIntr(t)
    BY <1>1, <1>t, <1>9 DEF ReceiveLevelIntr, ReceiveRcuIntr, ReceiveLockLevelIntr, ReceiveNoMemory,
        ReceiveSignal, SendIntr, SendFault, AwakeIntr, ViewIntr, ViewNext, Return, locals
<1>10. CASE ReceiveRelockIntr(t)
    BY <1>1, <1>t, <1>10 DEF ReceiveRelockIntr
<1>11. CASE \/ SendLevel(t) \/ SendRcu(t) \/ SendLock(t) \/ SendContended(t) \/ SendDiscard(t)
           \/ SendBegin(t) \/ SendPost(t) \/ SendUnlock(t) \/ SendWake(t)
    BY <1>1, <1>t, <1>11 DEF SendLevel, AccessLevel, SendRcu, SendLock, SendContended, SendDiscard,
        SendBegin, SendPost, SendUnlock, SendWake, Wake, Return, locals
<1>12. CASE \/ AwakeSet(t) \/ AwakeLevel(t) \/ AwakeRcu(t) \/ DeleteCheck(t) \/ DeleteWait(t)
            \/ DeleteCommon(t) \/ DeleteFree(t) \/ ViewLevel(t) \/ ViewRcu(t) \/ ViewLine(t)
    BY <1>1, <1>t, <1>12 DEF AwakeSet, AwakeLevel, AccessLevel, AwakeRcu, AwakeNext, Wake, DeleteCheck, DeleteWait,
        DeleteCommon, DeleteFree, ViewLevel, ViewRcu, ViewLine, ViewNext, Return, locals
<1> QED
    BY <1>2, <1>3, <1>4, <1>5, <1>6, <1>7, <1>8, <1>9, <1>10, <1>11, <1>12 DEF Step, Call, Upset, Progress

(* No pointer is ahead of its level, and level_lock makes it the level's.  *)
LEMMA NextPointer ==
    ASSUME PointerParts, NEW t \in Thread, Step(t)
    PROVE  PointerInv'
BY OtherPoints, OwnPoints DEF PointerInv

-----------------------------------------------------------------------------
(* Which steps change which variable                                       *)

LEMMA Changes ==
    ASSUME NEW t \in Thread, Step(t)
    PROVE  /\ alloc' = alloc \/ ReceiveCreate(t) \/ ReceiveFree(t) \/ DeleteFree(t)
           /\ waiting' = waiting \/ ReceiveCreate(t) \/ ReceiveEnlist(t) \/ ReceiveLast(t)
           /\ \/ UNCHANGED <<ready, size>>
              \/ ReceiveCreate(t) \/ SendPost(t) \/ ReceiveReset(t) \/ ReceiveFree(t)
           /\ buf' = buf \/ ReceiveCreate(t) \/ SendBegin(t) \/ SendPost(t) \/ ReceiveFree(t)
           /\ tags' = tags \/ DeleteCheck(t) \/ DeleteWait(t) \/ DeleteCommon(t)
           /\ tagReady' = tagReady \/ AwakeSet(t) \/ tagReady' = 0
           /\ \/ UNCHANGED stale \/ Forget(t) \/ ReceiveEnter(t)
              \/ Wipe(I(t)) /\ (ReceiveReset(t) \/ ReceiveFree(t))
<1> USE DEF tagVars, object, locals
<1>1. CASE Call(t) \/ Refused(t) \/ Upset(t)
    BY <1>1 DEF Call, Refused, Upset, vars, ReceiveEnter, SendEnter, AwakeEnter, DeleteTrylock,
        ViewEnter, ReceiveLevelIntr, ReceiveRcuIntr, ReceiveLockLevelIntr, ReceiveNoMemory,
        ReceiveRelockIntr, ReceiveSignal, SendIntr, SendFault, AwakeIntr, ViewIntr, ViewNext,
        Fault, Return
<1>2. CASE \/ ReceiveLevel(t) \/ ReceiveRcu(t) \/ ReceiveReady(t) \/ ReceiveLockLevel(t)
           \/ ReceiveRecheck(t) \/ ReceiveCreate(t) \/ ReceiveRelock(t) \/ ReceiveEnlist(t)
           \/ ReceiveCheck(t) \/ ReceiveWoken(t) \/ ReceiveLook(t) \/ ReceiveCopy(t) \/ ReceiveLast(t)
           \/ ReceiveTrylock(t) \/ ReceiveReset(t) \/ ReceiveDrop(t) \/ ReceiveFree(t)
           \/ ReceiveEnd(t)
    BY <1>2 DEF ReceiveLevel, ReceiveRcu, ReceiveReady, ReceiveLockLevel, ReceiveRecheck,
        ReceiveRelock, ReceiveEnlist, ReceiveCheck, ReceiveWoken, ReceiveLook, ReceiveCopy, ReceiveLast,
        ReceiveTrylock, ReceiveReset, ReceiveDrop, ReceiveFree, ReceiveEnd, ReceiveDec,
        ReceiveClear, Leave, Return, ReceiveCreate
<1>3. CASE Progress(t)
    BY <1>2, <1>3 DEF Progress, SendLevel, SendRcu, SendLock, SendContended, SendDiscard,
        SendBegin, SendPost, SendUnlock, SendWake, AwakeSet, AwakeLevel, AwakeRcu, DeleteCheck,
        DeleteWait, DeleteCommon, DeleteFree, ViewLevel, ViewRcu, ViewLine, ViewNext, Return
<1> QED
    BY <1>1, <1>3 DEF Step

(* How a thread comes to an object: it stays there, reads the pointer      *)
(* under level_lock, or creates the object.                                *)
Stayed(t) == pc[t] \in Derefs /\ UNCHANGED <<lv[t], at[t]>>
Looked(t) ==
    /\ CanRead(levelLock[lv[t]]) /\ pc'[t] \in PointsToCur
    /\ lv'[t] = lv[t] /\ at'[t] = cur[lv[t]]

(* How a thread comes to hold an rcu_lock: it has it already, under this   *)
(* name or another, or takes it while it holds level_lock.                 *)
KeptRcu(t) ==
    /\ pc[t] \in HoldsRcuRead /\ UNCHANGED <<lv[t], at[t]>>
    /\ pc'[t] \in HoldsRcuRead \/ (pc'[t] = "r_lockw" /\ tmp'[t] = at[t])
KeptTmp(t) ==
    pc[t] \in HoldsTmpRead /\ pc'[t] \in HoldsTmpRead /\ UNCHANGED <<lv[t], tmp[t]>>
TookRcu(t) ==
    /\ pc[t] \in {"r_rcu", "s_rcu", "v_rcu", "r_relock"} /\ pc'[t] \in HoldsRcuRead
    /\ UNCHANGED <<lv[t], at[t], cur, alloc, ready>>

LEMMA Moves ==
    ASSUME TypeOK, NEW t \in Thread, Step(t)
    PROVE  /\ pc'[t] \in Derefs => Stayed(t) \/ Looked(t) \/ ReceiveCreate(t)
           /\ pc'[t] \in HoldsRcuRead \cup HoldsTmpRead => KeptRcu(t) \/ KeptTmp(t) \/ TookRcu(t)
           /\ (pc'[t] \in Enlisted <=> pc[t] \in Enlisted) \/ ReceiveEnlist(t) \/ ReceiveLast(t)
           /\ pc'[t] \in Joined => pc[t] \in Joined \/ pc'[t] = "r_enlist"
<1> USE DEF TypeOK, At, Go, Stayed, Looked, KeptRcu, KeptTmp, TookRcu, Derefs, PointsToCur,
        HoldsRcuRead, HoldsTmpRead, Enlisted, Joined
<1>1. CASE Call(t) \/ Refused(t) \/ Fault(t)
    BY <1>1 DEF Call, Refused, Fault, vars, ReceiveEnter, SendEnter, AwakeEnter,
        DeleteTrylock, ViewEnter, Enter, locals
<1>2. CASE ReceiveLevel(t) \/ SendLevel(t) \/ AwakeLevel(t) \/ ViewLevel(t)
    BY <1>2 DEF ReceiveLevel, SendLevel, AwakeLevel, ViewLevel, AccessLevel, locals
<1>3. CASE ReceiveLockLevel(t)
    BY <1>3 DEF ReceiveLockLevel, CanRead, CanWrite
<1>4. CASE ReceiveRcu(t) \/ SendRcu(t) \/ ViewRcu(t) \/ ReceiveRelock(t) \/ ReceiveReady(t)
    BY <1>4 DEF ReceiveRcu, SendRcu, ViewRcu, ReceiveRelock, ReceiveReady, locals, object
<1>5. CASE ReceiveCreate(t) \/ ReceiveRecheck(t)
    <2>1. CASE ReceiveCreate(t)
        <3>1. pc[t] = "r_create" /\ pc'[t] = "r_relock"
            BY <2>1 DEF ReceiveCreate
        <3> QED
            BY <2>1, <3>1
    <2>2. CASE ReceiveRecheck(t)
        <3>1. /\ pc[t] = "r_recheck" /\ pc'[t] \in {"r_create", "r_relock"}
              /\ UNCHANGED <<lv[t], at[t]>> /\ (pc'[t] = "r_create" => tmp' = tmp)
            BY <2>2 DEF ReceiveRecheck
        <3> QED
            BY <3>1
    <2> QED
        BY <1>5, <2>1, <2>2
<1>6. CASE \/ ReceiveEnlist(t) \/ ReceiveCheck(t) \/ ReceiveSignal(t) \/ ReceiveWoken(t) \/ ReceiveLook(t)
           \/ ReceiveCopy(t) \/ ReceiveLast(t) \/ ReceiveTrylock(t) \/ ReceiveReset(t)
           \/ ReceiveDrop(t) \/ ReceiveFree(t)
    BY <1>6 DEF ReceiveEnlist, ReceiveCheck, ReceiveSignal, ReceiveWoken, ReceiveLook, ReceiveCopy, ReceiveLast,
        ReceiveTrylock, ReceiveReset, ReceiveDrop, ReceiveFree, locals
<1>7. CASE ReceiveEnd(t)
    BY <1>7 DEF ReceiveEnd, ReceiveDec, ReceiveClear, Leave, Return, locals
<1>8. CASE \/ ReceiveLevelIntr(t) \/ ReceiveRcuIntr(t) \/ ReceiveLockLevelIntr(t)
           \/ ReceiveNoMemory(t) \/ ReceiveRelockIntr(t) \/ SendIntr(t) \/ SendFault(t)
           \/ AwakeIntr(t) \/ ViewIntr(t)
    BY <1>8 DEF ReceiveLevelIntr, ReceiveRcuIntr, ReceiveLockLevelIntr, ReceiveNoMemory,
        ReceiveRelockIntr, SendIntr, SendFault, AwakeIntr, ViewIntr, ViewNext, Return, locals
<1>9. CASE \/ SendLock(t) \/ SendContended(t) \/ SendDiscard(t) \/ SendBegin(t) \/ SendPost(t)
           \/ SendUnlock(t) \/ SendWake(t)
    BY <1>9 DEF SendLock, SendContended, SendDiscard, SendBegin, SendPost, SendUnlock, SendWake,
        Wake, Return, locals
<1>10. CASE \/ AwakeSet(t) \/ AwakeRcu(t) \/ DeleteCheck(t) \/ DeleteWait(t) \/ DeleteCommon(t)
            \/ DeleteFree(t) \/ ViewLine(t)
    BY <1>10 DEF AwakeSet, AwakeRcu, AwakeNext, Wake, DeleteCheck, DeleteWait, DeleteCommon,
        DeleteFree, ViewLine, ViewNext, Return, locals
<1> QED
    BY <1>1, <1>2, <1>3, <1>4, <1>5, <1>6, <1>7, <1>8, <1>9, <1>10 DEF Step, Call, Upset, Progress

(* Which steps lead to the labels that the invariants are about.           *)
LEMMA Origins ==
    ASSUME TypeOK, NEW t \in Thread, Step(t)
    PROVE  \/ Fault(t)
           \/ /\ pc'[t] = "r_enlist" => ReceiveReady(t) \/ ReceiveRelock(t)
              /\ pc'[t] = "r_relock" => ReceiveRecheck(t) \/ ReceiveCreate(t)
              /\ pc'[t] = "r_create" => ReceiveRecheck(t)
              /\ pc'[t] = "r_sleep" => ReceiveCheck(t)
              /\ pc'[t] = "r_free" => ReceiveDrop(t)
              /\ pc'[t] = "s_check" => SendLock(t)
              /\ pc'[t] \in {"s_copy", "s_empty"} => SendBegin(t)
              /\ pc'[t] = "s_unlock" => SendFault(t)
              /\ pc'[t] = "s_wake" => SendPost(t)
              /\ pc'[t] \in Unpublished => DeleteCheck(t) \/ DeleteWait(t) \/ DeleteCommon(t)
              /\ pc'[t] \in {"a_set", "a_level"} => AwakeEnter(t) \/ AwakeSet(t) \/ AwakeRcu(t)
              /\ pc'[t] = "a_rcu" => AwakeLevel(t)
<1> USE DEF TypeOK, At, Go, Unpublished
<1>1. CASE Call(t) \/ Refused(t)
    BY <1>1 DEF Call, Refused, vars, ReceiveEnter, SendEnter, AwakeEnter, DeleteTrylock, ViewEnter
<1>2. CASE \/ ReceiveLevel(t) \/ ReceiveRcu(t) \/ ReceiveReady(t) \/ ReceiveLockLevel(t)
           \/ ReceiveRecheck(t)
    BY <1>2 DEF ReceiveLevel, ReceiveRcu, ReceiveReady, ReceiveLockLevel, ReceiveRecheck
<1>7. CASE ReceiveRelock(t) \/ ReceiveEnlist(t)
    BY <1>7 DEF ReceiveRelock, ReceiveEnlist
<1>8. CASE ReceiveCreate(t)
    <2>1. pc'[t] = "r_relock"
        BY <1>8 DEF ReceiveCreate
    <2> QED
        BY <1>8, <2>1
<1>9. CASE ReceiveCheck(t)
    <2>1. pc'[t] \in {"r_woken", "r_sleep"}
        BY <1>9 DEF ReceiveCheck
    <2> QED
        BY <1>9, <2>1
<1>10. CASE ReceiveSignal(t)
    BY <1>10 DEF ReceiveSignal
<1>3. CASE \/ ReceiveWoken(t) \/ ReceiveLook(t) \/ ReceiveCopy(t) \/ ReceiveLast(t) \/ ReceiveTrylock(t)
           \/ ReceiveReset(t) \/ ReceiveDrop(t) \/ ReceiveFree(t) \/ ReceiveEnd(t)
    BY <1>3 DEF ReceiveWoken, ReceiveLook, ReceiveCopy, ReceiveLast, ReceiveTrylock, ReceiveReset, ReceiveDrop,
        ReceiveFree, ReceiveEnd, ReceiveDec, ReceiveClear, Leave, Return
<1>4. CASE \/ ReceiveLevelIntr(t) \/ ReceiveRcuIntr(t) \/ ReceiveLockLevelIntr(t)
           \/ ReceiveNoMemory(t) \/ ReceiveRelockIntr(t) \/ SendIntr(t) \/ SendFault(t)
           \/ AwakeIntr(t) \/ ViewIntr(t)
    BY <1>4 DEF ReceiveLevelIntr, ReceiveRcuIntr, ReceiveLockLevelIntr, ReceiveNoMemory,
        ReceiveRelockIntr, SendIntr, SendFault, AwakeIntr, ViewIntr, ViewNext, Return
<1>5. CASE \/ SendLevel(t) \/ SendRcu(t) \/ SendLock(t) \/ SendContended(t) \/ SendDiscard(t)
           \/ SendBegin(t) \/ SendPost(t) \/ SendUnlock(t) \/ SendWake(t)
    BY <1>5 DEF SendLevel, SendRcu, SendLock, SendContended, SendDiscard, SendBegin, SendPost,
        SendUnlock, SendWake, Wake, Return
<1>6. CASE \/ AwakeSet(t) \/ AwakeLevel(t) \/ AwakeRcu(t) \/ DeleteCheck(t) \/ DeleteWait(t)
           \/ DeleteCommon(t) \/ DeleteFree(t) \/ ViewLevel(t) \/ ViewRcu(t) \/ ViewLine(t)
    BY <1>6 DEF AwakeSet, AwakeLevel, AwakeRcu, AwakeNext, Wake, DeleteCheck, DeleteWait,
        DeleteCommon, DeleteFree, ViewLevel, ViewRcu, ViewLine, ViewNext, Return
<1> QED
    BY <1>1, <1>2, <1>3, <1>4, <1>5, <1>6, <1>7, <1>8, <1>9, <1>10
    DEF Step, Call, Upset, Progress

-----------------------------------------------------------------------------
(* The other parts of the inductive invariant                              *)

(* Nobody comes to an object that is not published yet: that takes         *)
(* level_lock, which its creator holds.                                    *)
LEMMA NextFresh ==
    ASSUME PointerParts, NEW t \in Thread, Step(t)
    PROVE  FreshInv'
<1> USE DEF PointerParts
<1> SUFFICES ASSUME NEW a \in Thread, NEW u \in Thread \ {a}, pc'[a] = "r_relock",
                    old'[a] # at'[a], pc'[u] \in Derefs, lv'[u] = lv'[a], at'[u] = at'[a]
             PROVE  FALSE
    BY DEF FreshInv, I
<1>1. \A v \in Thread \ {t} :
         /\ lv'[v] = lv[v] /\ at'[v] = at[v] /\ old'[v] = old[v]
         /\ pc'[v] \in Derefs => pc[v] \in Derefs
         /\ pc'[v] = "r_relock" => pc[v] = "r_relock"
    BY Frame, FrameLabels DEF Stays
<1>2. CASE a = t
    <2>1. ReceiveCreate(t) \/ (pc[t] = "r_recheck" /\ UNCHANGED <<lv, at, old>>)
                           \/ (pc[t] = "r_relock" /\ UNCHANGED <<lv, at, old>>)
        BY <1>2, Origins DEF ReceiveRecheck, Fault, At, locals
    <2>2. CASE ReceiveCreate(t)
        <3>1. at'[t] = cur[lv[t]] + 1 /\ lv' = lv /\ at[u] <= cur[lv[u]] /\ lv[t] \in Level
            BY <1>1, <1>2, <2>2 DEF ReceiveCreate, At, PointerInv, Points, PointsToCur, TypeOK
        <3>2. cur[lv[t]] \in Int /\ at[u] \in Int
            BY <3>1 DEF TypeOK, Epoch
        <3> QED
            BY <1>1, <1>2, <3>1, <3>2
    <2>3. CASE pc[t] = "r_recheck" /\ UNCHANGED <<lv, at, old>>
        BY <1>2, <2>3 DEF PointerInv, Points
    <2>4. CASE pc[t] = "r_relock" /\ UNCHANGED <<lv, at, old>>
        BY <1>1, <1>2, <2>4 DEF FreshInv, I
    <2> QED
        BY <2>1, <2>2, <2>3, <2>4
<1>3. CASE a # t /\ u # t
    BY <1>1, <1>3 DEF FreshInv, I
<1>4. CASE a # t /\ u = t
    <2>1. pc[a] = "r_relock" /\ old[a] # at[a] /\ UNCHANGED <<lv[a], at[a]>>
        BY <1>1, <1>4
    <2>2. LevelWriter(a, lv[a]) /\ lv[a] \in Level
        BY <2>1 DEF LevelWriter, HoldsLevelWrite, TypeOK
    <2>3. CASE Stayed(t)
        BY <1>4, <2>1, <2>3 DEF FreshInv, I, Stayed
    <2>4. CASE Looked(t)
        BY <1>4, <2>1, <2>2, <2>4 DEF Looked, CanRead, LevelLockInv
    <2>5. CASE ReceiveCreate(t)
        <3>1. LevelWriter(t, lv[t]) /\ lv'[t] = lv[t]
            BY <2>5 DEF ReceiveCreate, At, LevelWriter, HoldsLevelWrite
        <3> QED
            BY <1>4, <2>1, <2>2, <3>1 DEF LevelExclusion
    <2> QED
        BY <1>4, <2>3, <2>4, <2>5, Moves
<1> QED
    BY <1>2, <1>3, <1>4

(* Only one DELETE at a time can find the entry published.                 *)
LEMMA NextDelete ==
    ASSUME TypeOK, DeleteInv, NEW t \in Thread, Step(t)
    PROVE  DeleteInv'
<1>1. \A v \in Thread \ {t} : pc'[v] \in Unpublished <=> pc[v] \in Unpublished
    BY Frame, FrameLabels
<1>2. /\ pc'[t] \in Unpublished => pc[t] \in Unpublished \/ tags = "entry"
      /\ pc'[t] \in Unpublished => tags' = "null"
      /\ tags' = tags \/ pc[t] \in Unpublished \/ tags = "entry"
    <2> USE DEF TypeOK, At, Go, Unpublished
    <2>1. CASE DeleteCheck(t)
        BY <2>1 DEF DeleteCheck
    <2>2. CASE DeleteWait(t) \/ DeleteCommon(t)
        BY <2>2 DEF DeleteWait, DeleteCommon, DeleteInv
    <2>3. CASE Fault(t)
        BY <2>3 DEF Fault, tagVars, DeleteInv
    <2>4. CASE ~(DeleteCheck(t) \/ DeleteWait(t) \/ DeleteCommon(t) \/ Fault(t))
        BY <2>4, Origins, Changes
    <2> QED
        BY <2>1, <2>2, <2>3, <2>4
<1> SUFFICES ASSUME NEW a \in Thread, pc'[a] \in Unpublished
             PROVE  tags' = "null" /\ \A u \in Thread : pc'[u] \in Unpublished => u = a
    BY DEF DeleteInv
<1>3. CASE a = t
    BY <1>1, <1>2, <1>3 DEF DeleteInv
<1>4. CASE a # t
    BY <1>1, <1>2, <1>4 DEF DeleteInv
<1> QED
    BY <1>3, <1>4

(* The objects that somebody can reach are allocated.                      *)
LEMMA NextAlloc ==
    ASSUME PointerParts, TagInv, DeleteInv, AllocInv, NEW t \in Thread, Step(t)
    PROVE  AllocInv'
<1> USE DEF PointerParts
<1>1. \A v \in Thread \ {t} :
         /\ lv'[v] = lv[v] /\ at'[v] = at[v]
         /\ pc'[v] \in Unpublished <=> pc[v] \in Unpublished
         /\ pc'[v] = "r_free" => pc[v] = "r_free"
         /\ \A i \in Inst : RcuReader(v, i)' <=> RcuReader(v, i)
    BY Frame, FrameLabels DEF Stays, RcuReader, Uses
<1>2. \A v \in Thread : pc[v] \in InTag => tags # "null"
    BY DEF TagInv, DeleteSafe
<1>3. /\ \A l \in Level : <<l, cur[l]>> \in Inst
      /\ \A v \in Thread : lv[v] \in Level /\ at[v] \in Int /\ cur[lv[v]] \in Int /\ I(v) \in Inst
    BY InstType, IType DEF TypeOK, Epoch
<1>4. /\ HoldsRcuRead \subseteq InTag /\ HoldsTmpRead \subseteq InTag
      /\ PointsToCur \subseteq InTag /\ {"r_drop", "r_free", "r_create"} \subseteq InTag
    BY DEF HoldsRcuRead, HoldsTmpRead, PointsToCur, InTag, Receiving, TakesPart, LeavesAwake,
           Sending, Awaking, Viewing
<1>5. \A i \in Inst, v \in Thread : RcuReader(v, i) => pc[v] \in InTag
    BY <1>4 DEF RcuReader, Uses
(* A new reader found the level's object.                                  *)
<1>6. \A i \in Inst : RcuReader(t, i)' =>
         RcuReader(t, i) \/ (i = <<lv[t], cur[lv[t]]>> /\ alloc[i] = "live" /\ UNCHANGED <<alloc, cur>>)
    <2> SUFFICES ASSUME NEW i \in Inst, RcuReader(t, i)', ~RcuReader(t, i)
                 PROVE  i = <<lv[t], cur[lv[t]]>> /\ alloc[i] = "live" /\ UNCHANGED <<alloc, cur>>
        OBVIOUS
    <2>1. CASE KeptRcu(t)
        BY <2>1 DEF KeptRcu, RcuReader, Uses, I, HoldsRcuRead, HoldsTmpRead
    <2>2. CASE KeptTmp(t)
        BY <2>2 DEF KeptTmp, RcuReader, Uses, I, HoldsRcuRead, HoldsTmpRead
    <2>3. CASE TookRcu(t)
        <3>1. i = <<lv[t], at[t]>> /\ at[t] = cur[lv[t]] /\ UNCHANGED <<alloc, cur>> /\ pc[t] \in InTag
            BY <1>4, <2>3 DEF TookRcu, RcuReader, Uses, I, HoldsRcuRead, HoldsTmpRead, PointerInv,
                              Points, PointsToCur
        <3> QED
            BY <1>2, <1>3, <3>1 DEF AllocInv
    <2>4. pc'[t] \in HoldsRcuRead \cup HoldsTmpRead
        BY DEF RcuReader, Uses
    <2> QED
        BY <2>1, <2>2, <2>3, <2>4, Moves
<1>7. ASSUME NEW i \in Inst, NEW v \in Thread, RcuReader(v, i)'
      PROVE  alloc'[i] = "live"
    <2>1. alloc[i] = "live"
        BY <1>1, <1>6, <1>7 DEF AllocInv
    <2>2. CASE alloc' = alloc
        BY <2>1, <2>2
    <2>3. CASE ReceiveCreate(t)
        BY <2>1, <2>3 DEF ReceiveCreate, TypeOK
    <2>4. CASE alloc' # alloc /\ ReceiveFree(t)
        <3>1. RcuReader(v, i)
            BY <1>1, <1>6, <1>7, <2>4
        <3>2. pc[t] = "r_free" /\ alloc' = [alloc EXCEPT ![I(t)] = "freed"]
            BY <2>4 DEF ReceiveFree, At
        <3>3. i # I(t)
            BY <3>1, <3>2 DEF AllocInv
        <3> QED
            BY <2>1, <3>2, <3>3 DEF TypeOK
    <2>5. CASE alloc' # alloc /\ DeleteFree(t)
        <3>1. RcuReader(v, i)
            BY <1>1, <1>6, <1>7, <2>5
        <3>2. tags = "null"
            BY <2>5 DEF DeleteFree, At, DeleteInv, Unpublished
        <3> QED
            BY <1>2, <1>5, <3>1, <3>2
    <2> QED
        BY <2>2, <2>3, <2>4, <2>5, Changes
<1>8. ASSUME NEW v \in Thread, NEW u \in Thread, pc'[v] = "r_free"
      PROVE  ~RcuReader(u, I(v))'
    <2>1. I(v)' = I(v) /\ \A w \in Thread : ~RcuReader(w, I(v))
        <3>1. CASE v # t
            BY <1>1, <1>8, <3>1 DEF AllocInv, I
        <3>2. CASE v = t
            BY <1>3, <1>8, <3>2, Origins DEF ReceiveDrop, Fault, locals, I, At, RcuExclusion,
                RcuWriter, HoldsRcuWrite, AllocInv
        <3> QED
            BY <3>1, <3>2
    <2>2. ASSUME NEW i \in Inst, i = I(v), RcuReader(u, i)'
          PROVE  FALSE
        <3>1. ~RcuReader(u, i)
            BY <2>1, <2>2
        <3>2. u = t /\ i = <<lv[t], cur[lv[t]]>> /\ cur' = cur
            BY <1>1, <1>6, <2>2, <3>1
        <3>3. at'[v] < cur'[lv'[v]] /\ lv'[v] = lv[v] /\ at'[v] = at[v]
            BY <1>8, <2>1, NextPointer DEF PointerInv, Points, I
        <3> QED
            BY <1>3, <2>2, <3>2, <3>3 DEF I
    <2> QED
        BY <1>3, <2>1, <2>2 DEF RcuReader, Uses
<1>9. ASSUME NEW l \in Level
      PROVE  \/ alloc'[<<l, cur'[l]>>] = "live"
             \/ tags' = "null" /\ \A v \in Thread : pc'[v] \notin Unpublished
    <2>1. (\E v \in Thread : pc[v] \in Unpublished) => tags = "null"
        BY DEF DeleteInv
    <2>2. \/ alloc[<<l, cur[l]>>] = "live"
          \/ tags = "null" /\ \A v \in Thread : pc[v] \notin Unpublished
        BY DEF AllocInv
    <2>3. CASE ReceiveCreate(t)
        <3> DEFINE new == <<lv[t], at[t] + 1>>
        <3>1. /\ alloc' = [alloc EXCEPT ![new] = "live"] /\ pc[t] = "r_create"
              /\ cur' = [cur EXCEPT ![lv[t]] = at[t] + 1] /\ at[t] < MAX_EPOCH
            BY <2>3 DEF ReceiveCreate, At
        <3>2. new \in Inst
            BY <1>3, <3>1, EpochAssumption, InstType DEF TypeOK, Epoch
        <3>3. alloc[<<l, cur[l]>>] = "live"
            BY <1>2, <1>4, <2>2, <3>1
        <3>4. CASE l = lv[t]
            BY <3>1, <3>2, <3>4 DEF TypeOK
        <3>5. CASE l # lv[t]
            <4>1. cur'[l] = cur[l] /\ new # <<l, cur[l]>>
                BY <3>1, <3>5 DEF TypeOK
            <4> QED
                BY <1>3, <3>1, <3>3, <4>1 DEF TypeOK
        <3> QED
            BY <3>4, <3>5
    <2>4. CASE cur' = cur /\ alloc' = alloc
        <3>1. CASE alloc[<<l, cur[l]>>] = "live"
            BY <2>4, <3>1
        <3>2. CASE tags = "null" /\ \A v \in Thread : pc[v] \notin Unpublished
            <4>1. tags' = "null"
                BY <3>2, Changes DEF DeleteCheck, DeleteWait, DeleteCommon, At, Unpublished
            <4>2. pc'[t] \notin Unpublished
                BY <3>2, Origins DEF DeleteCheck, DeleteWait, DeleteCommon, At, Go, Unpublished, Fault, TypeOK
            <4> QED
                BY <1>1, <3>2, <4>1, <4>2
        <3> QED
            BY <2>2, <3>1, <3>2
    <2>5. CASE cur' = cur /\ ReceiveFree(t)
        <3>1. pc[t] = "r_free" /\ alloc' = [alloc EXCEPT ![I(t)] = "freed"] /\ tags # "null"
            BY <1>2, <1>4, <2>5 DEF ReceiveFree, At
        <3>2. I(t) # <<l, cur[l]>>
            BY <1>3, <3>1 DEF PointerInv, Points, I
        <3> QED
            BY <1>3, <2>2, <2>5, <3>1, <3>2 DEF TypeOK
    <2>6. CASE cur' = cur /\ DeleteFree(t)
        <3>1. pc[t] = "d_free" /\ pc' = [pc EXCEPT ![t] = "idle"] /\ tags' = tags
            BY <2>6 DEF DeleteFree, At, Go, tagVars
        <3> QED
            BY <1>1, <3>1 DEF DeleteInv, Unpublished, TypeOK
    <2> QED
        BY <2>3, <2>4, <2>5, <2>6, CurStep, Changes
<1> QED
    BY <1>7, <1>8, <1>9 DEF AllocInv

(* tag_level->waiting counts the receivers enlisted on the object: nobody  *)
(* is enlisted on an object that is only being created.                    *)
LEMMA NextLevelCount ==
    ASSUME PointerParts, LevelCount, NEW t \in Thread, Step(t)
    PROVE  LevelCount'
<1> USE DEF PointerParts
<1> SUFFICES ASSUME NEW i \in Inst
             PROVE  waiting'[i] = Cardinality(Enlistees(i)')
    BY DEF LevelCount
<1>1. \A v \in Thread \ {t} : v \in Enlistees(i)' <=> v \in Enlistees(i)
    BY Frame, FrameLabels DEF Enlistees
<1>2. /\ IsFiniteSet(Enlistees(i)) /\ Enlistees(i) \subseteq Thread
      /\ waiting[i] = Cardinality(Enlistees(i)) /\ Enlistees(i)' \subseteq Thread
    BY ThreadAssumption, FS_Subset DEF LevelCount, Enlistees
<1>3. /\ t \in Enlistees(i) <=> pc[t] \in Enlisted /\ I(t) = i
      /\ t \in Enlistees(i)' <=> pc'[t] \in Enlisted /\ I(t)' = i
    BY DEF Enlistees
<1>4. I(t) \in Inst
    BY IType
<1>5. ASSUME t \in Enlistees(i)' <=> t \in Enlistees(i)
      PROVE  Enlistees(i)' = Enlistees(i)
    BY <1>1, <1>2, <1>5
<1>6. CASE ReceiveEnlist(t)
    <2>1. /\ pc[t] \notin Enlisted /\ pc'[t] \in Enlisted /\ I(t)' = I(t)
          /\ waiting' = [waiting EXCEPT ![I(t)] = @ + 1]
        BY <1>6 DEF ReceiveEnlist, At, Go, Enlisted, I, locals, TypeOK
    <2>2. CASE i # I(t)
        BY <1>2, <1>3, <1>5, <2>1, <2>2 DEF TypeOK
    <2>3. CASE i = I(t)
        <3>1. Enlistees(i)' = Enlistees(i) \cup {t} /\ t \notin Enlistees(i)
            BY <1>1, <1>2, <1>3, <2>1, <2>3
        <3>2. waiting'[i] = waiting[i] + 1
            BY <2>1, <2>3 DEF TypeOK
        <3>3. Cardinality(Enlistees(i) \cup {t}) = Cardinality(Enlistees(i)) + 1
            BY <1>2, <3>1, FS_AddElement
        <3> QED
            BY <1>2, <3>1, <3>2, <3>3
    <2> QED
        BY <2>2, <2>3
<1>7. CASE ReceiveLast(t)
    <2>1. /\ pc[t] \in Enlisted /\ pc'[t] \notin Enlisted
          /\ waiting' = [waiting EXCEPT ![I(t)] = @ - 1]
        BY <1>7 DEF ReceiveLast, At, Go, Enlisted, TypeOK
    <2>2. CASE i # I(t)
        BY <1>2, <1>3, <1>5, <2>1, <2>2 DEF TypeOK
    <2>3. CASE i = I(t)
        <3>1. Enlistees(i)' = Enlistees(i) \ {t} /\ t \in Enlistees(i)
            BY <1>1, <1>2, <1>3, <2>1, <2>3
        <3> QED
            <4>1. Cardinality(Enlistees(i)') = Cardinality(Enlistees(i)) - 1
                BY <1>2, <3>1, FS_RemoveElement
            <4>2. waiting'[i] = waiting[i] - 1
                BY <2>1, <2>3 DEF TypeOK
            <4> QED
                BY <1>2, <4>1, <4>2
    <2> QED
        BY <2>2, <2>3
<1>8. CASE ReceiveCreate(t)
    <2> DEFINE new == <<lv[t], at[t] + 1>>
    <2>1. /\ pc[t] = "r_create" /\ pc'[t] = "r_relock" /\ at[t] = cur[lv[t]]
          /\ waiting' = [waiting EXCEPT ![new] = 0]
        BY <1>8 DEF ReceiveCreate, At, Go, PointerInv, Points, PointsToCur, TypeOK
    <2>2. Enlistees(i)' = Enlistees(i)
        BY <1>3, <1>5, <2>1 DEF Enlisted
    <2>3. CASE i # new
        BY <1>2, <2>1, <2>2, <2>3 DEF TypeOK
    <2>4. CASE i = new
        <3>1. Enlistees(i) = {}
            BY <2>1, <2>4 DEF Enlistees, Enlisted, I, PointerInv, Points, Derefs, TypeOK, Epoch
        <3>2. waiting'[i] = 0
            BY <2>1, <2>4 DEF TypeOK
        <3> QED
            BY <2>2, <3>1, <3>2, FS_EmptySet
    <2> QED
        BY <2>3, <2>4
<1>9. CASE waiting' = waiting /\ ~ReceiveEnlist(t) /\ ~ReceiveLast(t) /\ ~ReceiveCreate(t)
    <2>1. pc'[t] \in Enlisted <=> pc[t] \in Enlisted
        BY <1>9, Moves
    <2>2. pc'[t] \in Enlisted => I(t)' = I(t)
        BY <1>9, Moves DEF Stayed, Looked, Derefs, Enlisted, PointsToCur, I
    <2> QED
        BY <1>2, <1>3, <1>5, <1>9, <2>1, <2>2
<1> QED
    BY <1>6, <1>7, <1>8, <1>9, Changes

-----------------------------------------------------------------------------
(* The inductive invariant                                                 *)

LEMMA InitObject == Init => ObjectInv
<1> SUFFICES ASSUME Init PROVE ObjectInv
    OBVIOUS
<1>1. TagInv
    BY InitTag
<1>2. \A t \in Thread :
        pc[t] \notin HoldsLevelRead \cup HoldsLevelWrite \cup HoldsRcuRead \cup HoldsTmpRead
                     \cup HoldsRcuWrite \cup HoldsMutex \cup Derefs \cup Enlisted \cup PointsToCur
                     \cup Unpublished
    BY DEF Init, HoldsLevelRead, HoldsLevelWrite, HoldsRcuRead, HoldsTmpRead, HoldsRcuWrite,
           HoldsMutex, Derefs, Enlisted, PointsToCur, Unpublished
<1>3. LevelLockInv /\ RcuInv /\ MutexInv
    BY <1>2 DEF Init, Unlocked, LevelLockInv, RcuInv, MutexInv, LevelReader, LevelWriter,
                RcuReader, Uses, RcuWriter, MutexHolder
<1>4. LevelExclusion /\ RcuExclusion /\ DeleteInv
    BY <1>2 DEF LevelExclusion, LevelWriter, RcuExclusion, RcuWriter, DeleteInv
<1>5. PointerInv /\ FreshInv
    BY DEF Init, PointerInv, Points, FreshInv, Derefs, HoldsTmpRead, PointsToCur
<1>6. AllocInv
    BY <1>2, ZeroType, InstType DEF Init, AllocInv, RcuReader, Uses
<1>7. LevelCount
    <2> SUFFICES ASSUME NEW i \in Inst
                 PROVE  waiting[i] = Cardinality(Enlistees(i))
        BY DEF LevelCount
    <2>1. Enlistees(i) = {}
        BY <1>2 DEF Enlistees
    <2> QED
        BY <2>1, FS_EmptySet DEF Init
<1> QED
    BY <1>1, <1>3, <1>4, <1>5, <1>6, <1>7 DEF ObjectInv

LEMMA NextObject ==
    ASSUME ObjectInv, NEW t \in Thread, Step(t)
    PROVE  ObjectInv'
<1>1. PointerParts
    BY DEF ObjectInv, TagInv, PointerParts
<1>2. TagInv' /\ DeleteInv'
    BY NextTag, NextDelete DEF ObjectInv, TagInv, Step
<1>3. LevelLockInv' /\ LevelExclusion' /\ RcuInv' /\ RcuExclusion' /\ MutexInv'
    BY NextLevelLock, NextRcuLock, NextMutex DEF ObjectInv, TagInv
<1>4. PointerInv' /\ FreshInv' /\ AllocInv' /\ LevelCount'
    BY <1>1, NextPointer, NextFresh, NextAlloc, NextLevelCount DEF ObjectInv
<1> QED
    BY <1>2, <1>3, <1>4 DEF ObjectInv

LEMMA StutterObject ==
    ASSUME ObjectInv, UNCHANGED vars
    PROVE  ObjectInv'
<1> USE DEF vars, tagVars, locks, object, locals
<1>1. TagInv' /\ DeleteInv'
    BY DEF ObjectInv, TagInv, TypeOK, TagLockInv, Users, TagCount, Counted, DeleteSafe, DeleteInv
<1>2. LevelLockInv' /\ LevelExclusion'
    BY DEF ObjectInv, LevelLockInv, LevelExclusion, LevelReader, LevelWriter
<1>3. RcuInv' /\ RcuExclusion' /\ MutexInv'
    BY DEF ObjectInv, RcuInv, RcuExclusion, RcuReader, Uses, RcuWriter, MutexInv, MutexHolder, I
<1>4. PointerInv' /\ FreshInv'
    BY DEF ObjectInv, PointerInv, Points, FreshInv, I
<1>5. AllocInv'
    BY DEF ObjectInv, AllocInv, RcuReader, Uses, I
<1>6. LevelCount'
    BY DEF ObjectInv, LevelCount, Enlistees, I
<1> QED
    BY <1>1, <1>2, <1>3, <1>4, <1>5, <1>6 DEF ObjectInv

(* Who holds which lock, where the pointers lead, which objects are        *)
(* allocated and what the counters count, in every state of the            *)
(* specification: what the properties below follow from.                   *)
THEOREM ObjectsCorrect == Spec => []ObjectInv
<1>1. ObjectInv /\ [Next]_vars => ObjectInv'
    BY NextObject, StutterObject DEF Next, Step
<1> QED
    BY InitObject, <1>1, PTL DEF Spec

(* A thread that has returned to user space, on whatever path, holds none  *)
(* of the four locks.                                                      *)
THEOREM NoLockLeaks == Spec => []NoLockLeak
<1>1. ObjectInv => NoLockLeak
    <2> SUFFICES ASSUME ObjectInv, NEW t \in Thread, pc[t] = "idle"
                 PROVE  /\ t \notin tagLock.r \cup tagLock.w
                        /\ \A l \in Level : t \notin levelLock[l].r \cup levelLock[l].w
                        /\ \A i \in Inst : t \notin rcu[i].r \cup rcu[i].w \cup mutex[i]
        BY DEF NoLockLeak
    <2>1. t \notin tagLock.r \cup tagLock.w
        BY DEF ObjectInv, TagInv, TagLockInv, Users, InTag, Receiving, TakesPart, LeavesAwake,
               Sending, Awaking, Viewing
    <2>2. \A l \in Level : t \notin levelLock[l].r \cup levelLock[l].w
        BY DEF ObjectInv, LevelLockInv, LevelReader, LevelWriter, HoldsLevelRead, HoldsLevelWrite
    <2>3. \A i \in Inst : t \notin rcu[i].r \cup rcu[i].w \cup mutex[i]
        BY DEF ObjectInv, RcuInv, RcuReader, Uses, RcuWriter, MutexInv, MutexHolder, HoldsRcuRead,
               HoldsTmpRead, HoldsRcuWrite, HoldsMutex
    <2> QED
        BY <2>1, <2>2, <2>3
<1> QED
    BY ObjectsCorrect, <1>1, PTL

(* Whoever follows a pointer read under level_lock, or holds the rcu_lock  *)
(* of an object, finds it allocated: neither DELETE nor the last receiver  *)
(* of a superseded epoch frees it meanwhile.                               *)
THEOREM AccessIsProtected == Spec => []ProtectedAccess
<1>1. ObjectInv => ProtectedAccess
    <2> SUFFICES ASSUME ObjectInv, NEW t \in Thread,
                        pc[t] \in Derefs \ {"r_last", "r_trylock", "r_reset", "r_drop", "r_free",
                                            "s_unlock"}
                 PROVE  alloc[I(t)] = "live"
        BY DEF ProtectedAccess
    <2>1. CASE pc[t] \in HoldsRcuRead
        BY <2>1, IType DEF ObjectInv, TagInv, AllocInv, RcuReader, Uses
    <2>2. CASE pc[t] \in PointsToCur
        <3>1. pc[t] \in InTag
            BY <2>2 DEF PointsToCur, InTag, Receiving, TakesPart, Sending, Awaking, Viewing
        <3>2. I(t) = <<lv[t], cur[lv[t]]>> /\ lv[t] \in Level
            BY <2>2 DEF ObjectInv, TagInv, TypeOK, PointerInv, Points, I
        <3> QED
            BY <3>1, <3>2 DEF ObjectInv, TagInv, DeleteSafe, AllocInv
    <2> QED
        BY <2>1, <2>2 DEF Derefs, HoldsRcuRead, PointsToCur
<1> QED
    BY ObjectsCorrect, <1>1, PTL

(* Both counters of receivers are exact, on every path a receiver leaves.  *)
THEOREM CountersExact == Spec => []WaitingExact
<1>1. ObjectInv => WaitingExact
    BY DEF ObjectInv, TagInv, WaitingExact, LevelCount, Enlistees
<1> QED
    BY ObjectsCorrect, <1>1, PTL

(* The pointer of a level never goes back to an older epoch: the           *)
(* assignment that undoes a publication is reached only when somebody      *)
(* holds the rcu_lock, and then there was no publication.                  *)
THEOREM EpochsGrow == Spec => EpochMonotonic
<1>1. ObjectInv /\ [Next]_vars => [\A l \in Level : cur'[l] >= cur[l]]_cur
    <2> SUFFICES ASSUME ObjectInv, Next PROVE \A l \in Level : cur'[l] >= cur[l]
        BY DEF vars
    <2>1. PICK t \in Thread : Step(t)
        BY DEF Next, Step
    <2>2. \A l \in Level : cur[l] \in Int
        BY DEF ObjectInv, TagInv, TypeOK, Epoch
    <2>3. \/ cur' = cur
          \/ at[t] = cur[lv[t]] /\ cur' = [cur EXCEPT ![lv[t]] = at[t] + 1]
        BY <2>1, CurStep DEF ObjectInv, TagInv
    <2> QED
        BY <2>2, <2>3 DEF ObjectInv, TagInv, TypeOK
<1> QED
    BY ObjectsCorrect, <1>1, PTL DEF Spec, EpochMonotonic
=============================================================================
