--------------------------- MODULE TagMessageProofs ---------------------------
(***************************************************************************)
(* The messages of TagService: what is delivered, to whom, and who is      *)
(* woken, for every set of threads, number of levels and bound on epochs.  *)
(***************************************************************************)
EXTENDS TagObjectProofs

-----------------------------------------------------------------------------
(* What a step does to the message of one object                           *)

Kept(i) == ready'[i] = ready[i] /\ size'[i] = size[i]
Posts(t, i) ==
    /\ pc[t] \in {"s_copy", "s_empty"} /\ pc'[t] = "s_wake"
    /\ i = I(t) /\ UNCHANGED <<lv, at, stale>>
    /\ ready'[i] = 1 /\ (size'[i] = 1 => buf'[i] = "whole")
Wipes(t, i) ==
    /\ pc[t] \in {"r_reset", "r_free"} /\ pc'[t] = "r_dec"
    /\ i = I(t) /\ ready'[i] = 0 /\ size'[i] = 0
    /\ \A u \in Thread : i \notin stale'[u]

LEMMA MessageStep ==
    ASSUME PointerParts, MessageInv, NEW t \in Thread, Step(t), NEW i \in Inst
    PROVE  Kept(i) \/ Posts(t, i) \/ Wipes(t, i)
<1> USE DEF PointerParts, Kept
<1>1. I(t) \in Inst
    BY IType
<1>2. CASE ReceiveCreate(t)
    <2> DEFINE new == <<lv[t], at[t] + 1>>
    <2>1. /\ ready' = [ready EXCEPT ![new] = 0] /\ size' = [size EXCEPT ![new] = 0]
          /\ at[t] = cur[lv[t]] /\ cur[lv[t]] \in Int
        BY <1>2 DEF ReceiveCreate, At, PointerInv, Points, PointsToCur, TypeOK, Epoch
    <2>2. CASE i # new
        BY <2>1, <2>2 DEF TypeOK
    <2>3. CASE i = new
        <3>1. ~(i[2] <= cur[i[1]])
            BY <2>1, <2>3
        <3>2. ready[i] = 0 /\ size[i] = 0
            BY <3>1 DEF MessageInv, TypeOK
        <3> QED
            BY <2>1, <2>3, <3>2 DEF TypeOK
    <2> QED
        BY <2>2, <2>3
<1>3. CASE SendPost(t)
    <2>1. /\ pc[t] \in {"s_copy", "s_empty"} /\ pc'[t] = "s_wake" /\ UNCHANGED <<lv, at, stale>>
          /\ ready' = [ready EXCEPT ![I(t)] = 1]
          /\ \/ size' = [size EXCEPT ![I(t)] = 0]
             \/ size' = [size EXCEPT ![I(t)] = 1] /\ buf' = [buf EXCEPT ![I(t)] = "whole"]
        BY <1>3 DEF SendPost, At, Go, locals, TypeOK
    <2> QED
        BY <1>1, <2>1 DEF TypeOK, Posts
<1>4. CASE ReceiveReset(t) \/ ReceiveFree(t)
    <2>1. /\ pc[t] \in {"r_reset", "r_free"} /\ pc'[t] = "r_dec"
          /\ ready' = [ready EXCEPT ![I(t)] = 0] /\ size' = [size EXCEPT ![I(t)] = 0]
          /\ stale' = [u \in Thread |-> stale[u] \ {I(t)}]
        BY <1>4 DEF ReceiveReset, ReceiveFree, Wipe, At, Go, TypeOK
    <2> QED
        BY <1>1, <2>1 DEF TypeOK, Wipes
<1> QED
    BY <1>2, <1>3, <1>4, Changes

(* What a receive must not deliver is settled when it begins.              *)
LEMMA StaleStep ==
    ASSUME TypeOK, NEW t \in Thread, Step(t), NEW u \in Thread, NEW i \in Inst, i \in stale'[u]
    PROVE  \/ i \in stale[u]
           \/ /\ u = t /\ pc[t] = "idle" /\ pc'[t] = "r_level"
              /\ ready[i] = 1 /\ UNCHANGED <<ready, buf>>
<1>1. CASE ReceiveEnter(t)
    BY <1>1 DEF ReceiveEnter, Enter, At, Go, Settled, TypeOK, object
<1>2. CASE Forget(t)
    BY <1>2 DEF Forget, TypeOK
<1>3. CASE Wipe(I(t))
    BY <1>3 DEF Wipe
<1> QED
    BY <1>1, <1>2, <1>3, Changes

(* A message that is there is whole, since copy_from_user starts only      *)
(* where there is none.                                                    *)
LEMMA NextMessage ==
    ASSUME PointerParts, MessageInv, NEW t \in Thread, Step(t)
    PROVE  MessageInv'
<1> USE DEF PointerParts
<1>1. ASSUME NEW i \in Inst, size'[i] = 1
      PROVE  ready'[i] = 1 /\ buf'[i] = "whole"
    <2>1. CASE Kept(i)
        <3>1. ready'[i] = 1 /\ buf[i] = "whole" /\ size[i] = 1
            BY <1>1, <2>1 DEF Kept, MessageInv
        <3>2. CASE SendBegin(t)
            BY <3>1, <3>2 DEF SendBegin, CanPost, Kept, MessageInv, TypeOK
        <3>3. CASE ReceiveCreate(t) \/ SendPost(t) \/ ReceiveFree(t)
            BY <3>1, <3>3 DEF ReceiveCreate, SendPost, ReceiveFree, TypeOK
        <3> QED
            BY <3>1, <3>2, <3>3, Changes
    <2>2. CASE Posts(t, i)
        BY <1>1, <2>2 DEF Posts
    <2>3. CASE Wipes(t, i)
        BY <1>1, <2>3 DEF Wipes
    <2> QED
        BY <2>1, <2>2, <2>3, MessageStep
<1>2. ASSUME NEW i \in Inst, ready'[i] = 1
      PROVE  i[2] <= cur'[i[1]]
    <2>1. \A l \in Level : cur[l] \in Int /\ cur'[l] \in Int /\ cur'[l] >= cur[l]
        BY CurStep DEF TypeOK, Epoch
    <2>2. i[1] \in Level /\ i[2] \in Int
        BY DEF Inst, Epoch
    <2>3. i[2] <= cur[i[1]]
        <3>1. CASE Posts(t, i)
            BY <3>1 DEF Posts, PointerInv, Points, Derefs, I
        <3>2. CASE ~Posts(t, i)
            BY <1>2, <3>2, MessageStep DEF Kept, Wipes, MessageInv
        <3> QED
            BY <3>1, <3>2
    <2> QED
        BY <2>1, <2>2, <2>3
<1>3. ASSUME NEW i \in Inst, NEW u \in Thread, i \in stale'[u]
      PROVE  ready'[i] = 1
    <2>1. ready[i] = 1
        BY <1>3, StaleStep DEF MessageInv
    <2> QED
        BY <1>3, <2>1, MessageStep DEF Kept, Posts, Wipes
<1> QED
    BY <1>1, <1>2, <1>3 DEF MessageInv

(* A receiver joins an object where it found no message.                   *)
LEMMA NextJoin ==
    ASSUME PointerParts, MessageInv, JoinInv, NEW t \in Thread, Step(t)
    PROVE  JoinInv'
<1> USE DEF PointerParts
<1> SUFFICES ASSUME NEW u \in Thread, pc'[u] \in Joined \/ pc'[u] = "r_relock",
                    I(u)' \in stale'[u]
             PROVE  FALSE
    BY DEF JoinInv
<1>i. PICK i \in Inst : i = I(u)' /\ i \in stale'[u]
    BY NextType, IType DEF TypeOK, I, Step, Inst
<1>1. i \in stale[u] /\ ready[i] = 1
    BY <1>i, StaleStep DEF MessageInv, Joined
<1>2. CASE u # t
    BY <1>i, <1>1, <1>2, Frame, FrameLabels DEF Stays, JoinInv
<1>3. CASE u = t /\ pc'[t] = "r_relock"
    <2>1. CASE ReceiveCreate(t)
        <3>1. i = <<lv[t], at[t] + 1>> /\ at[t] = cur[lv[t]] /\ cur[lv[t]] \in Int
            BY <1>i, <1>3, <2>1 DEF ReceiveCreate, At, I, PointerInv, Points, PointsToCur, TypeOK, Epoch
        <3>2. i[2] <= cur[i[1]]
            BY <1>1 DEF MessageInv
        <3> QED
            BY <3>1, <3>2
    <2>2. CASE ReceiveRecheck(t)
        BY <1>i, <1>1, <1>3, <2>2 DEF ReceiveRecheck, Go, I, TypeOK
    <2>3. CASE Fault(t)
        BY <1>i, <1>1, <1>3, <2>3 DEF Fault, locals, I, JoinInv
    <2> QED
        BY <1>3, <2>1, <2>2, <2>3, Origins
<1>4. CASE u = t /\ pc'[t] \in Joined
    <2>1. CASE pc[t] \in Joined
        <3>1. ReceiveCreate(t) => pc'[t] = "r_relock"
            BY DEF ReceiveCreate, Go, TypeOK
        <3>2. lv'[t] = lv[t] /\ at'[t] = at[t]
            BY <1>4, <3>1, Moves DEF Stayed, Looked, Joined, Derefs, PointsToCur
        <3> QED
            BY <1>i, <1>1, <1>4, <2>1, <3>2 DEF JoinInv, I
    <2>2. CASE ReceiveReady(t)
        BY <1>i, <1>1, <1>4, <2>2 DEF ReceiveReady, Go, I, TypeOK, Joined
    <2>3. CASE ReceiveRelock(t)
        BY <1>i, <1>1, <1>4, <2>3 DEF ReceiveRelock, At, I, JoinInv
    <2>4. CASE Fault(t)
        BY <1>i, <1>1, <1>4, <2>4 DEF Fault, locals, I, JoinInv
    <2> QED
        BY <1>4, <2>1, <2>2, <2>3, <2>4, Origins, Moves
<1> QED
    BY <1>2, <1>3, <1>4

-----------------------------------------------------------------------------
(* Superseded objects                                                      *)

(* Nobody uses an object when its message is taken away.                   *)
LEMMA WipedUnused ==
    ASSUME RcuExclusion, AllocInv, NEW t \in Thread, NEW i \in Inst, Wipes(t, i)
    PROVE  \A u \in Thread : ~Uses(u, i)
BY DEF Wipes, RcuExclusion, RcuWriter, HoldsRcuWrite, AllocInv, RcuReader

(* A step gives an object at most one new user, which holds level_lock.    *)
LEMMA NewUser ==
    ASSUME PointerParts, NEW t \in Thread, Step(t), NEW u \in Thread, NEW i \in Inst, Uses(u, i)'
    PROVE  \/ Uses(u, i)
           \/ /\ u = t /\ I(t) = i /\ at[t] = cur[lv[t]] /\ UNCHANGED <<lv[t], at[t], cur>>
              /\ LevelReader(t, lv[t]) \/ LevelWriter(t, lv[t])
<1>1. CASE u # t
    BY <1>1, Frame, FrameLabels DEF PointerParts, Uses
<1>2. CASE u = t
    <2>1. KeptRcu(t) \/ TookRcu(t)
        BY <1>2, Moves DEF PointerParts, KeptTmp, Uses, HoldsRcuRead, HoldsTmpRead
    <2>2. CASE KeptRcu(t)
        BY <1>2, <2>2 DEF KeptRcu, Uses, I
    <2>3. CASE TookRcu(t)
        BY <1>2, <2>3 DEF TookRcu, Uses, I, PointerParts, PointerInv, Points, PointsToCur,
            LevelReader, LevelWriter, HoldsLevelRead, HoldsLevelWrite
    <2> QED
        BY <2>1, <2>2, <2>3
<1> QED
    BY <1>1, <1>2

LEMMA NextSuperseded ==
    ASSUME PointerParts, AllocInv, MessageInv, SupersededInv, NEW t \in Thread, Step(t)
    PROVE  SupersededInv'
<1> USE DEF PointerParts
<1>1. \A u \in Thread : I(u)' \in Inst /\ I(u) \in Inst
    BY NextType, IType DEF TypeOK, I, Step, Inst
<1>2. \A u \in Thread : lv[u] \in Level /\ at[u] \in Int /\ cur[lv[u]] \in Int
    BY DEF TypeOK, Epoch
<1>3. ASSUME NEW u \in Thread, pc'[u] \in HoldsRcuRead, at'[u] < cur'[lv'[u]],
             NEW i \in Inst, i = I(u)'
      PROVE  ready'[i] = 1
    <2>1. Uses(u, i)'
        BY <1>3 DEF Uses
    <2>2. Uses(u, i)
        BY <1>2, <1>3, <2>1, NewUser
    <2>3. ready[i] = 1
        <3>1. at'[u] = at[u] /\ lv'[u] = lv[u]
            BY <1>3, <2>2 DEF Uses, I
        <3>2. CASE at[u] < cur[lv[u]]
            BY <2>2, <3>2 DEF Uses, SupersededInv
        <3>3. CASE ~(at[u] < cur[lv[u]])
            <4>1. ReceiveCreate(t) /\ pc[t] = "r_create" /\ at[t] = cur[lv[t]] /\ lv[t] = lv[u]
                BY <1>2, <1>3, <3>1, <3>3, CurStep DEF TypeOK
            <4>2. at[u] = cur[lv[u]]
                BY <1>2, <2>2, <3>3 DEF Uses, PointerInv, Points, HoldsRcuRead, Derefs
            <4>3. I(t) = i
                BY <2>2, <4>1, <4>2 DEF Uses, I
            <4> QED
                BY <2>2, <4>1, <4>3 DEF SupersededInv
        <3> QED
            BY <3>2, <3>3
    <2>4. ~Wipes(t, i)
        BY <2>2, WipedUnused
    <2> QED
        BY <2>3, <2>4, MessageStep DEF Kept, Posts
<1>4. ASSUME NEW u \in Thread, pc'[u] = "r_create", NEW i \in Inst, i = I(u)'
      PROVE  ready'[i] = 1 \/ \A v \in Thread : ~Uses(v, i)'
    <2>1. CASE u = t
        <3>1. CASE ReceiveRecheck(t)
            BY <1>4, <2>1, <3>1 DEF ReceiveRecheck, Go, I, TypeOK, object
        <3>2. CASE Fault(t)
            <4>1. UNCHANGED <<pc, lv, at, ready>>
                BY <3>2 DEF Fault, locals, object
            <4> QED
                BY <1>4, <4>1 DEF SupersededInv, Uses, I
        <3> QED
            BY <1>4, <2>1, <3>1, <3>2, Origins
    <2>2. CASE u # t
        <3>1. pc[u] = "r_create" /\ I(u) = i /\ lv[u] \in Level
            BY <1>2, <1>4, <2>2, Frame, FrameLabels DEF Stays
        <3>2. LevelWriter(u, lv[u])
            BY <3>1 DEF LevelWriter, HoldsLevelWrite
        <3>3. ASSUME NEW v \in Thread, Uses(v, i)' PROVE Uses(v, i)
            <4>1. I(t) = i => ~LevelReader(t, lv[t]) /\ ~LevelWriter(t, lv[t])
                BY <2>2, <3>1, <3>2 DEF LevelExclusion, I
            <4> QED
                BY <3>3, <4>1, NewUser
        <3>4. CASE \A v \in Thread : ~Uses(v, i)
            BY <3>3, <3>4
        <3>5. CASE ready[i] = 1
            BY <3>3, <3>5, WipedUnused, MessageStep DEF Kept, Posts
        <3> QED
            BY <3>1, <3>4, <3>5 DEF SupersededInv
    <2> QED
        BY <2>1, <2>2
<1> QED
    BY <1>1, <1>3, <1>4 DEF SupersededInv, Uses

-----------------------------------------------------------------------------
(* The senders                                                             *)

LEMMA NextSender ==
    ASSUME PointerParts, MutexInv, MessageInv, SenderInv, NEW t \in Thread, Step(t)
    PROVE  SenderInv'
<1> USE DEF PointerParts
<1>f. \A u \in Thread \ {t}, i \in Inst :
        MutexHolder(u, i)' <=> MutexHolder(u, i)
    BY Frame, FrameLabels DEF MutexHolder
<1>1. ASSUME NEW i \in Inst, MutexHolder(t, i)'
      PROVE  MutexHolder(t, i) \/ \A u \in Thread : ~MutexHolder(u, i)
    <2>1. pc[t] \in Derefs /\ I(t) = i
        <3>1. ReceiveCreate(t) => pc'[t] = "r_relock"
            BY DEF ReceiveCreate, Go, TypeOK
        <3> QED
            BY <1>1, <3>1, Moves DEF MutexHolder, HoldsMutex, Derefs, Stayed, Looked, PointsToCur, I
    <2>2. CASE SendLock(t)
        BY <2>1, <2>2 DEF SendLock, MutexInv
    <2>3. CASE SendBegin(t) \/ SendFault(t)
        BY <2>1, <2>3 DEF SendBegin, SendFault, At, MutexHolder, HoldsMutex
    <2>4. CASE Fault(t)
        BY <1>1, <2>4 DEF Fault, locals, MutexHolder, I
    <2> QED
        BY <1>1, <2>2, <2>3, <2>4, Origins DEF MutexHolder, HoldsMutex
<1>2. ASSUME NEW i \in Inst, NEW u \in Thread, NEW v \in Thread,
             MutexHolder(u, i)', MutexHolder(v, i)'
      PROVE  u = v
    BY <1>f, <1>1, <1>2 DEF SenderInv
<1>3. ASSUME NEW u \in Thread, pc'[u] \in {"s_copy", "s_empty"}
      PROVE  ready'[I(u)'] = 0
    <2>i. PICK i \in Inst : i = I(u)'
        BY NextType, IType DEF TypeOK, I, Step, Inst
    <2>1. CASE u = t
        <3>1. CASE SendBegin(t)
            BY <2>1, <3>1, IType DEF SendBegin, CanPost, locals, I, TypeOK
        <3>2. CASE Fault(t)
            BY <1>3, <2>1, <3>2 DEF Fault, locals, object, I, SenderInv
        <3> QED
            BY <1>3, <2>1, <3>1, <3>2, Origins
    <2>2. CASE u # t
        <3>1. pc[u] \in {"s_copy", "s_empty"} /\ I(u) = i /\ ready[i] = 0
            BY <1>3, <2>i, <2>2, Frame, FrameLabels DEF Stays, SenderInv
        <3>2. ~Posts(t, i)
            BY <2>2, <3>1 DEF Posts, SenderInv, MutexHolder, HoldsMutex
        <3> QED
            BY <2>i, <3>1, <3>2, MessageStep DEF Kept, Wipes
    <2> QED
        BY <2>1, <2>2
<1> QED
    BY <1>2, <1>3 DEF SenderInv

-----------------------------------------------------------------------------
(* Wake-ups                                                                *)

(* Which steps leave the labels from which sleepers are woken.             *)
LEMMA Departures ==
    ASSUME NEW t \in Thread, Step(t)
    PROVE  /\ pc[t] = "s_wake" => SendWake(t) \/ Fault(t)
           /\ pc[t] = "a_level" => AwakeLevel(t) \/ AwakeIntr(t) \/ Fault(t)
           /\ pc[t] = "a_rcu" => AwakeRcu(t) \/ AwakeIntr(t) \/ Fault(t)
<1> USE DEF At
<1>0. /\ SendWake(t) => pc[t] = "s_wake"
      /\ AwakeLevel(t) => pc[t] = "a_level"
      /\ AwakeRcu(t) => pc[t] = "a_rcu"
      /\ AwakeIntr(t) => pc[t] \in {"a_level", "a_rcu"}
    BY DEF SendWake, AwakeLevel, AwakeRcu, AwakeIntr
<1>1. CASE Call(t) \/ Refused(t)
    BY <1>1 DEF Call, Refused, ReceiveEnter, SendEnter, AwakeEnter, DeleteTrylock, ViewEnter, Enter
<1>2. CASE Upset(t)
    BY <1>0, <1>2 DEF Upset, ReceiveLevelIntr, ReceiveRcuIntr, ReceiveLockLevelIntr, ReceiveNoMemory,
        ReceiveRelockIntr, ReceiveSignal, SendIntr, SendFault, ViewIntr
<1>3. CASE Progress(t)
    BY <1>0, <1>3 DEF Progress, ReceiveLevel, ReceiveRcu, ReceiveReady, ReceiveLockLevel,
        ReceiveRecheck, ReceiveCreate, ReceiveRelock, ReceiveEnlist, ReceiveCheck, ReceiveWoken, ReceiveLook,
        ReceiveCopy, ReceiveLast, ReceiveTrylock, ReceiveReset, ReceiveDrop, ReceiveFree,
        ReceiveEnd, ReceiveDec, ReceiveClear, SendLevel, SendRcu, SendLock, SendContended,
        SendDiscard, SendBegin, SendPost, SendUnlock, AwakeSet, DeleteCheck, DeleteWait,
        DeleteCommon, DeleteFree, ViewLevel, ViewRcu, ViewLine
<1> QED
    BY <1>1, <1>2, <1>3 DEF Step

(* Nobody goes to sleep where a message is; who posts one wakes the        *)
(* sleepers before it returns.                                             *)
LEMMA NextWakeup ==
    ASSUME PointerParts, MessageInv, NoLostWakeup, NEW t \in Thread, Step(t)
    PROVE  NoLostWakeup'
<1> USE DEF PointerParts
<1> SUFFICES ASSUME NEW u \in Thread, pc'[u] = "r_sleep", ready'[I(u)'] = 1
             PROVE  \E s \in Thread : pc'[s] = "s_wake" /\ I(s)' = I(u)'
    BY DEF NoLostWakeup
<1>i. PICK i \in Inst : i = I(u)' /\ ready'[i] = 1
    BY NextType, IType DEF TypeOK, I, Step, Inst
<1>1. CASE Fault(t)
    <2>1. UNCHANGED <<pc, lv, at, ready>>
        BY <1>1 DEF Fault, locals, object
    <2> QED
        BY <2>1 DEF NoLostWakeup, I
<1>2. CASE u = t /\ ~Fault(t)
    <2>1. ReceiveCheck(t)
        BY <1>2, Origins
    <2> QED
        BY <1>i, <1>2, <2>1 DEF ReceiveCheck, WakeCondition, Go, I, TypeOK, object, locals
<1>3. CASE u # t /\ ~Fault(t)
    <2>1. pc[u] = "r_sleep" /\ I(u) = i
        BY <1>i, <1>3, Frame, FrameLabels DEF Stays
    <2>2. CASE Posts(t, i)
        BY <1>i, <2>2 DEF Posts, I
    <2>3. CASE ~Posts(t, i)
        <3>1. ready[i] = 1
            BY <1>i, <2>3, MessageStep DEF Kept, Wipes
        <3>2. PICK s \in Thread : pc[s] = "s_wake" /\ I(s) = i
            BY <2>1, <3>1 DEF NoLostWakeup
        <3>3. CASE s # t
            BY <1>i, <3>2, <3>3, Frame, FrameLabels
        <3>4. CASE s = t
            <4>1. SendWake(t)
                BY <1>3, <3>2, <3>4, Departures
            <4>2. pc'[u] = "r_check"
                BY <1>3, <2>1, <3>2, <3>4, <4>1 DEF SendWake, Wake
            <4> QED
                BY <4>2
        <3> QED
            BY <3>3, <3>4
    <2> QED
        BY <2>2, <2>3
<1> QED
    BY <1>1, <1>2, <1>3

LEMMA NextStart ==
    ASSUME TypeOK, StartInv, NEW t \in Thread, Step(t)
    PROVE  StartInv'
<1> USE DEF TypeOK, At, Go, Outside, Awaking, Deleting
<1>1. ASSUME NEW u \in Thread \ {t}
      PROVE  (pc'[u] \in Outside => lv'[u] = 0) /\ (pc'[u] \in Awaking => "awake" \in Ops[u])
    BY Frame DEF Stays, StartInv
<1>o. pc[t] \in Outside => lv[t] = 0
    BY DEF StartInv
<1>2. pc'[t] \in Outside => lv'[t] = 0
    <2> USE <1>o DEF Forget, Return, locals
    <2>1. CASE Call(t) \/ Refused(t) \/ Fault(t)
        BY <2>1 DEF Call, Refused, Fault, vars, ReceiveEnter, SendEnter, AwakeEnter, DeleteTrylock,
            ViewEnter, Enter
    <2>2. CASE \/ ReceiveLevel(t) \/ ReceiveRcu(t) \/ ReceiveReady(t) \/ ReceiveLockLevel(t)
               \/ ReceiveRecheck(t) \/ ReceiveCreate(t) \/ ReceiveRelock(t) \/ ReceiveEnlist(t)
               \/ ReceiveCheck(t)
        BY <2>2 DEF ReceiveLevel, ReceiveRcu, ReceiveReady, ReceiveLockLevel, ReceiveRecheck,
            ReceiveCreate, ReceiveRelock, ReceiveEnlist, ReceiveCheck
    <2>3. CASE \/ ReceiveWoken(t) \/ ReceiveLook(t) \/ ReceiveCopy(t) \/ ReceiveLast(t) \/ ReceiveTrylock(t)
               \/ ReceiveReset(t) \/ ReceiveDrop(t) \/ ReceiveFree(t) \/ ReceiveEnd(t)
        BY <2>3 DEF ReceiveWoken, ReceiveLook, ReceiveCopy, ReceiveLast, ReceiveTrylock, ReceiveReset,
            ReceiveDrop, ReceiveFree, ReceiveEnd, ReceiveDec, ReceiveClear, Leave
    <2>4. CASE Upset(t) /\ ~Fault(t)
        BY <2>4 DEF Upset, ReceiveLevelIntr, ReceiveRcuIntr, ReceiveLockLevelIntr, ReceiveNoMemory,
            ReceiveRelockIntr, ReceiveSignal, SendIntr, SendFault, AwakeIntr, ViewIntr, ViewNext
    <2>5. CASE \/ SendLevel(t) \/ SendRcu(t) \/ SendLock(t) \/ SendContended(t) \/ SendDiscard(t)
               \/ SendBegin(t) \/ SendPost(t) \/ SendUnlock(t) \/ SendWake(t)
        BY <2>5 DEF SendLevel, SendRcu, SendLock, SendContended, SendDiscard, SendBegin, SendPost,
            SendUnlock, SendWake, Wake
    <2>6. CASE \/ AwakeSet(t) \/ AwakeLevel(t) \/ AwakeRcu(t) \/ DeleteCheck(t) \/ DeleteWait(t)
               \/ DeleteCommon(t) \/ DeleteFree(t) \/ ViewLevel(t) \/ ViewRcu(t) \/ ViewLine(t)
        BY <2>6 DEF AwakeSet, AwakeLevel, AwakeRcu, AwakeNext, Wake, DeleteCheck, DeleteWait,
            DeleteCommon, DeleteFree, ViewLevel, ViewRcu, ViewLine, ViewNext
    <2> QED
        BY <2>1, <2>2, <2>3, <2>4, <2>5, <2>6 DEF Step, Call, Upset, Progress
<1>3. pc'[t] \in Awaking => "awake" \in Ops[t]
    <2>1. CASE Fault(t)
        BY <2>1 DEF Fault, StartInv
    <2>2. CASE AwakeEnter(t)
        BY <2>2 DEF AwakeEnter, Enter
    <2>3. CASE AwakeSet(t) \/ AwakeLevel(t) \/ AwakeRcu(t)
        BY <2>3 DEF AwakeSet, AwakeLevel, AwakeRcu, StartInv
    <2> QED
        BY <2>1, <2>2, <2>3, Origins
<1> QED
    BY <1>1, <1>2, <1>3 DEF StartInv

-----------------------------------------------------------------------------
(* The inductive invariant                                                 *)

LEMMA InitUse == Init => UseInv
<1> SUFFICES ASSUME Init PROVE UseInv
    OBVIOUS
<1>1. ObjectInv
    BY InitObject
<1>2. MessageInv
    BY DEF Init, MessageInv
<1>3. JoinInv /\ SupersededInv /\ SenderInv /\ NoLostWakeup /\ StartInv
    BY DEF Init, JoinInv, Joined, SupersededInv, HoldsRcuRead, SenderInv, MutexHolder, HoldsMutex,
        NoLostWakeup, StartInv, Awaking
<1> QED
    BY <1>1, <1>2, <1>3 DEF UseInv

LEMMA NextUse ==
    ASSUME UseInv, NEW t \in Thread, Step(t)
    PROVE  UseInv'
<1>1. PointerParts /\ AllocInv /\ TypeOK /\ MutexInv
    BY DEF UseInv, ObjectInv, TagInv, PointerParts
<1>2. ObjectInv'
    BY NextObject DEF UseInv
<1> QED
    BY <1>1, <1>2, NextMessage, NextJoin, NextSuperseded, NextSender, NextWakeup, NextStart DEF UseInv

LEMMA StutterUse ==
    ASSUME UseInv, UNCHANGED vars
    PROVE  UseInv'
<1> USE DEF vars, tagVars, locks, object, locals
<1>1. ObjectInv'
    BY StutterObject DEF UseInv
<1>2. MessageInv' /\ JoinInv'
    BY DEF UseInv, MessageInv, JoinInv, I
<1>3. SupersededInv' /\ NoLostWakeup' /\ StartInv'
    BY DEF UseInv, SupersededInv, Uses, NoLostWakeup, StartInv, I
<1>4. SenderInv'
    BY DEF UseInv, SenderInv, MutexHolder, I
<1> QED
    BY <1>1, <1>2, <1>3, <1>4 DEF UseInv

(* Which objects hold a message, for whom and until when, in every state   *)
(* of the specification: what the properties below follow from.            *)
THEOREM MessagesCorrect == Spec => []UseInv
<1>1. UseInv /\ [Next]_vars => UseInv'
    BY NextUse, StutterUse DEF Next, Step
<1> QED
    BY InitUse, <1>1, PTL DEF Spec

(* A message is copied to a receiver only when all of it is there.         *)
THEOREM ReadsWhole == Spec => []NoTornRead
<1>1. UseInv => NoTornRead
    BY IType DEF UseInv, ObjectInv, TagInv, MessageInv, NoTornRead
<1> QED
    BY MessagesCorrect, <1>1, PTL

(* A receive does not get a message whose send had returned before it      *)
(* began.                                                                  *)
THEOREM DeliversNothingStale == Spec => []NoStaleDelivery
<1>1. UseInv => NoStaleDelivery
    BY DEF UseInv, JoinInv, Joined, NoStaleDelivery
<1> QED
    BY MessagesCorrect, <1>1, PTL

(* A receiver asleep where a message has been posted is woken by its       *)
(* sender.                                                                 *)
THEOREM WakeupsReach == Spec => []NoLostWakeup
<1>1. UseInv => NoLostWakeup
    BY DEF UseInv
<1> QED
    BY MessagesCorrect, <1>1, PTL

(* No receiver is left asleep, without a message, on a superseded object.  *)
THEOREM NobodyStranded == Spec => []NoStranded
<1>1. UseInv => NoStranded
    <2> SUFFICES ASSUME UseInv, NEW t \in Thread, pc[t] = "r_sleep", ready[I(t)] = 0
                 PROVE  at[t] = cur[lv[t]]
        BY DEF NoStranded
    <2>1. at[t] <= cur[lv[t]] /\ ~(at[t] < cur[lv[t]])
        BY DEF UseInv, ObjectInv, PointerInv, Points, Derefs, SupersededInv, HoldsRcuRead
    <2>2. at[t] \in Int /\ cur[lv[t]] \in Int
        BY DEF UseInv, ObjectInv, TagInv, TypeOK, Epoch
    <2> QED
        BY <2>1, <2>2
<1> QED
    BY MessagesCorrect, <1>1, PTL

-----------------------------------------------------------------------------
(* AWAKE_ALL                                                               *)

(* The last thread on its way through the levels passes a level only when  *)
(* it has woken those who sleep on the level's object; whoever sleeps on   *)
(* an older one has a message.                                             *)
LEMMA NextAwake ==
    ASSUME \A t \in Thread : "awake" \in Ops[t] => t \notin Interruptible,
           UseInv, AwakeReachesSleepers, NEW t \in Thread, Step(t)
    PROVE  AwakeReachesSleepers'
<1>p. PointerParts /\ TypeOK /\ AllocInv
    BY DEF UseInv, ObjectInv, TagInv, PointerParts
<1>z. \A v \in Thread : lv[v] \in Level /\ lv[v] \in Int /\ lv[v] < LEVELS /\ I(v) \in Inst
    BY <1>p, LevelsAssumption, IType DEF TypeOK, Level
<1> SUFFICES ASSUME NEW u \in Thread, tagReady' = 1, pc'[u] = "r_sleep"
             PROVE  \/ ready'[I(u)'] = 1
                    \/ \E a \in Thread : pc'[a] \in {"a_level", "a_rcu"} /\ lv'[a] <= lv'[u]
    BY DEF AwakeReachesSleepers
<1>1. CASE Fault(t)
    BY <1>1 DEF Fault, AwakeReachesSleepers, tagVars, locals, object, I
<1>2. CASE u = t /\ ~Fault(t)
    <2>1. ReceiveCheck(t)
        BY <1>2, <1>p, Origins
    <2> QED
        BY <1>2, <1>p, <2>1 DEF ReceiveCheck, WakeCondition, Go, TypeOK, tagVars
<1>3. CASE u # t /\ ~Fault(t)
    <2>1. pc[u] = "r_sleep" /\ I(u)' = I(u) /\ lv'[u] = lv[u]
        BY <1>3, <1>p, Frame, FrameLabels DEF Stays
    <2>2. CASE ready[I(u)] = 1
        <3>1. PICK i \in Inst : i = I(u)
            BY <1>z
        <3>2. ~Wipes(t, i)
            BY <1>p, <2>1, <3>1, WipedUnused DEF Uses, HoldsRcuRead, UseInv, ObjectInv
        <3> QED
            BY <1>p, <2>1, <2>2, <3>1, <3>2, MessageStep DEF UseInv, Kept, Posts
    <2>3. CASE tagReady # 1
        <3>1. AwakeSet(t)
            BY <2>3, Changes
        <3>2. pc'[t] = "a_level" /\ lv'[t] = 0
            BY <1>p, <3>1 DEF AwakeSet, At, Go, locals, UseInv, StartInv, Outside, TypeOK
        <3> QED
            BY <1>z, <2>1, <3>2 DEF Level
    <2>4. CASE tagReady = 1 /\ ready[I(u)] # 1
        <3>1. PICK a \in Thread : pc[a] \in {"a_level", "a_rcu"} /\ lv[a] <= lv[u]
            BY <2>1, <2>4 DEF AwakeReachesSleepers
        <3>2. CASE a # t
            BY <1>p, <2>1, <3>1, <3>2, Frame DEF Stays
        <3>3. CASE a = t
            <4>1. AwakeLevel(t) \/ AwakeRcu(t)
                BY <1>3, <3>1, <3>3, Departures DEF AwakeIntr, UseInv, StartInv, Awaking
            <4>2. CASE AwakeLevel(t)
                BY <1>p, <2>1, <3>1, <3>3, <4>2 DEF AwakeLevel, Go, TypeOK
            <4>3. CASE AwakeRcu(t) /\ lv[t] < lv[u]
                <5>1. lv[t] + 1 < LEVELS /\ lv[t] + 1 <= lv[u]
                    BY <1>z, <4>3, LevelsAssumption
                <5>2. pc'[t] = "a_level" /\ lv'[t] = lv[t] + 1
                    BY <1>p, <4>3, <5>1 DEF AwakeRcu, AwakeNext, Wake, Go, TypeOK
                <5> QED
                    BY <2>1, <5>1, <5>2
            <4>4. CASE AwakeRcu(t) /\ lv[t] = lv[u]
                <5>1. at[t] = cur[lv[t]] /\ at[u] = cur[lv[u]]
                    <6>1. at[u] <= cur[lv[u]] /\ ~(at[u] < cur[lv[u]])
                        BY <2>1, <2>4 DEF UseInv, ObjectInv, PointerInv, Points, Derefs,
                            SupersededInv, HoldsRcuRead
                    <6>2. at[u] \in Int /\ cur[lv[u]] \in Int
                        BY <1>p DEF TypeOK, Epoch
                    <6>3. at[t] = cur[lv[t]]
                        BY <4>4 DEF AwakeRcu, At, UseInv, ObjectInv, PointerInv, Points, PointsToCur
                    <6> QED
                        BY <6>1, <6>2, <6>3
                <5>2. I(u) = I(t)
                    BY <4>4, <5>1 DEF I
                <5>3. waiting[I(t)] > 0
                    <6>1. PICK i \in Inst : i = I(t)
                        BY <1>z
                    <6>2. u \in Enlistees(i) /\ IsFiniteSet(Enlistees(i))
                        BY <2>1, <5>2, <6>1, ThreadAssumption, FS_Subset DEF Enlistees, Enlisted
                    <6>3. Cardinality(Enlistees(i)) \in Nat /\ Cardinality(Enlistees(i)) # 0
                        BY <6>2, FS_CardinalityType, FS_EmptySet
                    <6> QED
                        BY <6>1, <6>3 DEF UseInv, ObjectInv, LevelCount
                <5>4. pc'[u] = "r_awoken"
                    BY <1>3, <2>1, <4>4, <5>2, <5>3 DEF AwakeRcu, Wake
                <5> QED
                    BY <5>4
            <4> QED
                BY <1>z, <3>1, <3>3, <4>1, <4>2, <4>3, <4>4
        <3> QED
            BY <3>2, <3>3
    <2> QED
        BY <2>2, <2>3, <2>4
<1> QED
    BY <1>1, <1>2, <1>3

(* While AWAKE_ALL is in force every sleeper will still be visited,        *)
(* provided that no signal makes a thread give up the loop: one that does  *)
(* leaves the flag set and the sleepers of the other levels asleep.        *)
THEOREM AwakeVisitsSleepers ==
    ASSUME \A t \in Thread : "awake" \in Ops[t] => t \notin Interruptible
    PROVE  Spec => []AwakeReachesSleepers
<1>1. Init => AwakeReachesSleepers
    BY DEF Init, AwakeReachesSleepers
<1>2. UseInv /\ AwakeReachesSleepers /\ [Next]_vars => AwakeReachesSleepers'
    <2> SUFFICES ASSUME UseInv, AwakeReachesSleepers, [Next]_vars
                 PROVE  AwakeReachesSleepers'
        OBVIOUS
    <2>1. CASE Next
        BY <2>1, NextAwake DEF Next, Step
    <2>2. CASE UNCHANGED vars
        BY <2>2 DEF vars, tagVars, locks, object, locals, AwakeReachesSleepers, I
    <2> QED
        BY <2>1, <2>2
<1> QED
    BY MessagesCorrect, <1>1, <1>2, PTL DEF Spec
-----------------------------------------------------------------------------
(* The meeting of senders and receivers                                    *)

(* How a step of t may change t's part in the meeting, besides joining,    *)
(* leaving and the messages: not at all, or by giving up.                  *)
Quiet(t) ==
    /\ pc'[t] \in Arriving <=> pc[t] \in Arriving
    /\ pc[t] \in Arriving => stale'[t] = stale[t]
    /\ pc'[t] \in Joined <=> pc[t] \in Joined
    /\ pc[t] \in Joined => UNCHANGED <<lv[t], at[t]>>
    /\ pc'[t] = "s_wake" <=> pc[t] = "s_wake"
    /\ pc[t] = "s_wake" => UNCHANGED <<lv[t], at[t]>>
    /\ pc'[t] = "r_copy" <=> pc[t] = "r_copy"
GivesUp(t) == pc[t] \in Arriving /\ pc'[t] \notin Arriving \cup Joined \cup {"s_wake"}
Meets(t) ==
    \/ ReceiveEnter(t) \/ ReceiveReady(t) \/ ReceiveRelock(t) \/ ReceiveCreate(t)
    \/ SendPost(t) \/ SendWake(t) \/ ReceiveWoken(t) \/ ReceiveLook(t) \/ ReceiveCopy(t)
    \/ ReceiveReset(t) \/ ReceiveFree(t)

LEMMA Roles ==
    ASSUME TypeOK, NEW t \in Thread, Step(t)
    PROVE  Meets(t) \/ Quiet(t) \/ GivesUp(t)
<1> USE DEF TypeOK, At, Go, Quiet, GivesUp, Arriving, Joined
<1>1. CASE Call(t) \/ Refused(t) \/ Fault(t)
    BY <1>1 DEF Call, Refused, Fault, vars, Meets, SendEnter, AwakeEnter, DeleteTrylock,
        ViewEnter, Enter, locals
<1>2. CASE \/ ReceiveLevel(t) \/ ReceiveRcu(t) \/ ReceiveLockLevel(t) \/ ReceiveRecheck(t)
           \/ ReceiveEnlist(t) \/ ReceiveCheck(t) \/ ReceiveSignal(t)
    BY <1>2 DEF ReceiveLevel, ReceiveRcu, ReceiveLockLevel, ReceiveRecheck, ReceiveEnlist,
        ReceiveCheck, ReceiveSignal, locals
<1>3. CASE ReceiveLast(t) \/ ReceiveTrylock(t) \/ ReceiveDrop(t) \/ ReceiveEnd(t)
    BY <1>3 DEF ReceiveLast, ReceiveTrylock, ReceiveDrop, ReceiveEnd, ReceiveDec, ReceiveClear,
        Leave, Return, locals
<1>4. CASE \/ ReceiveLevelIntr(t) \/ ReceiveRcuIntr(t) \/ ReceiveLockLevelIntr(t)
           \/ ReceiveNoMemory(t) \/ ReceiveRelockIntr(t) \/ SendIntr(t) \/ SendFault(t)
           \/ AwakeIntr(t) \/ ViewIntr(t)
    BY <1>4 DEF ReceiveLevelIntr, ReceiveRcuIntr, ReceiveLockLevelIntr, ReceiveNoMemory,
        ReceiveRelockIntr, SendIntr, SendFault, AwakeIntr, ViewIntr, ViewNext, Return, locals
<1>5. CASE \/ SendLevel(t) \/ SendRcu(t) \/ SendLock(t) \/ SendContended(t) \/ SendDiscard(t)
           \/ SendBegin(t) \/ SendUnlock(t)
    BY <1>5 DEF SendLevel, SendRcu, SendLock, SendContended, SendDiscard, SendBegin, SendUnlock,
        Return, locals
<1>6. CASE \/ AwakeSet(t) \/ AwakeLevel(t) \/ AwakeRcu(t) \/ DeleteCheck(t) \/ DeleteWait(t)
           \/ DeleteCommon(t) \/ DeleteFree(t) \/ ViewLevel(t) \/ ViewRcu(t) \/ ViewLine(t)
    BY <1>6 DEF AwakeSet, AwakeLevel, AwakeRcu, AwakeNext, Wake, DeleteCheck, DeleteWait,
        DeleteCommon, DeleteFree, ViewLevel, ViewRcu, ViewLine, ViewNext, Return, locals
<1> QED
    BY <1>1, <1>2, <1>3, <1>4, <1>5, <1>6 DEF Meets, Step, Call, Upset, Progress

(* The other threads keep their part.                                      *)
Keeps(u) ==
    /\ I(u)' = I(u)
    /\ pc'[u] \in Arriving <=> pc[u] \in Arriving
    /\ pc'[u] \in Joined <=> pc[u] \in Joined
    /\ pc'[u] = "s_wake" <=> pc[u] = "s_wake"
    /\ pc'[u] = "r_copy" <=> pc[u] = "r_copy"

LEMMA OthersKeep ==
    ASSUME TypeOK, NEW t \in Thread, Step(t)
    PROVE  \A u \in Thread \ {t} : Keeps(u)
<1> SUFFICES ASSUME NEW u \in Thread \ {t}
             PROVE  Keeps(u)
    OBVIOUS
<1>1. Stays(u)
    BY Frame
<1> QED
    BY <1>1, FrameLabels DEF Keeps, Stays

(* What that means for the variables of the meeting.                       *)
LEMMA PartEffects ==
    ASSUME NEW t \in Thread, \A u \in Thread \ {t} : Keeps(u)
    PROVE  /\ (pc'[t] \in Joined <=> pc[t] \in Joined) /\ (pc[t] \in Joined => I(t)' = I(t))
                => Members' = Members
           /\ pc[t] \notin Joined /\ pc'[t] \in Joined
                => \A i \in Inst : I(t)' = i =>
                     Members' = [Members EXCEPT ![i] = @ \cup {t}]
           /\ pc[t] \in Joined /\ pc'[t] \notin Joined
                => \A i \in Inst : I(t) = i => Members' = [Members EXCEPT ![i] = @ \ {t}]
           /\ (pc'[t] \in Arriving <=> pc[t] \in Arriving) => Newcomers' = Newcomers
           /\ pc'[t] \in Arriving => Newcomers' = Newcomers \cup {t}
           /\ pc'[t] \notin Arriving => Newcomers' = Newcomers \ {t}
           /\ (pc'[t] = "s_wake" <=> pc[t] = "s_wake") /\ (pc[t] = "s_wake" => I(t)' = I(t))
                => BeingSent' = BeingSent
           /\ (pc'[t] = "r_copy" <=> pc[t] = "r_copy") => Getting' = Getting
           /\ pc'[t] = "r_copy" => Getting' = Getting \cup {t}
           /\ pc'[t] # "r_copy" => Getting' = Getting \ {t}
<1>1. ASSUME pc'[t] \in Joined <=> pc[t] \in Joined, pc[t] \in Joined => I(t)' = I(t)
      PROVE  Members' = Members
    BY <1>1 DEF Members, Keeps
<1>2. ASSUME pc[t] \notin Joined, pc'[t] \in Joined, NEW i \in Inst, I(t)' = i
      PROVE  Members' = [Members EXCEPT ![i] = @ \cup {t}]
    <2>1. \A j \in Inst : Members'[j] = IF j = i THEN Members[j] \cup {t} ELSE Members[j]
        BY <1>2 DEF Members, Keeps
    <2> QED
        BY <2>1 DEF Members
<1>3. ASSUME pc[t] \in Joined, pc'[t] \notin Joined, NEW i \in Inst, I(t) = i
      PROVE  Members' = [Members EXCEPT ![i] = @ \ {t}]
    <2>1. \A j \in Inst : Members'[j] = IF j = i THEN Members[j] \ {t} ELSE Members[j]
        BY <1>3 DEF Members, Keeps
    <2> QED
        BY <2>1 DEF Members
<1>4. /\ (pc'[t] \in Arriving <=> pc[t] \in Arriving) => Newcomers' = Newcomers
      /\ pc'[t] \in Arriving => Newcomers' = Newcomers \cup {t}
      /\ pc'[t] \notin Arriving => Newcomers' = Newcomers \ {t}
    BY DEF Newcomers, Keeps
<1>5. ASSUME pc'[t] = "s_wake" <=> pc[t] = "s_wake", pc[t] = "s_wake" => I(t)' = I(t)
      PROVE  BeingSent' = BeingSent
    BY <1>5 DEF BeingSent, Keeps
<1>6. /\ (pc'[t] = "r_copy" <=> pc[t] = "r_copy") => Getting' = Getting
      /\ pc'[t] = "r_copy" => Getting' = Getting \cup {t}
      /\ pc'[t] # "r_copy" => Getting' = Getting \ {t}
    BY DEF Getting, Keeps
<1> QED
    BY <1>1, <1>2, <1>3, <1>4, <1>5, <1>6
LEMMA PastEffects ==
    ASSUME TypeOK, NEW t \in Thread, Step(t), ~ReceiveReset(t), ~ReceiveFree(t)
    PROVE  /\ (pc'[t] \in Arriving <=> pc[t] \in Arriving)
                /\ (pc[t] \in Arriving => stale'[t] = stale[t])
                => Past' = Past
           /\ pc'[t] \notin Arriving => Past' = [Past EXCEPT ![t] = {}]
           /\ ReceiveEnter(t) => Past' = [Past EXCEPT ![t] = Posted \ BeingSent]
<1>1. \A u \in Thread \ {t} : pc'[u] \in Arriving <=> pc[u] \in Arriving
    BY OthersKeep DEF Keeps
<1>2. \A u \in Thread \ {t} : stale'[u] = stale[u]
    <2>1. CASE UNCHANGED stale
        BY <2>1
    <2>2. CASE Forget(t) \/ ReceiveEnter(t)
        BY <2>2 DEF Forget, ReceiveEnter, TypeOK
    <2> QED
        BY <2>1, <2>2, Changes
<1>3. ASSUME pc'[t] \in Arriving <=> pc[t] \in Arriving,
             pc[t] \in Arriving => stale'[t] = stale[t]
      PROVE  Past' = Past
    BY <1>1, <1>2, <1>3 DEF Past
<1>4. ASSUME pc'[t] \notin Arriving
      PROVE  Past' = [Past EXCEPT ![t] = {}]
    BY <1>1, <1>2, <1>4 DEF Past
<1>5. ASSUME ReceiveEnter(t)
      PROVE  Past' = [Past EXCEPT ![t] = Posted \ BeingSent]
    <2>1. stale'[t] = Settled /\ pc'[t] \in Arriving
        BY <1>5 DEF ReceiveEnter, Go, Arriving, TypeOK
    <2>2. Settled = Posted \ BeingSent
        BY DEF Settled, Posted, BeingSent
    <2> QED
        BY <1>1, <1>2, <2>1, <2>2 DEF Past
<1> QED
    BY <1>3, <1>4, <1>5

LEMMA PostedEffects ==
    ASSUME TypeOK
    PROVE  /\ ready' = ready => Posted' = Posted
           /\ \A i \in Inst : ready' = [ready EXCEPT ![i] = 1] => Posted' = Posted \cup {i}
           /\ \A i \in Inst : ready' = [ready EXCEPT ![i] = 0] => Posted' = Posted \ {i}
BY DEF TypeOK, Posted

(* Every step of the service is a step of the meeting, or none.            *)
LEMMA MeetingTypes ==
    /\ Meeting!Round = Inst
    /\ Joined \subseteq HoldsRcuRead /\ "s_wake" \in HoldsRcuRead
    /\ Joined \cap Arriving = {} /\ "r_copy" \in Joined /\ "s_wake" \notin Joined \cup Arriving
BY DEF Meeting!Round, Inst, Epoch, Joined, Arriving, HoldsRcuRead

(* A user of an object without a message uses the one of its level.        *)
LEMMA UsesCurrent ==
    ASSUME UseInv, NEW t \in Thread, pc[t] \in HoldsRcuRead, ready[I(t)] = 0
    PROVE  I(t) = Meeting!Now(lv[t])
<1>1. at[t] \in Int /\ cur[lv[t]] \in Int
    BY DEF UseInv, ObjectInv, TagInv, TypeOK, Epoch
<1>2. at[t] <= cur[lv[t]] /\ ~(at[t] < cur[lv[t]])
    BY DEF UseInv, ObjectInv, PointerInv, Points, Derefs, HoldsRcuRead, SupersededInv
<1> QED
    BY <1>1, <1>2 DEF I, Meeting!Now

LEMMA StepOfMeeting ==
    ASSUME UseInv, NEW t \in Thread, Step(t)
    PROVE  Meeting!Next \/ UNCHANGED Meeting!vars
<1> USE MeetingTypes
<1>p. PointerParts /\ TypeOK /\ AllocInv /\ MessageInv /\ SenderInv /\ SupersededInv /\ JoinInv
    BY DEF UseInv, ObjectInv, TagInv, PointerParts
<1>z. I(t) \in Inst /\ lv[t] \in Level /\ at[t] \in Int /\ cur[lv[t]] \in Int
    BY <1>p, IType DEF TypeOK, Epoch
<1>k. \A u \in Thread \ {t} : Keeps(u)
    BY <1>p, OthersKeep
<1>1. CASE ReceiveEnter(t)
    <2>1. /\ pc[t] = "idle" /\ pc'[t] = "r_level" /\ UNCHANGED <<cur, ready>>
        BY <1>1, <1>p DEF ReceiveEnter, Enter, At, Go, TypeOK, object
    <2>2. /\ pc[t] \notin Arriving \cup Joined /\ pc'[t] \in Arriving /\ pc'[t] \notin Joined
        BY <2>1 DEF Arriving, Joined
    <2>3. ~ReceiveReset(t) /\ ~ReceiveFree(t)
        BY <2>1 DEF ReceiveReset, ReceiveFree, At
    <2>4. Past' = [Past EXCEPT ![t] = Posted \ BeingSent]
        BY <1>1, <1>p, <2>3, PastEffects
    <2>5. UNCHANGED <<cur, Members, Posted, BeingSent, Getting>> /\ Newcomers' = Newcomers \cup {t}
        BY <1>k, <1>p, <2>1, <2>2, PartEffects, PostedEffects
    <2>6. t \notin Newcomers /\ \A i \in Inst : t \notin Members[i]
        BY <2>2 DEF Newcomers, Members
    <2> QED
        BY <2>4, <2>5, <2>6 DEF Meeting!Next, Meeting!Arrive
<1>2. CASE Quiet(t) /\ ~ReceiveCreate(t) /\ ~SendPost(t) /\ ~ReceiveReset(t) /\ ~ReceiveFree(t)
    <2>1. UNCHANGED <<cur, ready>>
        BY <1>2, <1>p, CurStep, Changes DEF PointerParts
    <2>2. UNCHANGED <<Members, Newcomers, BeingSent, Getting>>
        BY <1>2, <1>k, PartEffects DEF Quiet, I
    <2>3. UNCHANGED <<Past, Posted>>
        BY <1>2, <1>p, <2>1, PastEffects, PostedEffects DEF Quiet
    <2> QED
        BY <2>1, <2>2, <2>3 DEF Meeting!vars
<1>3. CASE GivesUp(t) /\ ~Meets(t)
    <2>1. UNCHANGED <<cur, ready>>
        BY <1>3, <1>p, CurStep, Changes DEF PointerParts, Meets
    <2>2. /\ pc[t] \in Arriving /\ pc'[t] \notin Arriving
          /\ pc[t] \notin Joined \cup {"s_wake", "r_copy"} /\ pc'[t] \notin Joined \cup {"s_wake", "r_copy"}
        BY <1>3 DEF GivesUp
    <2>3. UNCHANGED <<Members, BeingSent, Getting>> /\ Newcomers' = Newcomers \ {t}
        BY <1>k, <2>2, PartEffects
    <2>4. Posted' = Posted /\ Past' = [Past EXCEPT ![t] = {}]
        BY <1>3, <1>p, <2>1, <2>2, PastEffects, PostedEffects DEF Meets
    <2>5. t \in Newcomers
        BY <2>2 DEF Newcomers
    <2> QED
        BY <2>1, <2>3, <2>4, <2>5 DEF Meeting!Next, Meeting!GiveUp
<1>4. ASSUME pc[t] \in Arriving, pc'[t] = "r_enlist", I(t)' = I(t), UNCHANGED <<cur, ready>>,
             I(t) = Meeting!Now(lv[t]), I(t) \notin stale[t]
      PROVE  Meeting!Next
    <2>1. /\ pc'[t] \in Joined /\ pc[t] \notin Joined \cup {"s_wake", "r_copy"}
          /\ pc'[t] \notin Arriving \cup {"s_wake", "r_copy"}
        BY <1>4 DEF Joined, Arriving
    <2>2. ~ReceiveReset(t) /\ ~ReceiveFree(t)
        BY <1>4 DEF ReceiveReset, ReceiveFree, At, Arriving
    <2>3. PICK i \in Inst : i = I(t)
        BY <1>z
    <2>4. /\ Members' = [Members EXCEPT ![i] = @ \cup {t}] /\ Newcomers' = Newcomers \ {t}
          /\ UNCHANGED <<BeingSent, Getting>>
        BY <1>4, <1>k, <2>1, <2>3, PartEffects
    <2>5. Posted' = Posted /\ Past' = [Past EXCEPT ![t] = {}]
        BY <1>4, <1>p, <2>1, <2>2, PastEffects, PostedEffects
    <2>6. t \in Newcomers /\ i \notin Past[t]
        BY <1>4, <2>3 DEF Newcomers, Past
    <2>7. Meeting!Join(t, lv[t])
        BY <1>4, <2>3, <2>4, <2>5, <2>6 DEF Meeting!Join
    <2> QED
        BY <1>z, <2>7 DEF Meeting!Next
<1>5. CASE ReceiveReady(t)
    <2>1. /\ pc[t] = "r_ready" /\ UNCHANGED <<lv, at, stale, cur, ready>>
          /\ IF ready[I(t)] = 1 THEN pc'[t] = "r_lockw" ELSE pc'[t] = "r_enlist"
        BY <1>5, <1>p DEF ReceiveReady, At, Go, object, TypeOK
    <2>2. CASE ready[I(t)] = 1
        <3>1. Quiet(t)
            BY <2>1, <2>2 DEF Quiet, Arriving, Joined
        <3>2. ~ReceiveCreate(t) /\ ~SendPost(t) /\ ~ReceiveReset(t) /\ ~ReceiveFree(t)
            BY <2>1 DEF ReceiveCreate, SendPost, ReceiveReset, ReceiveFree, At
        <3> QED
            BY <1>2, <3>1, <3>2
    <2>3. CASE ready[I(t)] # 1
        <3>1. ready[I(t)] = 0
            BY <1>p, <1>z, <2>3 DEF TypeOK
        <3>2. I(t) = Meeting!Now(lv[t])
            BY <2>1, <3>1, UsesCurrent DEF HoldsRcuRead
        <3>3. I(t) \notin stale[t]
            BY <1>p, <1>z, <2>3 DEF MessageInv
        <3> QED
            BY <1>4, <2>1, <2>3, <3>2, <3>3 DEF Arriving, I
    <2> QED
        BY <2>2, <2>3
<1>6. CASE ReceiveRelock(t)
    <2>1. pc[t] = "r_relock" /\ pc'[t] = "r_enlist" /\ UNCHANGED <<lv, at, cur, ready>>
        BY <1>6, <1>p DEF ReceiveRelock, At, Go, object, TypeOK
    <2>2. I(t) = Meeting!Now(lv[t])
        BY <1>p, <2>1 DEF PointerParts, PointerInv, Points, PointsToCur, I, Meeting!Now
    <2>3. I(t) \notin stale[t]
        BY <1>p, <2>1 DEF JoinInv
    <2> QED
        BY <1>4, <2>1, <2>2, <2>3 DEF Arriving, I
<1>7. CASE ReceiveCreate(t)
    <2> DEFINE new == <<lv[t], at[t] + 1>>
    <2>1. /\ pc[t] = "r_create" /\ pc'[t] = "r_relock" /\ stale' = stale
          /\ cur' = [cur EXCEPT ![lv[t]] = at[t] + 1] /\ ready' = [ready EXCEPT ![new] = 0]
          /\ at[t] = cur[lv[t]]
        BY <1>7, <1>p DEF ReceiveCreate, At, Go, TypeOK, PointerParts, PointerInv, Points, PointsToCur
    <2>2. new \in Inst
        BY <1>7, <1>p, <1>z, EpochAssumption, InstType DEF ReceiveCreate, TypeOK, Epoch
    <2>3. new \notin Posted
        BY <1>p, <1>z, <2>1, <2>2 DEF Posted, MessageInv
    <2>4. Posted' = Posted
        <3> HIDE DEF new
        <3>1. Posted' = Posted \ {new}
            BY <1>p, <2>1, <2>2, PostedEffects
        <3> QED
            BY <2>3, <3>1
    <2>5. UNCHANGED <<Members, Newcomers, BeingSent, Getting>>
        BY <1>k, <2>1, PartEffects DEF Arriving, Joined
    <2>6. Past' = Past
        <3>1. ~ReceiveReset(t) /\ ~ReceiveFree(t)
            BY <2>1 DEF ReceiveReset, ReceiveFree, At
        <3> QED
            BY <1>p, <2>1, <3>1, PastEffects DEF Arriving
    <2>7. I(t) = Meeting!Now(lv[t])
        BY <2>1 DEF I, Meeting!Now
    <2>8. I(t) \in Posted \/ Members[I(t)] = {}
        BY <1>p, <1>z, <2>1 DEF SupersededInv, Posted, Members, Uses
    <2>9. Meeting!NextRound(lv[t])
        BY <2>1, <2>4, <2>5, <2>6, <2>7, <2>8 DEF Meeting!NextRound
    <2> QED
        BY <1>z, <2>9 DEF Meeting!Next
<1>8. CASE SendPost(t)
    <2>1. /\ pc[t] \in {"s_copy", "s_empty"} /\ pc'[t] = "s_wake" /\ UNCHANGED <<lv, at, stale, cur>>
          /\ ready' = [ready EXCEPT ![I(t)] = 1]
        BY <1>8, <1>p DEF SendPost, At, Go, locals, TypeOK
    <2>2. ready[I(t)] = 0
        BY <1>p, <2>1 DEF SenderInv
    <2>3. PICK i \in Inst : i = I(t) /\ i = Meeting!Now(lv[t])
        BY <1>z, <2>1, <2>2, UsesCurrent DEF HoldsRcuRead
    <2>4. i \notin Posted /\ Posted' = Posted \cup {i}
        BY <1>p, <2>1, <2>2, <2>3, PostedEffects DEF Posted
    <2>5. UNCHANGED <<Members, Newcomers, Getting>>
        BY <1>k, <2>1, PartEffects DEF Arriving, Joined
    <2>6. Past' = Past
        <3>1. ~ReceiveReset(t) /\ ~ReceiveFree(t)
            BY <2>1 DEF ReceiveReset, ReceiveFree, At
        <3> QED
            BY <1>p, <2>1, <3>1, PastEffects DEF Arriving
    <2>7. BeingSent' = BeingSent \cup {i}
        BY <1>k, <2>1, <2>3 DEF BeingSent, Keeps, I
    <2>8. Meeting!Post(lv[t])
        BY <2>1, <2>3, <2>4, <2>5, <2>6, <2>7 DEF Meeting!Post
    <2> QED
        BY <1>z, <2>8 DEF Meeting!Next
<1>9. CASE SendWake(t)
    <2>1. pc[t] = "s_wake" /\ pc'[t] = "idle" /\ UNCHANGED <<cur, ready>>
        BY <1>9, <1>p DEF SendWake, Wake, At, object, TypeOK
    <2>2. UNCHANGED <<Members, Newcomers, Getting>>
        BY <1>k, <2>1, PartEffects DEF Arriving, Joined
    <2>3. UNCHANGED <<Past, Posted>>
        <3>1. ~ReceiveReset(t) /\ ~ReceiveFree(t)
            BY <2>1 DEF ReceiveReset, ReceiveFree, At
        <3> QED
            BY <1>p, <2>1, <3>1, PastEffects, PostedEffects DEF Arriving
    <2>4. PICK i \in Inst : i = I(t)
        BY <1>z
    <2>5. CASE \E s \in Thread \ {t} : pc[s] = "s_wake" /\ I(s) = i
        <3>1. BeingSent' = BeingSent
            BY <1>k, <2>1, <2>4, <2>5 DEF BeingSent, Keeps
        <3> QED
            BY <2>1, <2>2, <2>3, <3>1 DEF Meeting!vars
    <2>6. CASE ~ \E s \in Thread \ {t} : pc[s] = "s_wake" /\ I(s) = i
        <3>1. BeingSent' = BeingSent \ {i}
            BY <1>k, <2>1, <2>4, <2>6 DEF BeingSent, Keeps
        <3>2. Meeting!Sent(i)
            BY <2>1, <2>2, <2>3, <3>1 DEF Meeting!Sent
        <3> QED
            BY <3>2 DEF Meeting!Next
    <2> QED
        BY <2>5, <2>6
<1>10. CASE ReceiveWoken(t) \/ ReceiveLook(t)
    <2>1. /\ pc[t] \in {"r_woken", "r_look"} /\ UNCHANGED <<lv, at, stale, cur, ready>>
          /\ (pc'[t] = "r_copy" /\ ready[I(t)] = 1) \/ pc'[t] \in {"r_look", "r_skip"}
        BY <1>10, <1>p DEF ReceiveWoken, ReceiveLook, At, Go, locals, object, TypeOK
    <2>2. ~ReceiveCreate(t) /\ ~SendPost(t) /\ ~ReceiveReset(t) /\ ~ReceiveFree(t)
        BY <2>1 DEF ReceiveCreate, SendPost, ReceiveReset, ReceiveFree, At
    <2>3. CASE pc'[t] \in {"r_look", "r_skip"}
        <3>1. Quiet(t)
            BY <2>1, <2>3 DEF Quiet, Arriving, Joined
        <3> QED
            BY <1>2, <2>2, <3>1
    <2>4. CASE pc'[t] = "r_copy"
        <3>1. UNCHANGED <<Members, Newcomers, BeingSent>> /\ Getting' = Getting \cup {t}
            BY <1>k, <2>1, <2>4, PartEffects DEF Arriving, Joined, I
        <3>2. UNCHANGED <<Past, Posted>>
            BY <1>p, <2>1, <2>2, <2>4, PastEffects, PostedEffects DEF Arriving
        <3>3. PICK i \in Inst : i = I(t)
            BY <1>z
        <3>4. t \in Members[i] /\ i \in Posted
            BY <2>1, <2>4, <3>3 DEF Members, Posted, Joined
        <3>5. Meeting!Take(t, i)
            BY <2>1, <3>1, <3>2, <3>4 DEF Meeting!Take
        <3> QED
            BY <3>5 DEF Meeting!Next
    <2> QED
        BY <2>1, <2>3, <2>4
<1>11. CASE ReceiveCopy(t)
    <2>1. pc[t] \in {"r_copy", "r_skip"} /\ pc'[t] = "r_last" /\ UNCHANGED <<stale, cur, ready>>
        BY <1>11, <1>p DEF ReceiveCopy, At, Go, locals, object, TypeOK
    <2>2. PICK i \in Inst : i = I(t)
        BY <1>z
    <2>3. /\ Members' = [Members EXCEPT ![i] = @ \ {t}] /\ Getting' = Getting \ {t}
          /\ UNCHANGED <<Newcomers, BeingSent>>
        BY <1>k, <2>1, <2>2, PartEffects DEF Arriving, Joined
    <2>4. UNCHANGED <<Past, Posted>>
        <3>1. ~ReceiveReset(t) /\ ~ReceiveFree(t)
            BY <2>1 DEF ReceiveReset, ReceiveFree, At
        <3> QED
            BY <1>p, <2>1, <3>1, PastEffects, PostedEffects DEF Arriving
    <2>5. t \in Members[i]
        BY <2>1, <2>2 DEF Members, Joined
    <2>6. Meeting!Leave(t, i)
        BY <2>1, <2>3, <2>4, <2>5 DEF Meeting!Leave
    <2> QED
        BY <2>6 DEF Meeting!Next
<1>12. CASE ReceiveReset(t) \/ ReceiveFree(t)
    <2>1. /\ pc[t] \in {"r_reset", "r_free"} /\ pc'[t] = "r_dec" /\ cur' = cur
          /\ ready' = [ready EXCEPT ![I(t)] = 0] /\ size' = [size EXCEPT ![I(t)] = 0]
          /\ stale' = [u \in Thread |-> stale[u] \ {I(t)}]
        BY <1>12, <1>p DEF ReceiveReset, ReceiveFree, Wipe, At, Go, TypeOK
    <2>2. PICK i \in Inst : i = I(t)
        BY <1>z
    <2>3. Wipes(t, i)
        BY <1>p, <2>1, <2>2 DEF Wipes, TypeOK
    <2>4. i \notin BeingSent /\ Members[i] = {}
        BY <1>p, <2>3, WipedUnused DEF PointerParts, BeingSent, Members, Uses
    <2>5. UNCHANGED <<Members, Newcomers, BeingSent, Getting>>
        BY <1>k, <2>1, PartEffects DEF Arriving, Joined
    <2>6. Posted' = Posted \ {i}
        BY <1>p, <2>1, <2>2, PostedEffects
    <2>7. Past' = [u \in Thread |-> Past[u] \ {i}]
        BY <1>k, <2>1, <2>2 DEF Past, Keeps, Arriving
    <2>8. CASE i \in Posted
        <3>1. Meeting!Clear(i)
            BY <2>1, <2>4, <2>5, <2>6, <2>7, <2>8 DEF Meeting!Clear
        <3> QED
            BY <3>1 DEF Meeting!Next
    <2>9. CASE i \notin Posted
        <3>1. \A u \in Thread : i \notin Past[u]
            BY <1>p, <2>9 DEF Past, Posted, MessageInv
        <3>2. Past = [u \in Thread |-> Past[u]]
            BY DEF Past
        <3>3. Past' = Past
            BY <2>7, <3>1, <3>2
        <3> QED
            BY <2>1, <2>5, <2>6, <2>9, <3>3 DEF Meeting!vars
    <2> QED
        BY <2>8, <2>9
<1> QED
    BY <1>p, <1>1, <1>2, <1>3, <1>5, <1>6, <1>7, <1>8, <1>9, <1>10, <1>11, <1>12, Roles DEF Meets

(* tag_send and tag_receive implement the meeting: whatever the            *)
(* interleaving of their locks, counters and flags, a receiver finds the   *)
(* message of its round, no message reaches a later round, and no round is *)
(* given up while somebody waits in it.                                    *)
THEOREM ServiceImplementsMeeting == Spec => ImplementsMeeting
<1>1. Init => Meeting!Init
    BY MeetingTypes DEF Init, Meeting!Init, Members, Newcomers, Past, Posted, BeingSent, Getting,
        Joined, Arriving
<1>2. UseInv /\ [Next]_vars => [Meeting!Next]_(Meeting!vars)
    <2>1. ASSUME UseInv, Next
          PROVE  Meeting!Next \/ UNCHANGED Meeting!vars
        BY <2>1, StepOfMeeting DEF Next, Step
    <2>2. ASSUME UNCHANGED vars
          PROVE  UNCHANGED Meeting!vars
        BY <2>2 DEF vars, tagVars, locks, object, locals, Meeting!vars, Members, Newcomers, Past,
            Posted, BeingSent, Getting, I
    <2> QED
        BY <2>1, <2>2
<1> QED
    BY MessagesCorrect, <1>1, <1>2, PTL DEF Spec, ImplementsMeeting, Meeting!Spec
=============================================================================
