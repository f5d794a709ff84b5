--------------------------- MODULE RegistryProofs ---------------------------
(***************************************************************************)
(* What TLAPS proves of TagRegistry, for any number of threads, keys and   *)
(* descriptors.                                                            *)
(***************************************************************************)
EXTENDS TagRegistry, TLAPS

(* A key names only the descriptor of a tag that has that key: one in use, *)
(* whose owner or entry, if it has one, carries the key.                   *)
NameInv ==
    \A k \in Key : table[k] # None =>
        /\ table[k] \in bits
        /\ \A t \in Thread : pc[t] \in Owning /\ desc[t] = table[k] => key[t] = k
        /\ tags[table[k]] # None => tags[table[k]] = k

(* TAG_OPEN looks up keys of tag_table only, not IPC_PRIVATE.              *)
OpenInv == \A t \in Thread : At(t, "o_lookup") => key[t] \in Key

OwnerInv == OneOwner /\ Consistent /\ NameInv
RegInv == TypeOK /\ OwnerInv /\ NothingElseLost /\ OpenInv

-----------------------------------------------------------------------------
(* None, the null pointer, is no descriptor and no key.                    *)
LEMMA NoneDiffers == None \notin Desc /\ None \notin AnyKey
BY RegistryAssumption DEF Desc, AnyKey

(* The first state: no tag is there.                                       *)
LEMMA InitReg == Init => RegInv
<1> SUFFICES ASSUME Init PROVE RegInv
  OBVIOUS
<1>1. TypeOK
  <2>1. 0 \in Desc
    BY RegistryAssumption DEF Desc
  <2> QED
    BY <2>1 DEF Init, TypeOK, AnyKey, PC, Holding, Owning, RwSemOf, Unlocked
<1>2. OwnerInv /\ NothingElseLost /\ OpenInv
  BY DEF Init, OwnerInv, OneOwner, Consistent, NameInv, NothingElseLost, OpenInv, Owning, At
<1> QED
  BY <1>1, <1>2 DEF RegInv

(* Every step keeps the types.                                             *)
LEMMA NextType ==
    ASSUME TypeOK, [Next]_vars
    PROVE  TypeOK'
<1> USE DEF TypeOK, Go, At
<1>0. 0 \in Desc /\ IPC_PRIVATE \in AnyKey /\ Key \subseteq AnyKey
  BY RegistryAssumption DEF Desc, AnyKey
<1>1. CASE UNCHANGED vars
  BY <1>1 DEF vars, common
<1>2. ASSUME NEW t \in Thread
      PROVE  /\ Unlock(t) => commonLock' \in RwSemOf(Thread)
             /\ DownWrite(commonLock, t) \in RwSemOf(Thread)
             /\ DownRead(commonLock, t) \in RwSemOf(Thread)
             /\ UpRead(commonLock, t) \in RwSemOf(Thread)
  BY DEF Unlock, DownWrite, UpWrite, DownRead, UpRead, RwSemOf
<1>3. ASSUME NEW t \in Thread, Return(t)
      PROVE  pc' \in [Thread -> PC] /\ key' \in [Thread -> AnyKey] /\ desc' \in [Thread -> Desc]
  BY <1>0, <1>3 DEF Return, PC
<1>4. ASSUME NEW t \in Thread, CreateLock(t) \/ OpenLock(t) PROVE TypeOK'
  BY <1>0, <1>2, <1>4 DEF CreateLock, OpenLock, PC, Holding, common
<1>5. ASSUME NEW t \in Thread, Interrupted(t) PROVE TypeOK'
  BY <1>5 DEF Interrupted, vars, common
<1>6. ASSUME NEW t \in Thread, CreateRefused(t) \/ UndoKilled(t) \/ OpenLookup(t) \/ DeleteFree(t)
      PROVE  TypeOK'
  BY <1>2, <1>3, <1>6 DEF CreateRefused, UndoKilled, OpenLookup, DeleteFree, common
<1>7. ASSUME NEW t \in Thread, CreateReserve(t) PROVE TypeOK'
  <2>1. PICK d \in Desc : /\ bits' = bits \cup {d} /\ desc' = [desc EXCEPT ![t] = d]
                          /\ table' = IF key[t] \in Key THEN [table EXCEPT ![key[t]] = d] ELSE table
    BY <1>7 DEF CreateReserve, Free
  <2>2. table' \in [Key -> Desc \cup {None}]
    BY <2>1
  <2> QED
    BY <1>2, <1>7, <2>1, <2>2 DEF CreateReserve, PC, Owning
<1>8. ASSUME NEW t \in Thread, CreatePublish(t) \/ DeleteKilled(t) PROVE TypeOK'
  <2>1. tags' \in [Desc -> AnyKey \cup {None}]
    BY <1>8 DEF CreatePublish, DeleteKilled
  <2> QED
    BY <1>3, <1>8, <2>1 DEF CreatePublish, DeleteKilled, common
<1>9. ASSUME NEW t \in Thread, CreateNoMemory(t) PROVE TypeOK'
  BY <1>9 DEF CreateNoMemory, PC, Owning, common
<1>10. ASSUME NEW t \in Thread, ClearLock(t) PROVE TypeOK'
  BY <1>2, <1>10 DEF ClearLock, PC, Holding, common
<1>11. ASSUME NEW t \in Thread, Clear(t) PROVE TypeOK'
  <2>1. table' \in [Key -> Desc \cup {None}] /\ bits' \subseteq Desc
    BY <1>11 DEF Clear, ClearKey
  <2>2. pc' \in [Thread -> PC] /\ key' \in [Thread -> AnyKey] /\ desc' \in [Thread -> Desc]
    BY <1>3, <1>11 DEF Clear, AfterClear, PC
  <2> QED
    BY <1>2, <1>11, <2>1, <2>2 DEF Clear, AfterClear
<1>12. ASSUME NEW t \in Thread, DeleteTake(t) PROVE TypeOK'
  BY <1>12 DEF DeleteTake, PC, Owning, common
<1> HIDE DEF TypeOK
<1> QED
  BY <1>1, <1>4, <1>5, <1>6, <1>7, <1>8, <1>9, <1>10, <1>11, <1>12 DEF Next

-----------------------------------------------------------------------------
(* Owners *)

(* A step that changes no common structure and makes nobody an owner keeps *)
(* what is known of the owners.                                            *)
LEMMA NoNewOwner ==
    ASSUME TypeOK, OwnerInv, UNCHANGED <<common, tags>>,
           \A t \in Thread : pc'[t] \in Owning =>
               pc[t] \in Owning /\ key'[t] = key[t] /\ desc'[t] = desc[t]
    PROVE  OwnerInv'
<1> USE DEF common
<1>1. OneOwner'
  BY DEF OwnerInv, OneOwner
<1>2. Consistent'
  BY DEF OwnerInv, Consistent
<1>3. NameInv'
  BY DEF OwnerInv, NameInv
<1> QED
  BY <1>1, <1>2, <1>3 DEF OwnerInv

(* A creation takes a descriptor whose bit is clear: no owner has it, no   *)
(* entry is published under it, and no key names it.                       *)
LEMMA ReserveOwner ==
    ASSUME TypeOK, OwnerInv, NEW t \in Thread, CreateReserve(t)
    PROVE  OwnerInv'
<1>1. PICK d \in Free : /\ bits' = bits \cup {d} /\ desc' = [desc EXCEPT ![t] = d]
                        /\ table' = IF key[t] \in Key THEN [table EXCEPT ![key[t]] = d] ELSE table
  BY DEF CreateReserve
<1>2. /\ d \in Desc /\ d \notin bits /\ pc' = [pc EXCEPT ![t] = "c_alloc"]
      /\ key' = key /\ tags' = tags /\ pc[t] = "c_reserve" /\ ~Known(t)
  BY <1>1 DEF CreateReserve, Free, Go, At
<1>3. /\ \A u \in Thread : pc[u] \in Owning => desc[u] # d /\ u # t
      /\ tags[d] = None
      /\ \A k \in Key : table[k] # d \/ table[k] = None
  BY <1>2 DEF OwnerInv, Consistent, NameInv, Owning
<1>4. \A u \in Thread : u # t => pc'[u] = pc[u] /\ desc'[u] = desc[u]
  BY <1>1, <1>2 DEF TypeOK
<1>5. pc'[t] = "c_alloc" /\ desc'[t] = d
  BY <1>1, <1>2 DEF TypeOK
<1>6. OneOwner'
  BY <1>2, <1>3, <1>4, <1>5 DEF OwnerInv, OneOwner
<1>7. /\ key[t] \in Key => table'[key[t]] = d /\ table[key[t]] = None
      /\ \A k \in Key : k # key[t] => table'[k] = table[k]
  BY <1>1, <1>2 DEF Known, TypeOK
<1>8. Consistent'
  <2>1. ASSUME NEW u \in Thread, pc'[u] \in Owning
        PROVE  desc'[u] \in bits' /\ (key'[u] \in Key => table'[key'[u]] = desc'[u])
    <3>1. CASE u = t
      BY <1>1, <1>2, <1>5, <1>7, <3>1
    <3>2. CASE u # t
      <4>1. desc[u] \in bits /\ (key[u] \in Key => table[key[u]] = desc[u])
        BY <1>4, <2>1, <3>2 DEF OwnerInv, Consistent
      <4>2. key[u] \in Key => key[u] # key[t]
        BY <1>7, <4>1, NoneDiffers DEF TypeOK
      <4> QED
        BY <1>1, <1>2, <1>4, <1>7, <3>2, <4>1, <4>2
    <3> QED
      BY <3>1, <3>2
  <2>2. ASSUME NEW e \in Desc, tags'[e] # None
        PROVE  e \in bits' /\ (tags'[e] \in Key => table'[tags'[e]] = e)
    <3>1. e \in bits /\ (tags[e] \in Key => table[tags[e]] = e)
      BY <1>2, <2>2 DEF OwnerInv, Consistent
    <3>2. tags[e] \in Key => tags[e] # key[t]
      BY <1>7, <3>1, NoneDiffers
    <3> QED
      BY <1>1, <1>2, <1>7, <3>1, <3>2
  <2> QED
    BY <2>1, <2>2 DEF Consistent
<1>9. NameInv'
  <2> SUFFICES ASSUME NEW k \in Key, table'[k] # None
               PROVE  /\ table'[k] \in bits'
                      /\ \A u \in Thread : pc'[u] \in Owning /\ desc'[u] = table'[k] => key'[u] = k
                      /\ tags'[table'[k]] # None => tags'[table'[k]] = k
    BY DEF NameInv
  <2>1. CASE k = key[t]
    BY <1>1, <1>2, <1>3, <1>4, <1>7, <2>1
  <2>2. CASE k # key[t]
    <3>1. table'[k] = table[k] /\ table[k] # d
      BY <1>3, <1>7, <2>2
    <3> QED
      BY <1>1, <1>2, <1>4, <1>5, <3>1 DEF OwnerInv, NameInv
  <2> QED
    BY <2>1, <2>2
<1> QED
  BY <1>6, <1>8, <1>9 DEF OwnerInv

(* A creation publishes its tag, or a killed DELETE puts it back: the      *)
(* thread owns the descriptor no more, the entry carries its key.          *)
LEMMA PublishOwner ==
    ASSUME TypeOK, OwnerInv, NEW t \in Thread, CreatePublish(t) \/ DeleteKilled(t)
    PROVE  OwnerInv'
<1> USE DEF common
<1>1. /\ pc[t] \in Owning /\ pc'[t] \notin Owning /\ desc[t] \in Desc
      /\ tags' = [tags EXCEPT ![desc[t]] = key[t]]
      /\ table' = table /\ bits' = bits
      /\ \A u \in Thread : u # t => pc'[u] = pc[u] /\ key'[u] = key[u] /\ desc'[u] = desc[u]
  BY DEF CreatePublish, DeleteKilled, Return, Go, At, Owning, TypeOK
<1>2. /\ \A u \in Thread : u # t /\ pc[u] \in Owning => desc[u] # desc[t]
      /\ desc[t] \in bits /\ (key[t] \in Key => table[key[t]] = desc[t])
  BY <1>1 DEF OwnerInv, OneOwner, Consistent
<1>3. /\ tags'[desc[t]] = key[t]
      /\ \A e \in Desc : e # desc[t] => tags'[e] = tags[e]
  BY <1>1 DEF TypeOK
<1>4. OneOwner'
  <2>1. ASSUME NEW u \in Thread, pc'[u] \in Owning PROVE tags'[desc'[u]] = None
    BY <1>1, <1>2, <1>3, <2>1 DEF OwnerInv, OneOwner, TypeOK
  <2>2. ASSUME NEW u \in Thread, NEW v \in Thread, u # v, pc'[u] \in Owning, pc'[v] \in Owning
        PROVE  desc'[u] # desc'[v]
    BY <1>1, <2>2 DEF OwnerInv, OneOwner
  <2> QED
    BY <2>1, <2>2 DEF OneOwner
<1>5. Consistent'
  <2>1. ASSUME NEW u \in Thread, pc'[u] \in Owning
        PROVE  desc'[u] \in bits' /\ (key'[u] \in Key => table'[key'[u]] = desc'[u])
    BY <1>1, <2>1 DEF OwnerInv, Consistent
  <2>2. ASSUME NEW e \in Desc, tags'[e] # None
        PROVE  e \in bits' /\ (tags'[e] \in Key => table'[tags'[e]] = e)
    BY <1>1, <1>2, <1>3, <2>2 DEF OwnerInv, Consistent
  <2> QED
    BY <2>1, <2>2 DEF Consistent
<1>6. NameInv'
  <2> SUFFICES ASSUME NEW k \in Key, table[k] # None
               PROVE  /\ table[k] \in bits
                      /\ \A u \in Thread : pc'[u] \in Owning /\ desc'[u] = table[k] => key'[u] = k
                      /\ tags'[table[k]] # None => tags'[table[k]] = k
    BY <1>1 DEF NameInv
  <2>1. table[k] \in Desc
    BY DEF TypeOK
  <2> QED
    BY <1>1, <1>3, <2>1 DEF OwnerInv, NameInv
<1> QED
  BY <1>4, <1>5, <1>6 DEF OwnerInv

(* DELETE unpublishes an entry and owns its descriptor and key.            *)
LEMMA TakeOwner ==
    ASSUME TypeOK, OwnerInv, NEW t \in Thread, DeleteTake(t)
    PROVE  OwnerInv'
<1> USE DEF common
<1>1. PICK d \in Desc : /\ tags[d] # None
                        /\ key' = [key EXCEPT ![t] = tags[d]] /\ desc' = [desc EXCEPT ![t] = d]
                        /\ tags' = [tags EXCEPT ![d] = None]
  BY DEF DeleteTake
<1>2. /\ pc[t] \notin Owning /\ pc'[t] \in Owning /\ key'[t] = tags[d] /\ desc'[t] = d
      /\ table' = table /\ bits' = bits
      /\ \A u \in Thread : u # t => pc'[u] = pc[u] /\ key'[u] = key[u] /\ desc'[u] = desc[u]
      /\ tags'[d] = None /\ \A e \in Desc : e # d => tags'[e] = tags[e]
  BY <1>1 DEF DeleteTake, Go, At, Owning, TypeOK
<1>3. /\ \A u \in Thread : pc[u] \in Owning => desc[u] # d
      /\ d \in bits /\ (tags[d] \in Key => table[tags[d]] = d)
  BY <1>1 DEF OwnerInv, OneOwner, Consistent
<1>4. OneOwner'
  <2>1. ASSUME NEW u \in Thread, pc'[u] \in Owning PROVE tags'[desc'[u]] = None
    BY <1>2, <2>1 DEF OwnerInv, OneOwner, TypeOK
  <2>2. ASSUME NEW u \in Thread, NEW v \in Thread, u # v, pc'[u] \in Owning, pc'[v] \in Owning
        PROVE  desc'[u] # desc'[v]
    BY <1>2, <1>3, <2>2 DEF OwnerInv, OneOwner
  <2> QED
    BY <2>1, <2>2 DEF OneOwner
<1>5. Consistent'
  <2>1. ASSUME NEW u \in Thread, pc'[u] \in Owning
        PROVE  desc'[u] \in bits' /\ (key'[u] \in Key => table'[key'[u]] = desc'[u])
    BY <1>2, <1>3, <2>1 DEF OwnerInv, Consistent
  <2>2. ASSUME NEW e \in Desc, tags'[e] # None
        PROVE  e \in bits' /\ (tags'[e] \in Key => table'[tags'[e]] = e)
    BY <1>2, <2>2 DEF OwnerInv, Consistent
  <2> QED
    BY <2>1, <2>2 DEF Consistent
<1>6. NameInv'
  <2> SUFFICES ASSUME NEW k \in Key, table[k] # None
               PROVE  /\ table[k] \in bits
                      /\ \A u \in Thread : pc'[u] \in Owning /\ desc'[u] = table[k] => key'[u] = k
                      /\ tags'[table[k]] # None => tags'[table[k]] = k
    BY <1>2 DEF NameInv
  <2>1. table[k] \in Desc
    BY DEF TypeOK
  <2>2. ASSUME NEW u \in Thread, pc'[u] \in Owning, desc'[u] = table[k] PROVE key'[u] = k
    BY <1>1, <1>2, <2>2 DEF OwnerInv, NameInv
  <2> QED
    BY <1>2, <2>1, <2>2 DEF OwnerInv, NameInv
<1> QED
  BY <1>4, <1>5, <1>6 DEF OwnerInv

(* A clearing removes the key and the bit of the thread's own descriptor,  *)
(* and no other: no key but its own names it.                              *)
LEMMA ClearNames ==
    ASSUME TypeOK, OwnerInv, NEW t \in Thread, Clear(t)
    PROVE  /\ pc[t] \in Owning /\ desc[t] \in bits
           /\ key[t] \in Key => table[key[t]] = desc[t]
           /\ \A k \in Key : table[k] = desc[t] => k = key[t]
           /\ \A k \in Key : table'[k] = IF k = key[t] THEN None ELSE table[k]
           /\ bits' = bits \ {desc[t]}
<1>1. pc[t] \in Owning /\ desc[t] \in Desc
  BY DEF Clear, At, Owning, TypeOK
<1>2. desc[t] \in bits /\ (key[t] \in Key => table[key[t]] = desc[t])
  BY <1>1 DEF OwnerInv, Consistent
<1>3. ASSUME NEW k \in Key, table[k] = desc[t] PROVE k = key[t]
  BY <1>1, <1>3, NoneDiffers DEF OwnerInv, NameInv
<1> QED
  BY <1>1, <1>2, <1>3 DEF Clear, ClearKey

LEMMA ClearOwner ==
    ASSUME TypeOK, OwnerInv, NEW t \in Thread, Clear(t)
    PROVE  OwnerInv'
<1>1. /\ pc[t] \in Owning /\ desc[t] \in bits
      /\ key[t] \in Key => table[key[t]] = desc[t]
      /\ \A k \in Key : table[k] = desc[t] => k = key[t]
      /\ \A k \in Key : table'[k] = IF k = key[t] THEN None ELSE table[k]
      /\ bits' = bits \ {desc[t]}
  BY ClearNames
<1>2. /\ pc'[t] \notin Owning /\ tags' = tags
      /\ \A u \in Thread : u # t => pc'[u] = pc[u] /\ key'[u] = key[u] /\ desc'[u] = desc[u]
  BY DEF Clear, AfterClear, Return, Go, At, Owning, TypeOK
<1>3. /\ tags[desc[t]] = None
      /\ \A u \in Thread : u # t /\ pc[u] \in Owning => desc[u] # desc[t]
  BY <1>1 DEF OwnerInv, OneOwner
<1>4. OneOwner'
  BY <1>2 DEF OwnerInv, OneOwner
<1>5. Consistent'
  <2>1. ASSUME NEW u \in Thread, pc'[u] \in Owning
        PROVE  desc'[u] \in bits' /\ (key'[u] \in Key => table'[key'[u]] = desc'[u])
    <3>1. u # t /\ pc[u] \in Owning /\ desc[u] # desc[t]
      BY <1>2, <1>3, <2>1
    <3>2. desc[u] \in bits /\ (key[u] \in Key => table[key[u]] = desc[u])
      BY <3>1 DEF OwnerInv, Consistent
    <3> QED
      BY <1>1, <1>2, <3>1, <3>2
  <2>2. ASSUME NEW e \in Desc, tags'[e] # None
        PROVE  e \in bits' /\ (tags'[e] \in Key => table'[tags'[e]] = e)
    <3>1. e # desc[t] /\ e \in bits /\ (tags[e] \in Key => table[tags[e]] = e)
      BY <1>2, <1>3, <2>2 DEF OwnerInv, Consistent
    <3> QED
      BY <1>1, <1>2, <3>1
  <2> QED
    BY <2>1, <2>2 DEF Consistent
<1>6. NameInv'
  <2> SUFFICES ASSUME NEW k \in Key, table'[k] # None
               PROVE  /\ table'[k] \in bits'
                      /\ \A u \in Thread : pc'[u] \in Owning /\ desc'[u] = table'[k] => key'[u] = k
                      /\ tags'[table'[k]] # None => tags'[table'[k]] = k
    BY DEF NameInv
  <2>1. k # key[t] /\ table'[k] = table[k] /\ table[k] # desc[t]
    BY <1>1
  <2> QED
    BY <1>1, <1>2, <2>1 DEF OwnerInv, NameInv
<1> QED
  BY <1>4, <1>5, <1>6 DEF OwnerInv

(* Every step keeps owners, key table, bitmask and entries together.       *)
LEMMA NextOwner ==
    ASSUME TypeOK, OwnerInv, [Next]_vars
    PROVE  OwnerInv'
<1>1. CASE UNCHANGED vars
  BY <1>1, NoNewOwner DEF vars
<1>2. ASSUME NEW t \in Thread,
             \/ CreateLock(t) \/ Interrupted(t) \/ CreateRefused(t) \/ CreateNoMemory(t)
             \/ ClearLock(t) \/ UndoKilled(t) \/ OpenLock(t) \/ OpenLookup(t) \/ DeleteFree(t)
      PROVE  OwnerInv'
  <2>1. UNCHANGED <<common, tags>>
    BY <1>2 DEF CreateLock, Interrupted, CreateRefused, CreateNoMemory, ClearLock, UndoKilled,
                OpenLock, OpenLookup, DeleteFree, vars
  <2>2. ASSUME NEW u \in Thread, pc'[u] \in Owning
        PROVE  pc[u] \in Owning /\ key'[u] = key[u] /\ desc'[u] = desc[u]
    BY <1>2, <2>2 DEF CreateLock, Interrupted, CreateRefused, CreateNoMemory, ClearLock, UndoKilled,
                OpenLock, OpenLookup, DeleteFree, vars, Return, Go, At, Owning, TypeOK
  <2> QED
    BY <2>1, <2>2, NoNewOwner
<1> QED
  BY <1>1, <1>2, ReserveOwner, PublishOwner, TakeOwner, ClearOwner DEF Next

-----------------------------------------------------------------------------
(* Nothing lost *)

(* A step that changes only the place of one thread, which owned nothing   *)
(* or goes on owning what it did, leaves every descriptor where it was.    *)
LEMMA OwnersStay ==
    ASSUME TypeOK, NothingElseLost, bits' \subseteq bits, tags' = tags, lost' = lost,
           \A t \in Thread : pc[t] \in Owning /\ desc[t] \in bits' =>
               pc'[t] \in Owning /\ desc'[t] = desc[t]
    PROVE  NothingElseLost'
<1> SUFFICES ASSUME NEW d \in bits'
             PROVE  \/ tags'[d] # None \/ d \in lost'
                    \/ \E t \in Thread : pc'[t] \in Owning /\ desc'[t] = d
  BY DEF NothingElseLost
<1>1. \/ tags[d] # None \/ d \in lost
      \/ \E t \in Thread : pc[t] \in Owning /\ desc[t] = d
  BY DEF NothingElseLost
<1> QED
  BY <1>1

(* Every step that gives up a descriptor publishes it, clears its bit or   *)
(* puts it on record as lost.                                              *)
LEMMA NextLost ==
    ASSUME TypeOK, OwnerInv, NothingElseLost, [Next]_vars
    PROVE  NothingElseLost'
<1> USE DEF common
<1>1. CASE UNCHANGED vars
  BY <1>1, OwnersStay DEF vars
<1>2. ASSUME NEW t \in Thread,
             \/ CreateLock(t) \/ Interrupted(t) \/ CreateRefused(t) \/ CreateNoMemory(t)
             \/ ClearLock(t) \/ OpenLock(t) \/ OpenLookup(t) \/ DeleteFree(t)
      PROVE  NothingElseLost'
  <2>1. UNCHANGED <<bits, tags, lost>>
    BY <1>2 DEF CreateLock, Interrupted, CreateRefused, CreateNoMemory, ClearLock,
                OpenLock, OpenLookup, DeleteFree, vars
  <2>2. ASSUME NEW u \in Thread, pc[u] \in Owning
        PROVE  pc'[u] \in Owning /\ desc'[u] = desc[u]
    BY <1>2, <2>2 DEF CreateLock, Interrupted, CreateRefused, CreateNoMemory, ClearLock,
                OpenLock, OpenLookup, DeleteFree, vars, Return, Go, At, Owning, TypeOK
  <2> QED
    BY <2>1, <2>2, OwnersStay
<1>3. ASSUME NEW t \in Thread, CreateReserve(t) PROVE NothingElseLost'
  <2>1. PICK e \in Desc : bits' = bits \cup {e} /\ desc' = [desc EXCEPT ![t] = e]
    BY <1>3 DEF CreateReserve, Free
  <2>2. /\ pc[t] \notin Owning /\ pc'[t] \in Owning /\ desc'[t] = e
        /\ tags' = tags /\ lost' = lost
        /\ \A u \in Thread : u # t => pc'[u] = pc[u] /\ desc'[u] = desc[u]
    BY <1>3, <2>1 DEF CreateReserve, Go, At, Owning, TypeOK
  <2> QED
    BY <2>1, <2>2 DEF NothingElseLost
<1>4. ASSUME NEW t \in Thread, CreatePublish(t) \/ DeleteKilled(t) PROVE NothingElseLost'
  <2>1. /\ bits' = bits /\ lost' = lost /\ tags' = [tags EXCEPT ![desc[t]] = key[t]]
        /\ \A u \in Thread : u # t => pc'[u] = pc[u] /\ desc'[u] = desc[u]
    BY <1>4 DEF CreatePublish, DeleteKilled, Return, Go, TypeOK
  <2>2. key[t] # None
    BY NoneDiffers DEF TypeOK
  <2>3. ASSUME NEW d \in bits
        PROVE  tags'[d] # None \/ (tags[d] = None /\ d # desc[t])
    <3>1. d \in Desc /\ tags \in [Desc -> AnyKey \cup {None}]
      BY DEF TypeOK
    <3>2. tags'[d] = IF d = desc[t] THEN key[t] ELSE tags[d]
      BY <2>1, <3>1
    <3> QED
      BY <2>2, <3>2
  <2> QED
    BY <2>1, <2>3 DEF NothingElseLost
<1>5. ASSUME NEW t \in Thread, UndoKilled(t) PROVE NothingElseLost'
  <2>1. /\ bits' = bits /\ tags' = tags /\ lost' = lost \cup {desc[t]}
        /\ \A u \in Thread : u # t => pc'[u] = pc[u] /\ desc'[u] = desc[u]
    BY <1>5 DEF UndoKilled, Return, Go, TypeOK
  <2> QED
    BY <2>1 DEF NothingElseLost
<1>6. ASSUME NEW t \in Thread, DeleteTake(t) PROVE NothingElseLost'
  <2>1. PICK e \in Desc : desc' = [desc EXCEPT ![t] = e] /\ tags' = [tags EXCEPT ![e] = None]
    BY <1>6 DEF DeleteTake
  <2>2. /\ bits' = bits /\ lost' = lost /\ pc[t] \notin Owning
        /\ pc'[t] \in Owning /\ desc'[t] = e
        /\ \A u \in Thread : u # t => pc'[u] = pc[u] /\ desc'[u] = desc[u]
        /\ \A d \in Desc : d # e => tags'[d] = tags[d]
    BY <1>6, <2>1 DEF DeleteTake, Go, At, Owning, TypeOK
  <2>3. bits \subseteq Desc
    BY DEF TypeOK
  <2> QED
    BY <2>2, <2>3 DEF NothingElseLost
<1>7. ASSUME NEW t \in Thread, Clear(t) PROVE NothingElseLost'
  <2>1. bits' = bits \ {desc[t]}
    BY <1>7, ClearNames
  <2>2. /\ tags' = tags /\ lost' = lost
        /\ \A u \in Thread : u # t => pc'[u] = pc[u] /\ desc'[u] = desc[u]
    BY <1>7 DEF Clear, AfterClear, Return, Go, TypeOK
  <2> QED
    BY <2>1, <2>2, OwnersStay
<1> QED
  BY <1>1, <1>2, <1>3, <1>4, <1>5, <1>6, <1>7 DEF Next

-----------------------------------------------------------------------------
(* A TAG_OPEN goes on looking for the key it began with.                   *)
LEMMA NextOpen ==
    ASSUME TypeOK, OpenInv, [Next]_vars
    PROVE  OpenInv'
<1> SUFFICES ASSUME NEW u \in Thread, pc'[u] = "o_lookup"
             PROVE  key'[u] \in Key
  BY DEF OpenInv, At
<1>1. CASE UNCHANGED vars
  BY <1>1 DEF OpenInv, At, vars
<1>2. ASSUME NEW t \in Thread,
             \/ CreateLock(t) \/ Interrupted(t) \/ CreateRefused(t) \/ CreateReserve(t)
             \/ CreatePublish(t) \/ CreateNoMemory(t) \/ ClearLock(t) \/ UndoKilled(t)
             \/ DeleteKilled(t) \/ Clear(t) \/ OpenLookup(t) \/ DeleteTake(t) \/ DeleteFree(t)
      PROVE  pc[u] = "o_lookup" /\ key'[u] = key[u]
  BY <1>2 DEF CreateLock, Interrupted, CreateRefused, CreateReserve, CreatePublish,
              CreateNoMemory, ClearLock, UndoKilled, DeleteKilled, Clear, AfterClear, OpenLookup,
              DeleteTake, DeleteFree, vars, Return, Go, At, TypeOK
<1>3. ASSUME NEW t \in Thread, OpenLock(t) PROVE key'[u] \in Key
  BY <1>3 DEF OpenInv, OpenLock, Go, At, TypeOK
<1> QED
  BY <1>1, <1>2, <1>3 DEF Next, OpenInv, At

-----------------------------------------------------------------------------
(* All parts together hold in every state.                                 *)
LEMMA RegInvariant == Spec => []RegInv
<1>1. RegInv /\ [Next]_vars => RegInv'
  BY NextType, NextOwner, NextLost, NextOpen DEF RegInv
<1> QED
  BY <1>1, InitReg, PTL DEF Spec

(* The shared structures and the threads keep their types; in particular   *)
(* no descriptor outside tags[] is handed out.                             *)
THEOREM TypeCorrect == Spec => []TypeOK
<1>1. RegInv => TypeOK
  BY DEF RegInv
<1> QED
  BY <1>1, RegInvariant, PTL

(* A descriptor has one owner, although creations, clearings and deletions *)
(* write the bit, the key and tags[d] under different locks.               *)
THEOREM OneOwnerHolds == Spec => []OneOwner
<1>1. RegInv => OneOwner
  BY DEF RegInv, OwnerInv
<1> QED
  BY <1>1, RegInvariant, PTL

(* clear_tag_common always finds the key and the bit it removes.           *)
THEOREM RegistryConsistent == Spec => []Consistent
<1>1. RegInv => Consistent
  BY DEF RegInv, OwnerInv
<1> QED
  BY <1>1, RegInvariant, PTL

(* tag_get with TAG_OPEN returns a tag of the key it was asked for.        *)
THEOREM OpenGetsItsTag == Spec => []OpenIsRight
<1>1. RegInv => OpenIsRight
  BY DEF RegInv, OpenInv, OwnerInv, NameInv, OpenIsRight, OpenFinds
<1> QED
  BY <1>1, RegInvariant, PTL

(* Only a creation killed while it undoes itself leaves a descriptor       *)
(* behind.                                                                 *)
THEOREM NothingElseIsLost == Spec => []NothingElseLost
<1>1. RegInv => NothingElseLost
  BY DEF RegInv
<1> QED
  BY <1>1, RegInvariant, PTL

-----------------------------------------------------------------------------
(* Refinement *)

(* A reservation registers a name, a clearing unregisters one, every other *)
(* step leaves the names alone.                                            *)
LEMMA StepRefines ==
    ASSUME TypeOK, OwnerInv, [Next]_vars
    PROVE  [Names!Next]_(Names!vars)
<1>1. CASE UNCHANGED common
  BY <1>1 DEF common, Names!vars
<1>2. ASSUME NEW t \in Thread, CreateReserve(t)
      PROVE  Names!Next
  <2>1. PICK d \in Free : /\ Lowest(d, Free) /\ bits' = bits \cup {d}
                          /\ table' = IF key[t] \in Key THEN [table EXCEPT ![key[t]] = d] ELSE table
    BY <1>2 DEF CreateReserve
  <2>2. d \in Names!Free /\ Names!IsLowestFree(d)
    BY <2>1 DEF Free, Desc, Lowest, Names!Free, Names!IsLowestFree
  <2>3. CASE key[t] \in Key
    <3>1. table[key[t]] = None
      BY <1>2, <2>3 DEF CreateReserve, Known
    <3>2. Names!Register(key[t])
      BY <2>1, <2>2, <2>3, <3>1 DEF Names!Register
    <3> QED
      BY <2>3, <3>2 DEF Names!Next
  <2>4. CASE key[t] \notin Key
    <3>1. Names!RegisterPrivate
      BY <2>1, <2>2, <2>4 DEF Names!RegisterPrivate
    <3> QED
      BY <3>1 DEF Names!Next
  <2> QED
    BY <2>3, <2>4
<1>3. ASSUME NEW t \in Thread, Clear(t)
      PROVE  Names!Next
  <2>1. /\ desc[t] \in bits
        /\ key[t] \in Key => table[key[t]] = desc[t]
        /\ \A k \in Key : table[k] = desc[t] => k = key[t]
        /\ bits' = bits \ {desc[t]}
    BY <1>3, ClearNames
  <2>2. table' = [k \in Key |-> IF k = key[t] THEN None ELSE table[k]]
    BY <1>3, <2>1 DEF Clear, ClearKey
  <2>3. CASE key[t] \in Key
    <3>1. table' = [table EXCEPT ![key[t]] = None]
      BY <2>2, <2>3 DEF TypeOK
    <3>2. Names!Unregister(key[t])
      BY <2>1, <2>3, <3>1 DEF Names!Unregister
    <3> QED
      BY <2>3, <3>2 DEF Names!Next
  <2>4. CASE key[t] \notin Key
    <3>1. table' = table
      BY <2>2, <2>4 DEF TypeOK
    <3>2. Names!UnregisterPrivate(desc[t])
      BY <2>1, <2>4, <3>1 DEF Names!UnregisterPrivate
    <3> QED
      BY <2>1, <3>2 DEF Names!Next
  <2> QED
    BY <2>3, <2>4
<1>4. ASSUME NEW t \in Thread,
             \/ CreateLock(t) \/ Interrupted(t) \/ CreateRefused(t) \/ CreatePublish(t)
             \/ CreateNoMemory(t) \/ ClearLock(t) \/ UndoKilled(t) \/ DeleteKilled(t)
             \/ OpenLock(t) \/ OpenLookup(t) \/ DeleteTake(t) \/ DeleteFree(t)
      PROVE  UNCHANGED common
  BY <1>4 DEF CreateLock, Interrupted, CreateRefused, CreatePublish, CreateNoMemory, ClearLock,
              UndoKilled, DeleteKilled, OpenLock, OpenLookup, DeleteTake, DeleteFree, vars
<1> QED
  BY <1>1, <1>2, <1>3, <1>4 DEF Next, vars

(* The registry does what one creation or clearing after the other would,  *)
(* however many calls run at the same time, fail or are killed.            *)
THEOREM RegistryImplementsNames == Spec => ImplementsNames
<1>1. Init => Names!Init
  BY DEF Init, Names!Init
<1>2. RegInv /\ [Next]_vars => [Names!Next]_(Names!vars)
  BY StepRefines DEF RegInv
<1> QED
  BY <1>1, <1>2, RegInvariant, PTL DEF Spec, ImplementsNames, Names!Spec
=============================================================================
