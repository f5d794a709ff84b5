-------------------------- MODULE LifecycleProofs --------------------------
(***************************************************************************)
(* What TLAPS proves of Lifecycle, for any number of callers, loads, open  *)
(* files, calls and free entries, and of the scan, for any memory.         *)
(***************************************************************************)
EXTENDS Lifecycle, FiniteSetTheorems, TLAPS

(* What there is in each part of the module's life. *)
PhaseInv ==
    /\ tag \in {"install", "live", "going", "stuck", "freeing"} => data = Data
    /\ tag \in {"undone", "abort"} => data = {} /\ load \in failed
    /\ tag = "freed" => data = {}
    /\ tag = "out" => data \subseteq {"words"}
    /\ device => tag \in {"live", "going"}
    /\ files > 0 => tag = "live"
    /\ Loaded => load > 0

(* The references: rmmod finds none, and nobody gets one from then on. *)
Unloading == {"going", "freeing", "freed", "stuck"}
CountInv ==
    /\ RefExact
    /\ tag \in Unloading => ref = 0

(* The code of a call that has its reference is there. *)
CodeInv ==
    /\ \A t \in Thread : pc[t] = "body" /\ code[t] \notin failed => CodeThere(t)
    /\ \A t \in Thread : code[t] <= load

(* Entries lead to loads that have begun. *)
EntryInv == \A i \in Index : entry[i].load <= load

(* The calls that install_syscalls is through with are in the table, or    *)
(* their number is 0.                                                      *)
Inserted(x) == \E i \in Index : nr[x] = NI[i] /\ entry[i] = EntryOf(x, load)
InstallInv ==
    /\ tag = "install" => \A x \in Call : x < next => nr[x] = 0 \/ Inserted(x)
    /\ LiveMeansInstalled

LifeInv ==
    /\ TypeOK /\ PhaseInv
    /\ CountInv /\ EntryInv /\ CodeInv
    /\ InstallInv

-----------------------------------------------------------------------------
(* The callers that run are finitely many. *)
LEMMA RunningFinite ==
    /\ IsFiniteSet(Running) /\ Cardinality(Running) \in 0 .. Cardinality(Thread)
    /\ IsFiniteSet(Running') /\ Cardinality(Running') \in 0 .. Cardinality(Thread)
<1>1. Running \in SUBSET Thread /\ Running' \in SUBSET Thread
  BY DEF Running
<1>2. IsFiniteSet(Thread)
  BY LifecycleAssumption
<1> QED
  BY <1>1, <1>2, FS_Subset, FS_CardinalityType

(* No reference is counted exactly when nobody runs. *)
LEMMA NobodyRuns ==
    ASSUME Running = {}
    PROVE  Cardinality(Running) = 0
BY FS_EmptySet

LEMMA SomebodyRuns ==
    ASSUME NEW t \in Running
    PROVE  Cardinality(Running) > 0
BY RunningFinite, FS_EmptySet

(* A step that lets one more in, or one out. *)
LEMMA OneMore ==
    ASSUME NEW t, t \notin Running, Running' = Running \cup {t}
    PROVE  Cardinality(Running') = Cardinality(Running) + 1
BY RunningFinite, FS_AddElement

LEMMA OneLess ==
    ASSUME NEW t \in Running, Running' = Running \ {t}
    PROVE  Cardinality(Running') = Cardinality(Running) - 1
BY RunningFinite, FS_RemoveElement

-----------------------------------------------------------------------------
(* The first state. *)
LEMMA InitLife == Init => LifeInv
<1> SUFFICES ASSUME Init PROVE LifeInv
  OBVIOUS
<1>1. TypeOK
  <2>1. ref \in 0 .. (Cardinality(Thread) + MaxFiles)
    BY LifecycleAssumption, FS_CardinalityType DEF Init
  <2>2. entry \in [Index -> {Ni} \cup [call : Call, load : 1 .. MaxLoads]]
    BY DEF Init
  <2>3. /\ next \in 1 .. (Calls + 1) /\ nr \in [Call -> NiIndex \cup {0}]
        /\ load \in 0 .. MaxLoads /\ files \in 0 .. MaxFiles
        /\ code \in [Thread -> 0 .. MaxLoads]
    BY LifecycleAssumption DEF Init
  <2> QED
    BY <2>1, <2>2, <2>3 DEF Init, TypeOK
<1>2. PhaseInv /\ CountInv /\ EntryInv /\ CodeInv /\ InstallInv
  BY DEF Init, PhaseInv, CountInv, EntryInv, CodeInv, InstallInv, LiveMeansInstalled,
     RefExact, Loaded, Unloading, Ni
<1> QED
  BY <1>1, <1>2 DEF LifeInv

-----------------------------------------------------------------------------
(* Types *)

(* A reference count that is exact is in its range. *)
LEMMA CountInRange ==
    ASSUME RefExact', Loaded', files' \in 0 .. MaxFiles
    PROVE  ref' \in 0 .. (Cardinality(Thread) + MaxFiles)
<1>1. ref' = Cardinality(Running') + files'
  BY DEF RefExact
<1>2. Cardinality(Running') \in 0 .. Cardinality(Thread) /\ Cardinality(Thread) \in Nat
  BY RunningFinite, LifecycleAssumption, FS_CardinalityType
<1> QED
  BY <1>1, <1>2, LifecycleAssumption

(* Every step keeps the types, if it keeps the count exact. *)
LEMMA NextType ==
    ASSUME TypeOK, PhaseInv, RefExact', [Next]_vars
    PROVE  TypeOK'
<1> USE DEF TypeOK, Going
<1>1. CASE UNCHANGED vars
  BY <1>1 DEF vars, sct, setup, callers
<1>2. CASE ScthLoad
  <2>1. \A mem : Taken(mem) \in {NotFound, Table, FalseTable}
    BY DEF Taken
  <2> QED
    BY <1>2, <2>1 DEF ScthLoad, setup, callers
<1>3. CASE ScthUnload
  BY <1>3 DEF ScthUnload, Clean, setup, callers
<1>4. CASE TagLoad
  <2>1. ref' \in 0 .. (Cardinality(Thread) + MaxFiles)
    BY <1>4, LifecycleAssumption, FS_CardinalityType DEF TagLoad
  <2>2. next' \in 1 .. (Calls + 1) /\ nr' \in [Call -> NiIndex \cup {0}] /\ load' \in 0 .. MaxLoads
    BY <1>4, LifecycleAssumption DEF TagLoad
  <2> QED
    BY <1>4, <2>1, <2>2 DEF TagLoad, sct, callers
<1>5. CASE TagLoadNoMemory
  <2>1. ref' \in 0 .. (Cardinality(Thread) + MaxFiles)
    BY <1>5, LifecycleAssumption, FS_CardinalityType DEF TagLoadNoMemory
  <2>2. load' \in 0 .. MaxLoads /\ load' \in 1 .. MaxLoads
    BY <1>5, LifecycleAssumption DEF TagLoadNoMemory
  <2>3. data' \subseteq Data
    BY <1>5 DEF TagLoadNoMemory, Undone, Data
  <2> QED
    BY <1>5, <2>1, <2>2, <2>3 DEF TagLoadNoMemory, sct, callers
<1>6. CASE SyscallInsert
  <2>1. next' \in 1 .. (Calls + 1) /\ next \in Call
    BY <1>6, LifecycleAssumption DEF SyscallInsert, Call
  <2>2. nr' \in [Call -> NiIndex \cup {0}]
    BY <1>6, <2>1 DEF SyscallInsert, NiIndex, Free, Index
  <2>3. load \in 1 .. MaxLoads
    BY <1>6 DEF SyscallInsert, PhaseInv, Loaded
  <2>4. entry' \in [Index -> {Ni} \cup [call : Call, load : 1 .. MaxLoads]]
    BY <1>6, <2>1, <2>3 DEF SyscallInsert, EntryOf, Free
  <2> QED
    BY <1>6, <2>1, <2>2, <2>4 DEF SyscallInsert, sct, callers
<1>7. CASE InstallFails
  <2>1. load \in 1 .. MaxLoads
    BY <1>7 DEF InstallFails, PhaseInv, Loaded
  <2> QED
    BY <1>7, <2>1 DEF InstallFails, sct, callers
<1>8. CASE LoadFails \/ RegisterChardev \/ FreeModule \/ Unload \/ UnregisterChardev \/ CleanupData
  BY <1>8 DEF LoadFails, RegisterChardev, FreeModule, Unload, UnregisterChardev,
              CleanupData, sct, setup, callers
<1>9. CASE OpenFile \/ CloseFile
  <2>1. files' \in 0 .. MaxFiles /\ Loaded'
    BY <1>9, LifecycleAssumption DEF OpenFile, CloseFile, setup, PhaseInv, Loaded
  <2> QED
    BY <1>9, <2>1, CountInRange DEF OpenFile, CloseFile, sct, setup, callers
<1>10. ASSUME NEW t \in Thread, CallEntry(t) PROVE TypeOK'
  <2>1. \A i \in Index : entry[i] # Ni => entry[i].load \in 0 .. MaxLoads
    BY DEF Ni
  <2> QED
    BY <1>10, <2>1 DEF CallEntry, sct, setup
<1>11. ASSUME NEW t \in Thread, Get(t) \/ Put(t) PROVE TypeOK'
  <2>1. Loaded' /\ files' \in 0 .. MaxFiles
    BY <1>11 DEF Get, Put, CodeThere, Loaded, setup
  <2> QED
    BY <1>11, <2>1, CountInRange DEF Get, Put, sct, setup
<1>12. ASSUME NEW t \in Thread, Return(t) \/ Oops(t) PROVE TypeOK'
  <2>1. 0 \in 0 .. MaxLoads
    BY LifecycleAssumption
  <2>2. pc' \in [Thread -> {"user", "entry", "body", "exit"}] /\ code' \in [Thread -> 0 .. MaxLoads]
    BY <1>12, <2>1 DEF Return, Oops
  <2> QED
    BY <1>12, <2>2 DEF Return, Oops, sct, setup
<1> HIDE DEF TypeOK
<1> QED
  BY <1>1, <1>2, <1>3, <1>4, <1>5, <1>6, <1>7, <1>8, <1>9, <1>10, <1>11, <1>12 DEF Next

-----------------------------------------------------------------------------
(* Phases *)

(* Every step leaves what its part of the module's life allows.  rmmod     *)
(* finds no reference, so that no file is open.                            *)
LEMMA NextPhase ==
    ASSUME TypeOK, PhaseInv, CountInv, [Next]_vars
    PROVE  PhaseInv'
<1> USE DEF PhaseInv, Loaded
<1>1. files \in Nat /\ load \in Nat /\ data \subseteq Data /\ device \in BOOLEAN
  BY LifecycleAssumption DEF TypeOK
<1>2. CASE UNCHANGED vars
  BY <1>2 DEF vars, sct, setup, callers
<1>3. CASE ScthLoad \/ ScthUnload
  BY <1>3 DEF ScthLoad, ScthUnload, setup, callers
<1>4. CASE TagLoad \/ TagLoadNoMemory
  BY <1>1, <1>4 DEF TagLoad, TagLoadNoMemory, Undone
<1>5. CASE SyscallInsert \/ InstallFails \/ LoadFails \/ RegisterChardev \/ FreeModule
  BY <1>1, <1>5 DEF SyscallInsert, InstallFails, LoadFails, RegisterChardev, FreeModule, setup
<1>6. CASE Unload
  <2>1. files = 0
    BY <1>1, <1>6, RunningFinite DEF Unload, CountInv, RefExact
  <2> QED
    BY <1>6, <2>1 DEF Unload, setup
<1>7. CASE UnregisterChardev \/ CleanupData
  BY <1>1, <1>7 DEF UnregisterChardev, CleanupData
<1>8. CASE OpenFile \/ CloseFile
  BY <1>1, <1>8 DEF OpenFile, CloseFile, setup
<1>9. ASSUME NEW t \in Thread, CallEntry(t) \/ Get(t) \/ Put(t) \/ Return(t) \/ Oops(t)
      PROVE  PhaseInv'
  BY <1>9 DEF CallEntry, Get, Put, Return, Oops, setup
<1> HIDE DEF PhaseInv
<1> QED
  BY <1>2, <1>3, <1>4, <1>5, <1>6, <1>7, <1>8, <1>9 DEF Next

-----------------------------------------------------------------------------
(* References *)

(* A step that moves no caller changes nobody who runs. *)
LEMMA RunningSame ==
    ASSUME UNCHANGED <<callers, load>>, Loaded' <=> Loaded
    PROVE  Running' = Running
BY DEF Running, CodeThere, callers

(* A new load is nobody's code yet. *)
LEMMA NobodyRunsNew ==
    ASSUME load \in Nat, load' = load + 1, UNCHANGED callers,
           code \in [Thread -> Nat], \A t \in Thread : code[t] <= load
    PROVE  Running' = {}
BY DEF Running, CodeThere, callers

(* Every step keeps the count exact, and no reference is got once the      *)
(* module is going.                                                        *)
LEMMA NextCount ==
    ASSUME TypeOK, PhaseInv, CountInv, CodeInv, [Next]_vars
    PROVE  CountInv'
<1>1. /\ files \in Nat /\ load \in Nat /\ ref \in Int
      /\ code \in [Thread -> Nat] /\ pc \in [Thread -> {"user", "entry", "body", "exit"}]
  BY LifecycleAssumption, FS_CardinalityType DEF TypeOK
<1>2. Cardinality(Running) \in Nat /\ Cardinality(Running') \in Nat
  BY RunningFinite
<1>3. ASSUME UNCHANGED <<callers, load, ref, files>>, Loaded' <=> Loaded,
             tag' \in Unloading => tag \in Unloading \/ ref = 0
      PROVE  CountInv'
  BY <1>3, RunningSame DEF CountInv, RefExact
<1>4. CASE UNCHANGED vars
  BY <1>3, <1>4 DEF vars, setup, callers, Loaded
<1>5. CASE ScthLoad \/ ScthUnload
  BY <1>3, <1>5 DEF ScthLoad, ScthUnload, setup, Loaded
<1>6. CASE TagLoad
  <2>1. Running' = {}
    BY <1>1, <1>6, NobodyRunsNew DEF TagLoad, CodeInv
  <2>2. Cardinality(Running') = 0
    BY <2>1, FS_EmptySet
  <2>3. files' = 0
    BY <1>1, <1>6 DEF TagLoad, PhaseInv
  <2> QED
    BY <1>6, <2>2, <2>3 DEF TagLoad, CountInv, RefExact, Unloading
<1>7. CASE TagLoadNoMemory
  BY <1>7 DEF TagLoadNoMemory, CountInv, RefExact, Loaded, Unloading
<1>8. CASE SyscallInsert \/ InstallFails \/ LoadFails \/ RegisterChardev
  BY <1>3, <1>8 DEF SyscallInsert, InstallFails, LoadFails, RegisterChardev, setup, Loaded, Unloading
<1>9. CASE FreeModule
  BY <1>9 DEF FreeModule, CountInv, RefExact, Loaded, Unloading
<1>10. CASE Unload \/ UnregisterChardev \/ CleanupData
  BY <1>3, <1>10 DEF Unload, UnregisterChardev, CleanupData, setup, Loaded, Unloading
<1>11. CASE OpenFile \/ CloseFile
  <2>1. tag = "live" /\ Running' = Running
    BY <1>1, <1>11, RunningSame DEF OpenFile, CloseFile, PhaseInv, setup, Loaded
  <2> QED
    BY <1>1, <1>2, <1>11, <2>1 DEF OpenFile, CloseFile, CountInv, RefExact, Loaded, Unloading, setup
<1>12. ASSUME NEW t \in Thread, CallEntry(t) \/ Return(t) \/ Oops(t)
       PROVE  CountInv'
  <2>1. Running' = Running
    BY <1>1, <1>12 DEF CallEntry, Return, Oops, Running, CodeThere, Loaded, setup
  <2> QED
    BY <1>12, <2>1 DEF CallEntry, Return, Oops, CountInv, RefExact, Loaded, setup
<1>13. ASSUME NEW t \in Thread, Get(t)
       PROVE  CountInv'
  <2>1. CASE tag \in Going
    <3>1. Running' = Running
      BY <1>1, <1>13, <2>1 DEF Get, Running, CodeThere, Loaded, setup
    <3> QED
      BY <1>13, <2>1, <3>1 DEF Get, CountInv, RefExact, Loaded, setup
  <2>2. CASE tag \notin Going
    <3>1. t \notin Running /\ Running' = Running \cup {t}
      BY <1>1, <1>13, <2>2 DEF Get, Running, CodeThere, Loaded, setup
    <3> QED
      BY <1>1, <1>2, <1>13, <2>2, <3>1, OneMore
         DEF Get, CountInv, RefExact, CodeThere, Loaded, Unloading, Going, setup
  <2> QED
    BY <2>1, <2>2
<1>14. ASSUME NEW t \in Thread, Put(t)
       PROVE  CountInv'
  <2>1. t \in Running /\ Running' = Running \ {t}
    BY <1>1, <1>14 DEF Put, Running, CodeThere, Loaded, setup
  <2>2. tag \notin Unloading
    BY <1>1, <1>2, <1>14, <2>1, SomebodyRuns DEF Put, CodeThere, CountInv, RefExact
  <2>3. Cardinality(Running') = Cardinality(Running) - 1
    BY <2>1, OneLess
  <2>4. ref' = Cardinality(Running') + files'
    BY <1>1, <1>2, <1>14, <2>3 DEF Put, CountInv, RefExact, CodeThere
  <2> QED
    BY <1>14, <2>2, <2>4 DEF Put, CountInv, RefExact
<1> QED
  BY <1>4, <1>5, <1>6, <1>7, <1>8, <1>9, <1>10, <1>11, <1>12, <1>13, <1>14 DEF Next

-----------------------------------------------------------------------------
(* The code of running calls *)

(* Every step keeps the entries to loads that have begun.                  *)
LEMMA NextEntry ==
    ASSUME TypeOK, EntryInv, [Next]_vars
    PROVE  EntryInv'
<1> USE DEF EntryInv, Ni
<1>1. load \in Nat /\ \A i \in Index : entry[i].load \in Nat
  BY LifecycleAssumption DEF TypeOK
<1>2. entry \in [Index -> {Ni} \cup [call : Call, load : 1 .. MaxLoads]]
  BY DEF TypeOK
<1>3. CASE UNCHANGED entry /\ (load' = load \/ load' = load + 1)
  BY <1>1, <1>3
<1>4. CASE ScthUnload
  BY <1>1, <1>4 DEF ScthUnload, Clean, setup
<1>5. CASE SyscallInsert
  BY <1>1, <1>2, <1>5 DEF SyscallInsert, EntryOf, Free
<1>6. ASSUME Next PROVE ScthUnload \/ SyscallInsert \/ (UNCHANGED entry /\ (load' = load \/ load' = load + 1))
  BY <1>6 DEF Next, ScthLoad, TagLoad, TagLoadNoMemory, InstallFails, LoadFails,
     RegisterChardev, FreeModule, Unload, UnregisterChardev, CleanupData, OpenFile, CloseFile,
     CallEntry, Get, Put, Return, Oops, setup
<1>7. CASE UNCHANGED vars
  BY <1>3, <1>7 DEF vars, setup
<1> HIDE DEF EntryInv
<1> QED
  BY <1>3, <1>4, <1>5, <1>6, <1>7

(* Every step keeps the code of the calls that have a reference: only a    *)
(* module without references, or one whose load failed, is freed.          *)
LEMMA NextCode ==
    ASSUME TypeOK, PhaseInv, CountInv, CodeInv, EntryInv, [Next]_vars
    PROVE  CodeInv'
<1>1. /\ files \in Nat /\ load \in Nat
      /\ code \in [Thread -> Nat] /\ pc \in [Thread -> {"user", "entry", "body", "exit"}]
  BY LifecycleAssumption DEF TypeOK
<1>2. ASSUME UNCHANGED <<callers, load>>, Loaded => Loaded', failed \subseteq failed'
      PROVE  CodeInv'
  BY <1>2 DEF CodeInv, CodeThere, callers
<1>3. CASE UNCHANGED vars
  BY <1>2, <1>3 DEF vars, setup, callers, Loaded
<1>4. CASE ScthLoad \/ ScthUnload \/ OpenFile \/ CloseFile
  BY <1>2, <1>4 DEF ScthLoad, ScthUnload, OpenFile, CloseFile, setup, callers, Loaded
<1>5. CASE TagLoad \/ TagLoadNoMemory
  BY <1>1, <1>5 DEF TagLoad, TagLoadNoMemory, CodeInv, CodeThere, Loaded, callers
<1>6. CASE SyscallInsert \/ InstallFails \/ LoadFails \/ RegisterChardev
  BY <1>2, <1>6 DEF SyscallInsert, InstallFails, LoadFails, RegisterChardev, setup, Loaded
<1>7. CASE Unload \/ UnregisterChardev \/ CleanupData
  BY <1>2, <1>7 DEF Unload, UnregisterChardev, CleanupData, setup, Loaded
<1>8. CASE FreeModule
  <2>1. ASSUME NEW t \in Thread, pc[t] = "body", code[t] \notin failed PROVE FALSE
    <3>1. t \in Running /\ code[t] = load /\ Loaded
      BY <2>1 DEF CodeInv, Running, CodeThere
    <3>2. CASE tag = "abort"
      BY <2>1, <3>1, <3>2 DEF PhaseInv
    <3>3. CASE tag = "freed"
      BY <1>1, <3>1, <3>3, SomebodyRuns, RunningFinite DEF CountInv, RefExact, Unloading
    <3> QED
      BY <1>8, <3>2, <3>3 DEF FreeModule
  <2> QED
    BY <1>8, <2>1 DEF FreeModule, CodeInv, callers, setup
<1>9. ASSUME NEW t \in Thread, CallEntry(t)
      PROVE  CodeInv'
  BY <1>1, <1>9 DEF CallEntry, CodeInv, CodeThere, Loaded, EntryInv, setup
<1>10. ASSUME NEW t \in Thread, Get(t) \/ Put(t)
       PROVE  CodeInv'
  BY <1>1, <1>10 DEF Get, Put, CodeInv, CodeThere, Loaded, setup
<1>11. ASSUME NEW t \in Thread, Return(t) \/ Oops(t)
       PROVE  CodeInv'
  BY <1>1, <1>11 DEF Return, Oops, CodeInv, CodeThere, Loaded, setup
<1> QED
  BY <1>3, <1>4, <1>5, <1>6, <1>7, <1>8, <1>9, <1>10, <1>11 DEF Next

-----------------------------------------------------------------------------
(* The calls in the table *)

(* Every step keeps the calls of a live module installed: syscall_insert   *)
(* overwrites no call, SCTH restores the table only when TAG-MOD is out,   *)
(* and the module goes live only if no number is 0.                        *)
LEMMA NextInstall ==
    ASSUME TypeOK, InstallInv, [Next]_vars
    PROVE  InstallInv'
<1>1. ASSUME UNCHANGED <<entry, next, nr, load>>,
             tag' \in {"install", "live"} => tag' = tag
      PROVE  InstallInv'
  BY <1>1 DEF InstallInv, LiveMeansInstalled, Inserted
<1>2. CASE UNCHANGED vars
  BY <1>1, <1>2 DEF vars, setup
<1>3. CASE ScthLoad
  BY <1>1, <1>3 DEF ScthLoad, setup
<1>4. CASE ScthUnload \/ TagLoadNoMemory
  BY <1>4 DEF ScthUnload, TagLoadNoMemory, InstallInv, LiveMeansInstalled
<1>5. CASE TagLoad
  BY <1>5 DEF TagLoad, InstallInv, LiveMeansInstalled, Call
<1>6. CASE SyscallInsert
  <2>1. /\ entry \in [Index -> {Ni} \cup [call : Call, load : 1 .. MaxLoads]]
        /\ nr \in [Call -> NiIndex \cup {0}] /\ next \in Call /\ tag = "install"
    BY <1>6, LifecycleAssumption DEF SyscallInsert, TypeOK, Call
  <2>2. \A x \in Call : x < next => nr[x] = 0 \/ Inserted(x)
    BY <2>1 DEF InstallInv
  <2>3. ASSUME NEW x \in Call, x = next PROVE nr'[x] = 0 \/ Inserted(x)'
    <3>1. CASE nr' = [nr EXCEPT ![next] = 0]
      BY <2>1, <2>3, <3>1
    <3>2. ASSUME NEW i \in Free, entry' = [entry EXCEPT ![i] = EntryOf(next, load)],
                 nr' = [nr EXCEPT ![next] = NI[i]]
          PROVE  Inserted(x)'
      <4>1. i \in Index /\ nr'[x] = NI[i] /\ entry'[i] = EntryOf(x, load) /\ load' = load
        BY <1>6, <2>1, <2>3, <3>2 DEF SyscallInsert, Free
      <4> QED
        BY <4>1 DEF Inserted, EntryOf
    <3> QED
      BY <1>6, <3>1, <3>2 DEF SyscallInsert
  <2>4. ASSUME NEW x \in Call, x < next PROVE nr'[x] = 0 \/ Inserted(x)'
    <3>1. x # next
      BY <2>1, <2>4 DEF Call
    <3>2. nr'[x] = nr[x] /\ load' = load
      BY <1>6, <2>1, <3>1 DEF SyscallInsert
    <3>3. ASSUME NEW i \in Index, entry[i] = EntryOf(x, load) PROVE entry'[i] = entry[i]
      <4>1. entry[i] # Ni
        BY <3>3 DEF Ni, EntryOf, Call
      <4> QED
        BY <1>6, <2>1, <4>1 DEF SyscallInsert, Free
    <3> QED
      BY <2>2, <2>4, <3>2, <3>3 DEF Inserted, EntryOf
  <2>5. tag' = "install" /\ next' = next + 1
    BY <1>6 DEF SyscallInsert
  <2>6. ASSUME NEW x \in Call, x < next' PROVE nr'[x] = 0 \/ Inserted(x)'
    <3>1. x < next \/ x = next
      BY <2>1, <2>5, <2>6 DEF Call
    <3> QED
      BY <2>3, <2>4, <3>1
  <2> QED
    BY <2>5, <2>6 DEF InstallInv, LiveMeansInstalled
<1>7. CASE InstallFails \/ LoadFails \/ FreeModule \/ Unload
  BY <1>1, <1>7 DEF InstallFails, LoadFails, FreeModule, Unload, setup
<1>8. CASE UnregisterChardev \/ CleanupData
  BY <1>1, <1>8 DEF UnregisterChardev, CleanupData
<1>9. CASE OpenFile \/ CloseFile
  BY <1>1, <1>9 DEF OpenFile, CloseFile, setup
<1>10. CASE RegisterChardev
  <2>1. \A x \in Call : x < next
    BY <1>10, LifecycleAssumption DEF RegisterChardev, TypeOK, Call
  <2>2. \A x \in Call : Inserted(x)
    BY <1>10, <2>1 DEF RegisterChardev, Installed, InstallInv
  <2> QED
    BY <1>10, <2>2 DEF RegisterChardev, InstallInv, LiveMeansInstalled, Inserted
<1>11. ASSUME NEW t \in Thread, CallEntry(t) \/ Get(t) \/ Put(t) \/ Return(t) \/ Oops(t)
       PROVE  InstallInv'
  BY <1>1, <1>11 DEF CallEntry, Get, Put, Return, Oops, setup
<1> QED
  BY <1>2, <1>3, <1>4, <1>5, <1>6, <1>7, <1>8, <1>9, <1>10, <1>11 DEF Next

-----------------------------------------------------------------------------
(* All parts together hold in every state.                                 *)
LEMMA LifeInvariant == Spec => []LifeInv
<1>1. LifeInv /\ [Next]_vars => LifeInv'
  <2> SUFFICES ASSUME LifeInv, [Next]_vars PROVE LifeInv'
    OBVIOUS
  <2>1. PhaseInv' /\ CountInv'
    BY NextPhase, NextCount DEF LifeInv
  <2>2. TypeOK'
    BY <2>1, NextType DEF LifeInv, CountInv
  <2>3. EntryInv' /\ CodeInv' /\ InstallInv'
    BY NextEntry, NextCode, NextInstall DEF LifeInv
  <2> QED
    BY <2>1, <2>2, <2>3 DEF LifeInv
<1> QED
  BY <1>1, InitLife, PTL DEF Spec

(* The variables of both modules keep their types; in particular the       *)
(* module's reference count never becomes negative.                        *)
THEOREM TypeCorrect == Spec => []TypeOK
<1>1. LifeInv => TypeOK
  BY DEF LifeInv
<1> QED
  BY <1>1, LifeInvariant, PTL

(* The reference count of TAG-MOD is the number of its calls that run and  *)
(* of its open files: each wrapper gives back what try_module_get took.    *)
THEOREM ReferencesExact == Spec => []RefExact
<1>1. LifeInv => RefExact
  BY DEF LifeInv, CountInv
<1> QED
  BY <1>1, LifeInvariant, PTL

(* cleanup_module frees code and tags only when no call is inside, as its  *)
(* comment says, except after an installation that failed.                 *)
THEOREM CallsProtected == Spec => []RefProtects
<1>1. LifeInv => RefProtects
  <2> SUFFICES ASSUME LifeInv, NEW t \in Thread, pc[t] = "body", code[t] \notin failed
               PROVE  CodeThere(t) /\ data = Data
    BY DEF RefProtects
  <2>1. CodeThere(t) /\ t \in Running
    BY DEF LifeInv, CodeInv, Running
  <2>2. tag \notin {"undone", "abort"}
    BY <2>1 DEF LifeInv, PhaseInv, CodeThere
  <2>3. ref # 0
    BY <2>1, SomebodyRuns, RunningFinite, LifecycleAssumption
       DEF LifeInv, CountInv, RefExact, CodeThere, TypeOK
  <2>4. tag # "freed"
    BY <2>3 DEF LifeInv, CountInv, Unloading
  <2>5. tag \in {"install", "live", "going", "freeing", "stuck"}
    BY <2>1, <2>2, <2>4 DEF LifeInv, TypeOK, Going, CodeThere, Loaded
  <2> QED
    BY <2>1, <2>5 DEF LifeInv, PhaseInv
<1> QED
  BY <1>1, LifeInvariant, PTL

(* However a load or an unload ends, nothing of it is left, but for the    *)
(* words that initialize_bitmask forgets.                                  *)
THEOREM NothingIsLeaked == Spec => []NothingLeaked
<1>1. LifeInv => NothingLeaked
  BY LifecycleAssumption DEF LifeInv, PhaseInv, NothingLeaked, TypeOK
<1> QED
  BY <1>1, LifeInvariant, PTL

(* While TAG-MOD is live, each number it publishes leads to its call: the  *)
(* product in install_syscalls tells every failure of syscall_insert.      *)
THEOREM AllInstalled == Spec => []LiveMeansInstalled
<1>1. LifeInv => LiveMeansInstalled
  BY DEF LifeInv, InstallInv
<1> QED
  BY <1>1, LifeInvariant, PTL

-----------------------------------------------------------------------------
(* One load in the table                                                   *)

(* The entries that lead to calls, those of the last load, and the others. *)
Held == {i \in Index : entry[i] # Ni}
Mine == {i \in Index : entry[i] # Ni /\ entry[i].load = load}
Old == Held \ Mine

(* What a load that is over leaves behind: nothing, or too much for        *)
(* another one.                                                            *)
Enough(S) == S = {} \/ S = Index \/ Cardinality(S) >= Calls

(* Why no second load goes live: a first one takes Calls entries or all    *)
(* there are.  A number is 0 only when no entry is left, or no table.      *)
NoneLeft == tableAddr = NotFound \/ Held = Index
TableInv ==
    /\ scth = "out" => tableAddr = NotFound /\ tag = "out"
    /\ tableAddr = NotFound => Held = {}
    /\ tag # "install" => Enough(Held)
    /\ tag = "install" =>
        /\ Enough(Old)
        /\ \/ Cardinality(Mine) >= next - 1
           \/ NoneLeft /\ \E x \in Call : x < next /\ nr[x] = 0
    /\ OneLoadPerTable

(* The entries are finitely many. *)
LEMMA IndexFinite ==
    /\ IsFiniteSet(Index) /\ Cardinality(Index) = FREE_ENTRIES
    /\ \A S \in SUBSET Index : IsFiniteSet(S) /\ Cardinality(S) \in Nat
<1>1. FREE_ENTRIES \in Nat
  BY DiscoveryAssumption DEF FREE_ENTRIES
<1>2. IsFiniteSet(1 .. FREE_ENTRIES) /\ Cardinality(1 .. FREE_ENTRIES) = FREE_ENTRIES
  BY <1>1, FS_Interval
<1> QED
  BY <1>2, FS_Subset, FS_CardinalityType DEF Index

(* What a load left when it was over: syscall_insert fails only when it is *)
(* too late.                                                               *)
LEMMA EnoughHeld ==
    ASSUME TypeOK, TableInv, tag = "install", next > Calls
    PROVE  Enough(Held)
<1>1. next = Calls + 1 /\ Calls \in Nat
  BY LifecycleAssumption DEF TypeOK
<1>2. CASE Cardinality(Mine) >= next - 1
  <2>1. Mine \subseteq Held /\ Held \in SUBSET Index /\ Mine \in SUBSET Index
    BY DEF Mine, Held
  <2>2. Cardinality(Mine) <= Cardinality(Held) /\ Cardinality(Mine) \in Nat /\ Cardinality(Held) \in Nat
    BY <2>1, IndexFinite, FS_Subset
  <2> QED
    BY <1>1, <1>2, <2>2 DEF Enough
<1>3. CASE NoneLeft
  BY <1>3 DEF NoneLeft, TableInv, Enough
<1> QED
  BY <1>2, <1>3 DEF TableInv

(* A load that goes live has the table for itself. *)
LEMMA LiveAlone ==
    ASSUME FREE_ENTRIES < 2 * Calls, TypeOK, TableInv,
           tag = "install", next > Calls, Installed
    PROVE  Old = {}
<1>0. FREE_ENTRIES \in Nat
  BY IndexFinite, FS_CardinalityType
<1>1. next = Calls + 1 /\ Calls \in Nat \ {0} /\ FREE_ENTRIES \in Nat
  BY <1>0, LifecycleAssumption DEF TypeOK
<1>2. Cardinality(Mine) >= Calls
  BY <1>1 DEF TableInv, Installed
<1>3. Mine \in SUBSET Index /\ Old \in SUBSET Index /\ Mine \cap Old = {}
  BY DEF Mine, Held, Old
<1>4. Mine # {}
  BY <1>1, <1>2, FS_EmptySet
<1>5. Old # Index
  BY <1>3, <1>4
<1>6. ~(Cardinality(Old) >= Calls)
  <2>1. Cardinality(Mine \cup Old) = Cardinality(Mine) + Cardinality(Old) - Cardinality(Mine \cap Old)
    BY <1>3, IndexFinite, FS_Union
  <2>2. Cardinality(Mine \cap Old) = 0
    BY <1>3, FS_EmptySet
  <2>3. Cardinality(Mine \cup Old) <= FREE_ENTRIES
    BY <1>3, IndexFinite, FS_Subset
  <2>4. /\ Cardinality(Mine) \in Nat /\ Cardinality(Old) \in Nat
        /\ Cardinality(Mine \cup Old) \in Nat
    BY <1>3, IndexFinite
  <2> QED
    BY <1>1, <1>2, <2>1, <2>2, <2>3, <2>4
<1> QED
  BY <1>5, <1>6 DEF TableInv, Enough

(* Every step keeps it. *)
LEMMA NextTable ==
    ASSUME FREE_ENTRIES < 2 * Calls, TypeOK, EntryInv, TableInv, [Next]_vars
    PROVE  TableInv'
<1>0. /\ load \in Nat /\ next \in Nat \ {0} /\ Calls \in Nat \ {0}
      /\ entry \in [Index -> {Ni} \cup [call : Call, load : 1 .. MaxLoads]]
      /\ nr \in [Call -> NiIndex \cup {0}]
  BY LifecycleAssumption DEF TypeOK
<1>e. Enough({})
  BY DEF Enough
<1>1. ASSUME UNCHANGED <<scth, tableAddr, entry>>, scth # "out", tag # "install", tag' \notin {"install", "live"}
      PROVE  TableInv'
  BY <1>1 DEF TableInv, Held, Enough, OneLoadPerTable
<1>2. ASSUME UNCHANGED <<scth, tableAddr, entry, tag, load, next, nr>>
      PROVE  TableInv'
  BY <1>2 DEF TableInv, Held, Mine, Old, NoneLeft, Enough, OneLoadPerTable
<1>3. CASE UNCHANGED vars
  BY <1>2, <1>3 DEF vars, sct, setup
<1>4. CASE ScthLoad
  <2>1. /\ tag' = "out" /\ scth' = "in" /\ Held = {} /\ entry' = entry
    BY <1>4 DEF ScthLoad, TableInv, setup
  <2>2. Held' = {}
    BY <2>1 DEF Held
  <2> QED
    BY <1>e, <2>1, <2>2 DEF TableInv, OneLoadPerTable
<1>5. CASE ScthUnload
  <2>1. tag' = "out" /\ tableAddr' = NotFound
    BY <1>5 DEF ScthUnload
  <2>2. Held' = {}
    <3>1. CASE tableAddr = NotFound
      BY <1>0, <1>5, <3>1 DEF ScthUnload, Clean, Held, TableInv
    <3>2. CASE tableAddr # NotFound
      BY <1>5, <3>2 DEF ScthUnload, Clean, Held
    <3> QED
      BY <3>1, <3>2
  <2> QED
    BY <1>e, <2>1, <2>2 DEF TableInv, OneLoadPerTable
<1>6. CASE TagLoad
  <2>1. /\ tag' = "install" /\ load' = load + 1 /\ next' = 1
        /\ UNCHANGED <<scth, tableAddr, entry>> /\ scth = "in" /\ tag = "out"
    BY <1>6 DEF TagLoad, sct
  <2>2. Held' = Held
    BY <2>1 DEF Held
  <2>3. Mine' = {}
    BY <1>0, <2>1 DEF Mine, EntryInv
  <2>4. Old' = Held /\ Cardinality(Mine') = 0
    BY <2>2, <2>3, FS_EmptySet DEF Old
  <2>5. Enough(Old)'
    BY <2>1, <2>4 DEF TableInv, Enough
  <2> QED
    BY <2>1, <2>2, <2>4, <2>5 DEF TableInv, OneLoadPerTable
<1>7. CASE TagLoadNoMemory
  BY <1>1, <1>7 DEF TagLoadNoMemory, sct
<1>8. CASE SyscallInsert
  <2>1. /\ tag = "install" /\ tag' = "install" /\ next' = next + 1 /\ next \in Call
        /\ UNCHANGED <<scth, tableAddr, load>> /\ scth # "out"
    BY <1>8, <1>0 DEF SyscallInsert, sct, TableInv, Call
  <2>2. CASE /\ tableAddr = NotFound \/ Free = {}
             /\ nr' = [nr EXCEPT ![next] = 0] /\ UNCHANGED entry
    <3>1. NoneLeft'
      BY <2>1, <2>2 DEF NoneLeft, Free, Held
    <3>2. Held' = Held /\ Mine' = Mine /\ Old' = Old
      BY <2>1, <2>2 DEF Held, Mine, Old
    <3>3. \E x \in Call : x < next' /\ nr'[x] = 0
      BY <1>0, <2>1, <2>2
    <3> QED
      BY <2>1, <3>1, <3>2, <3>3 DEF TableInv, OneLoadPerTable, Enough
  <2>3. ASSUME NEW k \in Free, tableAddr # NotFound,
               entry' = [entry EXCEPT ![k] = EntryOf(next, load)],
               nr' = [nr EXCEPT ![next] = NI[k]]
        PROVE  TableInv'
    <3>1. k \in Index /\ k \notin Held /\ k \notin Mine /\ EntryOf(next, load) # Ni
      BY <2>1, <2>3 DEF Free, Held, Mine, EntryOf, Ni, Call
    <3>2. Held' = Held \cup {k} /\ Mine' = Mine \cup {k}
      BY <1>0, <2>1, <2>3, <3>1 DEF Held, Mine, EntryOf
    <3>3. Old' = Old
      BY <3>1, <3>2 DEF Old
    <3>4. ~NoneLeft
      BY <2>3, <3>1 DEF NoneLeft
    <3>5. Cardinality(Mine) >= next - 1
      BY <2>1, <3>4 DEF TableInv
    <3>6. IsFiniteSet(Mine) /\ Cardinality(Mine) \in Nat
      BY IndexFinite DEF Mine
    <3>7. Cardinality(Mine') = Cardinality(Mine) + 1
      BY <3>1, <3>2, <3>6, FS_AddElement
    <3>8. Cardinality(Mine') >= next' - 1
      BY <1>0, <2>1, <3>5, <3>6, <3>7
    <3> QED
      BY <2>1, <2>3, <3>3, <3>8 DEF TableInv, OneLoadPerTable, Enough
  <2> QED
    BY <1>8, <2>2, <2>3 DEF SyscallInsert
<1>9. CASE InstallFails
  <2>1. Enough(Held)
    BY <1>9, EnoughHeld DEF InstallFails
  <2> QED
    BY <1>9, <2>1 DEF InstallFails, sct, TableInv, Held, Enough, OneLoadPerTable
<1>10. CASE RegisterChardev
  <2>1. Enough(Held) /\ Old = {}
    BY <1>10, EnoughHeld, LiveAlone DEF RegisterChardev
  <2>2. tag' = "live" /\ UNCHANGED <<scth, tableAddr, entry, load>> /\ scth # "out"
    BY <1>10 DEF RegisterChardev, sct, TableInv
  <2>3. OneLoadPerTable'
    BY <2>1, <2>2 DEF OneLoadPerTable, Old, Held, Mine
  <2> QED
    BY <2>1, <2>2, <2>3 DEF TableInv, Held, Enough
<1>11. CASE LoadFails \/ FreeModule \/ Unload \/ UnregisterChardev \/ CleanupData
  BY <1>1, <1>11 DEF LoadFails, FreeModule, Unload, UnregisterChardev, CleanupData, sct, setup, TableInv
<1>12. CASE OpenFile \/ CloseFile
  BY <1>2, <1>12 DEF OpenFile, CloseFile, sct, setup
<1>13. ASSUME NEW t \in Thread, CallEntry(t) \/ Get(t) \/ Put(t) \/ Return(t) \/ Oops(t)
       PROVE  TableInv'
  BY <1>2, <1>13 DEF CallEntry, Get, Put, Return, Oops, sct, setup
<1> QED
  BY <1>3, <1>4, <1>5, <1>6, <1>7, <1>8, <1>9, <1>10, <1>11, <1>12, <1>13 DEF Next

(* While a load is live, no entry leads to an earlier one: a load that     *)
(* succeeds takes Calls entries, one that fails all that are left, and     *)
(* fewer than Calls remain.  This needs what the code's constants say: the *)
(* table has fewer free entries than two loads install.                    *)
THEOREM LoadsNeverMix ==
    ASSUME FREE_ENTRIES < 2 * Calls
    PROVE  Spec => []OneLoadPerTable
<1>1. Init => TableInv
  BY DEF Init, TableInv, Held, Enough, OneLoadPerTable
<1>2. LifeInv /\ TableInv /\ [Next]_vars => TableInv'
  BY NextTable DEF LifeInv
<1>3. TableInv => OneLoadPerTable
  BY DEF TableInv
<1> QED
  BY <1>1, <1>2, <1>3, LifeInvariant, PTL DEF Spec

-----------------------------------------------------------------------------
(* The scan of the kernel's memory                                         *)

(* Quotients.                                                              *)
LEMMA DivDef ==
    ASSUME NEW n \in Nat \ {0}, NEW a \in Int
    PROVE  a \div n \in Int /\ a % n \in 0 .. (n - 1) /\ a = (a \div n) * n + (a % n)
  OBVIOUS

LEMMA DivUnique ==
    ASSUME NEW n \in Nat \ {0}, NEW i \in Int, NEW b \in 0 .. (n - 1),
           NEW j \in Int, NEW c \in 0 .. (n - 1),
           i * n + b = j * n + c
    PROVE  i = j /\ b = c
  OBVIOUS

LEMMA DivIs ==
    ASSUME NEW n \in Nat \ {0}, NEW p \in Int, NEW a \in Int, a >= p * n, a < (p + 1) * n
    PROVE  a \div n = p /\ (a = p * n => a % n = 0)
<1>1. PICK q \in Int : q = a \div n
  BY DivDef
<1>2. PICK r \in 0 .. (n - 1) : r = a % n
  BY DivDef
<1>3. PICK s \in Int : s = a - p * n
  OBVIOUS
<1>4. (p + 1) * n = p * n + n
  OBVIOUS
<1>5. s \in 0 .. (n - 1)
  BY <1>3, <1>4
<1>6. q * n + r = p * n + s
  BY <1>1, <1>2, <1>3, DivDef
<1>7. q = p /\ r = s
  BY <1>5, <1>6, DivUnique
<1> QED
  BY <1>1, <1>2, <1>3, <1>7

(* Products. *)
LEMMA Product ==
    ASSUME NEW n \in Nat, NEW a \in Int, NEW b \in Int, a <= b
    PROVE  a * n \in Int /\ b * n \in Int /\ a * n <= b * n /\ (a >= 0 => a * n \in Nat)
  OBVIOUS

LEMMA Cancel ==
    ASSUME NEW n \in Nat \ {0}, NEW a \in Int, NEW b \in Int, a * n = b * n
    PROVE  a = b
  OBVIOUS

(* The free entries: their numbers grow, and the last one's word begins on *)
(* the table's page or the next.                                           *)
LEMMA NiOrder ==
    /\ FREE_ENTRIES \in Nat /\ FREE_ENTRIES > 1
    /\ \A i \in 1 .. FREE_ENTRIES : NI[i] \in NiIndex /\ NI[i] \in Nat /\ NI[1] <= NI[i] /\ NI[i] <= LastNI
    /\ \A e \in NiIndex : e \in Nat /\ NI[1] <= e /\ e <= LastNI
    /\ NI[1] > 1 /\ NI[1] < NI[2] /\ LastNI \in Nat /\ LastNI < Entries
<1>1. FREE_ENTRIES = Len(NI) /\ Len(NI) \in Nat /\ Len(NI) > 1 /\ LastNI = NI[Len(NI)]
  BY DiscoveryAssumption DEF FREE_ENTRIES, LastNI
<1>2. \A i \in 1 .. Len(NI) : NI[i] \in Nat
  BY DiscoveryAssumption
<1>3. \A i \in 1 .. Len(NI) : NI[1] <= NI[i] /\ NI[i] <= LastNI
  <2> TAKE i \in 1 .. Len(NI)
  <2>1. 1 \in 1 .. Len(NI) /\ Len(NI) \in 1 .. Len(NI)
    BY <1>1
  <2>2. i = 1 \/ 1 < i
    OBVIOUS
  <2>3. i = Len(NI) \/ i < Len(NI)
    BY <1>1
  <2>4. NI[1] = NI[i] \/ NI[1] < NI[i]
    BY <2>1, <2>2, DiscoveryAssumption
  <2>5. NI[i] = NI[Len(NI)] \/ NI[i] < NI[Len(NI)]
    BY <2>1, <2>3, DiscoveryAssumption
  <2> QED
    BY <1>1, <1>2, <2>1, <2>4, <2>5
<1>4. NI[1] < NI[2] /\ NI[1] > 1 /\ NI[Len(NI)] < Entries
  BY <1>1, DiscoveryAssumption
<1> QED
  BY <1>1, <1>2, <1>3, <1>4 DEF NiIndex

LEMMA Sizes ==
    /\ WORD \in Nat \ {0} /\ PAGE \in Nat \ {0} /\ Entries \in Nat \ {0}
    /\ Entries * WORD \in Nat /\ Entries * WORD <= PAGE
    /\ LastNI * WORD \in Nat /\ LastNI * WORD < PAGE
    /\ \A k \in 0 .. LastNI : k * WORD \in Nat /\ k * WORD <= LastNI * WORD
<1>1. /\ WORD \in Nat \ {0} /\ PAGE \in Nat \ {0} /\ Entries \in Nat \ {0}
      /\ Entries * WORD <= PAGE
  BY DiscoveryAssumption
<1>2. PICK l \in Nat : l = LastNI /\ l < Entries
  BY NiOrder
<1>3. l * WORD \in Nat /\ (l + 1) * WORD <= Entries * WORD
  BY <1>1, <1>2, Product
<1>4. (l + 1) * WORD = l * WORD + WORD
  BY <1>1, <1>2
<1>5. l * WORD < PAGE
  BY <1>1, <1>3, <1>4
<1>6. \A k \in 0 .. l : k * WORD \in Nat /\ k * WORD <= l * WORD
  BY <1>1, <1>2, Product
<1> QED
  BY <1>1, <1>2, <1>3, <1>5, <1>6

-----------------------------------------------------------------------------
(* What the code relies on, for every memory: where the words at the       *)
(* indexes of the free entries are equal pointers, and those before them   *)
(* are not, there the table begins, or the array is.                       *)
LEMMA MemoryType ==
    ASSUME NEW mem \in Memory
    PROVE  /\ mem.at \in Nat /\ mem.at + Entries * WORD <= Pages * PAGE
           /\ mem.array.at \in Nat /\ mem.array.len \in Nat
           /\ mem.array.len * WORD \in Nat
           /\ \/ mem.array.at + mem.array.len * WORD <= mem.at
              \/ mem.at + Entries * WORD <= mem.array.at
<1>1. Pages * PAGE \in Int /\ Entries * WORD \in Nat /\ WORD \in Nat
  BY Sizes, DiscoveryAssumption
<1>2. mem.at \in 0 .. (Pages * PAGE - Entries * WORD) /\ mem.array \in Arrays
  BY DEF Memory
<1>3. mem.at \in Nat /\ mem.at + Entries * WORD <= Pages * PAGE
  BY <1>1, <1>2
<1>4. mem.array.at \in Nat /\ mem.array.len \in Nat
  BY <1>2, DiscoveryAssumption
<1>5. mem.array.len * WORD \in Nat
  BY <1>1, <1>4, Product
<1> QED
  BY <1>3, <1>4, <1>5 DEF Memory

(* The words from a byte on.                                               *)
LEMMA WordsFrom ==
    ASSUME NEW base \in Int, NEW len \in Nat, NEW a \in Int
    PROVE  /\ \A e \in Int : a = base + e * WORD => IndexIn(base, a) = e
           /\ BeginsIn(base, len, a) <=> \E e \in 0 .. (len - 1) : a = base + e * WORD
<1>1. WORD \in Nat \ {0}
  BY Sizes
<1>2. PICK off \in Int : off = a - base
  OBVIOUS
<1>3. ASSUME NEW e \in Int, a = base + e * WORD
      PROVE  off \div WORD = e /\ off % WORD = 0
  <2>1. (e + 1) * WORD = e * WORD + WORD /\ e * WORD \in Int
    BY <1>1
  <2>2. off = e * WORD
    BY <1>2, <1>3, <2>1
  <2>3. off >= e * WORD /\ off < (e + 1) * WORD
    BY <1>1, <2>1, <2>2
  <2> QED
    BY <1>1, <2>2, <2>3, DivIs
<1>4. ASSUME off % WORD = 0, off \div WORD \in 0 .. (len - 1)
      PROVE  \E e \in 0 .. (len - 1) : a = base + e * WORD
  <2>1. PICK e \in 0 .. (len - 1) : e = off \div WORD
    BY <1>4
  <2>2. off = e * WORD + 0
    BY <1>1, <1>4, <2>1, DivDef
  <2>3. PICK y \in Int : y = e * WORD
    BY <1>1
  <2>4. a = base + y
    BY <1>2, <2>2, <2>3
  <2> QED
    BY <2>3, <2>4
<1>5. \A e \in 0 .. (len - 1) : e \in Int
  OBVIOUS
<1> QED
  BY <1>2, <1>3, <1>4, <1>5 DEF IndexIn, BeginsIn

LEMMA ValuesDiffer ==
    /\ NoPointer # OtherPointer /\ NoPointer # NiAddress /\ OtherPointer # NiAddress
    /\ \A e \in Nat : CallAddress(e) \notin {NoPointer, OtherPointer, NiAddress}
    /\ \A d, e \in Nat : CallAddress(d) = CallAddress(e) => d = e
BY DEF NoPointer, OtherPointer, NiAddress, CallAddress

(* No word of the table is one of the array.                               *)
LEMMA Apart ==
    ASSUME NEW mem \in Memory, NEW a \in Int,
           NEW e \in 0 .. (Entries - 1), a = mem.at + e * WORD,
           NEW k \in 0 .. (mem.array.len - 1), a = mem.array.at + k * WORD
    PROVE  FALSE
<1>1. Entries \in Nat
  BY Sizes
<1>2. PICK b \in Nat : b = mem.array.at
  BY MemoryType
<1>3. PICK l \in Nat : l = mem.array.len
  BY MemoryType
<1>4. PICK w \in Nat \ {0} : w = WORD
  BY Sizes
<1>5. PICK x \in Nat : x = e * w /\ x + w <= Entries * w
  <2>1. (e + 1) * w = e * w + w /\ e + 1 <= Entries /\ e + 1 \in Int
    BY <1>1
  <2>2. (e + 1) * w <= Entries * w /\ e * w \in Nat
    BY <1>1, <2>1, Product
  <2> QED
    BY <2>1, <2>2
<1>6. PICK y \in Nat : y = k * w /\ y + w <= l * w
  <2>1. (k + 1) * w = k * w + w /\ k + 1 <= l /\ k + 1 \in Int /\ k \in Int
    BY <1>3
  <2>2. (k + 1) * w <= l * w /\ k * w \in Nat
    BY <1>1, <2>1, Product
  <2> QED
    BY <2>1, <2>2
<1>7. PICK p \in Nat : p = Entries * w
  BY <1>1, <1>4, Product
<1>8. PICK q \in Nat : q = l * w
  BY <1>4, Product
<1>9. PICK t \in Nat : t = mem.at
  BY MemoryType
<1>10. b + q <= t \/ t + p <= b
  BY <1>2, <1>3, <1>4, <1>7, <1>8, <1>9, MemoryType
<1>11. t + x = b + y /\ x + w <= p /\ y + w <= q
  BY <1>2, <1>4, <1>5, <1>6, <1>7, <1>8, <1>9
<1> QED
  BY <1>10, <1>11

(* A word of the table, one of the array, and any other.                   *)
LEMMA WordOfTable ==
    ASSUME NEW mem \in Memory, NEW e \in 0 .. (Entries - 1), NEW a \in Int,
           a = mem.at + e * WORD
    PROVE  /\ Word(mem, a) = IF e \in NiIndex THEN NiAddress ELSE CallAddress(e)
           /\ Word(mem, a) \notin {NoPointer, OtherPointer}
<1>1. mem.at \in Int /\ Entries \in Nat /\ e \in Int
  BY MemoryType, Sizes
<1>2. IndexIn(mem.at, a) = e /\ BeginsIn(mem.at, Entries, a)
  BY <1>1, WordsFrom
<1>3. ~BeginsIn(mem.array.at, mem.array.len, a)
  <2>1. ~\E k \in 0 .. (mem.array.len - 1) : a = mem.array.at + k * WORD
    BY Apart
  <2> QED
    BY <2>1, MemoryType, WordsFrom
<1>4. Word(mem, a) = IF e \in NiIndex THEN NiAddress ELSE CallAddress(e)
  BY <1>2, <1>3 DEF Word
<1> QED
  BY <1>4, ValuesDiffer

LEMMA WordIs ==
    ASSUME NEW mem \in Memory, NEW a \in Int
    PROVE  \/ \E e \in 0 .. (Entries - 1) : a = mem.at + e * WORD
           \/ /\ \E k \in 0 .. (mem.array.len - 1) : a = mem.array.at + k * WORD
              /\ Word(mem, a) = OtherPointer
           \/ /\ ~\E k \in 0 .. (mem.array.len - 1) : a = mem.array.at + k * WORD
              /\ Word(mem, a) = NoPointer
<1>1. mem.at \in Int /\ Entries \in Nat /\ mem.array.at \in Int /\ mem.array.len \in Nat
  BY MemoryType, Sizes
<1>2. BeginsIn(mem.at, Entries, a) => \E e \in 0 .. (Entries - 1) : a = mem.at + e * WORD
  BY <1>1, WordsFrom
<1>3. BeginsIn(mem.array.at, mem.array.len, a)
        <=> \E k \in 0 .. (mem.array.len - 1) : a = mem.array.at + k * WORD
  BY <1>1, WordsFrom
<1>4. CASE BeginsIn(mem.at, Entries, a)
  BY <1>2, <1>4
<1>5. CASE ~BeginsIn(mem.at, Entries, a)
  BY <1>3, <1>5 DEF Word
<1> QED
  BY <1>4, <1>5

(* The scan takes the table for one, and the array if it is long enough.   *)
LEMMA PatternAtTable ==
    ASSUME NEW mem \in Memory
    PROVE  Pattern(mem, mem.at)
<1>1. \A e \in 0 .. (Entries - 1) :
        Word(mem, mem.at + e * WORD) = IF e \in NiIndex THEN NiAddress ELSE CallAddress(e)
  <2> TAKE e \in 0 .. (Entries - 1)
  <2>1. mem.at + e * WORD \in Int
    BY MemoryType, Sizes
  <2> QED
    BY <2>1, WordOfTable
<1>2. \A i \in 1 .. FREE_ENTRIES : Word(mem, mem.at + NI[i] * WORD) = NiAddress
  BY <1>1, NiOrder, Sizes
<1>3. \A e \in 1 .. (NI[1] - 1) : Word(mem, mem.at + e * WORD) = CallAddress(e) /\ e \in Nat
  <2> TAKE e \in 1 .. (NI[1] - 1)
  <2>1. NI[1] \in Nat /\ NI[1] <= LastNI
    BY NiOrder
  <2>2. e \in 0 .. (Entries - 1) /\ e \in Nat
    BY <2>1, NiOrder, Sizes
  <2>3. e \notin NiIndex
    BY <2>1, NiOrder
  <2> QED
    BY <1>1, <2>2, <2>3
<1>4. 1 \in 1 .. FREE_ENTRIES
  BY NiOrder
<1>5. Fits(NiAddress)
  BY ValuesDiffer DEF Fits
<1> QED
  BY <1>2, <1>3, <1>4, <1>5, ValuesDiffer DEF Pattern

LEMMA PatternAtArray ==
    ASSUME NEW mem \in Memory, mem.array.len > LastNI - NI[1]
    PROVE  LookAlike(mem) \in Int /\ Pattern(mem, LookAlike(mem))
<1>1. PICK b \in Nat : b = mem.array.at
  BY MemoryType
<1>2. PICK l \in Nat : l = mem.array.len /\ l > LastNI - NI[1]
  BY MemoryType
<1>3. PICK t \in Nat : t = mem.at
  BY MemoryType
<1>4. WORD \in Nat \ {0} /\ Entries \in Nat /\ Entries * WORD \in Nat
  BY Sizes
<1>5. /\ NI[1] \in Nat /\ LastNI \in Nat /\ NI[1] > 1 /\ 1 \in 1 .. FREE_ENTRIES
      /\ \A i \in 1 .. FREE_ENTRIES : NI[i] \in Nat /\ NI[1] <= NI[i] /\ NI[i] <= LastNI
  BY NiOrder
<1>6. PICK o \in Int : o = LookAlike(mem)
  BY <1>1, <1>4, <1>5 DEF LookAlike
<1>7. \A k \in Int : o + k * WORD \in Int /\ o + k * WORD = b + (k - NI[1]) * WORD
  <2> TAKE k \in Int
  <2>1. PICK d \in Int : d = k - NI[1]
    BY <1>5
  <2>2. k * WORD = NI[1] * WORD + d * WORD
    BY <1>4, <1>5, <2>1
  <2>3. PICK x \in Int : x = NI[1] * WORD
    BY <1>4, <1>5
  <2>4. PICK y \in Int : y = d * WORD
    BY <1>4
  <2>5. o = b - x
    BY <1>1, <1>6, <2>3 DEF LookAlike
  <2>6. o + (x + y) = b + y /\ o + (x + y) \in Int
    BY <2>5
  <2> QED
    BY <2>1, <2>2, <2>3, <2>4, <2>6
<1>8. ASSUME NEW i \in 1 .. FREE_ENTRIES PROVE Word(mem, o + NI[i] * WORD) = OtherPointer
  <2>1. PICK k \in 0 .. (l - 1) : k = NI[i] - NI[1]
    BY <1>2, <1>5
  <2>2. PICK a \in Int : a = o + NI[i] * WORD /\ a = b + k * WORD
    BY <1>5, <1>7, <2>1
  <2>3. ~\E e \in 0 .. (Entries - 1) : a = mem.at + e * WORD
    BY <1>1, <1>2, <2>1, <2>2, Apart
  <2> QED
    BY <1>1, <1>2, <2>1, <2>2, <2>3, WordIs
<1>9. ASSUME NEW j \in 1 .. (NI[1] - 1) PROVE Word(mem, o + j * WORD) # OtherPointer
  <2>1. PICK a \in Int : a = o + j * WORD /\ a = b + (j - NI[1]) * WORD
    BY <1>7
  <2>2. ~\E k \in 0 .. (l - 1) : a = b + k * WORD
    <3> SUFFICES ASSUME NEW k \in 0 .. (l - 1), a = b + k * WORD PROVE FALSE
      OBVIOUS
    <3>1. PICK d \in Int : d = j - NI[1] /\ d < 0
      BY <1>5, <1>9
    <3>2. d * WORD \in Int /\ k * WORD \in Int
      BY <1>4
    <3>3. d * WORD = k * WORD
      BY <2>1, <3>1, <3>2
    <3>4. d = k
      BY <1>4, <3>3, Cancel
    <3> QED
      BY <3>1, <3>4
  <2>3. ASSUME NEW e \in 0 .. (Entries - 1), a = mem.at + e * WORD
        PROVE  Word(mem, a) # OtherPointer
    BY <2>3, WordOfTable
  <2>4. Word(mem, a) = NoPointer \/ \E e \in 0 .. (Entries - 1) : a = mem.at + e * WORD
    BY <1>1, <1>2, <2>2, WordIs
  <2> QED
    BY <2>1, <2>3, <2>4, ValuesDiffer
<1>10. Fits(OtherPointer)
  BY ValuesDiffer DEF Fits
<1>11. Pattern(mem, o)
  BY <1>5, <1>8, <1>9, <1>10 DEF Pattern
<1> QED
  BY <1>6, <1>11

(* And nothing else: it is taken in neither by another part of them nor by *)
(* a place where both meet.                                                *)
LEMMA PatternElsewhere ==
    ASSUME NEW mem \in Memory, NEW o \in Int, Pattern(mem, o)
    PROVE  o \in Candidates(mem)
<1>t. /\ mem.at \in Nat /\ Entries \in Nat \ {0} /\ WORD \in Nat \ {0}
      /\ NI[1] \in Nat /\ NI[1] > 1 /\ NI[1] < Entries /\ NI[2] \in Nat /\ NI[1] < NI[2]
      /\ LastNI \in Nat /\ FREE_ENTRIES \in 1 .. FREE_ENTRIES /\ 2 \in 1 .. FREE_ENTRIES
      /\ 1 \in 1 .. FREE_ENTRIES
  BY MemoryType, Sizes, NiOrder
<1>w. \A k \in Int : o + k * WORD \in Int
  BY <1>t
<1>1. PICK first : first = Word(mem, o + NI[1] * WORD)
  OBVIOUS
<1>2. /\ first # NoPointer
      /\ \A i \in 1 .. FREE_ENTRIES : Word(mem, o + NI[i] * WORD) = first
      /\ \A k \in 1 .. (NI[1] - 1) : Word(mem, o + k * WORD) # first
  BY <1>1, <1>t DEF Pattern, Fits
<1>3. CASE \E k \in 0 .. (mem.array.len - 1) :
              /\ o + NI[1] * WORD = mem.array.at + k * WORD /\ first = OtherPointer
  <2>1. PICK k \in 0 .. (mem.array.len - 1) : o + NI[1] * WORD = mem.array.at + k * WORD
    BY <1>3
  <2>2. PICK b \in Nat : b = mem.array.at
    BY MemoryType
  <2>3. PICK l \in Nat : l = mem.array.len
    BY MemoryType
  <2>4. PICK x \in Int : x = NI[1] * WORD
    BY <1>t
  <2>5. \A m \in Int : o + m * WORD = b + ((m - NI[1]) + k) * WORD
    <3> TAKE m \in Int
    <3>1. PICK d \in Int : d = m - NI[1]
      BY <1>t
    <3>2. m * WORD = x + d * WORD /\ (d + k) * WORD = d * WORD + k * WORD
      BY <1>t, <2>1, <2>4, <3>1
    <3>3. PICK y \in Int : y = d * WORD
      BY <1>t
    <3>4. PICK z \in Int : z = k * WORD
      BY <1>t
    <3>5. o + x = b + z
      BY <2>1, <2>2, <2>4, <3>4
    <3>6. o + (x + y) = b + (y + z)
      BY <3>5
    <3> QED
      BY <3>1, <3>2, <3>3, <3>4, <3>6
  <2>6. k = 0
    <3>1. SUFFICES ASSUME k # 0 PROVE FALSE
      OBVIOUS
    <3>2. PICK m \in 1 .. (NI[1] - 1) : m = NI[1] - 1
      BY <1>t
    <3>3. PICK c \in 0 .. (l - 1) : c = (m - NI[1]) + k
      BY <1>t, <2>1, <2>3, <3>1, <3>2
    <3>4. PICK a \in Int : a = o + m * WORD /\ a = b + c * WORD
      BY <1>w, <2>5, <3>2, <3>3
    <3>5. ~\E e \in 0 .. (Entries - 1) : a = mem.at + e * WORD
      BY <2>2, <2>3, <3>3, <3>4, Apart
    <3>6. Word(mem, a) = OtherPointer
      BY <2>2, <2>3, <3>3, <3>4, <3>5, WordIs
    <3> QED
      BY <1>2, <1>3, <3>2, <3>4, <3>6
  <2>7. o = LookAlike(mem)
    <3>1. PICK z \in Int : z = k * WORD /\ z = 0
      BY <1>t, <2>6
    <3>2. o + x = b + z
      BY <2>1, <2>2, <2>4, <3>1
    <3>3. o = b - x
      BY <3>1, <3>2
    <3> QED
      BY <2>2, <2>4, <3>3 DEF LookAlike
  <2>8. l > LastNI - NI[1]
    <3>1. PICK a \in Int : a = o + LastNI * WORD
      BY <1>w, <1>t
    <3>2. Word(mem, a) = OtherPointer
      BY <1>2, <1>3, <1>t, <3>1 DEF LastNI
    <3>3. ASSUME NEW e \in 0 .. (Entries - 1), a = mem.at + e * WORD
          PROVE  Word(mem, a) # OtherPointer
      BY <3>3, WordOfTable
    <3>4. PICK c \in 0 .. (l - 1) : a = b + c * WORD
      BY <2>2, <2>3, <3>2, <3>3, WordIs, ValuesDiffer
    <3>5. PICK d \in Int : d = LastNI - NI[1]
      BY <1>t
    <3>6. a = b + d * WORD
      <4>1. (LastNI - NI[1]) + k = d /\ LastNI \in Int
        BY <1>t, <2>6, <3>5
      <4>2. o + LastNI * WORD = b + ((LastNI - NI[1]) + k) * WORD
        BY <2>5, <4>1
      <4> QED
        BY <3>1, <4>1, <4>2
    <3>7. d * WORD = c * WORD
      <4>1. PICK x1 \in Int : x1 = d * WORD
        BY <1>t
      <4>2. PICK x2 \in Int : x2 = c * WORD
        BY <1>t
      <4>3. b + x1 = b + x2
        BY <3>4, <3>6, <4>1, <4>2
      <4> QED
        BY <4>1, <4>2, <4>3
    <3>8. d = c
      BY <1>t, <3>7, Cancel
    <3> QED
      BY <2>3, <3>5, <3>8
  <2> QED
    BY <2>3, <2>7, <2>8 DEF Candidates
<1>4. CASE \E e \in 0 .. (Entries - 1) : o + NI[1] * WORD = mem.at + e * WORD
  <2>1. PICK e \in 0 .. (Entries - 1) : o + NI[1] * WORD = mem.at + e * WORD
    BY <1>4
  <2>2. first = IF e \in NiIndex THEN NiAddress ELSE CallAddress(e)
    BY <1>1, <1>w, <1>t, <2>1, WordOfTable
  <2>3. PICK d \in Int : d = e - NI[1]
    BY <1>t
  <2>4. \A k \in Int : o + k * WORD = mem.at + (k + d) * WORD
    <3> TAKE k \in Int
    <3>1. (k + d) * WORD = k * WORD + d * WORD
      BY <1>t
    <3>2. e * WORD = NI[1] * WORD + d * WORD
      BY <1>t, <2>3
    <3>3. PICK x \in Int : x = k * WORD
      BY <1>t
    <3>4. PICK y \in Int : y = d * WORD
      BY <1>t
    <3>5. PICK z \in Int : z = NI[1] * WORD
      BY <1>t
    <3>6. o + z = mem.at + (z + y)
      BY <2>1, <3>2, <3>4, <3>5
    <3>7. o + x = mem.at + (x + y)
      BY <1>t, <3>6
    <3> QED
      BY <3>1, <3>3, <3>4, <3>7
  <2>5. ASSUME NEW k \in Int, Word(mem, o + k * WORD) = first
        PROVE  k + d \in 0 .. (Entries - 1) /\ (k + d \in NiIndex <=> e \in NiIndex)
               /\ (e \notin NiIndex => k + d = e)
    <3>1. e \in Nat /\ first \notin {NoPointer, OtherPointer}
      BY <2>2, ValuesDiffer
    <3>2. PICK a \in Int : a = o + k * WORD
      BY <1>w
    <3>3. PICK c \in 0 .. (Entries - 1) : a = mem.at + c * WORD
      BY <2>5, <3>1, <3>2, WordIs
    <3>4. c * WORD = (k + d) * WORD
      <4>1. PICK x \in Int : x = c * WORD
        BY <1>t
      <4>2. PICK y \in Int : y = (k + d) * WORD
        BY <1>t
      <4>3. mem.at + x = mem.at + y
        BY <2>4, <3>2, <3>3, <4>1, <4>2
      <4> QED
        BY <1>t, <4>1, <4>2, <4>3
    <3>5. c = k + d
      BY <1>t, <3>4, Cancel
    <3>6. first = IF c \in NiIndex THEN NiAddress ELSE CallAddress(c)
      BY <2>5, <3>2, <3>3, WordOfTable
    <3>7. c \in Nat /\ (c \in NiIndex <=> e \in NiIndex)
      BY <2>2, <3>1, <3>6, ValuesDiffer
    <3>8. e \notin NiIndex => c = e
      BY <2>2, <3>1, <3>6, <3>7, ValuesDiffer
    <3> QED
      BY <3>5, <3>7, <3>8
  <2>6. \A i \in 1 .. FREE_ENTRIES : NI[i] \in Int /\ Word(mem, o + NI[i] * WORD) = first
    BY <1>2, NiOrder
  <2>7. e \in NiIndex
    <3>1. e \notin NiIndex => NI[2] + d = e
      BY <1>t, <2>5, <2>6
    <3> QED
      BY <1>t, <2>3, <3>1
  <2>8. LastNI + d \in NiIndex
    BY <1>t, <2>5, <2>6, <2>7 DEF LastNI
  <2>9. d = 0
    BY <1>t, <2>3, <2>7, <2>8, NiOrder
  <2>10. o + 0 * WORD = mem.at + (0 + d) * WORD
    BY <2>4
  <2>11. o = mem.at
    BY <1>t, <2>9, <2>10
  <2> QED
    BY <2>11 DEF Candidates
<1>5. PICK a \in Int : a = o + NI[1] * WORD
  BY <1>w, <1>t
<1>6. \/ \E e \in 0 .. (Entries - 1) : a = mem.at + e * WORD
      \/ \E k \in 0 .. (mem.array.len - 1) : a = mem.array.at + k * WORD /\ first = OtherPointer
  BY <1>1, <1>2, <1>5, WordIs
<1> QED
  BY <1>3, <1>4, <1>5, <1>6

(* Pages. *)
LEMMA PageIs ==
    ASSUME NEW p \in Int, NEW a \in Int
    PROVE  /\ PageOf(a) \in Int
           /\ a >= p * PAGE /\ a < p * PAGE + PAGE <=> PageOf(a) = p
<1>1. PAGE \in Nat \ {0}
  BY Sizes
<1>2. PICK q \in Int : q = PageOf(a)
  BY <1>1, DivDef DEF PageOf
<1>3. (p + 1) * PAGE = p * PAGE + PAGE /\ p * PAGE \in Int
  BY <1>1
<1>4. ASSUME a >= p * PAGE, a < p * PAGE + PAGE PROVE PageOf(a) = p
  BY <1>1, <1>3, <1>4, DivIs DEF PageOf
<1>5. ASSUME PageOf(a) = p PROVE a >= p * PAGE /\ a < p * PAGE + PAGE
  <2>1. PICK r \in 0 .. (PAGE - 1) : r = a % PAGE
    BY <1>1, DivDef
  <2>2. a = p * PAGE + r
    BY <1>1, <1>5, <2>1, DivDef DEF PageOf
  <2> QED
    BY <1>1, <1>3, <2>2
<1> QED
  BY <1>2, <1>4, <1>5

(* A word that the pattern looks at begins on the page of the byte it is   *)
(* looked for at, or on the next.                                          *)
LEMMA PageAhead ==
    ASSUME NEW o \in Int, NEW k \in 0 .. LastNI
    PROVE  /\ PageOf(o) \in Int /\ o + k * WORD \in Int
           /\ PageOf(o + k * WORD) \in {PageOf(o), PageOf(o) + 1}
           /\ PageOf(o + k * WORD) = PageOf(o) + 1 => PageOf(o + LastNI * WORD) = PageOf(o) + 1
<1>1. PICK x \in Nat : x = k * WORD /\ x <= LastNI * WORD
  BY Sizes
<1>2. PICK z \in Nat : z = LastNI * WORD /\ z < PAGE /\ x <= z
  BY <1>1, Sizes
<1>3. PICK p \in Int : p = PageOf(o)
  BY PageIs
<1>4. PICK s \in Int : s = p * PAGE /\ (p + 1) * PAGE = s + PAGE
  BY Sizes
<1>5. o >= s /\ o < s + PAGE
  BY <1>3, <1>4, PageIs
<1>6. ASSUME NEW y \in Nat, y <= z
      PROVE  /\ o + y < s + PAGE => PageOf(o + y) = p
             /\ o + y >= s + PAGE => PageOf(o + y) = p + 1
  <2>1. PAGE \in Nat
    BY Sizes
  <2>2. o + y \in Int /\ o + y >= s /\ o + y < (s + PAGE) + PAGE
    BY <1>2, <1>5, <1>6, <2>1
  <2>3. o + y < s + PAGE => PageOf(o + y) = p
    BY <1>4, <2>2, PageIs
  <2>4. p + 1 \in Int
    OBVIOUS
  <2>5. o + y >= s + PAGE => PageOf(o + y) = p + 1
    BY <1>4, <2>2, <2>4, PageIs
  <2> QED
    BY <2>3, <2>5
<1>7. /\ o + x < s + PAGE => PageOf(o + x) = p
      /\ o + x >= s + PAGE => PageOf(o + x) = p + 1
  BY <1>2, <1>6
<1>8. o + z >= s + PAGE => PageOf(o + z) = p + 1
  BY <1>2, <1>6
<1>9. PAGE \in Nat /\ p # p + 1
  BY Sizes
<1>10. o + x >= s + PAGE => o + z >= s + PAGE
  BY <1>2, <1>9
<1>11. o + x < s + PAGE \/ o + x >= s + PAGE
  BY <1>9
<1> QED
  BY <1>1, <1>2, <1>3, <1>7, <1>8, <1>9, <1>10, <1>11

(* The bytes that are tried on a page lie there, and the last word is not  *)
(* looked for on a page that is not mapped.                                *)
LEMMA TriedPage ==
    ASSUME NEW mem \in Memory, NEW o \in Scanned(mem)
    PROVE  o \in Int /\ HasFrame(mem, PageOf(o)) /\ ~Blocked(mem, o)
<1>1. PICK p \in Page : HasFrame(mem, p) /\ o \in Tried(mem, p)
  BY DEF Scanned
<1>2. p \in Int /\ p * PAGE \in Int /\ PAGE \in Nat
  BY <1>1, Sizes DEF Page
<1>3. o \in p * PAGE .. (p * PAGE + PAGE - 1) /\ o \in p * PAGE .. o
  BY <1>1, <1>2 DEF Tried
<1>4. o \in Int /\ o >= p * PAGE /\ o < p * PAGE + PAGE
  BY <1>2, <1>3
<1>5. PageOf(o) = p
  BY <1>2, <1>4, PageIs
<1> QED
  BY <1>1, <1>3, <1>4, <1>5 DEF Tried

(* A byte is looked at just when its page has a frame, and so has that of  *)
(* the last word from there.                                               *)
LEMMA VisibleScanned ==
    ASSUME NEW mem \in Memory, NEW o \in Int
    PROVE  o \in Scanned(mem) <=> Visible(mem, o)
<1>1. LastNI \in 0 .. LastNI /\ PAGE \in Nat \ {0} /\ LastNI * WORD \in Nat
  BY NiOrder, Sizes
<1>2. PICK p \in Int : p = PageOf(o)
  BY PageIs
<1>3. PICK q \in Int : q = PageOf(o + LastNI * WORD) /\ (q = p \/ q = p + 1)
  BY <1>1, <1>2, PageAhead
<1>4. PagesFrom(o) = p .. q
  BY <1>2, <1>3 DEF PagesFrom
<1>5. ASSUME o \in Scanned(mem) PROVE HasFrame(mem, p) /\ HasFrame(mem, q)
  BY <1>2, <1>3, <1>5, TriedPage DEF Blocked
<1>6. ASSUME HasFrame(mem, p), HasFrame(mem, q) PROVE o \in Scanned(mem)
  <2>1. p \in Page
    BY <1>6 DEF HasFrame, Readable
  <2>2. PICK s \in Int : s = p * PAGE
    BY <1>1
  <2>3. o \in s .. (s + PAGE - 1)
    BY <1>1, <1>2, <2>2, PageIs
  <2>4. ASSUME NEW b \in s .. o PROVE ~Blocked(mem, b)
    <3>1. b \in Int /\ b >= s /\ b < s + PAGE
      BY <2>2, <2>3, <1>1
    <3>2. PageOf(b) = p
      BY <2>2, <3>1, PageIs
    <3>3. CASE q = p + 1
      BY <1>6, <3>2, <3>3 DEF Blocked
    <3>4. CASE q = p
      <4>1. o + LastNI * WORD < s + PAGE
        BY <1>1, <1>3, <2>2, <3>4, PageIs
      <4>2. b + LastNI * WORD \in Int /\ b + LastNI * WORD >= s /\ b + LastNI * WORD < s + PAGE
        BY <1>1, <3>1, <4>1
      <4>3. PageOf(b + LastNI * WORD) = p
        BY <2>2, <4>2, PageIs
      <4> QED
        BY <3>2, <4>3 DEF Blocked
    <3> QED
      BY <1>3, <3>3, <3>4
  <2>5. o \in Tried(mem, p)
    BY <2>2, <2>3, <2>4 DEF Tried
  <2> QED
    BY <1>6, <2>1, <2>5 DEF Scanned
<1>7. p \in p .. q /\ q \in p .. q /\ \A r \in p .. q : r = p \/ r = q
  BY <1>3
<1> QED
  BY <1>4, <1>5, <1>6, <1>7 DEF Visible

(* So the scan finds the first of what there is to find. *)
LEMMA ScanFinds ==
    ASSUME NEW mem \in Memory
    PROVE  FindsFirst(mem)
<1>1. ASSUME NEW o \in Scanned(mem), Pattern(mem, o)
      PROVE  o \in Candidates(mem) /\ Visible(mem, o)
  BY <1>1, TriedPage, PatternElsewhere, VisibleScanned
<1>2. ASSUME NEW o \in Candidates(mem), Visible(mem, o)
      PROVE  o \in Scanned(mem) /\ Pattern(mem, o)
  <2>1. o = mem.at \/ (o = LookAlike(mem) /\ mem.array.len > LastNI - NI[1])
    BY DEF Candidates
  <2>2. o \in Int /\ Pattern(mem, o)
    BY <2>1, MemoryType, PatternAtTable, PatternAtArray
  <2> QED
    BY <1>2, <2>2, VisibleScanned
<1>3. {o \in Scanned(mem) : Pattern(mem, o)} = {o \in Candidates(mem) : Visible(mem, o)}
  BY <1>1, <1>2
<1> QED
  BY <1>3 DEF FindsFirst, find_syscall_table

(* And it reads nothing that is not mapped. *)
LEMMA ScanMapped ==
    ASSUME NEW mem \in Memory
    PROVE  ReadsMapped(mem)
<1> SUFFICES ASSUME NEW o \in Scanned(mem), NEW k \in 1 .. LastNI
             PROVE  Readable(mem, PageOf(o + k * WORD))
  BY DEF ReadsMapped, Reads
<1>1. k \in 0 .. LastNI /\ LastNI \in Nat
  BY NiOrder
<1>2. o \in Int /\ HasFrame(mem, PageOf(o)) /\ ~Blocked(mem, o)
  BY TriedPage
<1>3. CASE PageOf(o + k * WORD) = PageOf(o)
  BY <1>2, <1>3 DEF HasFrame
<1>4. CASE PageOf(o + k * WORD) = PageOf(o) + 1
  BY <1>1, <1>2, <1>4, PageAhead DEF Blocked, HasFrame
<1> QED
  BY <1>1, <1>2, <1>3, <1>4, PageAhead

-----------------------------------------------------------------------------
(* Until it has been scanned, what the scan reads is a memory the kernel   *)
(* may run with.                                                           *)
LEMMA MemoryInvariant == Spec => [](memory \in Memory \cup {NoMemory})
<1>1. Init => memory \in Memory \cup {NoMemory}
  BY DEF Init
<1>2. memory \in Memory \cup {NoMemory} /\ [Next]_vars => (memory \in Memory \cup {NoMemory})'
  BY DEF Next, vars, sct, ScthLoad, ScthUnload, TagLoad, TagLoadNoMemory, SyscallInsert,
     InstallFails, LoadFails, RegisterChardev, FreeModule, Unload, UnregisterChardev,
     CleanupData, OpenFile, CloseFile, CallEntry, Get, Put, Return, Oops
<1> QED
  BY <1>1, <1>2, PTL DEF Spec

(* find_syscall_table finds the table or an array that looks like it,      *)
(* whichever comes first among those that get_phys_frame sees, and nothing *)
(* else: for every size of page and table, every place of the table, every *)
(* array of equal pointers anywhere beside it, every set of mapped pages,  *)
(* and all indexes of the free entries, if there are two and the first is  *)
(* not 1.                                                                  *)
THEOREM ScanIsRight == Spec => []ScanFindsFirst
<1>1. memory \in Memory \cup {NoMemory} => ScanFindsFirst
  BY ScanFinds DEF ScanFindsFirst
<1> QED
  BY <1>1, MemoryInvariant, PTL

(* syscall_table_pattern's look ahead at the page of the last free entry   *)
(* keeps all its reads on mapped pages.                                    *)
THEOREM ScanIsSafe == Spec => []ScanReadsMapped
<1>1. memory \in Memory \cup {NoMemory} => ScanReadsMapped
  BY ScanMapped DEF ScanReadsMapped
<1> QED
  BY <1>1, MemoryInvariant, PTL
=============================================================================
