----------------------------- MODULE Lifecycle -----------------------------
(***************************************************************************)
(* The two modules as the kernel loads, calls and unloads them.  SCTH      *)
(* finds the system call table and hands out its free entries              *)
(* (syscall_insert); TAG-MOD puts its calls there.  Each call takes a      *)
(* reference to TAG-MOD while it runs, and so does each open device file.  *)
(*                                                                         *)
(* The kernel's part: the code of a module is there from the beginning of  *)
(* its load until it is freed, after cleanup_module or after an            *)
(* init_module that failed; try_module_get fails only while a module is    *)
(* going; a module is not unloaded while it has references, and SCTH not   *)
(* while TAG-MOD, which uses its symbol, is loaded.                        *)
(***************************************************************************)
EXTENDS Discovery, FiniteSets

CONSTANTS
    Thread,     \* callers
    Calls,      \* system calls of TAG-MOD, 1 .. Calls (4 in the code)
    MaxLoads,   \* bound on the loads of TAG-MOD
    MaxFiles,   \* bound on the open device files
    PREEMPT,    \* the kernel may preempt a thread in the kernel
    NoMemory

ASSUME LifecycleAssumption ==
    /\ IsFiniteSet(Thread)
    /\ {Calls, MaxLoads} \subseteq Nat \ {0} /\ MaxFiles \in Nat /\ PREEMPT \in BOOLEAN

VARIABLES
    scth,       \* SCTH: out, in
    memory,     \* what its scan reads, until it has been scanned
    place,      \* what the scan took for the table
    tableAddr,  \* syscall_table_addr
    entry,      \* its free entries: as found, or a call of a load
    tag,        \* TAG-MOD: out, or the place in its code
    next, nr,   \* install_syscalls: next call; tag_get_nr ... tag_ctl_nr
    data,       \* what initialize allocated and nobody freed
    device,     \* the device is registered
    ref,        \* references to TAG-MOD
    load,       \* number of the last load
    failed,     \* history: the loads whose init_module failed
    files,      \* open device files
    pc, code    \* place of each thread; the load whose code it runs

sct == <<scth, memory, place, tableAddr>>
setup == <<next, nr, data, device, load, failed>>
callers == <<pc, code>>
vars == <<sct, entry, tag, setup, ref, files, callers>>

Call == 1 .. Calls
Index == 1 .. FREE_ENTRIES
Ni == [call |-> 0, load |-> 0]
EntryOf(x, l) == [call |-> x, load |-> l]
Data == {"table", "words", "bitmask", "tags"}
Going == {"abort", "going", "freeing", "freed", "stuck"}

(* What the scan takes for the table; it may also take nothing. *)
Table == 0
FalseTable == 1

Loaded == tag # "out"
CodeThere(t) == Loaded /\ code[t] = load

Init ==
    /\ scth = "out" /\ memory \in Memory
    /\ place = NotFound /\ tableAddr = NotFound
    /\ entry = [i \in Index |-> Ni]
    /\ tag = "out" /\ next = 1 /\ nr = [x \in Call |-> 0]
    /\ data = {} /\ device = FALSE /\ ref = 0
    /\ load = 0 /\ failed = {} /\ files = 0
    /\ pc = [t \in Thread |-> "user"] /\ code = [t \in Thread |-> 0]

-----------------------------------------------------------------------------
(* SCTH: init_module.  The table does not move while the kernel runs, and  *)
(* where it is makes no difference from here on.  A later scan finds what  *)
(* the first one found, for syscall_clean has put all entries back.        *)
Taken(mem) ==
    LET addr == find_syscall_table(mem) IN
    CASE addr = NotFound -> NotFound
      [] addr # NotFound /\ addr = mem.at -> Table
      [] addr # NotFound /\ addr # mem.at -> FalseTable

ScthLoad ==
    /\ scth = "out" /\ scth' = "in"
    /\ \/ memory = NoMemory /\ UNCHANGED place
       \/ memory # NoMemory /\ place' = Taken(memory)
    /\ memory' = NoMemory /\ tableAddr' = place'
    /\ UNCHANGED <<entry, tag, setup, ref, files, callers>>

(* cleanup_module and syscall_clean. *)
Clean(i) == IF tableAddr = NotFound THEN entry[i] ELSE Ni
ScthUnload ==
    /\ scth = "in" /\ tag = "out"
    /\ entry' = [i \in Index |-> Clean(i)]
    /\ scth' = "out" /\ tableAddr' = NotFound
    /\ UNCHANGED <<memory, place, tag, setup, ref, files, callers>>

-----------------------------------------------------------------------------
(* TAG-MOD: init_module.  The load begins and initialize succeeds.         *)
TagLoad ==
    /\ scth = "in" /\ tag = "out" /\ load < MaxLoads
    /\ load' = load + 1 /\ ref' = 0
    /\ data' = Data /\ next' = 1 /\ nr' = [x \in Call |-> 0]
    /\ tag' = "install"
    /\ UNCHANGED <<sct, entry, device, failed, files, callers>>

(* Mutant: when there is no memory for tags[] the bitmask is not freed. *)
UndoneBitmaskKept == {{}, {"words"}, {"words", "bitmask"}}

(* What is left of data when one of the allocations finds no memory: that  *)
(* of the bitmask itself leaves its words behind.                          *)
Undone == {{}, {"words"}}

TagLoadNoMemory ==
    /\ scth = "in" /\ tag = "out" /\ load < MaxLoads
    /\ load' = load + 1 /\ ref' = 0
    /\ data' \in Undone
    /\ failed' = failed \cup {load'}
    /\ UNCHANGED <<sct, entry, tag, next, nr, device, files, callers>>

Free == {i \in Index : entry[i] = Ni}

(* install_syscalls, one call of syscall_insert: the lowest free entry, 0  *)
(* when there is none or no table.                                         *)
SyscallInsert ==
    /\ tag = "install" /\ next <= Calls
    /\ \/ /\ tableAddr = NotFound \/ Free = {}
          /\ nr' = [nr EXCEPT ![next] = 0] /\ UNCHANGED entry
       \/ \E i \in Free :
            /\ tableAddr # NotFound /\ \A j \in Free : i <= j
            /\ entry' = [entry EXCEPT ![i] = EntryOf(next, load)]
            /\ nr' = [nr EXCEPT ![next] = NI[i]]
    /\ next' = next + 1
    /\ UNCHANGED <<sct, tag, data, device, ref, load, failed, files, callers>>

(* Mutant: one call that was installed is enough. *)
InstalledAny == \E x \in Call : nr[x] # 0

(* The product of the numbers is not 0 (it does not overflow). *)
Installed == \A x \in Call : nr[x] # 0

(* The tags are freed, whoever may be using them; the entries stay.  The   *)
(* kernel then sees that init_module failed.                               *)
InstallFails ==
    /\ tag = "install" /\ next > Calls /\ ~Installed
    /\ data' = {} /\ failed' = failed \cup {load}
    /\ tag' = "undone"
    /\ UNCHANGED <<sct, entry, next, nr, device, ref, load, files, callers>>

LoadFails ==
    /\ tag = "undone"
    /\ tag' = "abort"
    /\ UNCHANGED <<sct, entry, setup, ref, files, callers>>

(* The result of register_chardev is not looked at. *)
RegisterChardev ==
    /\ tag = "install" /\ next > Calls /\ Installed
    /\ device' \in BOOLEAN
    /\ tag' = "live"
    /\ UNCHANGED <<sct, entry, next, nr, data, ref, load, failed, files, callers>>

(* The kernel frees the module.  Before, it waits for an RCU grace period: *)
(* without preemption no thread is then in the parts of the wrappers that  *)
(* do not sleep.                                                           *)
FreeModule ==
    /\ tag \in {"abort", "freed"}
    /\ PREEMPT \/ \A t \in Thread : CodeThere(t) => pc[t] \in {"user", "body"}
    /\ tag' = "out"
    /\ UNCHANGED <<sct, entry, setup, ref, files, callers>>

-----------------------------------------------------------------------------
(* rmmod and cleanup_module *)
Unload ==
    /\ tag = "live" /\ ref = 0
    /\ tag' = "going"
    /\ UNCHANGED <<sct, entry, setup, ref, files, callers>>

(* What unregister_chardev does with what was never registered is not      *)
(* defined: it may pass, or rmmod may die and the module stay.             *)
UnregisterChardev ==
    /\ tag = "going"
    /\ device' = FALSE
    /\ tag' \in IF device THEN {"freeing"} ELSE {"freeing", "stuck"}
    /\ UNCHANGED <<sct, entry, next, nr, data, ref, load, failed, files, callers>>

CleanupData ==
    /\ tag = "freeing"
    /\ data' = {}
    /\ tag' = "freed"
    /\ UNCHANGED <<sct, entry, next, nr, device, ref, load, failed, files, callers>>

-----------------------------------------------------------------------------
(* The wrappers of the system calls.  A thread calls through the table:    *)
(* what it runs is the code of the load that wrote the entry, if it was    *)
(* written to the table at all.                                            *)
CallEntry(t) ==
    /\ pc[t] = "user" /\ place = Table
    /\ \E i \in Index :
        entry[i] # Ni /\ code' = [code EXCEPT ![t] = entry[i].load]
    /\ pc' = [pc EXCEPT ![t] = "entry"]
    /\ UNCHANGED <<sct, entry, tag, setup, ref, files>>

(* Mutant: the call goes on when it gets no reference. *)
GetIgnored(t) ==
    /\ pc[t] = "entry" /\ CodeThere(t)
    /\ pc' = [pc EXCEPT ![t] = "body"]
    /\ ref' = IF tag \in Going THEN ref ELSE ref + 1
    /\ UNCHANGED <<sct, entry, tag, setup, files, code>>

(* try_module_get *)
Get(t) ==
    /\ pc[t] = "entry" /\ CodeThere(t)
    /\ \/ tag \in Going /\ pc' = [pc EXCEPT ![t] = "exit"] /\ UNCHANGED ref
       \/ tag \notin Going /\ pc' = [pc EXCEPT ![t] = "body"] /\ ref' = ref + 1
    /\ UNCHANGED <<sct, entry, tag, setup, files, code>>

(* Mutant: a return path of the wrapper gives no reference back. *)
PutSometimes(t) ==
    /\ pc[t] = "body" /\ CodeThere(t)
    /\ pc' = [pc EXCEPT ![t] = "exit"] /\ ref' \in {ref, ref - 1}
    /\ UNCHANGED <<sct, entry, tag, setup, files, code>>

(* The call itself is over: module_put. *)
Put(t) ==
    /\ pc[t] = "body" /\ CodeThere(t)
    /\ pc' = [pc EXCEPT ![t] = "exit"] /\ ref' = ref - 1
    /\ UNCHANGED <<sct, entry, tag, setup, files, code>>

Return(t) ==
    /\ pc[t] = "exit" /\ CodeThere(t)
    /\ pc' = [pc EXCEPT ![t] = "user"] /\ code' = [code EXCEPT ![t] = 0]
    /\ UNCHANGED <<sct, entry, tag, setup, ref, files>>

(* The code is gone: the kernel kills the process, another one takes its   *)
(* place. *)
Oops(t) ==
    /\ pc[t] # "user" /\ ~CodeThere(t)
    /\ pc' = [pc EXCEPT ![t] = "user"] /\ code' = [code EXCEPT ![t] = 0]
    /\ UNCHANGED <<sct, entry, tag, setup, ref, files>>

-----------------------------------------------------------------------------
(* An open file of the device holds a reference (fops.owner). *)
OpenFile ==
    /\ device /\ tag = "live" /\ files < MaxFiles
    /\ files' = files + 1 /\ ref' = ref + 1
    /\ UNCHANGED <<sct, entry, tag, setup, callers>>

CloseFile ==
    /\ files > 0
    /\ files' = files - 1 /\ ref' = ref - 1
    /\ UNCHANGED <<sct, entry, tag, setup, callers>>

Next ==
    \/ ScthLoad \/ ScthUnload
    \/ TagLoad \/ TagLoadNoMemory \/ SyscallInsert \/ InstallFails
    \/ LoadFails \/ RegisterChardev \/ FreeModule
    \/ Unload \/ UnregisterChardev \/ CleanupData
    \/ OpenFile \/ CloseFile
    \/ \E t \in Thread : CallEntry(t) \/ Get(t) \/ Put(t) \/ Return(t) \/ Oops(t)

Spec == Init /\ [][Next]_vars

-----------------------------------------------------------------------------
(* Properties                                                              *)

(* Every variable has its type. *)
TypeOK ==
    /\ scth \in {"out", "in"} /\ {place, tableAddr} \subseteq {NotFound, Table, FalseTable}
    /\ entry \in [Index -> {Ni} \cup [call : Call, load : 1 .. MaxLoads]]
    /\ tag \in {"out", "install", "undone", "live"} \cup Going
    /\ next \in 1 .. (Calls + 1) /\ nr \in [Call -> NiIndex \cup {0}]
    /\ data \subseteq Data /\ device \in BOOLEAN
    /\ ref \in 0 .. (Cardinality(Thread) + MaxFiles)
    /\ load \in 0 .. MaxLoads /\ failed \subseteq 1 .. MaxLoads
    /\ files \in 0 .. MaxFiles
    /\ pc \in [Thread -> {"user", "entry", "body", "exit"}]
    /\ code \in [Thread -> 0 .. MaxLoads]

(* The scan of find_syscall_table ends at the table or at an array that    *)
(* looks like it, whichever comes first on pages that get_phys_frame sees: *)
(* it is taken in by nothing else, finds neither behind a page it does not *)
(* see, and syscall_table_pattern's look ahead keeps it off pages that are *)
(* not mapped.                                                             *)
ScanFindsFirst == memory # NoMemory => FindsFirst(memory)
ScanReadsMapped == memory # NoMemory => ReadsMapped(memory)

(* When init_module has succeeded, each number that TAG-MOD publishes is   *)
(* the index of an entry, in what SCTH takes for the table, that leads to  *)
(* that call of this load: no failure of syscall_insert goes unseen, and   *)
(* SCTH does not take the entries away.                                    *)
LiveMeansInstalled ==
    tag = "live" => \A x \in Call : \E i \in Index :
        nr[x] = NI[i] /\ entry[i] = EntryOf(x, load)

(* The entries of an earlier load are never mixed with those of a live     *)
(* one: TAG-MOD gives none back, and too few are left for a second load    *)
(* until SCTH has been unloaded.                                           *)
OneLoadPerTable ==
    tag = "live" => \A i \in Index : entry[i] = Ni \/ entry[i].load = load

(* The references are those of the calls that run and of the open files,   *)
(* on every path through the wrappers, so that rmmod is neither possible   *)
(* too early nor refused for ever.                                         *)
Running == {t \in Thread : pc[t] = "body" /\ CodeThere(t)}
RefExact == Loaded => ref = Cardinality(Running) + files

(* A call that got its reference keeps the code and the tags until it has  *)
(* given it back, even if it entered while the module was being unloaded;  *)
(* the loads whose init_module failed are the exception.                   *)
RefProtects ==
    \A t \in Thread : pc[t] = "body" /\ code[t] \notin failed =>
        CodeThere(t) /\ data = Data

(* What a load allocates and registers is gone when TAG-MOD is, wherever   *)
(* it failed, but for the words of a bitmask whose header found no memory; *)
(* no file is open then.                                                   *)
NothingLeaked == tag = "out" => data \subseteq {"words"} /\ ~device /\ files = 0

(* "There's no risk [...] since every system call increase the usage       *)
(* counter": no thread runs code of a module that is gone.                 *)
NoDeadCode == \A t \in Thread : pc[t] # "user" => CodeThere(t)
=============================================================================
