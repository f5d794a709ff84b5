# TAG-AOS: a TLA+ development

TAG-AOS is a Linux kernel module that adds four system calls, `tag_get`,
`tag_send`, `tag_receive` and `tag_ctl`. A *tag* is a service with 32 levels; a
message sent to a level goes to the threads that are receiving on it at that
moment, and to nobody else. This directory holds TLA+ models of the module's
code, the TLC instances that check them and the theorems TLAPS proves of them.
Line numbers refer to `src/tag-module/tag-syscall.c` unless a file is named.

## 1. Inventory

| part | source | state | operations | models |
|---|---|---|---|---|
| tag service | `tag-syscall.c`, `tag-struct.h` | per tag: `tags[tag]`, `tag_lock[tag]`, `ready`, `waiting`, 32 pointers with their `level_lock`; per level object: `ready`, `size`, `buffer`, `waiting`, `epoch`, `local_wq`, `rcu_lock`, `w_mutex` | `tag_send`, `tag_receive`, `tag_ctl` AWAKE_ALL and DELETE | `TagService`, `Rendezvous` |
| tag registry | `tag-syscall.c` | `tag_table` (key to descriptor), `tag_bitmask`, `tags[]`, `common_lock` | `tag_get` CREAT and OPEN, `clear_tag_common` | `TagRegistry`, `KeyStore`, `NameTable` |
| bitmask | `utils/bitmask/bitmask.c` | array of 64-bit words | `get_avail_number`, `clear_number` | `Bitmask`, `DescriptorPool` |
| hashmap | `utils/hash-struct/hashmap.c` | buckets, `count`, `cap`, `oom` | `hashmap_get`, `hashmap_set`, `hashmap_delete`, `resize` | `Hashmap`, `FiniteMap` |
| device driver | `tag-dev-driver.c` | file offset, device registration | `dev_read`, `dev_llseek`, registration; `dev_write` and `dev_ioctl` do nothing | `DevRead`; its locks also in `TagService`, registration in `Lifecycle` |
| module lifecycle | `tag-module.c`, wrappers in `tag-syscall.c` | module reference count, what `initialize` allocated, numbers of the calls | load, unload, `try_module_get` around a call | `Lifecycle` |
| SCTH | `syscall-table-disc/` | `syscall_table_addr`, `sys_ni_address`, the free entries of the table | scan for the table, `syscall_insert`, `syscall_clean` | `Discovery`, `Lifecycle` |
| page table walk | `ptexplorer/` | none | `get_phys_frame` | `Discovery` |
| CR0 and context switch helpers | `arch-common/` | a register | | not modelled |

**Interaction.** The system call wrappers call the tag service; `tag_get`
publishes an entry in `tags[]` that the other calls read under `tag_lock[tag]`;
DELETE unpublishes it and then calls `clear_tag_common`; `dev_read` walks all
tags and levels under the same locks. `tag_get` and `clear_tag_common` use the
hashmap and the bitmask under `common_lock`. TAG-MOD puts its calls into the
table through SCTH's `syscall_insert` when it is loaded. Threads share everything: each function
runs concurrently with itself and all others, and may be preempted anywhere.

**What is hard here.** A receiver that finds a message waiting creates the next
*epoch* of the level, a second object, while others still use the first, and
the last one out frees it: a hand-made RCU with four locks, two counters and an
unlocked flag. Receivers, senders and controllers leave by more than twenty
return paths. Each wait may be interrupted. `PROJECT.json` lists every hazard
at its line, with the properties that watch it.

**What makes each part correct.** *Tag service*: nobody uses freed memory;
nobody reads half a message or an old one; no wake-up is lost; the counters
are exact; every path gives back its locks; DELETE frees a tag that nobody
uses; calls that are not meant to block return. *Registry*: a descriptor has one
owner; key table, bitmask and `tags[]` agree; nothing leaks. *Bitmask*: the
lowest free number, each once. *Device*: reading a file in pieces gives the
file, as far as the lines have the length the code counts on. *Hashmap*: it is a finite map, however keys collide, and its loops end.
*Lifecycle and SCTH*: the table is found wherever it lies, unless something else
looks like it, and nothing unmapped is read; a module that is live has all its calls installed; a call that runs keeps
its code and its tags; entries of two loads are never mixed.

## 2. Modules

- `RwSem`: the kernel's reader-writer semaphore as a pair of sets, readers and
  writers. It is not part of the repository and is modelled from its use. A
  reader is let in whenever no writer holds the lock: a real semaphore may also
  queue it behind a waiting writer, which removes behaviours and adds none.
- `TagService`: one tag and its users. One action per stretch of code between
  two points at which another thread can interfere (a lock operation, an atomic
  counter, a flag read or written without a lock, the sleep).
- `Rendezvous`: what the messages of a tag promise, without locks, counters or
  flags: a send and the receivers of its level meet in a round.
- `TagInvariants`: the inductive invariant of `TagService`, in named parts.
- `MCTagService`: gives threads their roles for TLC.
- Theorems about `TagService`, each module on top of the one before:
  `TagServiceProofs` (types, `tag_lock`, DELETE), `TagObjectProofs` (locks and
  pointers of levels and objects, life of the objects, counters),
  `TagMessageProofs` (messages, sleepers, AWAKE_ALL).
- `TagRegistry`, `MCTagRegistry`: all tags, as far as keys and descriptors go.
- `Bitmask`: the array of words. `DescriptorPool`: what the registry expects of
  it, a pool that gives its lowest free number.
- `Hashmap`: the buckets and what get, set, delete and resize do to them.
  `FiniteMap`: what the registry expects of it.
- `NameTable`: what both together, and the registry as a whole, promise: names
  (keys, or none) are given the lowest free descriptor, or are refused, and give
  it back.
- `KeyStore`, `MCKeyStore`: the critical sections of `tag_get` and
  `clear_tag_common` over one instance of `Hashmap` and one of `Bitmask`.
  `HashmapProofs`: what the loops and calls of the hash map do, as lemmas;
  `KeyStoreProofs`, on top of it: theorems about `KeyStore`.
- `DevRead`, `MCDevRead`: the text `dev_read` builds, and what part of it the
  caller gets.
- `Discovery`: the scan for the system call table and the page table walk, as
  operators on a memory.
- `Lifecycle`, `MCLifecycle`: both modules as the kernel loads and unloads them,
  with callers and open files. `LifecycleProofs`: theorems about `Lifecycle`.
- `DevReadProofs`: theorems about `DevRead`.
- `RegistryProofs`: theorems about `TagRegistry`.

`TagService` sees the registry only through `DeleteCommon` (it succeeds or is
killed) and `TagRegistry` sees the service only through `DeleteTake` (the entry
is unpublished under `tag_lock`). `TagRegistry` takes each critical section under
`common_lock` as one step on a map and a set; `KeyStore` is the inside of these
steps, over the real structures. Both are shown to implement `NameTable`: that is
what joins them. `Lifecycle` sees a call as a reference that is held for a while.

### How `TagService` corresponds to the code

| model | code |
|---|---|
| `tags`, `tagLock`, `tagReady`, `tagWaiting` | `tags[tag]`, `tag_lock[tag]`, `tag_entry->ready`, `->waiting` |
| `cur[l]` | `tag_entry->tag_level[l]`, as the epoch of the object it points to |
| `<<l, e>>` in `Inst` | the `tag_level_t` of level l and epoch e |
| `alloc`, `ready`, `size`, `buf`, `waiting`, `rcu`, `mutex` | its life, its fields, `rcu_lock`, `w_mutex`; `buf` only says whether the message is whole |
| `pc[t]` | where t is: `r_` in `tag_receive`, `s_` `tag_send`, `a_` AWAKE_ALL, `d_` DELETE, `v_` `dev_read` |
| `lv`, `at`, `tmp`, `old` | the locals `level` (or the loop index), `tag_level`, `temp_sem` (later `new_tag_level`), `old_level` |
| `stale` | a history variable, read by a property only |
| `oops` | threads stopped by a fault on freed memory |

`tag_receive` is `ReceiveEnter` (409-448), `ReceiveLevel` (450-470),
`ReceiveRcu` (472-483), the first look at ready (491) and, when a message is
there, `ReceiveLockLevel`, `ReceiveRecheck`, `ReceiveCreate` and `ReceiveRelock`
(500-588), then `ReceiveEnlist` (597), the sleep (600), the looks at the two flags
(`ReceiveWoken` 607, `ReceiveLook` 608), `ReceiveCopy` (612-626), `ReceiveLast` (630) and, for the last one,
`ReceiveTrylock` (632-639), which reads the level's pointer without `level_lock`,
then `ReceiveReset` (662-679) or, when the pointer leads to a later epoch,
`ReceiveDrop` (653-658), which follows it, and `ReceiveFree` (659), and `ReceiveEnd` (686-695), whose variants also stand for the four
error returns at 476, 504, 551 and 577 with the locks each still holds. Actions
ending in `Intr` are the interrupted waits. The `PROJECT.json` map gives the
lines of every definition.

A round of `Rendezvous` is an object `<<l, e>>`, the level's round its epoch. Its
variables are `cur` and, in this order, `Members` (receivers from `r_enlist` up to
the release of `rcu_lock`), `Newcomers` (receivers before that), `Past` (`stale`,
while it matters), `Posted` (`ready = 1`), `BeingSent` (a sender is yet to wake the
receivers) and `Getting`. `ReceiveEnter` is `Arrive`; the first look at `ready`, if no
message is there, and `ReceiveRelock` are `Join`; the five ways out in between are
`GiveUp`; `ReceiveCreate` is `NextRound`; `SendPost` is `Post`, `SendWake` is `Sent`;
`ReceiveWoken` is `Take`, `ReceiveCopy` is `Leave`, `ReceiveReset` and `ReceiveFree` are
`Clear`. All else is a stutter. What `Rendezvous` leaves to the implementation: how
receivers learn of a message or are sent away, when memory is freed, and whether
anyone is left to read a message (`LostMessage` shows that nobody may be).

Modelling decisions worth knowing:

- An early return that changes nothing (wrong descriptor, no permission, no
  receiver, DELETE finding the tag busy) is the action `Refused`.
- A wait is interrupted only when it has to wait, because the kernel's
  `down_*_interruptible` looks for a signal only on its slow path. This matters:
  the rollback of line 574 is never taken on a *new* epoch, which nobody else
  can hold, and `EpochMonotonic` depends on it.
- `kfree` leaves the memory as it is until somebody else gets it, so an access
  to a freed object either goes on with the old contents or faults and stops
  the thread (`Fault`). Reuse of the memory by another object is not modelled.
- Locals that are not read any more are set to 0, which merges states.

### How `TagRegistry` corresponds

`table` is the hashmap as a function, `bits` the descriptors whose bit is set,
`tags[d]` the key of the entry or `None`. Everything a thread does under
`common_lock` is one step; `tags[]` is written in steps of its own. `u_` labels
undo a failed creation, `d_` labels belong to DELETE. `lost` is a history
variable. Error codes are not kept.

### How `Bitmask`, `Hashmap` and `KeyStore` correspond

In `Bitmask` a word is the set of its bits that are set; `n_bits` and the number
of words come from `initialize_bitmask`, `ret` is what the last call returned.

`Hashmap` has the names of the fields; `buckets` is the array as a function, and
`growat`, `shrinkat` and `mask`, which are set with `nbuckets` and never apart from it, are
operators on it. `Probe` is one round of the loop of `hashmap_set` (252-274 of
`hashmap.c`), `Place` the loop, also that of `resize`; `Shifted` is the backward shift of
`hashmap_delete`. The hash is a constant function: two keys with one hash are
still told apart by `compare`, as in the code. A loop that would meet no empty
bucket does not end, so the operation has no step; `ProbesEnd` says that this
does not happen. `SetNoMemory`, and the choice in `DeletePresent`, are the two allocations that may fail.

`KeyStore` has one step per call of a structure, so that what the code holds
between two calls is a state: a descriptor that is reserved (`Reserved`), a key
that is removed when its bit is not yet clear (`NameOf`). There is one thread
because `common_lock` lets one writer in. `held` (what callers were told) is a
history variable. `ClearStart`
takes a tag that exists, as `tag_get` and DELETE do.

### How `Discovery` and `Lifecycle` correspond

`Discovery` reads a *memory*: how each page is translated (`walk`, one of the ways a walk
of the four tables can end), at which address the table lies (`at`), and where another
array of equal pointers lies (`array`), which may be before or behind the table and of any length.
No other word looks like a pointer: a pointer made of parts of two words would need a high
byte of 0xff, which is then the low byte of a pointer, and functions are aligned. `HasFrame`
is `get_phys_frame # -1`; `Readable` is what the processor makes of the same tables, and the
difference between the two matters. `Pattern`, `Blocked`, `Tried` and `Scanned` are the tests
and loops of `syscall_table_pattern` and `find_syscall_table`, which stop at the first address
found. An array of 103 equal pointers or more (`LastNI - NI[1]` and one) with other words in
front fits the pattern as the table does; `Candidates` are the table and, if it is long enough,
what the array looks like. The array begins at the earliest where there is room for the entries
before the first free one, or fits nothing. Not modelled: several such arrays, and words
that are equal only at the seven distances the pattern looks at.

| `Lifecycle` | code |
|---|---|
| `scth`, `place`, `tableAddr` | SCTH is loaded; what its scan takes for the table (`Table`, `FalseTable` or nothing); `syscall_table_addr` |
| `entry` | the free entries: `Ni` is `sys_ni_syscall`, otherwise a call of the n-th load of TAG-MOD |
| `tag` | TAG-MOD: `out`, `install` (63-83 of `tag-module.c`), `undone` (79), `abort` (the kernel undoes a failed load), `live`, `going`, `freeing`, `freed` (153-181), `stuck` (rmmod died) |
| `data`, `device` | the four allocations of `initialize` by name; the device is registered |
| `nr` | `tag_get_nr`, `tag_send_nr`, `tag_receive_nr`, `tag_ctl_nr` |
| `ref`, `files` | the module's reference count; open device files |
| `pc`, `code` | a caller in the wrapper before `try_module_get`, in the call, after `module_put`; the load whose code it runs |

The kernel's part is external: a failed `init_module` makes it free the module; `rmmod`
needs a count of 0; `try_module_get` fails only while the module is going; without
preemption (`PREEMPT = FALSE`) the grace period before the memory is freed waits for threads
in the parts of a wrapper that do not sleep. `Oops` is a thread that finds its
code gone. What `unregister_chardev` does when nothing was registered is not defined,
so rmmod passes or gets stuck. All of `register_chardev` is one step that succeeds or fails:
its calls of the kernel, and the error pointers of `class_create` and `device_create` that it does
not recognise (40, 55 of `tag-dev-driver.c`), count as the kernel's part. When SCTH has taken
an array for the table its entries are in that array: TAG-MOD is loaded as if nothing were wrong,
and no call reaches it (`CallEntry`), because calls go through the table of the system calls.

### How `DevRead` corresponds

One open file and one `dev_read` on it at a time (the kernel guards the offset).
The variables have the names of the locals. `pc` is where the loops stand:
`tag` at 173, `level` at 203, `divider` at 271, `exit` at 287. `text` is the
buffer as a sequence of bytes, each known by its line (the tag and level it is
about) and its column; `Part` cuts bytes out of it. `Signed` is the assignment of a `uid_t` to
the `int euid` (98, 200) and `Width` what `%10d` makes of it (245): ten characters, or
eleven for an euid from 2147483648 to 3294967296, whose line is then a byte longer than
the `LINE_SIZE + 1` that `TAG_SIZE` counts (`LineSize`). Keys are not negative (`tag_get` refuses
them), and levels and counters fit their fields. Each level is a step, so that tags come and go in between;
`tags[d]` tells successive tags with one descriptor apart. `locked` and `held`
are what the call has to give back. A wait that is interrupted (`TagIntr`,
`LevelSkip`) makes the code leave the tag or the level out. `quiet` is a history
variable: it marks reads during which the file did not change.

## 3. Runs

| run | instance | shows |
|---|---|---|
| `TagMessages` | 3 receivers with signals, 1 sender, 2 epochs; 768k states | `ProtectedAccess`, `NoStaleDelivery`, `NoStranded`, `NoLostWakeup`, `EpochMonotonic`; implements `Rendezvous` |
| `TagControl` | 2 receivers, 2 senders, of which one also calls AWAKE_ALL and one DELETE, 2 epochs, signals everywhere; 626k states | `WaitingExact`, `NoLockLeak`, `DeleteSafe`, `NoTornRead`, and `UseInv`, the invariant of the proofs |
| `TagAwake` | 2 receivers, 2 AWAKE_ALLs, `dev_read`, a DELETE without permission, 2 levels, 1 epoch; 195k states | `TypeOK`, `AwakeReachesSleepers` |
| `TagLive` | 2 receivers and a thread that performs all other calls, signals, fair; 193k states | `OnlySleepersBlock` |
| `Registry` | 3 threads, 2 keys and IPC_PRIVATE, 3 descriptors; 93k states | `OneOwner`, `Consistent`, `OpenIsRight`, `NothingElseLost`; implements `NameTable` |
| `KeyStore` | 4 keys, two of one hash, maps made for 4 and 8 buckets, bitmasks of 3 and 4 bits in words of 3; 51k states | `RobinHood`, `ProbesEnd`, `NeverGrows`, `NothingLeftBehind`; implements `FiniteMap`, `DescriptorPool` and `NameTable` |
| `DevRead` | 3 descriptors, 4 tags of 2 levels, 2 of them with an euid too wide for its field, lines of 3 bytes and a byte more, blocks of 7, every offset from 0 to past the end, pieces of 1, 4 and 40; 1.7M states | `PieceOfFile`, `PieceLength`, `BufferFits`, `NothingHeld`, `ReadsLiveTag` |
| `Lifecycle` | 3 callers, 2 files, 4 loads, 7 free entries, all memories of 3 pages with 5 ways to translate a page and 6 arrays; 57k states | `ScanFindsFirst`, `ScanReadsMapped`, `LiveMeansInstalled`, `OneLoadPerTable`, `RefExact`, `RefProtects`, `NothingLeaked` |

**Bounds.** `MAX_EPOCH` is the only bound that is not in the code: `create_level`
fails past it, which the code has to handle anyway (`ReceiveNoMemory`), so the
bound removes no behaviour up to that epoch. Two epochs are the smallest number
with a superseded object; a receiver can only hold the current epoch and, as
`temp_sem`, the one before. Two receivers are enough for a first and a last one,
three for a reader of the old epoch, a creator of the new one and a latecomer
between them. Levels interact only through the tag's flag, counter and lock and
the order of the AWAKE_ALL loop: one level suffices for what happens in a level,
two for the loop. `DevRead` needs two skipped tags before the one that is read,
with wide and ordinary euids in every order, a line longer than a byte (so that pieces begin
inside lines) and a block that is not a multiple of a line but longer than the two lines on
top, as in the code; the file then spans four blocks. An `int` of 5 bits and a field of 2 characters
are in the relation of 32 bits and 10: all that are not negative fit, some that are do not. `KeyStore`: a map made for 4 buckets grows
to 8 at the fourth key, when two keys collide and a third is pushed on, round the
end, and goes back to 4 when it is empty (a tenth of 8 is 0); the map made for 8 stands for
the module's own, which has twice as many buckets as there are tags. `Lifecycle`: two loads use the seven entries
up (4 and 3), the third meets none, the fourth follows a reload of SCTH; the
indexes of the free entries keep the neighbours of the real ones (182 and 183, 214 and 215)
in a table of 14, with words of 2 bytes and pages of 16 words, so that a table lies
within one page or across two; the memory is chosen at the start and forgotten after the first scan.
The arrays are none, one too short, one without room in front, and three that look like a table, on one
page or on two; each is met with the table before it and behind it, where there is room.
Deadlock is not checked in `Lifecycle`, because the system may stop there: rmmod that
died in `unregister_chardev` (`stuck`) leaves TAG-MOD for ever, and if the table is a false one no call reaches it.
Three callers are one in each of the wrapper's places. `ProductFits` evaluates on the real
numbers that the product of four of them fits an `int` and is not 0. Receivers are interchangeable in the runs that use symmetry.

**Fairness.** `FairSpec` asks that a thread inside a call that can take a step
takes one (`WF_vars(Progress(t) \/ ReceiveNoMemory(t))`): the kernel scheduler
runs every runnable thread. A thread that waits for a lock has no step while it
waits, and nothing promises that it gets the lock. No call, signal, fault or
failed allocation has to happen; `ReceiveNoMemory` is in only because at the
bound it is all a creation can do. `TagLive` shows that once calls stop coming
nobody is left waiting for a lock, except a receiver that spins behind one that
sleeps, which line 632 does indeed produce, and except after a use after free, where the locks
mean nothing any more. With two receivers and one thread for all else this run has none; `UafReceive` has three.

### Disagreements between the code and what it says

Four runs end in a violation, each a trace of the code against a comment
of the repository; `PROJECT.json` quotes the lines.

| run | what happens |
|---|---|
| `UafReceive` | 626-659: two receivers can each be the "last one reading"; the second uses, and frees again, what the first has freed |
| `LostMessage` | 346, 669: `tag_send` returns 1 although the only receiver counted was already leaving; the message is wiped unread |
| `HalfAwake` | 784, 797: an interrupted AWAKE_ALL leaves `ready = 1`; sleepers are not woken and later commands are discarded |
| `Dangling` | `tag-module.c` 153: the entries of an unloaded TAG-MOD stay in the system call table; the next call through them runs freed code |

Two more are part of what passing properties say, because only with them can these say what the
code does. The lines of a tag whose euid takes eleven characters as an `int`
(`tag-dev-driver.c` 98, 200, 245) are longer than `TAG_SIZE` (192), the "Size of a a complete
Tag in Char Device" (`tag-dev-driver.h` 6), counts: what a read returns behind them is not at its offset but
as many bytes further on as `Place` says, and a reader that goes on to the end misses as many. And an array of
equal pointers before the table, at least as long as the free entries span, is taken for it
(`scth_discovery.c` 94-120, `LookAlike` in `FindsFirst`), although line 19 says "Find the system call table".

Seen while modelling and not among the runs: on -EFAULT (362-364) `tag_send` gives
the locks back before the mutex, and DELETE can free the mutex in between: this
is the second way to violate `NoUseAfterFree`. The third takes three epochs: the last
receiver of an old one reads the level's pointer at 639, without `level_lock`, and before it
follows it at 653 the object it leads to is superseded and freed by its own last receiver (`UafReceive` with
`MAX_EPOCH = 2` reaches it, in a trace longer than the one at which it stops). `dev_read` takes a tag to lie
before the offset when `relative_off > TAG_SIZE` (`tag-dev-driver.c` 192), but the
offset also counts the two lines on top: a piece that begins in the last two
lines of a tag starts with bytes of the header instead (`InSkippedTag`, the
exception in `PieceOfFile`; a reader of whole pages first meets it after 37 pages,
at the end of the 85th tag). `nbytes` leaves the same two lines out, and only the page that
the extra byte of `vzalloc` brings keeps the text in the buffer. AWAKE_ALL checks `waiting` at 765 and
sets `ready` at 773, so the flag can be set with nobody there, and the next
receiver returns 0 at once. The last receiver may spin at 632 for as long as a
later one sleeps (`SpinsBehindSleeper`). With IPC_PRIVATE tags, which are not in
the hashmap, a full registry returns -EPROTO (92) and not EMAXTAG (78). A
creation that is killed while it undoes its registration keeps key and
descriptor for ever (137, 150, 163): `NothingElseLost` shows that this is the
only way to lose one. `memset` at 675 always has length 0. At 686-687 `ready = 0`
comes after the decrement, so it can undo a later AWAKE_ALL: a receiver that one
woke sleeps again. If it is its own object that
is superseded after the read at 639, it is reset instead of freed, and nothing leads to it any more. A receiver
that leaves (607, 608) looks at the flag of AWAKE_ALL first: it may get a message that was posted
after an AWAKE_ALL, of which it sees nothing, had begun.

In SCTH and the lifecycle: the look-ahead (86 of `scth_discovery.c`) asks for the
page on which the last word *begins*; at the last 7 bytes of a page the scan, which
goes on byte by byte, reads a word whose end lies on the next page, mapped or not
(`Reads`, and `ScanReadsMapped`, are about the first byte of each word).
`get_phys_frame` takes pages of 1 GB for unmapped (58 of `ptexplorer.c`), so a table on one is not found
(`Visible` says so). A failed `install_syscalls` frees the tags (71-78 of `tag-module.c`) although
its first calls may be in the table and running; `RefProtects` excepts these loads.
TAG-MOD never gives its entries back: a second load finds three entries for its four calls
and fails, until SCTH has been reloaded. The result of `register_chardev` is not
looked at (83), and unload then undoes a registration that never was; `NothingLeaked` says nothing
of a module that is stuck in there. `initialize_bitmask` forgets
its words when the second allocation fails (43 of `bitmask.c`): the one leak `NothingLeaked` allows.
The -ENOMEM return at 121 cannot be taken: the map has 512 buckets for at most 256 keys
and would only grow at 384 (`NeverGrows`).

## 4. Proofs

About `TagService`, for every finite set of threads, every number of levels,
every bound on epochs and every assignment of operations, permissions and
signals, all its safety properties are proved:

| theorem | property | why it holds |
|---|---|---|
| `TypeCorrect` | `TypeOK` | inductive as it stands |
| `DeleteIsSafe` | `DeleteSafe` | DELETE holds `tag_lock` in write mode when it clears `tags[tag]` (`TagLockInv`), and the counter counts threads inside (`TagCount`) |
| `NoLockLeaks` | `NoLockLeak` | who holds a lock follows from where it is: `TagLockInv`, `LevelLockInv`, `RcuInv`, `MutexInv` |
| `CountersExact` | `WaitingExact` | `TagCount`, `LevelCount`; nobody is enlisted on an object that is only being created |
| `EpochsGrow` | `EpochMonotonic` | line 574 needs somebody else at the new `rcu_lock`, and an object just published is known to its creator only (`FreshInv`), so what is put back there is what is there |
| `AccessIsProtected` | `ProtectedAccess` | `AllocInv`: the object a level points to is live while the tag has users, so is one whose `rcu_lock` is held, and nobody holds that of an object about to be freed |
| `ReadsWhole` | `NoTornRead` | `MessageInv`: a message that is there is whole, because senders write only where there is none |
| `DeliversNothingStale` | `NoStaleDelivery` | `JoinInv`: a receiver joins an object where it found no message |
| `WakeupsReach` | `NoLostWakeup` | nobody goes to sleep where a message is; who posts one wakes before it returns |
| `NobodyStranded` | `NoStranded` | `SupersededInv`: a level gets a new object only when the old one has a message for all who use it, which stays while anyone does |
| `ServiceImplementsMeeting` | `ImplementsMeeting` | step by step (`StepOfMeeting`), from the invariant below: a round is posted in while it is the level's (`UsesCurrent`, `SenderInv`), left behind only with a message (`SupersededInv`), joined only without an old one (`JoinInv`), cleared only when unused (`WipedUnused`) |
| `AwakeVisitsSleepers` | `AwakeReachesSleepers` | the walk passes a level only when it has woken those who sleep on the level's object (`LevelCount`: `waiting` is not 0); who sleeps on an older one has a message |

`AwakeVisitsSleepers` has a hypothesis: threads that perform AWAKE_ALL get no
signals. It is needed, since a thread that abandons the walk leaves the flag set
(`HalfAwake`), and the `TagAwake` instance satisfies it. The others have none beyond
the assumptions below.

The properties rest on one inductive invariant, `UseInv` (`MessagesCorrect`), whose
first half, `ObjectInv` (`ObjectsCorrect`), is inductive by itself. None of the
properties but `TypeOK` and `NoLostWakeup` is. The parts lean on each other:

- A lock's set of holders matches the labels (`LevelLockInv`, `RcuInv`), from which
  writers exclude readers (`LevelExclusion`, `RcuExclusion`).
- Hence a pointer read under `level_lock` is the level's until the lock is given
  back, and no pointer is ahead of its level (`PointerInv`): an object about to be
  created is used by nobody, so that initializing its locks and counter loses nothing.
- Hence a new user of an object comes to the one the level points to, and an object
  that is superseded and unused stays unused (`AllocInv`, `SupersededInv`).
- What a level is given a new object for, a message in the old one, is taken away
  only by a writer of the old one's `rcu_lock` (`WipedUnused`).
- The mutex of an object has one holder (`SenderInv`), so nobody posts between a
  sender's look at `ready` and its own post.

A step concerns one thread: the others keep their locals and, but for being woken,
their labels (`Frame`, `FrameLabels`). What the thread itself does is said once, by
lemmas that the invariants share: which steps change a variable (`Changes`), how
a thread comes to an object or a lock (`Moves`, `NewUser`), by which steps it reaches or
leaves a label (`Origins`, `Departures`), and what happens to one object's message (`MessageStep`).
For the refinement, `Roles` says which steps concern the meeting at all, and `OthersKeep`,
`PartEffects`, `PastEffects` and `PostedEffects` what a step does to the variables it maps to.
`NextTag` classifies the steps by what they do to `tag_lock` and its counter
(`Inside`, `Entry`, `Exit`, `CountUp`, `CountDown`).

`DevReadProofs` proves, for every length of line and block, number of tags,
levels and reads:

- `TextFits`: `Spec => []BufferFits`: the text stays in the pages allocated.
- `EverythingGivenBack`: `Spec => []NothingHeld`: every return gives back what the
  call holds.
- `TagStaysAlive`: `Spec => []ReadsLiveTag`; and `TypeCorrect`.
- `PiecesAreOfTheFile`: `Spec => []PieceOfFile`: an undisturbed `dev_read` returns the
  bytes of the file at its `Place`, the exceptional offsets of `InSkippedTag` left aside.
  `Place` is the offset and a byte more for each line that a skipped tag has too long,
  so the offset itself where no euid is wide.
- `PiecesAreLongEnough`: `Spec => []PieceLength`: it returns as many as there are, at
  these offsets too.

The first four rest on `DevInv`: the type invariant, `CountInv` (the text is `nbytes` and two
lines long, and `nbytes` fits in `curr_block` blocks) and `LockInv` (the lock held
is that of the tag at hand, which exists). `BufferFits` alone says nothing of
`nbytes`, on which the code decides when to grow. The lemmas `AppendInv`,
`ReturnInv` and `NextTagInv` treat what several actions share.

The last two rest on `PieceInv`, which says of every step of an undisturbed `dev_read`
where it is in the file (`Follows`): with s tags skipped, what has been made of the
text is the file without the lines of the first s tags, and `relative_off` is the
offset without s times `TAG_SIZE`; a tag is skipped only while the text is but the two
lines on top; and at the loop's early end the text reaches past what is asked for.
The first tags take `TAG_SIZE` bytes of the file each, and `LEVELS` more if the euid is
wide (`LevelSizeIs`, `FileLength`); with the tags that are skipped known to be those of
`SkippedTags` (`SkippedAre`) this says where in the file the rest of the text lies (`PlaceIs`). That makes
the lengths agree. The bytes agree behind the two lines on top (`PartSame`); within them
they agree if nothing was skipped, and otherwise the offset is one of `InSkippedTag`.
`FileText` is a recursive function: `CatExists` shows that it exists, and induction over
the descriptors (`UpTo`, from `WFMin`) how it begins and which lines it has (`CatBegins`, `CatPiece`).

`LifecycleProofs` proves, for any number of callers, calls, free entries, files
and loads, with and without preemption:

- `ReferencesExact`: `Spec => []RefExact`: the reference count is that of the
  running calls and open files.
- `CallsProtected`: `Spec => []RefProtects`: code and tags stay while a call runs.
- `AllInstalled`: `Spec => []LiveMeansInstalled`; `NothingIsLeaked`:
  `Spec => []NothingLeaked`; and `TypeCorrect`.
- `LoadsNeverMix`: `Spec => []OneLoadPerTable`, if `FREE_ENTRIES < 2 * Calls`.
- `ScanIsRight`: `Spec => []ScanFindsFirst`; `ScanIsSafe`: `Spec => []ScanReadsMapped`,
  for all sizes of pages and of the table, all its places, all translations of the pages, all places and
  lengths of an array of equal pointers beside it, and all indexes of the free entries.

The first five rest on `LifeInv`. `RefProtects` is not inductive: that `cleanup_module` meets
no call follows from rmmod finding `ref = 0`, which means nobody only if the
count is exact (`CountInv`), if nobody gets a reference from then on, and if a
new load is nobody's code (`CodeInv`, `EntryInv`). `PhaseInv` says what exists
in each part of the module's life, `InstallInv` what `install_syscalls` has done up to `next`.

`LoadsNeverMix` rests on `TableInv`: what a load has put into the table stays until SCTH
is unloaded, and once a load is over the table holds no call, at least `Calls` of them,
or is full (`Enough`), because `syscall_insert` fails only when no entry is left. A load that goes
live has taken `Calls` entries itself, so that what earlier loads left can only be nothing.
The hypothesis is what the code's constants say (7 < 8), and is needed: with eight entries two
loads would share the table.

The scan takes the first address at which the pattern fits. It fits at the table
(`PatternAtTable`), at the place from which the free entries would all lie in the array, the first
of them at its beginning, if the array is long enough (`PatternAtArray`), and nowhere else
(`PatternElsewhere`): further on in the array there is an equal pointer in front; in a shifted view of
the table the first and the last free index would both have to be free indexes again, which
leaves no shift but 0; and where both meet, their pointers differ. Which of the two is found is
then a question of pages: a place is tried just when `get_phys_frame` sees its page and that of the last
word from there (`VisibleScanned`). The bytes tried on a page lie there, `syscall_table_pattern`
has asked for the page of the last word (`TriedPage`), and the words between begin on one of the
two (`PageAhead`).

`RegistryProofs` proves, for any number of threads, keys and descriptors:

- `OneOwnerHolds`: `Spec => []OneOwner`; `RegistryConsistent`:
  `Spec => []Consistent`; `NothingElseIsLost`: `Spec => []NothingElseLost`;
  `OpenGetsItsTag`: `Spec => []OpenIsRight`; and `TypeCorrect`.
- `RegistryImplementsNames`: `Spec => ImplementsNames`: each reservation is a
  `Register` of `NameTable`, each clearing an `Unregister`, all else a stutter.

They rest on `RegInv`. `OneOwner` and `Consistent` look from the owners at the keys;
they are not inductive, because a creation may be given a descriptor that a
key still names. `NameInv` looks the other way: a key names only a descriptor in
use, whose owner and entry carry that key. Then a clear bit means no name, no
owner and no entry (`ReserveOwner`), and a clearing removes no name but its own
(`ClearNames`), which is also what the refinement needs.

About `KeyStore`, for all sets of keys, hash functions, capacities, values of
`MAX_TAGS` and lengths of a word of the bitmask, everything its run checks is
proved in `KeyStoreProofs`:

| theorem | property | why it holds |
|---|---|---|
| `EntriesInRobinHoodOrder` | `RobinHood` | each round of the loop that places an entry keeps the order (`PlaceStep`), and so does the backward shift (`ShiftWorks`) |
| `ABucketIsAlwaysEmpty` | `ProbesEnd` | a call adds at most one entry, and the map grows at three quarters; `MapInv` keeps `count` exact |
| `TagTableNeverGrows` | `NeverGrows` | `RoomInv`: at most `MAX_TAGS` entries, fewer while a creation is under way |
| `HashmapImplementsMap` | `ImplementsMap` | each call changes the set of entries as it should (`SetWorks`, `DeletePresentWorks`), and `hashmap_get` reads that set (`LookupContent`) |
| `BitmaskImplementsPool` | `ImplementsPool` | `PoolInv`: no bit past `number_bits` is set, so that the lowest clear bit of the first word that is not full is the lowest free number |
| `NothingIsLeftBehind` | `NothingLeftBehind` | `NamesInv` |
| `StoreImplementsNames` | `ImplementsNames` | `NamesInv`, which says what holds inside the calls: a reserved descriptor is in use, is nobody's and has none free below it; a key that is being cleared is gone before its bit |

`RobinHood` and `ProbesEnd` are part of one invariant, `MapInv` (`Sound`, a capacity,
an exact count not above three quarters). Neither could be kept alone: the search
for a key may only stop early because entries are in order, keys are unique only
because the search finds them, and the loops end only because a bucket is empty.
What a loop computes is proved through the states it passes (`IsTrace` of `Place`,
`IsResize`, `IsShift`): a round that has not ended either is still `Searching`,
with no entry moved, or is `Carrying` an entry that is all the map lacks. The
recursive functions of the model are first shown to exist (`Recursion`). Induction goes
over sets of numbers, by their least element (`LeastNumber`, from `WFMin`), since
the library's induction theorems take an operator.

Assumptions: `DevReadAssumption` (two lines are shorter than a block: 108 and 4096
in the code, and `TextFits` fails without it; a field is shorter than its line, and every `int`
that is not negative fits it: 2^31 is less than 10^10), `ThreadAssumption` (finitely many threads, needed to count),
`LevelsAssumption` (at least one level), `EpochAssumption`, `LifecycleAssumption`, `DiscoveryAssumption`
(at least two free entries, in increasing order, the first behind index 1, as in the code's list, and
a table no longer than a page),
`RegistryAssumption` (the null pointer is no key and no descriptor) and `KeyStoreAssumption` (hashes are
natural numbers, the least capacity and the length of a word are not 0, `MAX_TAGS` is not 0 and
has a greatest value, 256 in the code, and the null pointer is none of the values); TLC evaluates them.

Only model-checked: `OnlySleepersBlock`, which is liveness under fairness and not for
this prover. All other properties of the passing runs are theorems.

## 5. Not modelled

Argument checks that return -EINVAL and branches for null level pointers, which
no state reaches. The contents and sizes of messages (only whether a message is
whole and whether it is empty). Memory reuse after `kfree`. Several tags in one
`TagService`: tags share nothing there but the registry. In the hashmap,
`hashmap_clear` and `hashmap_probe`, which nothing calls, and the hash functions.
In SCTH, the code under `TEST_SYSCALL`, and memories with more than one array of equal
pointers or in which scattered words match the pattern by chance: each is one more place for
`FindsFirst` to choose from. Control register writes, logging, scripts, tests.

## 6. Plan

What could still be added: several tags in one `TagService` under `dev_read`,
reuse of freed memory, and a liveness property of `Rendezvous` itself (a member of a
round that holds a message leaves it) with the fairness that carries it over.
