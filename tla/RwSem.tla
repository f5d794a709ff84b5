------------------------------- MODULE RwSem -------------------------------
(***************************************************************************)
(* The kernel's reader/writer semaphore (struct rw_semaphore), as the tag  *)
(* module uses it.  A semaphore is the set of its readers and the set of   *)
(* its writers (at most one).  Readers share, a writer excludes everybody. *)
(*                                                                         *)
(* down_read_interruptible and down_write_killable take the lock without   *)
(* looking at signals while it is free for them; only a thread that has to *)
(* queue can be sent away with -EINTR.                                     *)
(***************************************************************************)

(* init_rwsem *)
Unlocked == [r |-> {}, w |-> {}]

RwSemOf(T) == [r : SUBSET T, w : SUBSET T]

(* the lock is free for a new reader, for a new writer *)
CanRead(sem) == sem.w = {}
CanWrite(sem) == sem.r = {} /\ sem.w = {}

DownRead(sem, t) == [sem EXCEPT !.r = @ \cup {t}]
UpRead(sem, t) == [sem EXCEPT !.r = @ \ {t}]
DownWrite(sem, t) == [sem EXCEPT !.w = @ \cup {t}]
UpWrite(sem, t) == [sem EXCEPT !.w = @ \ {t}]
=============================================================================
