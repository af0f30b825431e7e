------------------------------ MODULE WinRwlock ------------------------------
(***************************************************************************)
(* uv_rwlock_t on Windows, src/libuv/src/win/thread.c: a semaphore that is *)
(* the write lock, and a reader count under a critical section.  The first *)
(* reader waits for the semaphore inside the critical section, so that the *)
(* other readers wait behind it; the last one releases it, which may be    *)
(* another thread than the one that took it.                               *)
(***************************************************************************)
EXTENDS Naturals, FiniteSets

CONSTANTS Threads   \* the threads that use the lock

VARIABLES num_readers_,       \* rwlock->state_.num_readers_
          num_readers_lock_,  \* owner of the critical section, or "free"
          write_semaphore_,   \* the semaphore's count
          rw_pc               \* what each thread holds or waits for

rwVars == <<num_readers_, num_readers_lock_, write_semaphore_, rw_pc>>

Free == "free"

Init ==
  /\ num_readers_ = 0 /\ num_readers_lock_ = Free /\ write_semaphore_ = 1
  /\ rw_pc = [t \in Threads |-> "none"]

Goto(t, p) == rw_pc' = [rw_pc EXCEPT ![t] = p]

Call(t) ==
  /\ rw_pc[t] = "none"
  /\ \E p \in {"rdlock", "tryrdlock", "wrlock", "trywrlock"} : Goto(t, p)
  /\ UNCHANGED <<num_readers_, num_readers_lock_, write_semaphore_>>

\* uv_rwlock_rdlock: enter the critical section and count.
RdLock(t) ==
  /\ rw_pc[t] = "rdlock" /\ num_readers_lock_ = Free
  /\ num_readers_' = num_readers_ + 1
  /\ IF num_readers_ = 0 THEN num_readers_lock_' = t /\ Goto(t, "first")
                         ELSE UNCHANGED num_readers_lock_ /\ Goto(t, "reading")
  /\ UNCHANGED write_semaphore_

\* The first reader waits for the semaphore and leaves the critical section.
RdFirst(t) ==
  /\ rw_pc[t] = "first" /\ write_semaphore_ > 0
  /\ write_semaphore_' = write_semaphore_ - 1
  /\ num_readers_lock_' = Free
  /\ Goto(t, "reading")
  /\ UNCHANGED num_readers_

\* Variant of TryRdLock: a reader waiting for the semaphore counts as one that has it.
TryRdLockUnguarded(t) ==
  /\ rw_pc[t] = "tryrdlock"
  /\ IF num_readers_ = 0 /\ write_semaphore_ = 0
       THEN Goto(t, "none") /\ UNCHANGED <<num_readers_, write_semaphore_>>
       ELSE /\ num_readers_' = num_readers_ + 1
            /\ write_semaphore_' = IF num_readers_ = 0 THEN 0 ELSE write_semaphore_
            /\ Goto(t, "reading")
  /\ UNCHANGED num_readers_lock_

\* uv_rwlock_tryrdlock: UV_EBUSY when the critical section is taken, or when
\* there is no reader and the semaphore is taken.
TryRdLock(t) ==
  /\ rw_pc[t] = "tryrdlock"
  /\ IF num_readers_lock_ # Free \/ (num_readers_ = 0 /\ write_semaphore_ = 0)
       THEN Goto(t, "none") /\ UNCHANGED <<num_readers_, write_semaphore_>>
       ELSE /\ num_readers_' = num_readers_ + 1
            /\ write_semaphore_' = IF num_readers_ = 0 THEN 0 ELSE write_semaphore_
            /\ Goto(t, "reading")
  /\ UNCHANGED num_readers_lock_

\* uv_rwlock_rdunlock: the last reader releases the semaphore.
RdUnlock(t) ==
  /\ rw_pc[t] = "reading" /\ num_readers_lock_ = Free
  /\ num_readers_' = num_readers_ - 1
  /\ write_semaphore_' = IF num_readers_ = 1 THEN write_semaphore_ + 1 ELSE write_semaphore_
  /\ Goto(t, "none")
  /\ UNCHANGED num_readers_lock_

\* uv_rwlock_wrlock and, without waiting, uv_rwlock_trywrlock.
WrLock(t) ==
  /\ rw_pc[t] \in {"wrlock", "trywrlock"} /\ write_semaphore_ > 0
  /\ write_semaphore_' = write_semaphore_ - 1
  /\ Goto(t, "writing")
  /\ UNCHANGED <<num_readers_, num_readers_lock_>>

TryWrLockBusy(t) ==
  /\ rw_pc[t] = "trywrlock" /\ write_semaphore_ = 0
  /\ Goto(t, "none")
  /\ UNCHANGED <<num_readers_, num_readers_lock_, write_semaphore_>>

WrUnlock(t) ==
  /\ rw_pc[t] = "writing"
  /\ write_semaphore_' = write_semaphore_ + 1
  /\ Goto(t, "none")
  /\ UNCHANGED <<num_readers_, num_readers_lock_>>

LockStep(t) ==
  RdLock(t) \/ RdFirst(t) \/ TryRdLock(t) \/ WrLock(t) \/ TryWrLockBusy(t)
Unlock(t) == RdUnlock(t) \/ WrUnlock(t)

Next == \E t \in Threads : Call(t) \/ LockStep(t) \/ Unlock(t)

Spec == Init /\ [][Next]_rwVars

-----------------------------------------------------------------------------
\* A writer excludes everyone, readers exclude writers: the reader count and the
\* semaphore say who holds the lock, also while the first reader still waits.
RwExclusion ==
  \A t, u \in Threads : (t # u /\ rw_pc[t] = "writing") => rw_pc[u] \notin {"reading", "writing"}
=============================================================================
