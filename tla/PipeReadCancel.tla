--------------------------- MODULE PipeReadCancel ---------------------------
(***************************************************************************)
(* Interrupting the read of a non-overlapped pipe, win/pipe.c: a thread of *)
(* the system's pool blocks in a zero-read; the loop's thread cancels it   *)
(* through readfile_thread_handle and a critical section.  CancelSynchro-  *)
(* nousIo only reaches a thread that is blocked at that moment.            *)
(***************************************************************************)
EXTENDS Naturals

CONSTANTS MaxReads   \* bound: zero-reads queued

VARIABLES
  thread_ptr,   \* readfile_thread_handle: "null", "thread" or "invalid"
  lock,         \* owner of readfile_thread_lock: "free", "main" or "worker"
  main_pc,      \* uv__pipe_interrupt_read: "out", "lock", "spin", "yield", "unlock"
  worker_pc,    \* uv_pipe_zero_readfile_thread_proc
  aborted,      \* the read failed with ERROR_OPERATION_ABORTED
  read_pending, cancel_pending,   \* the handle's two flags
  data,         \* there is something to read
  reads         \* zero-reads queued so far

rcVars == <<thread_ptr, lock, main_pc, worker_pc, aborted, read_pending, cancel_pending,
            data, reads>>

Init ==
  /\ thread_ptr = "null" /\ lock = "free" /\ main_pc = "out" /\ worker_pc = "none"
  /\ aborted = FALSE /\ read_pending = FALSE /\ cancel_pending = FALSE
  /\ data = FALSE /\ reads = 0

\* uv_pipe_queue_read: reset the cancellation and queue the thread's work.
QueueRead ==
  /\ main_pc = "out" /\ ~read_pending /\ reads < MaxReads
  /\ thread_ptr' = "null" /\ read_pending' = TRUE /\ reads' = reads + 1
  /\ worker_pc' = "start" /\ aborted' = FALSE
  /\ UNCHANGED <<lock, main_pc, cancel_pending, data>>

\* uv_process_pipe_read_req: the completion has come.
ProcessRead ==
  /\ main_pc = "out" /\ worker_pc = "posted"
  /\ worker_pc' = "none"
  /\ read_pending' = FALSE /\ cancel_pending' = FALSE
  /\ UNCHANGED <<thread_ptr, lock, main_pc, aborted, data, reads>>

-----------------------------------------------------------------------------
(* The worker.                                                             *)

\* Variant of Announce: a cancel that came first is overwritten.
AnnounceAlways ==
  /\ worker_pc = "start" /\ lock = "free"
  /\ thread_ptr' = "thread" /\ worker_pc' = "before"
  /\ UNCHANGED <<lock, main_pc, aborted, read_pending, cancel_pending, data, reads>>

\* Under the lock: leave at once when already cancelled, else show the thread.
Announce ==
  /\ worker_pc = "start" /\ lock = "free"
  /\ IF thread_ptr = "invalid"
       THEN aborted' = TRUE /\ worker_pc' = "post" /\ UNCHANGED thread_ptr
       ELSE thread_ptr' = "thread" /\ worker_pc' = "before" /\ UNCHANGED aborted
  /\ UNCHANGED <<lock, main_pc, read_pending, cancel_pending, data, reads>>

Block ==
  /\ worker_pc = "before"
  /\ worker_pc' = "blocked"
  /\ UNCHANGED <<thread_ptr, lock, main_pc, aborted, read_pending, cancel_pending, data, reads>>

ReadReturns ==
  /\ worker_pc = "blocked" /\ data
  /\ worker_pc' = "after"
  /\ UNCHANGED <<thread_ptr, lock, main_pc, aborted, read_pending, cancel_pending, data, reads>>

\* Variant of Acknowledge: the handle stays visible.
AcknowledgeNot ==
  /\ worker_pc = "after"
  /\ worker_pc' = "fence"
  /\ UNCHANGED <<thread_ptr, lock, main_pc, aborted, read_pending, cancel_pending, data, reads>>

\* Past the point of blocking; this store is outside the lock.
Acknowledge ==
  /\ worker_pc = "after"
  /\ thread_ptr' = "invalid"
  /\ worker_pc' = "fence"
  /\ UNCHANGED <<lock, main_pc, aborted, read_pending, cancel_pending, data, reads>>

\* Variant of Fence: post at once.
FenceNot ==
  /\ worker_pc = "fence"
  /\ worker_pc' = "post"
  /\ UNCHANGED <<thread_ptr, lock, main_pc, aborted, read_pending, cancel_pending, data, reads>>

\* Wait until the loop's thread has stopped cancelling this thread's I/O.
Fence ==
  /\ worker_pc = "fence" /\ lock = "free"
  /\ worker_pc' = "post"
  /\ UNCHANGED <<thread_ptr, lock, main_pc, aborted, read_pending, cancel_pending, data, reads>>

\* Close the thread handle and post the completion; the thread does other work.
PostRead ==
  /\ worker_pc = "post"
  /\ worker_pc' = "posted"
  /\ UNCHANGED <<thread_ptr, lock, main_pc, aborted, read_pending, cancel_pending, data, reads>>

\* What the thread does of itself, and the read that may block it.
Reader == Announce \/ Block \/ Acknowledge \/ Fence \/ PostRead

-----------------------------------------------------------------------------
(* uv__pipe_interrupt_read on the loop's thread.                           *)

Interrupt ==
  /\ main_pc = "out" /\ read_pending /\ ~cancel_pending
  /\ main_pc' = "lock"
  /\ UNCHANGED <<thread_ptr, lock, worker_pc, aborted, read_pending, cancel_pending, data, reads>>

\* Under the lock: pre-empt a worker that has not announced itself, or spin.
InterruptLock ==
  /\ main_pc = "lock" /\ lock = "free"
  /\ lock' = "main"
  /\ IF thread_ptr = "null" THEN thread_ptr' = "invalid" /\ main_pc' = "unlock"
     ELSE IF thread_ptr = "invalid" THEN main_pc' = "unlock" /\ UNCHANGED thread_ptr
     ELSE main_pc' = "spin" /\ UNCHANGED thread_ptr
  /\ UNCHANGED <<worker_pc, aborted, read_pending, cancel_pending, data, reads>>

\* CancelSynchronousIo: it ends a read the thread is blocked in, else nothing.
Spin ==
  /\ main_pc = "spin"
  /\ IF worker_pc = "blocked" THEN worker_pc' = "after" /\ aborted' = TRUE
                              ELSE UNCHANGED <<worker_pc, aborted>>
  /\ main_pc' = "yield"
  /\ UNCHANGED <<thread_ptr, lock, read_pending, cancel_pending, data, reads>>

\* Variant of Recheck: cancel once and go on.
RecheckNot ==
  /\ main_pc = "yield"
  /\ main_pc' = "unlock"
  /\ UNCHANGED <<thread_ptr, lock, worker_pc, aborted, read_pending, cancel_pending, data, reads>>

Recheck ==
  /\ main_pc = "yield"
  /\ main_pc' = IF thread_ptr = "invalid" THEN "unlock" ELSE "spin"
  /\ UNCHANGED <<thread_ptr, lock, worker_pc, aborted, read_pending, cancel_pending, data, reads>>

InterruptDone ==
  /\ main_pc = "unlock"
  /\ lock' = "free" /\ main_pc' = "out" /\ cancel_pending' = TRUE
  /\ UNCHANGED <<thread_ptr, worker_pc, aborted, read_pending, data, reads>>

Main == InterruptLock \/ Spin \/ Recheck \/ InterruptDone

\* The peer writes, or the program reads what there is.
Peer ==
  /\ data' = ~data
  /\ UNCHANGED <<thread_ptr, lock, main_pc, worker_pc, aborted, read_pending, cancel_pending, reads>>

Next == QueueRead \/ ProcessRead \/ Reader \/ ReadReturns \/ Interrupt \/ Main \/ Peer

\* Both threads run; the critical section is granted in the end.
Fairness ==
  /\ WF_rcVars(Main) /\ SF_rcVars(InterruptLock) /\ WF_rcVars(ProcessRead)
  /\ WF_rcVars(Reader)

Spec == Init /\ [][Next]_rcVars /\ Fairness

-----------------------------------------------------------------------------
\* The cancel hits the zero-read of this pipe and nothing else: while the loop's
\* thread may cancel the I/O of the worker, the worker is still in this function.
CancelHitsOwnRead == main_pc \in {"spin", "yield"} => worker_pc \notin {"none", "post", "posted"}

\* The loop's thread interrupts the read, and the read is over.
Interrupting == main_pc = "lock"
Interrupted == main_pc = "out" /\ ~read_pending
=============================================================================
