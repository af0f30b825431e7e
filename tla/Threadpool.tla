----------------------------- MODULE Threadpool -----------------------------
(***************************************************************************)
(* libuv's thread pool, src/libuv/src/threadpool.c: the workers, the work  *)
(* queue and its condition variable, the loop's queue of finished work,    *)
(* uv_queue_work, uv_cancel, uv__work_done and the cleanup at exit.        *)
(*                                                                         *)
(* The global mutex and the loop's wq_mutex are separate locks.  A section *)
(* under one lock is one step; where a thread holds a lock over several    *)
(* steps (uv_cancel, which takes both, and the worker's hand-over) the     *)
(* lock has an owner.                                                      *)
(***************************************************************************)
EXTENDS Sequences, FiniteSets, Naturals

CONSTANTS Workers,     \* the threads of the pool
          Reqs,        \* the requests the program may submit
          Loop,        \* the thread that runs the loop
          MaxCancels   \* bound: calls of uv_cancel

Exit == "exit_message"
Free == "free"

VARIABLES
  mutex,       \* owner of the global mutex
  wq_mutex,    \* owner of the loop's wq_mutex
  wq,          \* the global queue: requests and possibly the exit message
  idle,        \* idle_threads
  wpc,         \* what each worker does
  wjob,        \* the request each worker has in hand
  linked,      \* requests whose queue node is in some queue
  work,        \* w->work of each request: "work", "null" or "cancelled"
  ran,         \* how often work_cb ran
  done,        \* the status of each call of after_work_cb, in order
  loop_wq,     \* loop->wq
  wq_async,    \* the loop's async handle has been sent
  batch,       \* the local queue of uv__work_done
  loop_pc,     \* "user", or the step of uv_cancel the loop thread is in
  target,      \* the request uv_cancel was called with
  cancels,     \* calls of uv_cancel so far
  cancelled,   \* requests uv_cancel returned 0 for
  exiting      \* cleanup() has posted the exit message

tpVars == <<mutex, wq_mutex, wq, idle, wpc, wjob, linked, work, ran, done, loop_wq,
            wq_async, batch, loop_pc, target, cancels, cancelled, exiting>>

TypeOK ==
  /\ mutex \in {Free, Loop} /\ wq_mutex \in {Free, Loop} \cup Workers
  /\ wq \in Seq(Reqs \cup {Exit}) /\ loop_wq \in Seq(Reqs) /\ batch \in Seq(Reqs)
  /\ idle \in 0..Cardinality(Workers)
  /\ wpc \in [Workers -> {"none", "top", "waiting", "woken", "working", "handing", "gone"}]
  /\ linked \subseteq Reqs /\ cancelled \subseteq Reqs
  /\ work \in [Reqs -> {"null", "work", "cancelled"}]

Init ==
  /\ mutex = Free /\ wq_mutex = Free /\ wq = <<>> /\ idle = 0
  /\ wpc = [w \in Workers |-> "none"] /\ wjob = [w \in Workers |-> Exit]
  /\ linked = {} /\ work = [r \in Reqs |-> "null"]
  /\ ran = [r \in Reqs |-> 0] /\ done = [r \in Reqs |-> <<>>]
  /\ loop_wq = <<>> /\ wq_async = FALSE /\ batch = <<>>
  /\ loop_pc = "user" /\ target = Exit /\ cancels = 0 /\ cancelled = {} /\ exiting = FALSE

-----------------------------------------------------------------------------
(* What the steps are made of.                                             *)

\* uv_cond_signal wakes one waiting worker, if there is one, else nobody.
Signal(pc) ==
  LET waiting == {w \in Workers : pc[w] = "waiting"} IN
    IF waiting = {} THEN {pc} ELSE {[pc EXCEPT ![w] = "woken"] : w \in waiting}

\* Variant of Post: no signal, so that only busy threads find the entry.
PostSilently(q) ==
  /\ mutex = Free
  /\ wq' = Append(wq, q)
  /\ wpc' = wpc

\* post(): append, and signal only when some thread counts as idle.
Post(q) ==
  /\ mutex = Free
  /\ wq' = Append(wq, q)
  /\ wpc' \in IF idle > 0 THEN Signal(wpc) ELSE {wpc}

-----------------------------------------------------------------------------
(* The workers.                                                            *)

\* The queue is empty: count as idle and sleep; the mutex is released.
Sleep(w) ==
  /\ mutex = Free
  /\ \/ wpc[w] = "top"   /\ idle' = idle + 1
     \/ wpc[w] = "woken" /\ idle' = idle
  /\ wq = <<>>
  /\ wpc' = [wpc EXCEPT ![w] = "waiting"]
  /\ UNCHANGED <<mutex, wq_mutex, wq, wjob, linked, work, ran, done, loop_wq, wq_async,
                 batch, loop_pc, target, cancels, cancelled, exiting>>

\* A condition variable may also wake a thread that nobody signalled.
WakeSpuriously(w) ==
  /\ wpc[w] = "waiting"
  /\ wpc' = [wpc EXCEPT ![w] = "woken"]
  /\ UNCHANGED <<mutex, wq_mutex, wq, idle, wjob, linked, work, ran, done, loop_wq, wq_async,
                 batch, loop_pc, target, cancels, cancelled, exiting>>

Leave(w) == idle' = IF wpc[w] = "woken" THEN idle - 1 ELSE idle

\* Variant of TakeWork: the node keeps its links.
TakeWorkLinked(w) ==
  /\ mutex = Free /\ wpc[w] \in {"top", "woken"}
  /\ wq # <<>> /\ Head(wq) # Exit
  /\ Leave(w)
  /\ wq' = Tail(wq)
  /\ wjob' = [wjob EXCEPT ![w] = Head(wq)]
  /\ ran' = [ran EXCEPT ![Head(wq)] = @ + 1]
  /\ wpc' = [wpc EXCEPT ![w] = "working"]
  /\ UNCHANGED <<mutex, wq_mutex, linked, work, done, loop_wq, wq_async, batch, loop_pc,
                 target, cancels, cancelled, exiting>>

\* Take the first request off the queue and start its work: from here on its
\* node is linked to itself, which tells uv_cancel that it is executing.
TakeWork(w) ==
  /\ mutex = Free /\ wpc[w] \in {"top", "woken"}
  /\ wq # <<>> /\ Head(wq) # Exit
  /\ Leave(w)
  /\ wq' = Tail(wq)
  /\ linked' = linked \ {Head(wq)}
  /\ wjob' = [wjob EXCEPT ![w] = Head(wq)]
  /\ ran' = [ran EXCEPT ![Head(wq)] = @ + 1]
  /\ wpc' = [wpc EXCEPT ![w] = "working"]
  /\ UNCHANGED <<mutex, wq_mutex, work, done, loop_wq, wq_async, batch, loop_pc, target,
                 cancels, cancelled, exiting>>

\* Variant of TakeExit: the thread leaves without waking the next one.
TakeExitAlone(w) ==
  /\ mutex = Free /\ wpc[w] \in {"top", "woken"}
  /\ wq # <<>> /\ Head(wq) = Exit
  /\ Leave(w)
  /\ wpc' = [wpc EXCEPT ![w] = "gone"]
  /\ UNCHANGED <<mutex, wq_mutex, wq, wjob, linked, work, ran, done, loop_wq, wq_async,
                 batch, loop_pc, target, cancels, cancelled, exiting>>

\* The exit message stays in the queue; the thread wakes the next and returns.
TakeExit(w) ==
  /\ mutex = Free /\ wpc[w] \in {"top", "woken"}
  /\ wq # <<>> /\ Head(wq) = Exit
  /\ Leave(w)
  /\ wpc' \in Signal([wpc EXCEPT ![w] = "gone"])
  /\ UNCHANGED <<mutex, wq_mutex, wq, wjob, linked, work, ran, done, loop_wq, wq_async,
                 batch, loop_pc, target, cancels, cancelled, exiting>>

\* The work is done: under wq_mutex clear w->work and queue it for the loop.
HandOver(w) ==
  /\ wpc[w] = "working" /\ wq_mutex = Free
  /\ wq_mutex' = w
  /\ work' = [work EXCEPT ![wjob[w]] = "null"]
  /\ loop_wq' = Append(loop_wq, wjob[w])
  /\ linked' = linked \cup {wjob[w]}
  /\ wpc' = [wpc EXCEPT ![w] = "handing"]
  /\ UNCHANGED <<mutex, wq, idle, wjob, ran, done, wq_async, batch, loop_pc, target, cancels,
                 cancelled, exiting>>

\* uv_async_send, still under wq_mutex, and back to the top.
SendAsync(w) ==
  /\ wpc[w] = "handing"
  /\ wq_async' = TRUE
  /\ wq_mutex' = Free
  /\ wpc' = [wpc EXCEPT ![w] = "top"]
  /\ UNCHANGED <<mutex, wq, idle, wjob, linked, work, ran, done, loop_wq, batch, loop_pc,
                 target, cancels, cancelled, exiting>>

-----------------------------------------------------------------------------
(* The loop thread: calls of the program, made between or in callbacks.    *)

\* uv_queue_work; the first call starts the threads (uv_once, init_threads).
QueueWork(r) ==
  /\ loop_pc = "user" /\ ~exiting
  /\ work[r] = "null" /\ ran[r] = 0
  /\ IF \A w \in Workers : wpc[w] = "none"
       THEN wpc' = [w \in Workers |-> "top"] /\ wq' = <<r>>
       ELSE Post(r)
  /\ work' = [work EXCEPT ![r] = "work"]
  /\ linked' = linked \cup {r}
  /\ UNCHANGED <<mutex, wq_mutex, idle, wjob, ran, done, loop_wq, wq_async, batch, loop_pc,
                 target, cancels, cancelled, exiting>>

\* uv_cancel on a request whose callback has not been called: take the mutex.
CancelLock(r) ==
  /\ loop_pc = "user" /\ ~exiting /\ cancels < MaxCancels
  /\ (work[r] # "null" \/ ran[r] > 0) /\ done[r] = <<>>
  /\ mutex = Free
  /\ mutex' = Loop /\ loop_pc' = "cancel" /\ target' = r /\ cancels' = cancels + 1
  /\ UNCHANGED <<wq_mutex, wq, idle, wpc, wjob, linked, work, ran, done, loop_wq, wq_async,
                 batch, cancelled, exiting>>

\* Variant of Cancellable: any linked request, finished or not.
LinkedOnly(r) == r \in linked

Cancellable(r) == r \in linked /\ work[r] # "null"

\* QUEUE_REMOVE: the one node of r leaves its queue.
Without(q, r) ==
  IF \A i \in DOMAIN q : q[i] # r THEN q
  ELSE LET k == CHOOSE i \in DOMAIN q : q[i] = r
       IN  [i \in 1..(Len(q) - 1) |-> IF i < k THEN q[i] ELSE q[i + 1]]

\* Under both locks: unlink the request from whichever queue holds it, or
\* answer UV_EBUSY; then release both.
CancelUnlink ==
  /\ loop_pc = "cancel" /\ wq_mutex = Free
  /\ mutex' = Free
  /\ IF Cancellable(target)
       THEN /\ wq' = Without(wq, target)
            /\ loop_wq' = Without(loop_wq, target)
            /\ batch' = Without(batch, target)
            /\ loop_pc' = "requeue"
       ELSE loop_pc' = "user" /\ UNCHANGED <<wq, loop_wq, batch>>
  /\ UNCHANGED <<wq_mutex, idle, wpc, wjob, linked, work, ran, done, wq_async, target, cancels,
                 cancelled, exiting>>

\* Variant of CancelRequeue: the loop is not woken.
CancelRequeueSilently ==
  /\ loop_pc = "requeue" /\ wq_mutex = Free
  /\ work' = [work EXCEPT ![target] = "cancelled"]
  /\ loop_wq' = Append(loop_wq, target)
  /\ cancelled' = cancelled \cup {target}
  /\ loop_pc' = "user"
  /\ UNCHANGED <<mutex, wq_mutex, wq, idle, wpc, wjob, linked, ran, done, wq_async, batch,
                 target, cancels, exiting>>

\* Mark the request uv__cancelled and queue it for the loop; uv_cancel returns 0.
CancelRequeue ==
  /\ loop_pc = "requeue" /\ wq_mutex = Free
  /\ work' = [work EXCEPT ![target] = "cancelled"]
  /\ loop_wq' = Append(loop_wq, target)
  /\ wq_async' = TRUE
  /\ cancelled' = cancelled \cup {target}
  /\ loop_pc' = "user"
  /\ UNCHANGED <<mutex, wq_mutex, wq, idle, wpc, wjob, linked, ran, done, batch, target,
                 cancels, exiting>>

\* uv__work_done: the async callback takes over the whole of loop->wq.
WorkDone ==
  /\ loop_pc = "user" /\ ~exiting /\ wq_async /\ batch = <<>> /\ wq_mutex = Free
  /\ wq_async' = FALSE
  /\ batch' = loop_wq /\ loop_wq' = <<>>
  /\ UNCHANGED <<mutex, wq_mutex, wq, idle, wpc, wjob, linked, work, ran, done, loop_pc,
                 target, cancels, cancelled, exiting>>

\* One entry of it: w->done (uv__queue_done) with the status.
CallDone ==
  /\ loop_pc = "user" /\ ~exiting /\ batch # <<>>
  /\ LET r == Head(batch) IN
       done' = [done EXCEPT ![r] =
                  Append(@, IF work[r] = "cancelled" THEN "UV_ECANCELED" ELSE "0")]
  /\ batch' = Tail(batch)
  /\ UNCHANGED <<mutex, wq_mutex, wq, idle, wpc, wjob, linked, work, ran, loop_wq, wq_async,
                 loop_pc, target, cancels, cancelled, exiting>>

\* cleanup() at exit, outside Windows: post the exit message, then join.
Cleanup ==
  /\ loop_pc = "user" /\ ~exiting
  /\ \A w \in Workers : wpc[w] # "none"
  /\ Post(Exit)
  /\ exiting' = TRUE
  /\ UNCHANGED <<mutex, wq_mutex, idle, wjob, linked, work, ran, done, loop_wq, wq_async,
                 batch, loop_pc, target, cancels, cancelled>>

-----------------------------------------------------------------------------
WorkerStep(w) == Sleep(w) \/ TakeWork(w) \/ TakeExit(w) \/ HandOver(w) \/ SendAsync(w)
LoopStep == CancelUnlink \/ CancelRequeue \/ WorkDone \/ CallDone

Next ==
  \/ \E w \in Workers : WorkerStep(w) \/ WakeSpuriously(w)
  \/ \E r \in Reqs : QueueWork(r) \/ CancelLock(r)
  \/ LoopStep
  \/ Cleanup

\* The scheduler runs every thread: a worker that waits for a lock another
\* thread takes and releases in turn gets it in the end.
Fairness ==
  /\ \A w \in Workers : SF_tpVars(WorkerStep(w))
  /\ WF_tpVars(LoopStep)

Spec == Init /\ [][Next]_tpVars /\ Fairness

-----------------------------------------------------------------------------
(* Properties.                                                             *)

\* after_work_cb is called at most once; with UV_ECANCELED exactly for the
\* requests uv_cancel answered 0 for, and these never ran; any other one ran
\* exactly once and no worker still has it (the node links and w->work are
\* all that uv_cancel and the worker tell each other).
DoneOnceTruthfully ==
  \A r \in Reqs :
    /\ Len(done[r]) <= 1 /\ ran[r] <= 1
    /\ (r \in cancelled) => ran[r] = 0
    /\ \A i \in DOMAIN done[r] :
         /\ (done[r][i] = "UV_ECANCELED") <=> (r \in cancelled)
         /\ (done[r][i] = "0") => ran[r] = 1
         /\ \A w \in Workers : wpc[w] = "working" => wjob[w] # r

\* Every request is answered unless the process exits first: a signal given
\* only when idle_threads > 0 and one async wakeup for many entries lose none.
EveryWorkAnswered ==
  \A r \in Reqs : (work[r] # "null") ~> (done[r] # <<>> \/ exiting)

\* cleanup() has begun to join the workers, and has joined them all.
Exiting == exiting
Joined == exiting /\ \A w \in Workers : wpc[w] = "gone"
=============================================================================
