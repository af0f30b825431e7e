---------------------------- MODULE PosixBarrier ----------------------------
(***************************************************************************)
(* The barrier libuv brings where pthreads has none (macOS, z/OS and some  *)
(* Android), src/libuv/src/unix/thread.c: two counters, a mutex and a      *)
(* condition variable.  Every step but the sleep is one section under the  *)
(* mutex.                                                                  *)
(***************************************************************************)
EXTENDS Naturals, FiniteSets

CONSTANTS Threads,  \* the threads that call uv_barrier_wait
          Rounds    \* bound: calls per thread

VARIABLES pb_in, pb_out,   \* b->in, b->out
          pb_pc,           \* where each thread is in pthread_barrier_wait
          pb_destroy,      \* what uv_barrier_destroy by the serializer did
          entered, left, serials   \* calls, returns and serializers so far

pbVars == <<pb_in, pb_out, pb_pc, pb_destroy, entered, left, serials>>

threshold == Cardinality(Threads)

Init ==
  /\ pb_in = 0 /\ pb_out = 0 /\ pb_destroy = "none"
  /\ pb_pc = [t \in Threads |-> "out"]
  /\ entered = [t \in Threads |-> 0] /\ left = [t \in Threads |-> 0]
  /\ serials = [k \in 1..Rounds |-> {}]

\* pthread_cond_signal: one of the sleeping threads, if there is one.
Signalled(pc) ==
  LET asleep == {t \in Threads : pc[t] = "asleep"} IN
    IF asleep = {} THEN {pc} ELSE {[pc EXCEPT ![t] = "awake"] : t \in asleep}

\* Not the last one in: count and sleep.
Enter(t) ==
  /\ pb_pc[t] = "out" /\ entered[t] < Rounds
  /\ pb_in + 1 < threshold
  /\ pb_in' = pb_in + 1
  /\ entered' = [entered EXCEPT ![t] = @ + 1]
  /\ pb_pc' = [pb_pc EXCEPT ![t] = "asleep"]
  /\ UNCHANGED <<pb_out, pb_destroy, left, serials>>

\* The last one in resets the count and wakes one sleeper; it is the serializer.
EnterLast(t) ==
  /\ pb_pc[t] = "out" /\ entered[t] < Rounds
  /\ pb_in + 1 = threshold
  /\ pb_in' = 0 /\ pb_out' = threshold - 1
  /\ pb_pc' \in Signalled([pb_pc EXCEPT ![t] = "returning"])
  /\ entered' = [entered EXCEPT ![t] = @ + 1]
  /\ serials' = [serials EXCEPT ![entered[t] + 1] = {t}]
  /\ UNCHANGED <<pb_destroy, left>>

\* The serializer is out of the mutex and returns.
ReturnSerial(t) ==
  /\ pb_pc[t] = "returning"
  /\ pb_pc' = [pb_pc EXCEPT ![t] = "out"]
  /\ left' = [left EXCEPT ![t] = @ + 1]
  /\ UNCHANGED <<pb_in, pb_out, pb_destroy, entered, serials>>

\* Woken, but the count is not 0: another round has begun, sleep again.
SleepAgain(t) ==
  /\ pb_pc[t] = "awake" /\ pb_in # 0
  /\ pb_pc' = [pb_pc EXCEPT ![t] = "asleep"]
  /\ UNCHANGED <<pb_in, pb_out, pb_destroy, entered, left, serials>>

\* Woken after the round was completed: wake the next sleeper and return.
Leave(t) ==
  /\ pb_pc[t] = "awake" /\ pb_in = 0
  /\ pb_out' = pb_out - 1
  /\ pb_pc' \in Signalled([pb_pc EXCEPT ![t] = "out"])
  /\ left' = [left EXCEPT ![t] = @ + 1]
  /\ UNCHANGED <<pb_in, pb_destroy, entered, serials>>

\* A sleeper may wake unsignalled; before the round is complete it goes back.
WakeSpuriously(t) ==
  /\ pb_pc[t] = "asleep"
  /\ pb_pc' = [pb_pc EXCEPT ![t] = "awake"]
  /\ UNCHANGED <<pb_in, pb_out, pb_destroy, entered, left, serials>>

\* uv_barrier_destroy by the serializer, its last round done: it aborts when
\* pthread_barrier_destroy answers EBUSY.
Destroy(t) ==
  /\ pb_pc[t] = "out" /\ entered[t] = Rounds /\ t \in serials[Rounds]
  /\ pb_destroy = "none"
  /\ pb_destroy' = IF pb_in > 0 \/ pb_out > 0 THEN "abort" ELSE "done"
  /\ UNCHANGED <<pb_in, pb_out, pb_pc, entered, left, serials>>

ThreadStep(t) == ReturnSerial(t) \/ SleepAgain(t) \/ Leave(t)

Next ==
  \E t \in Threads : Enter(t) \/ EnterLast(t) \/ ThreadStep(t) \/ WakeSpuriously(t) \/ Destroy(t)

Spec == Init /\ [][Next]_pbVars

-----------------------------------------------------------------------------
\* What each round promises, and that its calls return.
Returned(k) == {t \in serials[k] : left[t] >= k}
B == INSTANCE Barrier WITH serials <- [k \in 1..Rounds |-> Returned(k)]
PosixBarrierSpec == B!Spec

\* What the serializer destroys is never freed while a thread is inside.
DestroyedOnlyIdle == pb_destroy = "done" => \A t \in Threads : pb_pc[t] = "out"
=============================================================================
