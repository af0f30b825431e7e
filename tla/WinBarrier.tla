----------------------------- MODULE WinBarrier -----------------------------
(***************************************************************************)
(* uv_barrier_t on Windows, src/libuv/src/win/thread.c: a counter under a  *)
(* mutex and two semaphores used as turnstiles.  The mutex is held while   *)
(* the last thread in, and the last one out, swap the turnstiles.          *)
(***************************************************************************)
EXTENDS Naturals, FiniteSets

CONSTANTS Threads,  \* the threads that call uv_barrier_wait
          Rounds    \* bound: calls per thread

VARIABLES
  wb_mutex,    \* the mutex is free
  wb_count,    \* barrier->count
  turnstile,   \* the values of turnstile1 and turnstile2
  wb_pc,       \* where each thread is in uv_barrier_wait
  entered, left, serials   \* calls, returns and serializers so far

wbVars == <<wb_mutex, wb_count, turnstile, wb_pc, entered, left, serials>>

N == Cardinality(Threads)

Init ==
  /\ wb_mutex = TRUE /\ wb_count = 0 /\ turnstile = <<0, 1>>
  /\ wb_pc = [t \in Threads |-> "out"]
  /\ entered = [t \in Threads |-> 0] /\ left = [t \in Threads |-> 0]
  /\ serials = [k \in 1..Rounds |-> {}]

Goto(t, p) == wb_pc' = [wb_pc EXCEPT ![t] = p]

Call(t) ==
  /\ wb_pc[t] = "out" /\ entered[t] < Rounds
  /\ entered' = [entered EXCEPT ![t] = @ + 1]
  /\ Goto(t, "arrive")
  /\ UNCHANGED <<wb_mutex, wb_count, turnstile, left, serials>>

\* Count in; the last thread keeps the mutex to swap the turnstiles.
Arrive(t) ==
  /\ wb_pc[t] = "arrive" /\ wb_mutex
  /\ wb_count' = wb_count + 1
  /\ IF wb_count + 1 = N THEN Goto(t, "open1") /\ wb_mutex' = FALSE
                         ELSE Goto(t, "wait1") /\ UNCHANGED wb_mutex
  /\ UNCHANGED <<turnstile, entered, left, serials>>

\* Variant of Open1: turnstile 2 is not closed.
Open1Only(t) ==
  /\ wb_pc[t] = "open1"
  /\ turnstile' = <<turnstile[1] + 1, turnstile[2]>>
  /\ wb_mutex' = TRUE
  /\ Goto(t, "wait1")
  /\ UNCHANGED <<wb_count, entered, left, serials>>

\* Close turnstile 2 (wait until the last round has left it open), open 1.
Open1(t) ==
  /\ wb_pc[t] = "open1" /\ turnstile[2] > 0
  /\ turnstile' = <<turnstile[1] + 1, turnstile[2] - 1>>
  /\ wb_mutex' = TRUE
  /\ Goto(t, "wait1")
  /\ UNCHANGED <<wb_count, entered, left, serials>>

\* Through a turnstile: wait, then post for the next thread.
Wait(t, i, from, to) ==
  /\ wb_pc[t] = from /\ turnstile[i] > 0
  /\ turnstile' = [turnstile EXCEPT ![i] = @ - 1]
  /\ Goto(t, to)
  /\ UNCHANGED <<wb_mutex, wb_count, entered, left, serials>>

Post1(t) ==
  /\ wb_pc[t] = "post1"
  /\ turnstile' = [turnstile EXCEPT ![1] = @ + 1]
  /\ Goto(t, "depart")
  /\ UNCHANGED <<wb_mutex, wb_count, entered, left, serials>>

\* Count out; the last thread keeps the mutex and is the serializer.
Depart(t) ==
  /\ wb_pc[t] = "depart" /\ wb_mutex
  /\ wb_count' = wb_count - 1
  /\ IF wb_count = 1
       THEN /\ Goto(t, "open2") /\ wb_mutex' = FALSE
            /\ serials' = [serials EXCEPT ![entered[t]] = @ \cup {t}]
       ELSE Goto(t, "wait2") /\ UNCHANGED <<wb_mutex, serials>>
  /\ UNCHANGED <<turnstile, entered, left>>

Open2(t) ==
  /\ wb_pc[t] = "open2" /\ turnstile[1] > 0
  /\ turnstile' = <<turnstile[1] - 1, turnstile[2] + 1>>
  /\ wb_mutex' = TRUE
  /\ Goto(t, "wait2")
  /\ UNCHANGED <<wb_count, entered, left, serials>>

\* Post turnstile 2 and return.
Return(t) ==
  /\ wb_pc[t] = "post2"
  /\ turnstile' = [turnstile EXCEPT ![2] = @ + 1]
  /\ Goto(t, "out")
  /\ left' = [left EXCEPT ![t] = @ + 1]
  /\ UNCHANGED <<wb_mutex, wb_count, entered, serials>>

WaitStep(t) ==
  \/ Arrive(t) \/ Open1(t) \/ Wait(t, 1, "wait1", "post1") \/ Post1(t)
  \/ Depart(t) \/ Open2(t) \/ Wait(t, 2, "wait2", "post2") \/ Return(t)

Next == \E t \in Threads : Call(t) \/ WaitStep(t)

Spec == Init /\ [][Next]_wbVars

-----------------------------------------------------------------------------
(* The serializer of a round is known inside before anyone returns: to the *)
(* abstract barrier it counts from its return.                             *)
Returned(k) == {t \in serials[k] : left[t] >= k}
B == INSTANCE Barrier WITH serials <- [k \in 1..Rounds |-> Returned(k)]

\* The two turnstiles implement the barrier, over several rounds and however
\* far ahead a thread runs: none returns early, one thread per round serializes.
WinBarrierSpec == B!Spec
=============================================================================
