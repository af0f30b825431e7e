------------------------------- MODULE Barrier -------------------------------
(***************************************************************************)
(* What uv_barrier_wait promises (libuv docs/src/threading.rst): a thread  *)
(* returns from its k-th wait only when every thread has called its k-th,  *)
(* and one thread of each round is told that it is the serializer.         *)
(***************************************************************************)
EXTENDS Naturals, FiniteSets

CONSTANTS Threads,  \* the threads that share the barrier, as many as its count
          Rounds    \* bound: calls of uv_barrier_wait per thread

VARIABLES entered, left, serials

barrierVars == <<entered, left, serials>>

Init ==
  /\ entered = [t \in Threads |-> 0] /\ left = [t \in Threads |-> 0]
  /\ serials = [k \in 1..Rounds |-> {}]

Enter(t) ==
  /\ entered[t] = left[t] /\ entered[t] < Rounds
  /\ entered' = [entered EXCEPT ![t] = @ + 1]
  /\ UNCHANGED <<left, serials>>

\* Return, as the serializer of the round or as one of the others; the last
\* one out of a round without a serializer has to be it.
Return(t) ==
  /\ left[t] < entered[t]
  /\ \A u \in Threads : entered[u] >= entered[t]
  /\ left' = [left EXCEPT ![t] = @ + 1]
  /\ LET k == entered[t] IN
       \/ serials[k] = {} /\ serials' = [serials EXCEPT ![k] = {t}]
       \/ /\ serials[k] # {} \/ \E u \in Threads \ {t} : left[u] < k
          /\ UNCHANGED serials
  /\ UNCHANGED entered

Next == \E t \in Threads : Enter(t) \/ Return(t)

Spec == Init /\ [][Next]_barrierVars
=============================================================================
