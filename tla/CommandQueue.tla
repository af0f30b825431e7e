---------------------------- MODULE CommandQueue ----------------------------
(***************************************************************************)
(* What the executer of the anCRS service promises its clients: commands   *)
(* are answered one at a time, in the order in which they were accepted,   *)
(* each once, and as long as the service runs each is answered.            *)
(***************************************************************************)
EXTENDS Naturals, Sequences

CONSTANT Command

VARIABLES waiting,   \* accepted and not answered, oldest first
          answered,  \* answered, oldest first
          serving    \* the service has not begun to shut down

vars == <<waiting, answered, serving>>

Init == waiting = <<>> /\ answered = <<>> /\ serving = TRUE

Accept(c) ==
  /\ serving
  /\ waiting' = Append(waiting, c)
  /\ UNCHANGED <<answered, serving>>

Answer ==
  /\ waiting # <<>>
  /\ answered' = Append(answered, Head(waiting))
  /\ waiting' = Tail(waiting)
  /\ UNCHANGED serving

Stop ==
  /\ serving
  /\ serving' = FALSE
  /\ UNCHANGED <<waiting, answered>>

Next == (\E c \in Command : Accept(c)) \/ Answer \/ Stop

Spec == Init /\ [][Next]_vars

FairSpec == Spec /\ WF_vars(serving /\ Answer)
=============================================================================
