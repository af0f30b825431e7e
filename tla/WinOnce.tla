------------------------------- MODULE WinOnce -------------------------------
(***************************************************************************)
(* uv_once on Windows, src/libuv/src/win/thread.c: guard->ran for the fast *)
(* path, and a race of compare-and-swaps for guard->event otherwise.       *)
(***************************************************************************)
EXTENDS Naturals, FiniteSets

CONSTANTS Threads   \* the threads that call uv_once

VARIABLES event,      \* who created guard->event, or "null"
          signalled,  \* that event has been set
          once_ran,        \* guard->ran
          on_pc,      \* where each thread is
          callbacks,  \* callbacks begun
          handles     \* events created and not closed

onVars == <<event, signalled, once_ran, on_pc, callbacks, handles>>

Init ==
  /\ event = "null" /\ signalled = FALSE /\ once_ran = FALSE /\ callbacks = 0 /\ handles = {}
  /\ on_pc = [t \in Threads |-> "before"]

Goto(t, p) == on_pc' = [on_pc EXCEPT ![t] = p]

FastReturn(t) ==
  /\ on_pc[t] = "before" /\ once_ran
  /\ Goto(t, "after")
  /\ UNCHANGED <<event, signalled, once_ran, callbacks, handles>>

\* guard->ran was not set: uv__once_inner creates an event.
CreateEvent(t) ==
  /\ on_pc[t] = "before" /\ ~once_ran
  /\ handles' = handles \cup {t}
  /\ Goto(t, "created")
  /\ UNCHANGED <<event, signalled, once_ran, callbacks>>

\* Variant of Exchange: a loser does not wait.
ExchangeNoWait(t) ==
  /\ on_pc[t] = "created"
  /\ IF event = "null"
       THEN /\ event' = t /\ callbacks' = callbacks + 1 /\ Goto(t, "callback")
            /\ UNCHANGED handles
       ELSE /\ handles' = handles \ {t} /\ Goto(t, "after")
            /\ UNCHANGED <<event, callbacks>>
  /\ UNCHANGED <<signalled, once_ran>>

\* InterlockedCompareExchangePointer: the winner runs the callback, a loser
\* closes its own event and waits for the winner's.
Exchange(t) ==
  /\ on_pc[t] = "created"
  /\ IF event = "null"
       THEN /\ event' = t /\ callbacks' = callbacks + 1 /\ Goto(t, "callback")
            /\ UNCHANGED handles
       ELSE /\ handles' = handles \ {t} /\ Goto(t, "waiting")
            /\ UNCHANGED <<event, callbacks>>
  /\ UNCHANGED <<signalled, once_ran>>

SetEvent(t) ==
  /\ on_pc[t] = "callback"
  /\ signalled' = TRUE
  /\ Goto(t, "set")
  /\ UNCHANGED <<event, once_ran, callbacks, handles>>

SetRan(t) ==
  /\ on_pc[t] = "set"
  /\ once_ran' = TRUE
  /\ Goto(t, "after")
  /\ UNCHANGED <<event, signalled, callbacks, handles>>

WaitDone(t) ==
  /\ on_pc[t] = "waiting" /\ signalled
  /\ Goto(t, "after")
  /\ UNCHANGED <<event, signalled, once_ran, callbacks, handles>>

ThreadStep(t) ==
  FastReturn(t) \/ CreateEvent(t) \/ Exchange(t) \/ SetEvent(t) \/ SetRan(t) \/ WaitDone(t)

Next == \E t \in Threads : ThreadStep(t)

Spec == Init /\ [][Next]_onVars

-----------------------------------------------------------------------------
\* The callback runs once, and nobody is past uv_once before it has ended,
\* whichever of the fast path, the lost race and the won race a thread takes.
OnceBeforeReturn ==
  /\ callbacks <= 1
  /\ (\E t \in Threads : on_pc[t] = "after") =>
       callbacks = 1 /\ \A t \in Threads : on_pc[t] # "callback"
=============================================================================
