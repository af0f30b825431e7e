------------------------------ MODULE UnixSignal ------------------------------
(***************************************************************************)
(* Signal watchers on Unix (unix/signal.c): the signal handler, on         *)
(* whatever thread the system picks, walks the tree of watchers under the  *)
(* signal lock and writes one message per watcher into the loop's pipe;    *)
(* the loop dispatches the messages, and a watcher that is closed has to   *)
(* wait for those that are still in the pipe.  One loop.  A section under  *)
(* the lock runs with all signals blocked and is one step here; the        *)
(* handler, which does not run alone, has several.                         *)
(***************************************************************************)
EXTENDS Naturals, Sequences, FiniteSets, Functions

CONSTANTS Handles,     \* the uv_signal_t of the loop
          Signums,     \* signal numbers
          PipeCap,     \* messages the pipe holds
          MaxSignals,  \* bound: signals delivered
          MaxStarts    \* bound: calls of uv_signal_start

VARIABLES
  sst,         \* a watcher: open, closing, pending (in closing_handles), closed
  signum,      \* handle->signum, 0 when it watches nothing
  oneshot,     \* UV_SIGNAL_ONE_SHOT, which nothing clears
  caught,      \* caught_signals
  dispatched,  \* dispatched_signals
  disp,        \* the system's disposition: default, handler, once (SA_RESETHAND)
  hpc,         \* the signal handler: idle, locking, walking, written
  hsig,        \* its signal
  todo,        \* the watchers its walk has still to visit; those written, the first
  sigpipe,     \* signal_pipefd
  buf,         \* the messages uv__signal_event has read
  slpc,        \* the loop: run, event, cb (a watcher's callback), after
  awaited,     \* history: a signal was caught for this watch, and its callback has not
               \* run since; no longer when the message is lost in a full pipe
  raised, starts

sgVars == <<sst, signum, oneshot, caught, dispatched, disp, hpc, hsig, todo, sigpipe, buf, slpc,
            awaited, raised, starts>>
handlerVars == <<hpc, hsig, todo>>
loopVars == <<buf, slpc>>

Init ==
  /\ sst = [h \in Handles |-> "open"] /\ signum = [h \in Handles |-> 0]
  /\ oneshot = [h \in Handles |-> FALSE]
  /\ caught = [h \in Handles |-> 0] /\ dispatched = [h \in Handles |-> 0]
  /\ disp = [s \in Signums |-> "default"]
  /\ hpc = "idle" /\ hsig = 0 /\ todo = <<>>
  /\ sigpipe = <<>> /\ buf = <<>> /\ slpc = "run"
  /\ awaited = [h \in Handles |-> FALSE]
  /\ raised = 0 /\ starts = 0

Watching(s) == {h \in Handles : signum[h] = s}
LockFree == hpc \notin {"walking", "written"}
InPipe(h) == \E i \in 1..Len(sigpipe) : sigpipe[i] = [sig |-> signum[h], handle |-> h]

-----------------------------------------------------------------------------
(* The signal handler. *)

\* The system delivers s; SA_RESETHAND takes the handler away at that moment.
Deliver(s) ==
  /\ raised < MaxSignals /\ hpc = "idle" /\ disp[s] # "default"
  /\ raised' = raised + 1
  /\ disp' = IF disp[s] = "once" THEN [disp EXCEPT ![s] = "default"] ELSE disp
  /\ hpc' = "locking" /\ hsig' = s
  /\ UNCHANGED <<sst, signum, oneshot, caught, dispatched, todo, sigpipe, loopVars, awaited,
                 starts>>

\* uv__signal_lock, and the walk's first watcher.  The tree sorts the watchers of
\* a signal, one-shot ones last; among equals by address.
HandlerLocks ==
  /\ hpc = "locking"
  /\ \E order \in Bijection(1..Cardinality(Watching(hsig)), Watching(hsig)) :
       /\ \A i, j \in 1..Len(order) : oneshot[order[i]] /\ ~oneshot[order[j]] => j < i
       /\ todo' = order
  /\ hpc' = "walking"
  /\ awaited' = [h \in Handles |-> awaited[h] \/ signum[h] = hsig]
  /\ UNCHANGED <<sst, signum, oneshot, caught, dispatched, disp, hsig, sigpipe, loopVars,
                 raised, starts>>

\* The message is written, unless the pipe is full: then it is lost, and the user out of
\* luck if no other one for this watcher is in the pipe.
HandlerWrites ==
  /\ hpc = "walking" /\ todo # <<>>
  /\ IF Len(sigpipe) < PipeCap
       THEN /\ sigpipe' = Append(sigpipe, [sig |-> hsig, handle |-> Head(todo)])
            /\ hpc' = "written" /\ UNCHANGED <<todo, awaited>>
       ELSE /\ todo' = Tail(todo) /\ UNCHANGED <<sigpipe, hpc>>
            /\ awaited' = [awaited EXCEPT ![Head(todo)] = InPipe(Head(todo))]
  /\ UNCHANGED <<sst, signum, oneshot, caught, dispatched, disp, hsig, loopVars, raised, starts>>

\* caught_signals++, after the loop may have read the message.
HandlerCounts ==
  /\ hpc = "written"
  /\ caught' = [caught EXCEPT ![Head(todo)] = @ + 1]
  /\ todo' = Tail(todo) /\ hpc' = "walking"
  /\ UNCHANGED <<sst, signum, oneshot, dispatched, disp, hsig, sigpipe, loopVars, awaited,
                 raised, starts>>

HandlerUnlocks ==
  /\ hpc = "walking" /\ todo = <<>>
  /\ hpc' = "idle"
  /\ UNCHANGED <<sst, signum, oneshot, caught, dispatched, disp, hsig, todo, sigpipe, loopVars,
                 awaited, raised, starts>>

-----------------------------------------------------------------------------
(* The user's calls, from the loop thread. *)

UserRuns == slpc \in {"run", "cb"}

\* uv_signal_start and uv_signal_start_oneshot of a watcher that watches nothing; a
\* watcher of another signal is stopped first, which is the action Stop.  The
\* system's handler is set for the first watcher of a signal, and again when a
\* regular watcher joins one-shot ones.
Start(h, s, once) ==
  /\ UserRuns /\ LockFree /\ starts < MaxStarts
  /\ sst[h] = "open" /\ signum[h] = 0
  /\ disp' = IF \A g \in Watching(s) : ~once /\ oneshot[g]
               THEN [disp EXCEPT ![s] = IF once THEN "once" ELSE "handler"]
               ELSE disp
  /\ signum' = [signum EXCEPT ![h] = s]
  /\ oneshot' = [oneshot EXCEPT ![h] = @ \/ once]
  /\ starts' = starts + 1
  /\ UNCHANGED <<sst, caught, dispatched, handlerVars, sigpipe, loopVars, awaited, raised>>

\* uv__signal_stop: out of the tree; the handler goes with the last watcher, and
\* becomes a one-shot handler with the last regular one.
StopWatcher(h) ==
  IF signum[h] = 0 THEN UNCHANGED <<signum, disp, awaited>>
  ELSE LET s    == signum[h]
           Rest == Watching(s) \ {h}
       IN  /\ LockFree
           /\ signum' = [signum EXCEPT ![h] = 0]
           /\ awaited' = [awaited EXCEPT ![h] = FALSE]
           /\ disp' = IF Rest = {} THEN [disp EXCEPT ![s] = "default"]
                      ELSE IF ~oneshot[h] /\ \A g \in Rest : oneshot[g]
                        THEN [disp EXCEPT ![s] = "once"]
                        ELSE disp

Stop(h) ==
  /\ UserRuns /\ sst[h] = "open" /\ signum[h] # 0
  /\ StopWatcher(h)
  /\ UNCHANGED <<sst, oneshot, caught, dispatched, handlerVars, sigpipe, loopVars, raised, starts>>

\* Variant of Close: the close callback does not wait for caught signals.
CloseAtOnce(h) ==
  /\ UserRuns /\ sst[h] = "open"
  /\ StopWatcher(h)
  /\ sst' = [sst EXCEPT ![h] = "pending"]
  /\ UNCHANGED <<oneshot, caught, dispatched, handlerVars, sigpipe, loopVars, raised, starts>>

\* uv_close: uv__signal_close.
Close(h) ==
  /\ UserRuns /\ sst[h] = "open"
  /\ StopWatcher(h)
  /\ sst' = [sst EXCEPT ![h] = IF caught[h] = dispatched[h] THEN "pending" ELSE "closing"]
  /\ UNCHANGED <<oneshot, caught, dispatched, handlerVars, sigpipe, loopVars, raised, starts>>

-----------------------------------------------------------------------------
(* uv__signal_event. *)

\* Variant of ReadPipe: what follows the first message in the buffer is dropped.
ReadPipeShort ==
  /\ slpc = "run" /\ sigpipe # <<>>
  /\ buf' = <<Head(sigpipe)>> /\ sigpipe' = <<>>
  /\ slpc' = "event"
  /\ UNCHANGED <<sst, signum, oneshot, caught, dispatched, disp, handlerVars, awaited, raised,
                 starts>>

ReadPipe ==
  /\ slpc = "run" /\ sigpipe # <<>>
  /\ buf' = sigpipe /\ sigpipe' = <<>>
  /\ slpc' = "event"
  /\ UNCHANGED <<sst, signum, oneshot, caught, dispatched, disp, handlerVars, awaited, raised,
                 starts>>

\* The callback runs if the watcher still watches that signal.
Dispatch ==
  /\ slpc = "event" /\ buf # <<>>
  /\ IF signum[Head(buf).handle] = Head(buf).sig
       THEN slpc' = "cb" /\ awaited' = [awaited EXCEPT ![Head(buf).handle] = FALSE]
       ELSE slpc' = "after" /\ UNCHANGED awaited
  /\ UNCHANGED <<sst, signum, oneshot, caught, dispatched, disp, handlerVars, sigpipe, buf,
                 raised, starts>>

UserReturns ==
  /\ slpc = "cb" /\ slpc' = "after"
  /\ UNCHANGED <<sst, signum, oneshot, caught, dispatched, disp, handlerVars, sigpipe, buf,
                 awaited, raised, starts>>

\* Variant of Dispatched: a message that is not for the current watch is not counted.
DispatchedIfWatched ==
  LET h == Head(buf).handle
      n == dispatched[h] + (IF signum[h] = Head(buf).sig THEN 1 ELSE 0)
  IN  /\ slpc = "after"
      /\ dispatched' = [dispatched EXCEPT ![h] = n]
      /\ IF oneshot[h] THEN StopWatcher(h) ELSE UNCHANGED <<signum, disp, awaited>>
      /\ sst' = IF sst[h] = "closing" /\ caught[h] = n
                  THEN [sst EXCEPT ![h] = "pending"] ELSE sst
      /\ buf' = Tail(buf) /\ slpc' = "event"
      /\ UNCHANGED <<oneshot, caught, handlerVars, sigpipe, raised, starts>>

\* The rest of a message: count it, stop a one-shot watcher, and make the close of a
\* watcher pending that has now seen all it caught.
Dispatched ==
  LET h == Head(buf).handle
  IN  /\ slpc = "after"
      /\ dispatched' = [dispatched EXCEPT ![h] = @ + 1]
      /\ IF oneshot[h] THEN StopWatcher(h) ELSE UNCHANGED <<signum, disp, awaited>>
      /\ sst' = IF sst[h] = "closing" /\ caught[h] = dispatched[h] + 1
                  THEN [sst EXCEPT ![h] = "pending"] ELSE sst
      /\ buf' = Tail(buf) /\ slpc' = "event"
      /\ UNCHANGED <<oneshot, caught, handlerVars, sigpipe, raised, starts>>

EventDone ==
  /\ slpc = "event" /\ buf = <<>>
  /\ slpc' = "run"
  /\ UNCHANGED <<sst, signum, oneshot, caught, dispatched, disp, handlerVars, sigpipe, buf,
                 awaited, raised, starts>>

\* uv__finish_close: the watcher is the user's again.
CloseCb(h) ==
  /\ slpc = "run" /\ sst[h] = "pending"
  /\ sst' = [sst EXCEPT ![h] = "closed"]
  /\ UNCHANGED <<signum, oneshot, caught, dispatched, disp, handlerVars, sigpipe, loopVars,
                 awaited, raised, starts>>

Next ==
  \/ \E s \in Signums : \/ Deliver(s)
                        \/ \E h \in Handles, once \in BOOLEAN : Start(h, s, once)
  \/ \E h \in Handles : Stop(h) \/ Close(h) \/ CloseCb(h)
  \/ HandlerLocks \/ HandlerWrites \/ HandlerCounts \/ HandlerUnlocks
  \/ ReadPipe \/ Dispatch \/ UserReturns \/ Dispatched \/ EventDone

Spec == Init /\ [][Next]_sgVars

-----------------------------------------------------------------------------
(* Properties. *)

Messages(h) == \E i \in 1..Len(sigpipe \o buf) : (sigpipe \o buf)[i].handle = h

\* A watcher whose close callback is due is named by no message, the handler's walk
\* or the tree: the user may free it.  One that is closing and not due has a message
\* on its way that will make it due.
SignalCloseExact ==
  \A h \in Handles :
    /\ sst[h] \in {"pending", "closed"}
         => ~Messages(h) /\ signum[h] = 0 /\ h \notin {todo[i] : i \in 1..Len(todo)}
    /\ sst[h] = "closing" => Messages(h)

\* A signal is not lost on its way from the handler to its watcher's callback: it is
\* still to be written, or a message in the pipe or read from it, and not the one that
\* has just been dispatched.  Not so when the pipe was full, or when the watch was
\* ended: by the user, or, for a one-shot watcher, by any message that names it.
SignalDelivered ==
  \A h \in Handles : awaited[h] =>
    \/ \E i \in 1..Len(todo) : todo[i] = h /\ (hpc = "written" => i # 1)
    \/ InPipe(h)
    \/ \E i \in 1..Len(buf) : /\ buf[i] = [sig |-> signum[h], handle |-> h]
                               /\ slpc \in {"cb", "after"} => i # 1
=============================================================================
