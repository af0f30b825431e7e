-------------------------- MODULE UnixLoopWatchers ---------------------------
(***************************************************************************)
(* Prepare, check and idle handles on Unix, unix/loop-watcher.c: a turn    *)
(* moves the loop's queue to a local one and each handle back to the end   *)
(* of the loop's before it is called.                                      *)
(***************************************************************************)
EXTENDS Naturals, Sequences

CONSTANTS Idlers, NoIdler

VARIABLES name_handles, queue, ul_active, ul_calling, ul_gone

ulVars == <<name_handles, queue, ul_active, ul_calling, ul_gone>>

Init ==
  /\ name_handles = <<>> /\ queue = <<>> /\ ul_active = {}
  /\ ul_calling = NoIdler /\ ul_gone = {}

\* QUEUE_REMOVE takes a handle out of whichever queue it is in.
Removed(q, h) ==
  IF \A i \in DOMAIN q : q[i] # h THEN q
  ELSE LET k == CHOOSE i \in DOMAIN q : q[i] = h
       IN  [i \in 1..(Len(q) - 1) |-> IF i < k THEN q[i] ELSE q[i + 1]]

\* uv_name_start
Start(h) ==
  /\ h \notin ul_gone /\ h \notin ul_active
  /\ name_handles' = <<h>> \o name_handles /\ ul_active' = ul_active \cup {h}
  /\ UNCHANGED <<queue, ul_calling, ul_gone>>

\* uv_name_stop
StopActive(h) ==
  /\ name_handles' = Removed(name_handles, h) /\ queue' = Removed(queue, h)
  /\ ul_active' = ul_active \ {h}

Stop(h) == h \in ul_active /\ StopActive(h) /\ UNCHANGED <<ul_calling, ul_gone>>

\* uv__name_close
Close(h) ==
  /\ h \notin ul_gone /\ ul_gone' = ul_gone \cup {h}
  /\ IF h \in ul_active THEN StopActive(h) ELSE UNCHANGED <<name_handles, queue, ul_active>>
  /\ UNCHANGED ul_calling

\* uv__run_name
RunBegins ==
  /\ queue = <<>> /\ ul_calling = NoIdler
  /\ queue' = name_handles /\ name_handles' = <<>>
  /\ UNCHANGED <<ul_active, ul_calling, ul_gone>>

\* Variant of RunCalls: the handle goes back to the front of the loop's queue.
RunCallsToFront ==
  /\ queue # <<>> /\ ul_calling = NoIdler
  /\ ul_calling' = Head(queue) /\ queue' = Tail(queue)
  /\ name_handles' = <<Head(queue)>> \o name_handles
  /\ UNCHANGED <<ul_active, ul_gone>>

RunCalls ==
  /\ queue # <<>> /\ ul_calling = NoIdler
  /\ ul_calling' = Head(queue) /\ queue' = Tail(queue)
  /\ name_handles' = Append(name_handles, Head(queue))
  /\ UNCHANGED <<ul_active, ul_gone>>

CallbackReturns ==
  /\ ul_calling # NoIdler /\ ul_calling' = NoIdler
  /\ UNCHANGED <<name_handles, queue, ul_active, ul_gone>>

Next ==
  \/ \E h \in Idlers : Start(h) \/ Stop(h) \/ Close(h)
  \/ RunBegins \/ RunCalls \/ CallbackReturns

Spec == Init /\ [][Next]_ulVars

-----------------------------------------------------------------------------
LW == INSTANCE LoopWatchers WITH
        order <- name_handles \o queue, todo <- queue, calling <- ul_calling, gone <- ul_gone

\* docs/src/idle.rst, unix/loop-watcher.c: the same promise, and the same order of the
\* calls, as on Windows.
UnixWatchersSpec == LW!Spec
=============================================================================
