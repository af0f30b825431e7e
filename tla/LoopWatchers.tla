---------------------------- MODULE LoopWatchers -----------------------------
(***************************************************************************)
(* What the loop promises its prepare, check and idle handles on every     *)
(* platform (libuv docs/src/idle.rst): in a turn each one that was active  *)
(* when the turn began, and has not been stopped since, is called once,    *)
(* the one started last first; callbacks may start, stop and close any.    *)
(***************************************************************************)
EXTENDS Naturals, Sequences

CONSTANTS Idlers, NoIdler  \* the handles; none of them

VARIABLES order,   \* the active handles, the one started last first
          todo,    \* those this turn has still to call
          calling, \* the one whose callback runs
          gone     \* the handles closed

watcherVars == <<order, todo, calling, gone>>

Init == order = <<>> /\ todo = <<>> /\ calling = NoIdler /\ gone = {}

Listed(s, h) == \E i \in DOMAIN s : s[i] = h

\* s without h, which is in it once at most.
Drop(s, h) ==
  IF ~Listed(s, h) THEN s
  ELSE LET k == CHOOSE i \in DOMAIN s : s[i] = h
       IN  [i \in 1..(Len(s) - 1) |-> IF i < k THEN s[i] ELSE s[i + 1]]

Start(h) ==
  /\ h \notin gone /\ ~Listed(order, h) /\ order' = <<h>> \o order
  /\ UNCHANGED <<todo, calling, gone>>

Stop(h) ==
  /\ Listed(order, h) /\ order' = Drop(order, h) /\ todo' = Drop(todo, h)
  /\ UNCHANGED <<calling, gone>>

Close(h) ==
  /\ h \notin gone /\ gone' = gone \cup {h}
  /\ order' = Drop(order, h) /\ todo' = Drop(todo, h)
  /\ UNCHANGED calling

TurnBegins ==
  /\ todo = <<>> /\ calling = NoIdler /\ todo' = order
  /\ UNCHANGED <<order, calling, gone>>

Call ==
  /\ todo # <<>> /\ calling = NoIdler /\ calling' = Head(todo) /\ todo' = Tail(todo)
  /\ UNCHANGED <<order, gone>>

Return == calling # NoIdler /\ calling' = NoIdler /\ UNCHANGED <<order, todo, gone>>

Next ==
  \/ \E h \in Idlers : Start(h) \/ Stop(h) \/ Close(h)
  \/ TurnBegins \/ Call \/ Return

Spec == Init /\ [][Next]_watcherVars
=============================================================================
