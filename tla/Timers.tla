------------------------------- MODULE Timers --------------------------------
(***************************************************************************)
(* libuv's timers, timer.c: uv_timer_start, uv_timer_stop, uv_timer_again, *)
(* uv_timer_set_repeat, uv_close and uv__run_timers, on the pointer heap   *)
(* of TimerHeap.  Times are unsigned and wrap.  A callback may call any of *)
(* the functions for any timer.                                            *)
(***************************************************************************)
EXTENDS Integers, FiniteSets

CONSTANTS TimerHandles, NoTimer,
          Timeouts,   \* what uv_timer_start may be given
          Repeats,    \* repeat values, 0 for none
          TimeWrap,   \* 2^64: the times are 0..TimeWrap - 1
          IntMax,     \* INT_MAX, the longest a poll may be told to wait
          MaxTimerStarts  \* bound: loop->timer_counter

H == INSTANCE TimerHeap WITH Heaped <- TimerHandles, Nil <- NoTimer

VARIABLES
  timer,    \* per handle: timeout, start_id, repeat, whether it has a callback, flags
  theap,    \* loop->timer_heap
  time,     \* loop->time
  timer_counter,
  tmpc,     \* out, run (in uv__run_timers), cb (in a callback)
  current_timer,  \* the timer called back
  asked,    \* history: when each timer was asked to fire, without wrapping
  overtaken \* history: active timers that were due before the one called back

timerVars == <<timer, theap, time, timer_counter, tmpc, current_timer, asked, overtaken>>

Init ==
  /\ timer = [t \in TimerHandles |-> [timeout |-> 0, id |-> 0, repeat |-> 0, cb |-> FALSE,
                                      active |-> FALSE, closed |-> FALSE]]
  /\ theap = H!Empty /\ time = 0 /\ timer_counter = 0
  /\ tmpc = "out" /\ current_timer = NoTimer
  /\ asked = [t \in TimerHandles |-> 0] /\ overtaken = {}

-----------------------------------------------------------------------------
(* A state of the timers and their heap is [timer, theap, counter, asked]. *)

Timers0 == [timer |-> timer, heap |-> theap, counter |-> timer_counter, asked |-> asked]
Becomes(s) ==
  timer' = s.timer /\ theap' = s.heap /\ timer_counter' = s.counter /\ asked' = s.asked

\* uv_timer_stop
Stopped(s, t) ==
  IF ~s.timer[t].active THEN s
  ELSE [s EXCEPT !.heap = H!Remove(@, s.timer, t), !.timer[t].active = FALSE]

\* Variant of Clamped: the sum of the times wraps.
ClampedNot(timeout) == (time + timeout) % TimeWrap

\* loop->time + timeout, or the last time there is.
Clamped(timeout) ==
  LET sum == (time + timeout) % TimeWrap IN IF sum < timeout THEN TimeWrap - 1 ELSE sum

\* uv_timer_start
Started(s, t, timeout, repeat) ==
  LET off == Stopped(s, t)
      set == [off.timer EXCEPT ![t] = [timeout |-> Clamped(timeout), id |-> s.counter,
                                       repeat |-> repeat, cb |-> TRUE, active |-> TRUE,
                                       closed |-> FALSE]]
  IN  [timer |-> set, heap |-> H!Insert(off.heap, set, t), counter |-> s.counter + 1,
       asked |-> [off.asked EXCEPT ![t] = time + timeout]]

\* uv_timer_again
Again(s, t) ==
  LET r == s.timer[t].repeat
  IN  IF s.timer[t].cb /\ r # 0 THEN Started(Stopped(s, t), t, r, r) ELSE s

-----------------------------------------------------------------------------
(* The program. *)

UserMay(t) == tmpc \in {"out", "cb"} /\ ~timer[t].closed
Rest == UNCHANGED <<time, tmpc, current_timer, overtaken>>

Start(t) ==
  /\ UserMay(t) /\ timer_counter < MaxTimerStarts
  /\ \E timeout \in Timeouts, repeat \in Repeats : Becomes(Started(Timers0, t, timeout, repeat))
  /\ Rest

Stop(t) == UserMay(t) /\ timer[t].active /\ Becomes(Stopped(Timers0, t)) /\ Rest

CallAgain(t) ==
  /\ UserMay(t) /\ timer_counter < MaxTimerStarts
  /\ Becomes(Again(Timers0, t)) /\ Rest

SetRepeat(t) ==
  /\ UserMay(t) /\ \E r \in Repeats : timer' = [timer EXCEPT ![t].repeat = r]
  /\ UNCHANGED <<theap, timer_counter, asked>> /\ Rest

\* uv_close, uv__timer_close
Close(t) ==
  /\ UserMay(t)
  /\ LET s == Stopped(Timers0, t) IN Becomes([s EXCEPT !.timer[t].closed = TRUE])
  /\ Rest

-----------------------------------------------------------------------------
(* The loop. *)

\* uv__update_time; the clock is not taken past its last value.
UpdateTime ==
  /\ tmpc = "out" /\ time < TimeWrap - 1 /\ time' \in time + 1..TimeWrap - 1
  /\ UNCHANGED <<timer, theap, timer_counter, tmpc, current_timer, asked, overtaken>>

RunTimers ==
  /\ tmpc = "out" /\ tmpc' = "run"
  /\ UNCHANGED <<timer, theap, time, timer_counter, current_timer, asked, overtaken>>

Due == theap.min # NoTimer /\ timer[theap.min].timeout <= time

EndTimers ==
  /\ tmpc = "run" /\ ~Due /\ tmpc' = "out"
  /\ UNCHANGED <<timer, theap, time, timer_counter, current_timer, asked, overtaken>>

\* When a timer is to fire: what was asked for, or the end of time.
When(t) == IF asked[t] > TimeWrap - 1 THEN TimeWrap - 1 ELSE asked[t]
Before(t, u) == When(t) < When(u) \/ (When(t) = When(u) /\ timer[t].id < timer[u].id)

\* The first timer is stopped, started again if it repeats, and called back.
RunTimer ==
  /\ tmpc = "run" /\ Due
  /\ timer[theap.min].repeat = 0 \/ timer_counter < MaxTimerStarts
  /\ current_timer' = theap.min
  /\ Becomes(Again(Stopped(Timers0, theap.min), theap.min))
  /\ overtaken' = {t \in TimerHandles : timer[t].active /\ Before(t, theap.min)}
                  \cup {t \in {theap.min} : When(t) > time}
  /\ tmpc' = "cb" /\ UNCHANGED time

CallbackReturns ==
  /\ tmpc = "cb" /\ tmpc' = "run" /\ current_timer' = NoTimer
  /\ UNCHANGED <<timer, theap, time, timer_counter, asked, overtaken>>

\* uv__next_timeout: how long the loop may wait, -1 for ever.
NextTimeout ==
  IF theap.min = NoTimer THEN -1
  ELSE IF timer[theap.min].timeout <= time THEN 0
  ELSE LET diff == timer[theap.min].timeout - time IN IF diff > IntMax THEN IntMax ELSE diff

Next ==
  \/ \E t \in TimerHandles : Start(t) \/ Stop(t) \/ CallAgain(t) \/ SetRepeat(t) \/ Close(t)
  \/ UpdateTime \/ RunTimers \/ RunTimer \/ EndTimers \/ CallbackReturns

Spec == Init /\ [][Next]_timerVars

-----------------------------------------------------------------------------
\* heap-inl.h: whatever is started and stopped, and in whatever callback, the heap
\* holds the active timers and is well formed.
TimerHeapSound == H!HeapOf(theap, {t \in TimerHandles : timer[t].active}, timer)

\* timer.c: no timer is called before its time, however long that was, or after
\* one that is due later; of two due at once the one started first is first.
TimersInOrder == tmpc = "cb" => overtaken = {}

\* timer.c: the poll waits for the first of all active timers and no longer.
PollWaitsForTimers ==
  LET waits == {When(t) - time : t \in {u \in TimerHandles : timer[u].active}}
  IN  /\ (NextTimeout = -1) = (waits = {})
      /\ \A w \in waits : NextTimeout <= (IF w < 0 THEN 0 ELSE w)
      /\ NextTimeout > 0 => NextTimeout = IntMax \/ NextTimeout \in waits
=============================================================================
