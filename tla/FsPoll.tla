-------------------------------- MODULE FsPoll --------------------------------
(***************************************************************************)
(* One uv_fs_poll_t (fs-poll.c): a poll context alternates between a stat  *)
(* request in the thread pool and a timer, until the handle is stopped or  *)
(* closed.  A context outlives its handle's interest in it: what is under  *)
(* way when the handle lets go of it has to free it.  The file and the     *)
(* thread pool are the environment; allocation failures are left out.      *)
(***************************************************************************)
EXTENDS Naturals

CONSTANTS Ctxs,    \* addresses of poll contexts
          NoCtx,   \* NULL
          Stats,   \* what a successful stat can return
          Errors   \* the errors a stat can fail with

VARIABLES
  handle,   \* uv_fs_poll_t: open, closing, closed
  poll_ctx, \* handle->poll_ctx; the handle is active while it is not NULL
  ctx,      \* what is known of the context at an address
  file,     \* what a stat of the path finds now
  lpc,      \* the loop: run, or inside poll_cb (tell: in the user's callback; out)
  current,  \* the context of the poll_cb under way
  view      \* history: what the user knows of the file, from a context's polls

fpVars == <<handle, poll_ctx, ctx, file, lpc, current, view>>

Results == Stats \cup Errors
Fresh == [parent |-> FALSE, req |-> "none", timer |-> "free", busy |-> "no", statbuf |-> "zero"]

Init ==
  /\ handle = "open" /\ poll_ctx = NoCtx
  /\ ctx = [c \in Ctxs |-> Fresh]
  /\ file \in Results /\ lpc = "run" /\ current = NoCtx
  /\ view = [c \in Ctxs |-> "nothing"]

FileChanges ==
  /\ file' \in Results \ {file}
  /\ UNCHANGED <<handle, poll_ctx, ctx, lpc, current, view>>

-----------------------------------------------------------------------------
(* The user's calls, between callbacks or inside the poll callback. *)

UserRuns == lpc \in {"run", "tell"}

\* uv_fs_poll_start of an inactive handle: a context, and its first stat.
Start(c) ==
  /\ UserRuns /\ handle = "open" /\ poll_ctx = NoCtx /\ ctx[c].timer = "free"
  /\ ctx' = [ctx EXCEPT ![c] = [Fresh EXCEPT !.parent = TRUE, !.timer = "idle", !.req = "busy"]]
  /\ poll_ctx' = c
  /\ view' = [view EXCEPT ![c] = "nothing"]
  /\ UNCHANGED <<handle, file, lpc, current>>

\* Variant of StoppedCtx: the timer is closed whether it is active or not.
StoppedCtxAlways(x) == [x EXCEPT !.parent = FALSE, !.timer = "closing"]

\* Variant of StoppedCtx: an active timer is left to poll_cb as well.
StoppedCtxNever(x) == [x EXCEPT !.parent = FALSE]

\* What uv_fs_poll_stop does to the context: its timer is closed if it is active;
\* otherwise a stat is in progress, or poll_cb is, and poll_cb closes it.
StoppedCtx(x) ==
  [x EXCEPT !.parent = FALSE, !.timer = IF @ = "active" THEN "closing" ELSE @]

StopCtx ==
  /\ ctx' = [c \in Ctxs |-> IF c = poll_ctx THEN StoppedCtx(ctx[c]) ELSE ctx[c]]
  /\ poll_ctx' = NoCtx

Stop ==
  /\ UserRuns /\ handle = "open" /\ poll_ctx # NoCtx
  /\ StopCtx
  /\ UNCHANGED <<handle, file, lpc, current, view>>

\* uv_close: uv__fs_poll_close stops; the close callback comes with the endgame.
Close ==
  /\ UserRuns /\ handle = "open"
  /\ StopCtx
  /\ handle' = "closing"
  /\ UNCHANGED <<file, lpc, current, view>>

CloseCb ==
  /\ lpc = "run" /\ handle = "closing"
  /\ handle' = "closed"
  /\ UNCHANGED <<poll_ctx, ctx, file, lpc, current, view>>

-----------------------------------------------------------------------------
(* What the loop runs. *)

\* The thread pool has done the stat; poll_cb is due.
StatDone(c) ==
  /\ ctx[c].req = "busy"
  /\ ctx' = [ctx EXCEPT ![c].req = file]
  /\ UNCHANGED <<handle, poll_ctx, file, lpc, current, view>>

\* timer_cb: the next stat.
TimerCb(c) ==
  /\ lpc = "run" /\ ctx[c].timer = "active"
  /\ ctx' = [ctx EXCEPT ![c].timer = "idle", ![c].req = "busy"]
  /\ UNCHANGED <<handle, poll_ctx, file, lpc, current, view>>

\* timer_close_cb frees the context.
TimerCloseCb(c) ==
  /\ lpc = "run" /\ ctx[c].timer = "closing"
  /\ ctx' = [ctx EXCEPT ![c] = Fresh]
  /\ UNCHANGED <<handle, poll_ctx, file, lpc, current, view>>

\* poll_cb of a context whose handle was stopped or closed.
PollCbStopped(c) ==
  /\ lpc = "run" /\ ctx[c].req \in Results /\ ~ctx[c].parent
  /\ ctx' = [ctx EXCEPT ![c].timer = "closing", ![c].req = "none"]
  /\ UNCHANGED <<handle, poll_ctx, file, lpc, current, view>>

\* Variant of Tells: a success after an error is compared with the last success.
TellsChangeOnly(x, r) ==
  IF r \in Errors THEN x.busy # r ELSE x.busy # "no" /\ x.statbuf # r

\* Whether poll_cb calls the user for the result r: an error that is not the
\* error before, a success after an error, a success that differs from the one
\* before; never the first success.
Tells(x, r) ==
  IF r \in Errors THEN x.busy # r
                  ELSE x.busy # "no" /\ (x.busy # "yes" \/ x.statbuf # r)

\* poll_cb up to and with the user's callback, if there is one.
PollCb(c) ==
  LET x == ctx[c]
      r == x.req
  IN  /\ lpc = "run" /\ r \in Results /\ x.parent
      /\ ctx' = [ctx EXCEPT ![c] = [x EXCEPT !.req = "none",
                   !.busy = IF r \in Errors THEN r ELSE "yes",
                   !.statbuf = IF r \in Errors THEN @ ELSE r]]
      /\ view' = [view EXCEPT ![c] = IF Tells(x, r) \/ (x.busy = "no" /\ r \in Stats)
                                       THEN r ELSE @]
      /\ lpc' = IF Tells(x, r) THEN "tell" ELSE "out"
      /\ current' = c
      /\ UNCHANGED <<handle, poll_ctx, file>>

UserReturns ==
  /\ lpc = "tell" /\ lpc' = "out"
  /\ UNCHANGED <<handle, poll_ctx, ctx, file, current, view>>

\* Variant of PollOut: the timer is started without a second look at the parent.
PollOutUnchecked ==
  /\ lpc = "out"
  /\ ctx' = [ctx EXCEPT ![current].timer = "active"]
  /\ lpc' = "run" /\ current' = NoCtx
  /\ UNCHANGED <<handle, poll_ctx, file, view>>

\* poll_cb after the callback, which may have stopped the handle, or stopped it
\* and started it again with another context.
PollOut ==
  /\ lpc = "out"
  /\ ctx' = [ctx EXCEPT ![current].timer = IF ctx[current].parent THEN "active" ELSE "closing"]
  /\ lpc' = "run" /\ current' = NoCtx
  /\ UNCHANGED <<handle, poll_ctx, file, view>>

Next ==
  \/ FileChanges \/ Stop \/ Close \/ CloseCb \/ UserReturns \/ PollOut
  \/ \E c \in Ctxs : \/ Start(c) \/ StatDone(c) \/ TimerCb(c) \/ TimerCloseCb(c)
                     \/ PollCbStopped(c) \/ PollCb(c)

Spec == Init /\ [][Next]_fpVars

-----------------------------------------------------------------------------
(* Properties. *)

\* Of a context that is allocated exactly one thing is under way: its stat, its
\* timer, the timer's close, or poll_cb.  With none it leaks and the polling
\* stops; with two it is freed under the other's feet.  Only the handle's own
\* context has a parent, it is never being freed, and no timer runs for another:
\* timer_cb asserts that.
FsContextHasOneOwner ==
  \A c \in Ctxs :
    LET Ways == {w \in {"stat", "timer", "close", "poll_cb"} :
                   CASE w = "stat"    -> ctx[c].req # "none"
                     [] w = "timer"   -> ctx[c].timer = "active"
                     [] w = "close"   -> ctx[c].timer = "closing"
                     [] w = "poll_cb" -> c = current}
    IN  /\ IF ctx[c].timer = "free" THEN Ways = {} ELSE \E w \in Ways : Ways = {w}
        /\ ctx[c].parent <=> c = poll_ctx
        /\ ctx[c].parent => ctx[c].timer # "closing"
        /\ ctx[c].timer = "active" => ctx[c].parent

\* The user always knows what the last stat of the running context found.
FsUserKnowsLastStat ==
  \A c \in Ctxs : ctx[c].parent /\ ctx[c].busy # "no"
                    => view[c] = IF ctx[c].busy = "yes" THEN ctx[c].statbuf ELSE ctx[c].busy
=============================================================================
