------------------------------ MODULE WinSignal ------------------------------
(***************************************************************************)
(* Signal handles on Windows, win/signal.c: the system runs the control    *)
(* handler on a thread of its own, which walks the tree of watchers under  *)
(* a lock, marks each and posts its one request to its loop.  Without the  *)
(* lock the loop takes the mark, calls back, and closes; the flags of a    *)
(* handle are loaded and stored by both threads.                           *)
(***************************************************************************)
EXTENDS Naturals, FiniteSets

CONSTANTS SigHandles, SigNums, NoSig,  \* watchers; signals; 0, or no handle
          OneShots,   \* the watchers started with uv_signal_start_oneshot
          MaxRaises, MaxSigStarts  \* bounds

VARIABLES
  signum, pending_signum, wflags,  \* of each handle
  posted,      \* its signal_req is posted to the loop
  raising,     \* the control handler: the signal, its walk's rest, the handle in
               \* hand, the flags it loaded
  ls_pc,       \* the loop: run, or what it does with the handle ls_handle
  ls_handle, ls_signum, ls_flags,
  in_callback, \* the handle whose signal_cb runs
  sig_raised, sig_starts, \* bounded counters
  owed         \* history: the signals each watcher was marked for since it started

wsigVars == <<signum, pending_signum, wflags, posted, raising, ls_pc, ls_handle, ls_signum,
              ls_flags, in_callback, sig_raised, sig_starts, owed>>
walk == <<raising, sig_raised>>
loopAt == <<ls_pc, ls_handle, ls_signum, ls_flags>>

Still == [sig |-> NoSig, todo |-> {}, h |-> NoSig, flags |-> {}]

Init ==
  /\ signum = [h \in SigHandles |-> NoSig] /\ pending_signum = [h \in SigHandles |-> NoSig]
  /\ wflags = [h \in SigHandles |-> {}] /\ posted = [h \in SigHandles |-> 0]
  /\ raising = Still /\ ls_pc = "run" /\ ls_handle = NoSig /\ ls_signum = NoSig /\ ls_flags = {}
  /\ in_callback = NoSig /\ sig_raised = 0 /\ sig_starts = 0
  /\ owed = [h \in SigHandles |-> FALSE]

LockFree == raising.sig = NoSig

-----------------------------------------------------------------------------
(* uv__signal_dispatch, on the system's thread. *)

Raise ==
  /\ LockFree /\ sig_raised < MaxRaises /\ sig_raised' = sig_raised + 1
  /\ \E s \in SigNums :
       raising' = [Still EXCEPT !.sig = s, !.todo = {h \in SigHandles : signum[h] = s}]
  /\ UNCHANGED <<signum, pending_signum, wflags, posted, loopAt, in_callback, sig_starts, owed>>

\* Variant of Mark: the request is posted for every signal.
MarkAlways(h) ==
  /\ h \in raising.todo /\ raising.h = NoSig
  /\ pending_signum' = [pending_signum EXCEPT ![h] = raising.sig]
  /\ IF "DISPATCHED" \in wflags[h]
     THEN raising' = [raising EXCEPT !.todo = @ \ {h}] /\ UNCHANGED <<posted, owed>>
     ELSE /\ posted' = [posted EXCEPT ![h] = @ + 1]
          /\ owed' = [owed EXCEPT ![h] = TRUE]
          /\ raising' = [raising EXCEPT !.todo = @ \ {h}, !.flags = wflags[h],
                                        !.h = IF "ONE_SHOT" \in wflags[h] THEN h ELSE NoSig]
  /\ UNCHANGED <<signum, wflags, loopAt, in_callback, sig_raised, sig_starts>>

\* One watcher is marked, and its request posted unless a mark was there.  A
\* one-shot's flags are loaded, to be stored by the next step.
Mark(h) ==
  /\ h \in raising.todo /\ raising.h = NoSig
  /\ pending_signum' = [pending_signum EXCEPT ![h] = raising.sig]
  /\ IF "DISPATCHED" \in wflags[h]
     THEN raising' = [raising EXCEPT !.todo = @ \ {h}] /\ UNCHANGED <<posted, owed>>
     ELSE /\ posted' = [posted EXCEPT ![h] = IF pending_signum[h] = NoSig THEN @ + 1 ELSE @]
          /\ owed' = [owed EXCEPT ![h] = TRUE]
          /\ raising' = [raising EXCEPT !.todo = @ \ {h}, !.flags = wflags[h],
                                        !.h = IF "ONE_SHOT" \in wflags[h] THEN h ELSE NoSig]
  /\ UNCHANGED <<signum, wflags, loopAt, in_callback, sig_raised, sig_starts>>

MarkDispatched ==
  /\ raising.h # NoSig
  /\ wflags' = [wflags EXCEPT ![raising.h] = raising.flags \cup {"DISPATCHED"}]
  /\ raising' = [raising EXCEPT !.h = NoSig]
  /\ UNCHANGED <<signum, pending_signum, posted, loopAt, in_callback, sig_raised, sig_starts, owed>>

DispatchEnds ==
  /\ ~LockFree /\ raising.todo = {} /\ raising.h = NoSig /\ raising' = Still
  /\ UNCHANGED <<signum, pending_signum, wflags, posted, loopAt, in_callback, sig_raised,
                 sig_starts, owed>>

-----------------------------------------------------------------------------
(* The program, on the loop's thread. *)

UserRuns(h) == ls_pc = "run" /\ "CLOSING" \notin wflags[h]

\* uv_signal_stop, which takes the lock if the handle was started.
Stopped(h) ==
  /\ signum[h] # NoSig => LockFree
  /\ signum' = [signum EXCEPT ![h] = NoSig] /\ owed' = [owed EXCEPT ![h] = FALSE]

\* uv__signal_start for a signal the handle does not watch yet.  An older start is
\* undone first, in a locked section of its own.
Start(h, s) ==
  /\ UserRuns(h) /\ signum[h] # s /\ sig_starts < MaxSigStarts
  /\ Stopped(h)
  /\ wflags' = [wflags EXCEPT ![h] = IF signum[h] = NoSig THEN @ ELSE @ \ {"ACTIVE"}]
  /\ sig_starts' = sig_starts + 1
  /\ ls_pc' = "insert" /\ ls_handle' = h /\ ls_signum' = s
  /\ UNCHANGED <<pending_signum, posted, walk, ls_flags, in_callback>>

Insert ==
  /\ ls_pc = "insert" /\ LockFree
  /\ signum' = [signum EXCEPT ![ls_handle] = ls_signum]
  /\ wflags' = [wflags EXCEPT ![ls_handle] =
                  IF ls_handle \in OneShots THEN @ \cup {"ONE_SHOT"} ELSE @]
  /\ ls_pc' = "activate"
  /\ UNCHANGED <<pending_signum, posted, walk, ls_handle, ls_signum, ls_flags, in_callback,
                 sig_starts, owed>>

\* uv__handle_start, after the lock: load the flags ...
Activate ==
  /\ ls_pc = "activate" /\ ls_flags' = wflags[ls_handle] /\ ls_pc' = "store"
  /\ UNCHANGED <<signum, pending_signum, wflags, posted, walk, ls_handle, ls_signum,
                 in_callback, sig_starts, owed>>

\* ... and store them.
ActivateStore ==
  /\ ls_pc = "store" /\ wflags' = [wflags EXCEPT ![ls_handle] = ls_flags \cup {"ACTIVE"}]
  /\ ls_pc' = "run" /\ ls_handle' = NoSig /\ ls_signum' = NoSig /\ ls_flags' = {}
  /\ UNCHANGED <<signum, pending_signum, posted, walk, in_callback, sig_starts, owed>>

Stop(h) ==
  /\ UserRuns(h) /\ signum[h] # NoSig /\ Stopped(h)
  /\ wflags' = [wflags EXCEPT ![h] = @ \ {"ACTIVE"}]
  /\ UNCHANGED <<pending_signum, posted, walk, loopAt, in_callback, sig_starts>>

\* uv_signal_close: a request that is posted is waited for.
Close(h) ==
  /\ UserRuns(h) /\ Stopped(h)
  /\ wflags' = [wflags EXCEPT ![h] = (@ \ {"ACTIVE"}) \cup {"CLOSING"} \cup
                  (IF pending_signum[h] = NoSig THEN {"ENDGAME_QUEUED"} ELSE {})]
  /\ UNCHANGED <<pending_signum, posted, walk, loopAt, in_callback, sig_starts>>

-----------------------------------------------------------------------------
(* The loop. *)

\* uv_process_signal_req: the mark is taken; the signal may be one the handle does
\* not watch any more.
ProcessReq(h) ==
  /\ ls_pc = "run" /\ in_callback = NoSig /\ posted[h] # 0
  /\ posted' = [posted EXCEPT ![h] = @ - 1]
  /\ pending_signum' = [pending_signum EXCEPT ![h] = NoSig]
  /\ IF pending_signum[h] = signum[h] /\ signum[h] # NoSig
     THEN in_callback' = h /\ owed' = [owed EXCEPT ![h] = FALSE] /\ UNCHANGED loopAt
     ELSE ls_pc' = "after" /\ ls_handle' = h /\ UNCHANGED <<in_callback, owed, ls_signum, ls_flags>>
  /\ UNCHANGED <<signum, wflags, walk, sig_starts>>

CallbackReturns ==
  /\ ls_pc = "run" /\ in_callback # NoSig
  /\ ls_pc' = "after" /\ ls_handle' = in_callback /\ in_callback' = NoSig
  /\ UNCHANGED <<signum, pending_signum, wflags, posted, walk, ls_signum, ls_flags, sig_starts, owed>>

\* After the callback: a one-shot is stopped, a closing handle goes to its endgame.
After ==
  /\ ls_pc = "after" /\ ls_pc' = "run" /\ ls_handle' = NoSig
  /\ LET h == ls_handle
     IN  /\ IF "ONE_SHOT" \in wflags[h] THEN Stopped(h) ELSE UNCHANGED <<signum, owed>>
         /\ wflags' = [wflags EXCEPT ![h] =
              (IF "ONE_SHOT" \in @ /\ signum[h] # NoSig THEN @ \ {"ACTIVE"} ELSE @) \cup
              (IF "CLOSING" \in @ THEN {"ENDGAME_QUEUED"} ELSE {})]
  /\ UNCHANGED <<pending_signum, posted, walk, ls_signum, ls_flags, in_callback, sig_starts>>

\* uv_process_endgames, uv_signal_endgame; the close callback may free the handle.
Endgame(h) ==
  /\ ls_pc = "run" /\ in_callback = NoSig
  /\ "ENDGAME_QUEUED" \in wflags[h]
  /\ wflags' = [wflags EXCEPT ![h] = (@ \ {"ENDGAME_QUEUED"}) \cup {"CLOSED"}]
  /\ UNCHANGED <<signum, pending_signum, posted, walk, loopAt, in_callback, sig_starts, owed>>

Next ==
  \/ Raise \/ MarkDispatched \/ DispatchEnds \/ Insert \/ Activate \/ ActivateStore
  \/ CallbackReturns \/ After
  \/ \E h \in SigHandles :
       \/ Mark(h) \/ Stop(h) \/ Close(h) \/ ProcessReq(h) \/ Endgame(h)
       \/ \E s \in SigNums : Start(h, s)

Spec == Init /\ [][Next]_wsigVars

-----------------------------------------------------------------------------
\* win/signal.c: the one request of a handle is posted once at a time, and then the
\* handle is marked (the assert of uv_process_signal_req); a signal a watcher was
\* marked for, and has watched since, is still to be called back.
WinSignalCarried ==
  \A h \in SigHandles :
    /\ posted[h] <= 1 /\ (posted[h] = 1 => pending_signum[h] # NoSig)
    /\ owed[h] => posted[h] = 1 /\ pending_signum[h] = signum[h]

\* win/signal.c: a mark without a request is left only on a one-shot that has been
\* dispatched; any other closing handle is waited for or in the endgame.
WinSignalEndsWaited ==
  \A h \in SigHandles :
    pending_signum[h] # NoSig => posted[h] = 1 \/ "DISPATCHED" \in wflags[h]

\* uv_signal_endgame asserts it: no signal is pending when the handle is finished.
EndgameNotPending ==
  \A h \in SigHandles : "CLOSED" \in wflags[h] => pending_signum[h] = NoSig
=============================================================================
