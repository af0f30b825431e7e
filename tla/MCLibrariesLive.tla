-------------------------- MODULE MCLibrariesLive --------------------------
(***************************************************************************)
(* What must happen in libuv and in the logger in the end, for TLC:        *)
(* libuv's thread pool, its threading primitives and its handles on        *)
(* Windows. They share nothing but, some of them, the loop, which takes    *)
(* what happened to them in any order, so a behaviour exercises one of     *)
(* them, which the initial state chooses.                                  *)
(***************************************************************************)
EXTENDS Naturals, Sequences, FiniteSets

CONSTANTS Workers, Requests, Loop, MaxCancels,  \* of Threadpool
          Threads, Rounds, PosixRounds,     \* of the barriers, the lock and uv_once
          MaxReads,                         \* of PipeReadCancel
          Writes, MaxTwice,                 \* of WinPipe and WinTcp
          Instances, First, Accepts, MaxAccepts,  \* of WinPipeServer and WinTcpServer
          Events, Watches, MaxSets,         \* of WinPoll
          Idlers, NoIdler,                  \* of the loop watchers
          MaxKeys, MaxReadStarts,           \* of WinTty
          LogThreads, Blocks, Paths, MaxLogs, MaxChanges, FreeLimit  \* of Log4z

\* So many threads, none of which is what stands for no owner; the exit message is no
\* request, and the loop is no worker.
ASSUME ThreadsAssumption ==
  /\ IsFiniteSet(Threads) /\ {"free", "null"} \cap Threads = {}
  /\ Rounds \in Nat \ {0} /\ PosixRounds \in Nat \ {0}
ASSUME PoolAssumption ==
  /\ Workers # {} /\ {"free", Loop} \cap Workers = {} /\ Loop # "free"
  /\ "exit_message" \notin Requests
ASSUME PollAssumption == "LOCAL_CLOSE" \notin Events
ASSUME WatchersAssumption == IsFiniteSet(Idlers) /\ NoIdler \notin Idlers

VARIABLES
  part,
  mutex, wq_mutex, wq, idle, wpc, wjob, linked, work, ran, done, loop_wq, wq_async, batch,
  loop_pc, target, cancels, cancelled, exiting,
  wb_mutex, wb_count, turnstile, wb_pc, wb_entered, wb_left, wb_serials,
  pb_in, pb_out, pb_pc, pb_destroy, pb_entered, pb_left, pb_serials,
  num_readers_, num_readers_lock_, write_semaphore_, rw_pc,
  event, signalled, once_ran, on_pc, callbacks, handles,
  thread_ptr, lock, main_pc, worker_pc, aborted, read_pending, cancel_pending, data, reads,
  flags, overlapped, handle, os_open, reqs_pending, activecnt, write_reqs_pending,
  shutdown_req, write_queue, req, result, called, read, eof_timer, pc,
  ps_flags, instance, open, pending_accepts, ps_reqs_pending, ps_activecnt, announced,
  accepted, ps_pc,
  wt_flags, socket, wt_reqs, wt_active, wt_writes, wt_shutdown, wt_req, status, wt_read,
  wt_pc, twice,
  areq, held, ts_flags, processed, accepting, tstate, tlpc, lost, retired, came,
  events, active, submitted, mask, preq, report, pstate, plpc, told, ready, sets,
  head, next_handle, link, wl_calling, wl_gone,
  name_handles, queue, ul_active, ul_calling, ul_gone,
  tflags, console, tactive, treqs, line_buffer, half_key, posted_read, raw_wait, rpc,
  read_console_status, output_lock, input, ttpc, call, base, mistaken, keys, tstarts,
  _runing, _enable, _level, _path, _outfile, _handle, _logs, _logsCache, _freeLogDatas,
  heap, log_data, app, log_count, changes, log, log_main, wrote, durable, discarded, owed,
  pushed, queued_path, due

TP == INSTANCE Threadpool WITH Reqs <- Requests
WB == INSTANCE WinBarrier WITH
        entered <- wb_entered, left <- wb_left,
        serials <- wb_serials
PB == INSTANCE PosixBarrier WITH
        Rounds <- PosixRounds, entered <- pb_entered, left <- pb_left, serials <- pb_serials
RW == INSTANCE WinRwlock
ON == INSTANCE WinOnce
RC == INSTANCE PipeReadCancel
WP == INSTANCE WinPipe
PS == INSTANCE WinPipeServer
WT == INSTANCE WinTcp WITH
        flags <- wt_flags, reqs_pending <- wt_reqs,
        activecnt <- wt_active, write_reqs_pending <- wt_writes, shutdown_req <- wt_shutdown,
        req <- wt_req, read <- wt_read, pc <- wt_pc
TS == INSTANCE WinTcpServer WITH flags <- ts_flags
PO == INSTANCE WinPoll
WW == INSTANCE WinLoopWatchers
UW == INSTANCE UnixLoopWatchers
TT == INSTANCE WinTty WITH status <- read_console_status
LO == INSTANCE Log4z WITH
        Threads <- LogThreads, data <- log_data, count <- log_count, main <- log_main

poolVars == <<mutex, wq_mutex, wq, idle, wpc, wjob, linked, work, ran, done, loop_wq,
              wq_async, batch, loop_pc, target, cancels, cancelled, exiting>>
winBarrierVars == <<wb_mutex, wb_count, turnstile, wb_pc, wb_entered, wb_left, wb_serials>>
posixBarrierVars == <<pb_in, pb_out, pb_pc, pb_destroy, pb_entered, pb_left, pb_serials>>
rwlockVars == <<num_readers_, num_readers_lock_, write_semaphore_, rw_pc>>
onceVars == <<event, signalled, once_ran, on_pc, callbacks, handles>>
readCancelVars == <<thread_ptr, lock, main_pc, worker_pc, aborted, read_pending,
                    cancel_pending, data, reads>>
pipeVars == <<flags, overlapped, handle, os_open, reqs_pending, activecnt,
              write_reqs_pending, shutdown_req, write_queue, req, result, called, read,
              eof_timer, pc>>
pipeServerVars == <<ps_flags, instance, open, pending_accepts, ps_reqs_pending,
                    ps_activecnt, announced, accepted, ps_pc>>
tcpVars == <<wt_flags, socket, wt_reqs, wt_active, wt_writes, wt_shutdown, wt_req, status,
             wt_read, wt_pc, twice>>
tcpServerVars == <<areq, held, ts_flags, processed, accepting, tstate, tlpc, lost, retired,
                   came>>
pollVars == <<events, active, submitted, mask, preq, report, pstate, plpc, told, ready, sets>>
winWatcherVars == <<head, next_handle, link, wl_calling, wl_gone>>
unixWatcherVars == <<name_handles, queue, ul_active, ul_calling, ul_gone>>
ttyVars == <<tflags, console, tactive, treqs, line_buffer, half_key, posted_read, raw_wait,
             rpc, read_console_status, output_lock, input, ttpc, call, base, mistaken, keys,
             tstarts>>
loggerVars == <<_runing, _enable, _level, _path, _outfile, _handle, _logs, _logsCache,
                _freeLogDatas, heap, log_data, app, log_count, changes, log, log_main,
                wrote, durable, discarded, owed, pushed, queued_path, due>>
vars == <<part, poolVars, winBarrierVars, posixBarrierVars, rwlockVars, onceVars,
          readCancelVars, pipeVars, pipeServerVars, tcpVars, tcpServerVars, pollVars,
          winWatcherVars, unixWatcherVars, ttyVars, loggerVars>>

Init ==
  /\ part \in {"threadpool", "win barrier", "posix barrier", "rwlock", "once",
               "read cancel", "pipe", "pipe server", "tcp", "tcp server", "poll",
               "win watchers", "unix watchers", "tty", "logger"}
  /\ TP!Init /\ WB!Init /\ PB!Init /\ RW!Init /\ ON!Init /\ RC!Init /\ WP!Init /\ PS!Init
     /\ WT!Init /\ TS!Init /\ PO!Init /\ WW!Init /\ UW!Init /\ TT!Init /\ LO!Init
  /\ part # "pipe" => overlapped

\* A step of one part leaves the others alone.
OnlyThreadpool ==
  /\ part = "threadpool"
  /\ UNCHANGED <<part, winBarrierVars, posixBarrierVars, rwlockVars, onceVars,
                 readCancelVars, pipeVars, pipeServerVars, tcpVars, tcpServerVars, pollVars,
                 winWatcherVars, unixWatcherVars, ttyVars, loggerVars>>
OnlyWinBarrier ==
  /\ part = "win barrier"
  /\ UNCHANGED <<part, poolVars, posixBarrierVars, rwlockVars, onceVars, readCancelVars,
                 pipeVars, pipeServerVars, tcpVars, tcpServerVars, pollVars, winWatcherVars,
                 unixWatcherVars, ttyVars, loggerVars>>
OnlyPosixBarrier ==
  /\ part = "posix barrier"
  /\ UNCHANGED <<part, poolVars, winBarrierVars, rwlockVars, onceVars, readCancelVars,
                 pipeVars, pipeServerVars, tcpVars, tcpServerVars, pollVars, winWatcherVars,
                 unixWatcherVars, ttyVars, loggerVars>>
OnlyRwlock ==
  /\ part = "rwlock"
  /\ UNCHANGED <<part, poolVars, winBarrierVars, posixBarrierVars, onceVars, readCancelVars,
                 pipeVars, pipeServerVars, tcpVars, tcpServerVars, pollVars, winWatcherVars,
                 unixWatcherVars, ttyVars, loggerVars>>
OnlyOnce ==
  /\ part = "once"
  /\ UNCHANGED <<part, poolVars, winBarrierVars, posixBarrierVars, rwlockVars,
                 readCancelVars, pipeVars, pipeServerVars, tcpVars, tcpServerVars, pollVars,
                 winWatcherVars, unixWatcherVars, ttyVars, loggerVars>>
OnlyReadCancel ==
  /\ part = "read cancel"
  /\ UNCHANGED <<part, poolVars, winBarrierVars, posixBarrierVars, rwlockVars, onceVars,
                 pipeVars, pipeServerVars, tcpVars, tcpServerVars, pollVars, winWatcherVars,
                 unixWatcherVars, ttyVars, loggerVars>>
OnlyPipe ==
  /\ part = "pipe"
  /\ UNCHANGED <<part, poolVars, winBarrierVars, posixBarrierVars, rwlockVars, onceVars,
                 readCancelVars, pipeServerVars, tcpVars, tcpServerVars, pollVars,
                 winWatcherVars, unixWatcherVars, ttyVars, loggerVars>>
OnlyPipeServer ==
  /\ part = "pipe server"
  /\ UNCHANGED <<part, poolVars, winBarrierVars, posixBarrierVars, rwlockVars, onceVars,
                 readCancelVars, pipeVars, tcpVars, tcpServerVars, pollVars, winWatcherVars,
                 unixWatcherVars, ttyVars, loggerVars>>
OnlyTcp ==
  /\ part = "tcp"
  /\ UNCHANGED <<part, poolVars, winBarrierVars, posixBarrierVars, rwlockVars, onceVars,
                 readCancelVars, pipeVars, pipeServerVars, tcpServerVars, pollVars,
                 winWatcherVars, unixWatcherVars, ttyVars, loggerVars>>
OnlyTcpServer ==
  /\ part = "tcp server"
  /\ UNCHANGED <<part, poolVars, winBarrierVars, posixBarrierVars, rwlockVars, onceVars,
                 readCancelVars, pipeVars, pipeServerVars, tcpVars, pollVars,
                 winWatcherVars, unixWatcherVars, ttyVars, loggerVars>>
OnlyPoll ==
  /\ part = "poll"
  /\ UNCHANGED <<part, poolVars, winBarrierVars, posixBarrierVars, rwlockVars, onceVars,
                 readCancelVars, pipeVars, pipeServerVars, tcpVars, tcpServerVars,
                 winWatcherVars, unixWatcherVars, ttyVars, loggerVars>>
OnlyWinWatchers ==
  /\ part = "win watchers"
  /\ UNCHANGED <<part, poolVars, winBarrierVars, posixBarrierVars, rwlockVars, onceVars,
                 readCancelVars, pipeVars, pipeServerVars, tcpVars, tcpServerVars, pollVars,
                 unixWatcherVars, ttyVars, loggerVars>>
OnlyUnixWatchers ==
  /\ part = "unix watchers"
  /\ UNCHANGED <<part, poolVars, winBarrierVars, posixBarrierVars, rwlockVars, onceVars,
                 readCancelVars, pipeVars, pipeServerVars, tcpVars, tcpServerVars, pollVars,
                 winWatcherVars, ttyVars, loggerVars>>
OnlyTty ==
  /\ part = "tty"
  /\ UNCHANGED <<part, poolVars, winBarrierVars, posixBarrierVars, rwlockVars, onceVars,
                 readCancelVars, pipeVars, pipeServerVars, tcpVars, tcpServerVars, pollVars,
                 winWatcherVars, unixWatcherVars, loggerVars>>
OnlyLogger ==
  /\ part = "logger"
  /\ UNCHANGED <<part, poolVars, winBarrierVars, posixBarrierVars, rwlockVars, onceVars,
                 readCancelVars, pipeVars, pipeServerVars, tcpVars, tcpServerVars, pollVars,
                 winWatcherVars, unixWatcherVars, ttyVars>>

Next ==
  \/ OnlyThreadpool /\ TP!Next
  \/ OnlyWinBarrier /\ WB!Next
  \/ OnlyPosixBarrier /\ PB!Next
  \/ OnlyRwlock /\ RW!Next
  \/ OnlyOnce /\ ON!Next
  \/ OnlyReadCancel /\ RC!Next
  \/ OnlyPipe /\ WP!Next
  \/ OnlyPipeServer /\ PS!Next
  \/ OnlyTcp /\ WT!Next
  \/ OnlyTcpServer /\ TS!Next
  \/ OnlyPoll /\ PO!Next
  \/ OnlyWinWatchers /\ WW!Next
  \/ OnlyUnixWatchers /\ UW!Next
  \/ OnlyTty /\ TT!Next
  \/ OnlyLogger /\ LO!Next

\* The fairness of the parts of which liveness is asked.  One part runs in a
\* behaviour, so that one condition can serve several: the loop (for the logger its
\* own thread), what the system was told to end and the pipe's reader thread (for
\* the logger the thread that stops it), the threads of the pool.
LoopSteps ==
  \/ OnlyThreadpool /\ TP!LoopStep
  \/ OnlyReadCancel /\ (RC!Main \/ RC!ProcessRead)
  \/ OnlyPipe /\ WP!LoopStep
  \/ OnlyPipeServer /\ PS!LoopStep
  \/ OnlyTcp /\ WT!LoopStep
  \/ OnlyTcpServer /\ TS!LoopStep
  \/ OnlyPoll /\ PO!LoopStep
  \/ OnlyTty /\ TT!LoopGoesOn
  \/ OnlyLogger /\ LO!LogStep
SystemEnds ==
  \/ OnlyReadCancel /\ RC!Reader
  \/ OnlyPipe /\ WP!Has("CLOSING") /\ WP!System
  \/ OnlyPipeServer /\ \E i \in Instances : i \notin open /\ PS!AcceptCompletes(i)
  \/ OnlyTcp /\ WT!Has("CLOSING") /\ WT!System
  \/ OnlyPoll /\ PO!System
  \/ OnlyTty /\ TT!ReadingEnds
  \/ OnlyLogger /\ LO!MainStep

Fairness ==
  /\ WF_vars(LoopSteps) /\ WF_vars(SystemEnds)
  /\ \A w \in Workers : SF_vars(OnlyThreadpool /\ TP!WorkerStep(w))
  /\ SF_vars(OnlyReadCancel /\ RC!InterruptLock)

Spec == Init /\ [][Next]_vars /\ Fairness

-----------------------------------------------------------------------------
\* threadpool.c: each request is answered once, with the truth.
DoneOnceTruthfully == part = "threadpool" => TP!DoneOnceTruthfully

\* threadpool.c: each request is answered in the end; win/poll.c: an event that is
\* polled for is reported.
EveryWorkAnswered == TP!EveryWorkAnswered /\ PO!PollReports

\* win/thread.c and unix/thread.c: both barriers implement Barrier; win/loop-watcher.c
\* and unix/loop-watcher.c: prepare, check and idle handles implement LoopWatchers.
PlatformsAgree ==
  /\ WB!WinBarrierSpec /\ PB!PosixBarrierSpec
  /\ WW!WinWatchersSpec /\ UW!UnixWatchersSpec

\* win/thread.c: the read-write lock excludes writers, uv_once returns when its
\* callback has; unix/thread.c: a barrier that is destroyed is idle; win/pipe.c: a
\* cancel hits the pipe's own read; win/tty.c: the console is read once at a time, and
\* the lock on the screen that a cancel takes is released once, by who has to, as long
\* as no read of keys was cancelled as if it were a line's.
ThreadsExclude ==
  /\ part = "rwlock" => RW!RwExclusion
  /\ part = "once" => ON!OnceBeforeReturn
  /\ part = "read cancel" => RC!CancelHitsOwnRead
  /\ part = "posix barrier" => PB!DestroyedOnlyIdle
  /\ part = "tty" => TT!TtyLockReleased /\ TT!TtyReadsOnce

\* What the program asks to end does end, whatever was under way: a handle that is
\* closed gets its close callback, an interrupted read returns, the pool's workers
\* are joined at exit, the logger stops, a console's read is cancelled and the screen
\* unlocked: win/pipe.c, win/tcp.c, win/poll.c, win/tty.c, threadpool.c, log4z.cpp.
\* Excused are a connection whose read was queued twice, a poll whose requests could not
\* be told to return, until the socket makes them, a console closed under its read, until
\* the user presses a key, and one whose read of keys was cancelled as a line's.
EndBegun ==
  \/ TP!Exiting \/ RC!Interrupting \/ WP!Closing \/ PS!Closing \/ WT!Closing
  \/ TS!Closing \/ PO!Closing \/ LO!Stopping \/ TT!Waits
Ended ==
  \/ part = "threadpool" /\ TP!Joined
  \/ part = "read cancel" /\ RC!Interrupted
  \/ part = "pipe" /\ WP!Closed
  \/ part = "pipe server" /\ PS!Closed
  \/ part = "tcp" /\ WT!Closed
  \/ part = "tcp server" /\ TS!Closed
  \/ part = "poll" /\ PO!Closed
  \/ part = "logger" /\ LO!Stopped
  \/ part = "tty" /\ TT!Waited
Excused ==
  \/ part = "tcp" /\ twice > 0
  \/ part = "poll" /\ PO!AwaitsSocket
  \/ part = "tty" /\ (TT!AwaitsUser \/ mistaken)
EndsComplete == EndBegun ~> Ended \/ Excused
=============================================================================
