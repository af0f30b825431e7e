-------------------------- MODULE MCLibrariesSafe --------------------------
(***************************************************************************)
(* Handles of libuv and the logger, side by side, for TLC; only safety is  *)
(* asked of them here. They share nothing but, some of them, the loop,     *)
(* which takes what happened to them in any order, so a behaviour          *)
(* exercises one of them, which the initial state chooses.                 *)
(***************************************************************************)
EXTENDS Naturals, Sequences, FiniteSets

CONSTANTS Writes, Size,       \* of UnixStream, WinPipe and WinTcp
          MaxTwice,                   \* of WinTcp
          Asyncs, Silent, Senders, MaxSends,  \* of UnixAsync
          Signals, Signums, PipeCap, MaxSignals, MaxStarts,  \* of UnixSignal
          Ctxs, Stats, Errors,        \* of FsPoll
          Instances, First, Accepts, MaxAccepts,  \* of WinPipeServer and WinTcpServer
          Events, Watches, MaxSets,  \* of WinPoll
          LogThreads, Blocks, Paths, MaxLogs, MaxChanges, FreeLimit,  \* of Log4z
          TimerHandles, Timeouts, Repeats, TimeWrap, IntMax, MaxTimerStarts,  \* of Timers
          HeapNodes,                  \* of TimerHeapUse
          IoWatchers, SignalWatcher, Fds, SignalFd, EventList, Writers, BatchSize, Rounds,
          MaxOpens,                   \* of UnixIo
          SigHandles, SigNums, NoSig, OneShots, MaxRaises, MaxSigStarts,  \* of WinSignal
          LoopHandleSet, LoopThread, Root, ListenPipe, Modulus,  \* of LoopHandles
          Null

\* What marks a context's request and its last result is no result.
ASSUME FsPollAssumption ==
  /\ Null \notin Ctxs
  /\ Stats \cap Errors = {} /\ {"none", "busy", "no", "yes"} \cap (Stats \cup Errors) = {}

\* The accept requests of a listening pipe and of a listening socket are so many.
ASSUME ServersAssumption == IsFiniteSet(Instances) /\ First \in Instances /\ Accepts \in Nat \ {0}

\* What else a poll can report is no event: the socket was closed under it.
ASSUME PollAssumption == "LOCAL_CLOSE" \notin Events

\* Each callback a connection makes has a name of its own.
ASSUME WritesAssumption ==
  /\ IsFiniteSet(Writes)
  /\ Writes \cap {"connect", "shutdown", "loop", "data_cb", "end_cb", "error_cb", "read_cb",
                   "eof_cb", "circle"} = {}

\* A handle watches no signal when the number is 0; the loop has so many handles.
ASSUME SignalsAssumption ==
  /\ NoSig \notin SigNums \cup SigHandles /\ 0 \notin Signums
  /\ IsFiniteSet(Signals) /\ IsFiniteSet(Asyncs)

VARIABLES
  part,
  sflags, creq, watch, fed, wq, wcq, pq, left, failed, qsize, sreq, before, slpc, ev, rd,
  st_accepted, answered,
  ast, pending, efd, async_handles, moved, alpc, taken, spc, shandle, sends, unseen,
  sst, signum, oneshot, caught, dispatched, disp, hpc, hsig, todo, sigpipe, buf, us_lpc,
  awaited, raised, starts,
  fp_handle, poll_ctx, ctx, file, lpc, current, view,
  qnext, qprev, lh_active, state, port, endgames, lh_pc, lh_handle, reg,
  timer, theap, time, timer_counter, tmpc, current_timer, asked, overtaken,
  uheap, members,
  iow, table, nfds, watcher_queue, pending_queue, io_pq, sock, opens, interest, batch, full,
  nevents, have_signals, count, iopc,
  ws_signum, pending_signum, wflags, posted, raising, ls_pc, ls_handle, ls_signum, ls_flags,
  in_callback, sig_raised, sig_starts, ws_owed,
  flags, overlapped, handle, os_open, reqs_pending, activecnt, write_reqs_pending,
  shutdown_req, write_queue, req, result, called, read, eof_timer, pc,
  ps_flags, instance, open, pending_accepts, ps_reqs_pending, ps_activecnt, announced,
  accepted, ps_pc,
  wt_flags, socket, wt_reqs, wt_active, wt_writes, wt_shutdown, wt_req, status, wt_read,
  wt_pc, twice,
  areq, held, ts_flags, processed, accepting, tstate, tlpc, lost, retired, came,
  events, active, submitted, mask, preq, report, pstate, plpc, told, ready, sets,
  _runing, _enable, _level, _path, _outfile, _handle, _logs, _logsCache, _freeLogDatas,
  heap, log_data, app, log_count, changes, log, log_main, wrote, durable, discarded, owed,
  pushed, queued_path, due

ST == INSTANCE UnixStream WITH accepted <- st_accepted
UA == INSTANCE UnixAsync WITH Handles <- Asyncs, NoHandle <- Null
US == INSTANCE UnixSignal WITH Handles <- Signals, slpc <- us_lpc
FP == INSTANCE FsPoll WITH NoCtx <- Null, handle <- fp_handle
LH == INSTANCE LoopHandles WITH Handles <- LoopHandleSet, Posters <- {}, Listen <- ListenPipe,
        active <- lh_active, pc <- lh_pc, handle <- lh_handle
TM == INSTANCE Timers WITH NoTimer <- Null
HU == INSTANCE TimerHeapUse WITH NoNode <- Null
IO == INSTANCE UnixIo WITH NoIo <- Null, pq <- io_pq
WS == INSTANCE WinSignal WITH
        signum <- ws_signum, owed <- ws_owed
WP == INSTANCE WinPipe
PS == INSTANCE WinPipeServer
WT == INSTANCE WinTcp WITH
        flags <- wt_flags, reqs_pending <- wt_reqs,
        activecnt <- wt_active, write_reqs_pending <- wt_writes, shutdown_req <- wt_shutdown,
        req <- wt_req, read <- wt_read, pc <- wt_pc
TS == INSTANCE WinTcpServer WITH flags <- ts_flags
PO == INSTANCE WinPoll
LO == INSTANCE Log4z WITH
        Threads <- LogThreads, data <- log_data, count <- log_count, main <- log_main

streamVars == <<sflags, creq, watch, fed, wq, wcq, pq, left, failed, qsize, sreq, before,
                slpc, ev, rd, st_accepted, answered>>
asyncVars == <<ast, pending, efd, async_handles, moved, alpc, taken, spc, shandle, sends,
               unseen>>
signalVars == <<sst, signum, oneshot, caught, dispatched, disp, hpc, hsig, todo, sigpipe,
                buf, us_lpc, awaited, raised, starts>>
fsPollVars == <<fp_handle, poll_ctx, ctx, file, lpc, current, view>>
loopVars == <<qnext, qprev, lh_active, state, port, endgames, lh_pc, lh_handle, reg>>
timersVars == <<timer, theap, time, timer_counter, tmpc, current_timer, asked, overtaken>>
heapVars == <<uheap, members>>
ioVars == <<iow, table, nfds, watcher_queue, pending_queue, io_pq, sock, opens, interest,
            batch, full, nevents, have_signals, count, iopc>>
winSignalVars == <<ws_signum, pending_signum, wflags, posted, raising, ls_pc, ls_handle,
                   ls_signum, ls_flags, in_callback, sig_raised, sig_starts, ws_owed>>
pipeVars == <<flags, overlapped, handle, os_open, reqs_pending, activecnt,
              write_reqs_pending, shutdown_req, write_queue, req, result, called, read,
              eof_timer, pc>>
pipeServerVars == <<ps_flags, instance, open, pending_accepts, ps_reqs_pending,
                    ps_activecnt, announced, accepted, ps_pc>>
tcpVars == <<wt_flags, socket, wt_reqs, wt_active, wt_writes, wt_shutdown, wt_req, status,
             wt_read, wt_pc, twice>>
tcpServerVars == <<areq, held, ts_flags, processed, accepting, tstate, tlpc, lost, retired,
                   came>>
pollVars == <<events, active, submitted, mask, preq, report, pstate, plpc, told, ready, sets>>
loggerVars == <<_runing, _enable, _level, _path, _outfile, _handle, _logs, _logsCache,
                _freeLogDatas, heap, log_data, app, log_count, changes, log, log_main,
                wrote, durable, discarded, owed, pushed, queued_path, due>>
vars == <<part, streamVars, asyncVars, signalVars, fsPollVars, loopVars, timersVars,
          heapVars, ioVars, winSignalVars, pipeVars, pipeServerVars, tcpVars, tcpServerVars,
          pollVars, loggerVars>>

Init ==
  /\ part \in {"stream", "async", "signal", "fs poll", "loop", "timers", "heap", "unix io",
               "win signal", "pipe", "pipe server", "tcp", "tcp server", "poll", "logger"}
  /\ ST!Init /\ UA!Init /\ US!Init /\ FP!Init /\ LH!Init /\ TM!Init /\ HU!Init /\ IO!Init
     /\ WS!Init /\ WP!Init /\ PS!Init /\ WT!Init /\ TS!Init /\ PO!Init /\ LO!Init
  /\ part # "fs poll" => file = CHOOSE r \in FP!Results : TRUE
  /\ part # "pipe" => overlapped
  /\ part # "async" =>
       async_handles = CHOOSE q \in UA!Bijection(1..Cardinality(Asyncs), Asyncs) : TRUE

\* A step of one part leaves the others alone.
OnlyStream ==
  /\ part = "stream"
  /\ UNCHANGED <<part, asyncVars, signalVars, fsPollVars, loopVars, timersVars, heapVars,
                 ioVars, winSignalVars, pipeVars, pipeServerVars, tcpVars, tcpServerVars,
                 pollVars, loggerVars>>
OnlyAsync ==
  /\ part = "async"
  /\ UNCHANGED <<part, streamVars, signalVars, fsPollVars, loopVars, timersVars, heapVars,
                 ioVars, winSignalVars, pipeVars, pipeServerVars, tcpVars, tcpServerVars,
                 pollVars, loggerVars>>
OnlySignal ==
  /\ part = "signal"
  /\ UNCHANGED <<part, streamVars, asyncVars, fsPollVars, loopVars, timersVars, heapVars,
                 ioVars, winSignalVars, pipeVars, pipeServerVars, tcpVars, tcpServerVars,
                 pollVars, loggerVars>>
OnlyFsPoll ==
  /\ part = "fs poll"
  /\ UNCHANGED <<part, streamVars, asyncVars, signalVars, loopVars, timersVars, heapVars,
                 ioVars, winSignalVars, pipeVars, pipeServerVars, tcpVars, tcpServerVars,
                 pollVars, loggerVars>>
OnlyLoop ==
  /\ part = "loop"
  /\ UNCHANGED <<part, streamVars, asyncVars, signalVars, fsPollVars, timersVars, heapVars,
                 ioVars, winSignalVars, pipeVars, pipeServerVars, tcpVars, tcpServerVars,
                 pollVars, loggerVars>>
OnlyTimers ==
  /\ part = "timers"
  /\ UNCHANGED <<part, streamVars, asyncVars, signalVars, fsPollVars, loopVars, heapVars,
                 ioVars, winSignalVars, pipeVars, pipeServerVars, tcpVars, tcpServerVars,
                 pollVars, loggerVars>>
OnlyHeap ==
  /\ part = "heap"
  /\ UNCHANGED <<part, streamVars, asyncVars, signalVars, fsPollVars, loopVars, timersVars,
                 ioVars, winSignalVars, pipeVars, pipeServerVars, tcpVars, tcpServerVars,
                 pollVars, loggerVars>>
OnlyUnixIo ==
  /\ part = "unix io"
  /\ UNCHANGED <<part, streamVars, asyncVars, signalVars, fsPollVars, loopVars, timersVars,
                 heapVars, winSignalVars, pipeVars, pipeServerVars, tcpVars, tcpServerVars,
                 pollVars, loggerVars>>
OnlyWinSignal ==
  /\ part = "win signal"
  /\ UNCHANGED <<part, streamVars, asyncVars, signalVars, fsPollVars, loopVars, timersVars,
                 heapVars, ioVars, pipeVars, pipeServerVars, tcpVars, tcpServerVars,
                 pollVars, loggerVars>>
OnlyPipe ==
  /\ part = "pipe"
  /\ UNCHANGED <<part, streamVars, asyncVars, signalVars, fsPollVars, loopVars, timersVars,
                 heapVars, ioVars, winSignalVars, pipeServerVars, tcpVars, tcpServerVars,
                 pollVars, loggerVars>>
OnlyPipeServer ==
  /\ part = "pipe server"
  /\ UNCHANGED <<part, streamVars, asyncVars, signalVars, fsPollVars, loopVars, timersVars,
                 heapVars, ioVars, winSignalVars, pipeVars, tcpVars, tcpServerVars,
                 pollVars, loggerVars>>
OnlyTcp ==
  /\ part = "tcp"
  /\ UNCHANGED <<part, streamVars, asyncVars, signalVars, fsPollVars, loopVars, timersVars,
                 heapVars, ioVars, winSignalVars, pipeVars, pipeServerVars, tcpServerVars,
                 pollVars, loggerVars>>
OnlyTcpServer ==
  /\ part = "tcp server"
  /\ UNCHANGED <<part, streamVars, asyncVars, signalVars, fsPollVars, loopVars, timersVars,
                 heapVars, ioVars, winSignalVars, pipeVars, pipeServerVars, tcpVars,
                 pollVars, loggerVars>>
OnlyPoll ==
  /\ part = "poll"
  /\ UNCHANGED <<part, streamVars, asyncVars, signalVars, fsPollVars, loopVars, timersVars,
                 heapVars, ioVars, winSignalVars, pipeVars, pipeServerVars, tcpVars,
                 tcpServerVars, loggerVars>>
OnlyLogger ==
  /\ part = "logger"
  /\ UNCHANGED <<part, streamVars, asyncVars, signalVars, fsPollVars, loopVars, timersVars,
                 heapVars, ioVars, winSignalVars, pipeVars, pipeServerVars, tcpVars,
                 tcpServerVars, pollVars>>

Next ==
  \/ OnlyStream /\ ST!Next
  \/ OnlyAsync /\ UA!Next
  \/ OnlySignal /\ US!Next
  \/ OnlyFsPoll /\ FP!Next
  \/ OnlyLoop /\ LH!Next
  \/ OnlyTimers /\ TM!Next
  \/ OnlyHeap /\ HU!Next
  \/ OnlyUnixIo /\ IO!Next
  \/ OnlyWinSignal /\ WS!Next
  \/ OnlyPipe /\ WP!Next
  \/ OnlyPipeServer /\ PS!Next
  \/ OnlyTcp /\ WT!Next
  \/ OnlyTcpServer /\ TS!Next
  \/ OnlyPoll /\ PO!Next
  \/ OnlyLogger /\ LO!Next

Spec == Init /\ [][Next]_vars

-----------------------------------------------------------------------------
\* unix/stream.c: every write is answered once and in order, the size of the queue
\* is exact, a queued write is not forgotten, a shutdown does not overtake one.
StreamQueuesSound ==
  part = "stream" =>
    /\ ST!StreamWritesAnswered /\ ST!StreamSizeExact
    /\ ST!StreamNotStalled /\ ST!StreamShutsAfterWrites

\* unix/async.c, unix/signal.c, win/signal.c: no send and no signal is lost on its way
\* to the loop, none reaches a closed handle, and a close waits for what is on its way.
\* On Unix a signal may be lost while the pipe is full of others that the loop has yet
\* to take; its handle is called then only if a message for it is in the pipe already.
WakeupsCarried ==
  /\ part = "async" => UA!AsyncSendCarried /\ UA!AsyncCallsOpenOnly
  /\ part = "signal" => US!SignalCloseExact /\ US!SignalDelivered
  /\ part = "win signal" => WS!WinSignalCarried /\ WS!WinSignalEndsWaited

\* fs-poll.c: who owns a poll context, and what its user was told.
FsPollSound == part = "fs poll" => FP!FsContextHasOneOwner /\ FP!FsUserKnowsLastStat

\* Counters a handle lives by are exact in every callback, so that the endgame runs
\* neither early nor never: win/pipe.c, win/tcp.c.  For a connection but for one too
\* many for each time its read was queued twice, which keeps it from ever being closed.
CountsExact ==
  /\ part = "pipe" => WP!CountsExact
  /\ part = "tcp" => WT!TcpCountsExact
  /\ part = "tcp server" => TS!TcpAcceptsCounted

\* Nothing of a handle is under way when its close callback is made, each request
\* has had its callback once, and each poll is reported once: win/pipe.c,
\* win/poll.c; win/tcp.c, where that a closed connection is idle is part of CountsExact,
\* and what is left is that what was written before a shutdown is sent before it.
CallbacksBeforeClose ==
  /\ part = "pipe" => WP!CallbackOnceBeforeClose /\ WP!PipeAsserts
  /\ part = "pipe server" => PS!ServerFreesSafely
  /\ part = "tcp" => WT!ShutdownAfterWrites
  /\ part = "poll" => PO!PollClosesIdle /\ PO!PollReportsOnce

\* No accept request of a listening pipe or socket goes missing, unless the program
\* makes a pipe listen twice: win/pipe.c, win/tcp.c.
ServersKeepListening ==
  /\ part = "pipe server" => PS!InstancesKept
  /\ part = "tcp server" => TS!TcpAcceptsKept

\* The loop's structures are what they stand for: win/async.c, uv-common.h, queue.h,
\* its count and list of handles, used by the loop's own thread alone; timer.c and
\* heap-inl.h, its heap of timers; unix/core.c and linux-core.c, its table of watchers
\* and the kernel's list of interests.
LoopStructuresSound ==
  /\ part = "loop" => LH!ActiveExact /\ LH!QueueLinked
  /\ part = "timers" => TM!TimerHeapSound
  /\ part = "heap" => HU!HeapStaysSound
  /\ part = "unix io" => IO!IoTableSound /\ IO!KernelInterestExact

\* timer.c: timers fire in time and in turn, and the poll waits for the first of them;
\* linux-core.c: no watcher is called for what happened to another descriptor.
LoopCallbacksDue ==
  /\ part = "timers" => TM!TimersInOrder /\ TM!PollWaitsForTimers
  /\ part = "unix io" => IO!NoStaleEvent

\* log4z.cpp: a stop loses nothing, messages go to their file in turn, and no block
\* of memory is in two places.
LogSound == part = "logger" => LO!NothingLost /\ LO!WrittenInTurn /\ LO!BlocksInOnePlace
=============================================================================
