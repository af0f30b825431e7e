----------------------------- MODULE AnpcClient -----------------------------
(***************************************************************************)
(* The client side, anpc.dll: calls of an application's threads, one at a  *)
(* time under g_mutex, and CanIPC's worker thread, which connects to the   *)
(* service, starts it when it is not there, writes the commands the        *)
(* callers hand to it and reads the results.  The worker is detached when  *)
(* the service goes away, and the next anpc_create_ipc starts another.     *)
(* The service and the system are the environment.                         *)
(***************************************************************************)
EXTENDS Naturals, Sequences, FiniteSets

CONSTANTS Callers, NoCaller,
          ReconnectCount,  \* AN_RECONNECT_COUNT
          MaxCreates,      \* bound: calls of anpc_create_ipc
          MaxCmds,         \* bound: commands accepted
          MaxResults       \* bound: results the service writes

ASSUME AnpcClientAssumption ==
  /\ NoCaller \notin Callers
  /\ {ReconnectCount, MaxCreates} \subseteq Nat \ {0} /\ {MaxCmds, MaxResults} \subseteq Nat

\* Bound: the number of attempts counts no further than one past the limit.
CountBound == ReconnectCount + 1

\* Each call of anpc_create_ipc starts at most one worker.
Workers == 1..MaxCreates

VARIABLES
  mutex,      \* who holds g_mutex
  cpc,        \* where each caller is
  joinable,   \* m_thread.joinable()
  gen, wpc,   \* the last worker started; where each worker is
  count, status,  \* m_wait_connect
  pipe,       \* m_pipe: none, idle, connecting, open, closing (on_close is
              \* due), stopping (closed by stop), closed
  attempt,    \* the pending connect: none, busy (waits for an instance), ok, err
  stopFlag,   \* m_loop.stop_flag
  busy,       \* this iteration of uv_run has processed something
  asyncs,     \* commands posted to m_loop and not processed
  server,     \* the service: down, starting, up
  link,       \* the connection, at the service's end: none, up, down
  incoming,   \* results written to the connection and not read
  creates, cmds, results,  \* numbers of calls, commands accepted, results written
  written,    \* history: commands written to a connection
  handed,     \* history: results given to m_result_cb
  connected,  \* history: workers that got a connection
  spawns,     \* history: services each worker started
  spawnFailed,  \* history: uv_spawn failed
  unloaded,   \* anpc_stop has returned, at DLL_PROCESS_DETACH
  fate        \* running; clobbered: m_loop was initialised under a running
              \* worker; aborted: detach of a thread that is not joinable, or an
              \* exception that nobody catches

callVars == <<mutex, cpc, creates, cmds, unloaded>>
threadVars == <<joinable, gen>>
semVars  == <<count, status>>
loopVars == <<stopFlag, busy, asyncs>>
envVars  == <<server, results, incoming>>
histVars == <<written, handed, connected, spawns, spawnFailed>>
vars == <<callVars, threadVars, wpc, semVars, pipe, attempt, loopVars, link, envVars,
          histVars, fate>>

Init ==
  /\ mutex = NoCaller /\ cpc = [c \in Callers |-> "idle"]
  /\ joinable = FALSE /\ gen = 0 /\ wpc = [g \in Workers |-> "none"]
  /\ count = 0 /\ status = 0
  /\ pipe = "none" /\ attempt = "none"
  /\ stopFlag = FALSE /\ busy = FALSE /\ asyncs = <<>>
  /\ server \in {"down", "up"} /\ link = "none" /\ incoming = <<>>
  /\ creates = 0 /\ cmds = 0 /\ results = 0
  /\ written = <<>> /\ handed = <<>> /\ connected = {}
  /\ spawns = [g \in Workers |-> 0] /\ spawnFailed = FALSE
  /\ unloaded = FALSE /\ fate = "running"

-----------------------------------------------------------------------------
(* The callers. *)

At(c, l) == cpc[c] = l /\ fate = "running"
Goto(c, l) == cpc' = [cpc EXCEPT ![c] = l] /\ UNCHANGED mutex
Lock(c, l) == mutex = NoCaller /\ mutex' = c /\ cpc' = [cpc EXCEPT ![c] = l]
Return(c) == mutex' = NoCaller /\ cpc' = [cpc EXCEPT ![c] = "idle"]

\* anpc_create_ipc takes g_mutex.
Create(c) ==
  /\ At(c, "idle") /\ ~unloaded /\ creates < MaxCreates
  /\ Lock(c, "run")
  /\ creates' = creates + 1
  /\ UNCHANGED <<cmds, unloaded, threadVars, wpc, semVars, pipe, attempt, loopVars, link,
                 envVars, histVars, fate>>

\* Variant of ResetWait: the status of the last connection is kept.
ResetWaitCountOnly == count' = 0 /\ UNCHANGED status

\* an_waitconnect_semaphore::reset
ResetWait == count' = 0 /\ status' = 0

\* CanIPC::run with a worker already there: 0, connected or not.
RunJoinable(c) ==
  /\ At(c, "run") /\ joinable
  /\ Return(c)
  /\ UNCHANGED <<creates, cmds, unloaded, threadVars, wpc, semVars, pipe, attempt, loopVars,
                 link, envVars, histVars, fate>>

RunStart(c) ==
  /\ At(c, "run") /\ ~joinable
  /\ ResetWait
  /\ joinable' = TRUE /\ gen' = gen + 1 /\ wpc' = [wpc EXCEPT ![gen + 1] = "init"]
  /\ Goto(c, "started")
  /\ UNCHANGED <<creates, cmds, unloaded, pipe, attempt, loopVars, link, envVars, histVars,
                 fate>>

\* The worker may have been detached again before it is waited for.
RunStarted(c) ==
  /\ At(c, "started")
  /\ IF joinable THEN Goto(c, "wait") ELSE Return(c)
  /\ UNCHANGED <<creates, cmds, unloaded, threadVars, wpc, semVars, pipe, attempt, loopVars,
                 link, envVars, histVars, fate>>

\* an_waitconnect_semaphore::wait: the limit is looked at once, before sleeping.
RunWait(c) ==
  /\ At(c, "wait")
  /\ Goto(c, IF status = 0 /\ count < ReconnectCount THEN "asleep" ELSE "result")
  /\ UNCHANGED <<creates, cmds, unloaded, threadVars, wpc, semVars, pipe, attempt, loopVars,
                 link, envVars, histVars, fate>>

\* The predicate of the condition variable.
RunWoken(c) ==
  /\ At(c, "asleep") /\ status > 0
  /\ Goto(c, "result")
  /\ UNCHANGED <<creates, cmds, unloaded, threadVars, wpc, semVars, pipe, attempt, loopVars,
                 link, envVars, histVars, fate>>

\* Variant of RunResult: a worker that did not connect in time is given up.
RunResultDetaches(c) ==
  /\ At(c, "result")
  /\ Return(c)
  /\ joinable' = (status = 1)
  /\ UNCHANGED <<creates, cmds, unloaded, gen, wpc, semVars, pipe, attempt, loopVars, link,
                 envVars, histVars, fate>>

\* The status read now, 1 or not, is what run returns.
RunResult(c) ==
  /\ At(c, "result")
  /\ Return(c)
  /\ UNCHANGED <<creates, cmds, unloaded, threadVars, wpc, semVars, pipe, attempt, loopVars,
                 link, envVars, histVars, fate>>

\* uv_is_active: a connect is under way, or the pipe is read.
Active == pipe \in {"connecting", "open"}

\* anpc_send_cmd: sendcmd reads the pipe's flags on the caller's thread.
SendCheck(c) ==
  /\ At(c, "idle") /\ ~unloaded /\ cmds < MaxCmds /\ Active
  /\ Lock(c, "post")
  /\ UNCHANGED <<creates, cmds, unloaded, threadVars, wpc, semVars, pipe, attempt, loopVars,
                 link, envVars, histVars, fate>>

\* Variant of SendPost: one uv_async_t for all commands, so that sends coalesce.
SendPostShared(c) ==
  /\ At(c, "post")
  /\ cmds' = cmds + 1
  /\ asyncs' = <<cmds + 1>>
  /\ Return(c)
  /\ UNCHANGED <<creates, unloaded, threadVars, wpc, semVars, pipe, attempt, stopFlag, busy,
                 link, envVars, histVars, fate>>

\* Variant of SendPost: the newest command is processed first.
SendPostFront(c) ==
  /\ At(c, "post")
  /\ cmds' = cmds + 1
  /\ asyncs' = <<cmds + 1>> \o asyncs
  /\ Return(c)
  /\ UNCHANGED <<creates, unloaded, threadVars, wpc, semVars, pipe, attempt, stopFlag, busy,
                 link, envVars, histVars, fate>>

\* uv_async_init and uv_async_send, whether uv_run is still there or not.
SendPost(c) ==
  /\ At(c, "post")
  /\ cmds' = cmds + 1
  /\ asyncs' = Append(asyncs, cmds + 1)
  /\ Return(c)
  /\ UNCHANGED <<creates, unloaded, threadVars, wpc, semVars, pipe, attempt, stopFlag, busy,
                 link, envVars, histVars, fate>>

\* anpc_stop(true), when the DLL is unloaded.
Stop(c) ==
  /\ At(c, "idle") /\ ~unloaded
  /\ IF joinable
       THEN Lock(c, "close") /\ stopFlag' = TRUE /\ UNCHANGED unloaded
       ELSE mutex = NoCaller /\ unloaded' = TRUE /\ UNCHANGED <<mutex, cpc, stopFlag>>
  /\ UNCHANGED <<creates, cmds, threadVars, wpc, semVars, pipe, attempt, busy, asyncs, link,
                 envVars, histVars, fate>>

\* Variant of StopClose: the pipe is left open.
StopCloseNot(c) ==
  /\ At(c, "close")
  /\ Goto(c, "detach")
  /\ UNCHANGED <<creates, cmds, unloaded, threadVars, wpc, semVars, pipe, attempt, loopVars,
                 link, envVars, histVars, fate>>

\* uv_close on the caller's thread, to wake uv_run up.
StopClose(c) ==
  /\ At(c, "close")
  /\ pipe' = IF pipe \in {"closing", "stopping", "closed"} THEN pipe ELSE "stopping"
  /\ Goto(c, "detach")
  /\ UNCHANGED <<creates, cmds, unloaded, threadVars, wpc, semVars, attempt, loopVars, link,
                 envVars, histVars, fate>>

\* std::thread::detach ends the process if the thread is not joinable any more.
StopDetach(c) ==
  /\ At(c, "detach")
  /\ joinable' = FALSE /\ fate' = IF joinable THEN fate ELSE "aborted"
  /\ unloaded' = TRUE
  /\ Return(c)
  /\ UNCHANGED <<creates, cmds, gen, wpc, semVars, pipe, attempt, loopVars, link, envVars,
                 histVars>>

-----------------------------------------------------------------------------
(* The worker. *)

InLoop(g) == wpc[g] = "loop" /\ fate = "running"

\* uv_pipe_connect opens the pipe at once, and reports in the next iteration; while
\* the service has no free instance it leaves that to a thread.
Attempt ==
  /\ attempt' \in IF server = "up" THEN {"ok", "busy"} ELSE {"err"}
  /\ link' = IF attempt' = "ok" THEN "up" ELSE link
  /\ incoming' = IF attempt' = "ok" THEN <<>> ELSE incoming

\* pipe_connect_thread_proc: an instance becomes free, or the wait for one ends.
ConnectThread ==
  /\ attempt = "busy" /\ fate = "running"
  /\ \/ server = "up" /\ attempt' = "ok" /\ link' = "up" /\ incoming' = <<>>
     \/ attempt' = "err" /\ UNCHANGED <<link, incoming>>
  /\ UNCHANGED <<callVars, threadVars, wpc, semVars, pipe, loopVars, server, results, histVars,
                 fate>>

\* CanIPC::worker up to uv_run.  Nothing waits for an earlier worker to leave it.
WorkerInit(g) ==
  /\ wpc[g] = "init" /\ fate = "running"
  /\ IF \E h \in Workers : wpc[h] \in {"loop", "sleep"}
       THEN /\ fate' = "clobbered"
            /\ UNCHANGED <<wpc, pipe, attempt, loopVars, link, incoming>>
       ELSE /\ pipe' = "connecting" /\ Attempt
            /\ stopFlag' = FALSE /\ busy' = FALSE /\ asyncs' = <<>>
            /\ wpc' = [wpc EXCEPT ![g] = "loop"]
            /\ UNCHANGED fate
  /\ UNCHANGED <<callVars, threadVars, semVars, server, results, histVars>>

\* on_connect with status 0; signal().
OnConnected(g) ==
  /\ InLoop(g) /\ attempt = "ok"
  /\ attempt' = "none" /\ busy' = TRUE
  /\ pipe' = IF pipe = "connecting" THEN "open" ELSE pipe
  /\ count' = 1 /\ status' = 1
  /\ connected' = connected \cup {g}
  /\ UNCHANGED <<callVars, threadVars, wpc, stopFlag, asyncs, link, envVars, written, handed,
                 spawns, spawnFailed, fate>>

\* on_connect with an error: the first one starts the service, and if that fails
\* nobody is told.  Otherwise it sleeps and tries again.
OnConnectFailed(g) ==
  /\ InLoop(g) /\ attempt = "err"
  /\ attempt' = "none" /\ busy' = TRUE
  /\ pipe' = IF pipe = "connecting" THEN "idle" ELSE pipe
  /\ \/ /\ count = 0
        /\ server' = IF server = "down" THEN "starting" ELSE server
        /\ spawns' = [spawns EXCEPT ![g] = @ + 1]
        /\ wpc' = [wpc EXCEPT ![g] = "sleep"]
        /\ UNCHANGED spawnFailed
     \/ /\ count = 0
        /\ spawnFailed' = TRUE
        /\ UNCHANGED <<server, spawns, wpc>>
     \/ /\ count > 0
        /\ wpc' = [wpc EXCEPT ![g] = "sleep"]
        /\ UNCHANGED <<server, spawns, spawnFailed>>
  /\ UNCHANGED <<callVars, threadVars, semVars, stopFlag, asyncs, link, results, incoming,
                 written, handed, connected, fate>>

\* Variant of SignalOnce: the limit is reached and nobody is woken.
SignalOnceSilent == count' = (IF count < CountBound THEN count + 1 ELSE count) /\ UNCHANGED status

\* Variant of SignalOnce: attempts are counted from the limit down.
SignalOnceForgets ==
  /\ count' = 0
  /\ status' = IF count + 1 >= ReconnectCount THEN 2 ELSE status

\* an_waitconnect_semaphore::signal_once
SignalOnce ==
  /\ count' = IF count < CountBound THEN count + 1 ELSE count
  /\ status' = IF count + 1 >= ReconnectCount THEN 2 ELSE status

\* The rest of on_connect, after the Sleep.
Reconnect(g) ==
  /\ wpc[g] = "sleep" /\ fate = "running"
  /\ Attempt
  /\ pipe' = IF pipe = "idle" THEN "connecting" ELSE pipe
  /\ SignalOnce
  /\ wpc' = [wpc EXCEPT ![g] = "loop"]
  /\ UNCHANGED <<callVars, threadVars, loopVars, server, results, histVars, fate>>

\* on_send_cmd and write: a command is dropped unless the pipe can be written, which
\* it can before on_connect already.
Writable == pipe = "open" \/ (pipe = "connecting" /\ attempt = "ok")

OnSendCmd(g) ==
  /\ InLoop(g) /\ asyncs # <<>>
  /\ asyncs' = Tail(asyncs) /\ busy' = TRUE
  /\ written' = IF Writable /\ link = "up" THEN Append(written, Head(asyncs)) ELSE written
  /\ UNCHANGED <<callVars, threadVars, wpc, semVars, pipe, attempt, stopFlag, link, envVars,
                 handed, connected, spawns, spawnFailed, fate>>

\* on_read with data: one result is decoded, however many the read returned.
OnRead(g) ==
  /\ InLoop(g) /\ pipe = "open"
  /\ \E n \in 1..Len(incoming) : incoming' = SubSeq(incoming, n + 1, Len(incoming))
  /\ handed' = Append(handed, Head(incoming)) /\ busy' = TRUE
  /\ UNCHANGED <<callVars, threadVars, wpc, semVars, pipe, attempt, stopFlag, asyncs, link,
                 server, results, written, connected, spawns, spawnFailed, fate>>

\* A read that does not begin or end with a result: cereal throws, and nothing on the
\* worker's stack catches.
OnReadPart(g) ==
  /\ InLoop(g) /\ pipe = "open" /\ incoming # <<>>
  /\ fate' = "aborted"
  /\ UNCHANGED <<callVars, threadVars, wpc, semVars, pipe, attempt, loopVars, link, envVars,
                 histVars>>

\* on_read when the service has gone.
OnEof(g) ==
  /\ InLoop(g) /\ pipe = "open" /\ link = "down" /\ incoming = <<>>
  /\ pipe' = "closing" /\ busy' = TRUE
  /\ UNCHANGED <<callVars, threadVars, wpc, semVars, attempt, stopFlag, asyncs, link, envVars,
                 histVars, fate>>

\* Variant of OnClose: the thread is not detached.
OnCloseKeeps(g) ==
  /\ InLoop(g) /\ pipe \in {"closing", "stopping"} /\ attempt = "none"
  /\ pipe' = "closed" /\ busy' = TRUE
  /\ UNCHANGED <<callVars, gen, joinable, wpc, semVars, attempt, stopFlag, asyncs, link,
                 envVars, histVars, fate>>

\* The endgame of m_pipe; on_close detaches the worker, unless stop closed it.
OnClose(g) ==
  /\ InLoop(g) /\ pipe \in {"closing", "stopping"} /\ attempt = "none"
  /\ pipe' = "closed" /\ busy' = TRUE
  /\ IF pipe = "closing"
       THEN joinable' = FALSE /\ fate' = IF joinable THEN fate ELSE "aborted"
       ELSE UNCHANGED <<joinable, fate>>
  /\ UNCHANGED <<callVars, gen, wpc, semVars, attempt, stopFlag, asyncs, link, envVars,
                 histVars>>

\* uv__loop_alive
LoopAlive == pipe \in {"connecting", "open", "closing", "stopping"} \/ asyncs # <<>>

\* The end of an iteration of uv_run that had something to process.
EndIteration(g) ==
  /\ InLoop(g) /\ busy
  /\ busy' = FALSE
  /\ IF LoopAlive /\ ~stopFlag
       THEN UNCHANGED <<wpc, stopFlag>>
       ELSE wpc' = [wpc EXCEPT ![g] = "done"] /\ stopFlag' = FALSE
  /\ UNCHANGED <<callVars, threadVars, semVars, pipe, attempt, asyncs, link, envVars, histVars,
                 fate>>

-----------------------------------------------------------------------------
(* The service. *)

ServerUp ==
  /\ server = "starting"
  /\ server' = "up"
  /\ UNCHANGED <<callVars, threadVars, wpc, semVars, pipe, attempt, loopVars, link, results,
                 incoming, histVars, fate>>

ServerDown ==
  /\ server \in {"starting", "up"}
  /\ server' = "down"
  /\ link' = IF link = "up" THEN "down" ELSE link
  /\ UNCHANGED <<callVars, threadVars, wpc, semVars, pipe, attempt, loopVars, results, incoming,
                 histVars, fate>>

ServerResult ==
  /\ link = "up" /\ results < MaxResults
  /\ results' = results + 1
  /\ incoming' = Append(incoming, results + 1)
  /\ UNCHANGED <<callVars, threadVars, wpc, semVars, pipe, attempt, loopVars, link, server,
                 histVars, fate>>

-----------------------------------------------------------------------------
\* A call once begun.
Run(c) ==
  RunJoinable(c) \/ RunStart(c) \/ RunStarted(c) \/ RunWait(c) \/ RunWoken(c) \/ RunResult(c)
Call(c) == Run(c) \/ SendPost(c) \/ StopClose(c) \/ StopDetach(c)

Worker(g) ==
  \/ WorkerInit(g) \/ OnConnected(g) \/ OnConnectFailed(g) \/ Reconnect(g)
  \/ OnSendCmd(g) \/ OnRead(g) \/ OnReadPart(g) \/ OnEof(g) \/ OnClose(g) \/ EndIteration(g)

Next ==
  \/ \E c \in Callers : Create(c) \/ SendCheck(c) \/ Stop(c) \/ Call(c)
  \/ \E g \in Workers : Worker(g)
  \/ ConnectThread \/ ServerUp \/ ServerDown \/ ServerResult

Spec == Init /\ [][Next]_vars

\* The threads run.  An iteration of uv_run processes every request that was
\* pending when it began, and ends, however often on_connect sleeps in between.  The
\* thread that waits for an instance gets one, or times out.
Fairness ==
  /\ WF_vars(ConnectThread)
  /\ \A c \in Callers : WF_vars(Call(c))
  /\ \A g \in Workers :
       /\ WF_vars(WorkerInit(g)) /\ WF_vars(OnConnected(g)) /\ WF_vars(OnConnectFailed(g))
       /\ WF_vars(Reconnect(g)) /\ SF_vars(OnSendCmd(g)) /\ WF_vars(OnRead(g))
       /\ WF_vars(OnEof(g)) /\ WF_vars(OnClose(g)) /\ SF_vars(EndIteration(g))

FairSpec == Spec /\ Fairness

-----------------------------------------------------------------------------
(* Properties. *)

\* The type of the state.
TypeOK ==
  /\ mutex \in Callers \cup {NoCaller}
  /\ cpc \in [Callers -> {"idle", "run", "started", "wait", "asleep", "result", "post",
                      "close", "detach"}]
  /\ joinable \in BOOLEAN /\ gen \in 0..creates /\ creates \in 0..MaxCreates
  /\ wpc \in [Workers -> {"none", "init", "loop", "sleep", "done"}]
  /\ count \in 0..CountBound /\ status \in 0..2
  /\ pipe \in {"none", "idle", "connecting", "open", "closing", "stopping", "closed"}
  /\ attempt \in {"none", "busy", "ok", "err"} /\ stopFlag \in BOOLEAN /\ busy \in BOOLEAN
  /\ cmds \in 0..MaxCmds /\ asyncs \in Seq(1..cmds) /\ written \in Seq(1..cmds)
  /\ server \in {"down", "starting", "up"} /\ link \in {"none", "up", "down"}
  /\ results \in 0..MaxResults /\ incoming \in Seq(1..results) /\ handed \in Seq(1..results)
  /\ connected \subseteq Workers /\ spawns \in [Workers -> Nat] /\ spawnFailed \in BOOLEAN
  /\ unloaded \in BOOLEAN /\ fate \in {"running", "clobbered", "aborted"}

\* A call that started a worker is told of a connection only if that worker, and
\* no earlier one, got it; and while a worker that has a connection is in uv_run the
\* next call finds it, so that no second worker is started before the pipe is closed.
ToldOfOwnConnection ==
  /\ \A c \in Callers : At(c, "result") /\ status = 1 => gen \in connected
  /\ fate = "running" /\ ~unloaded /\ pipe = "open" /\ attempt = "none" => joinable

\* A worker starts the service at most once, however often it retries.
SpawnsOnce == \A g \in Workers : spawns[g] <= 1

\* Commands are written at most once and in the order in which they were accepted,
\* over reconnections too.
WrittenInOrder == \A i, j \in 1..Len(written) : i < j => written[i] < written[j]

\* Every call returns, unless the service could not be started; and when the DLL is
\* unloaded every worker leaves uv_run.
CallsReturn ==
  /\ \A c \in Callers :
       cpc[c] = "run" ~> cpc[c] = "idle" \/ spawnFailed \/ fate # "running"
  /\ unloaded ~> (\A g \in Workers : wpc[g] \in {"none", "done"}) \/ fate # "running"

\* A command in the hands of a connected worker is written, unless the connection
\* or the process goes away.
AcceptedIsWritten ==
  \A i \in 1..MaxCmds :
    (\E j \in 1..Len(asyncs) : asyncs[j] = i) /\ pipe = "open" /\ link = "up"
      ~> \/ \E j \in 1..Len(written) : written[j] = i
         \/ link # "up" \/ pipe # "open" \/ fate # "running"

\* After the service has gone, a call that asks for a connection again is not
\* answered by the worker that lost it.
LostConnectionNoticed ==
  link = "down" /\ pipe = "open" ~> ~joinable \/ fate # "running"

-----------------------------------------------------------------------------
(* What libuv's documentation says, and the code does not do. *)

\* A loop is used by one worker.
OneLoopRunner == fate # "clobbered"

=============================================================================
