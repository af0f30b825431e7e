# A verification of myLibuv: the anCRS service and its clients

myLibuv implements a WOSA/XFS service provider for a cash recycler. An application's calls reach
`anCIM_sp.dll` (the SPI functions), which writes them through `anpc.dll` on a named pipe to the
process `anCRS.exe`. That process executes them one after the other and writes completions and
events back; they are posted to the application's windows. Both ends run a libuv loop on a thread
of their own and exchange work with other threads through `uv_async_t` handles.

The repository carries libuv and the logger log4z as source, and its processes link both. What
they promise under threads, callbacks and closing handles decides whether the above works, so the
parts of them that are algorithms, not system calls, are modelled too.

The modules here state what that machinery does and check that it keeps its promises when clients
leave, processes end, threads interleave and reads coalesce. TLC checks small instances; TLAPS
proves the main safety properties for every value of the constants.

## Inventory

| Part | State | Operations | Hard behaviour |
| --- | --- | --- | --- |
| **Executer**: `Executer.cpp`, `anCRS_utility.h`, `build_cmd.h` | deque and mutex, `m_current_cmd`, `m_stop_flag` | push, front, cancel scan, execute, pop, idle, stop, join | the deque is read and popped in separate critical sections, and scanned without the lock, while the loop thread pushes |
| **Command table**: `CanXfs.cpp`, `an_wfp*_impl.cpp` | `service_table_`, the `_flag` of each commander | push and remove a service, make a completion, wake and pause the item check | the exit flag sticks; some commands count as opens |
| **Item check**: `item_pass_check.cpp`, `an_sem.h` | service and request of the Execute in progress, stop flag | wait, signal, reset, post an event, stop, join | lost signals, torn reads, a handler deleted before the thread is joined |
| **Pipe server**: `CanIPCServer.cpp` | `s_client_vector`, the listening pipe, notices and writes under way | accept, read, end of file, reply, broadcast, write done, close, exit | raw client pointers kept across threads, reused memory, five ways for a notice to end |
| **uv_run**: `libuv/src/win` as far as it is used | `active_handles`, `handle_queue`, pending requests, endgames, `stop_flag` | init, send, close, poll, endgame, alive | `uv_async_init` on other threads than the loop's |
| **Client**: `anpc/CanIPC.cpp`, `anpc.cpp`, `anUtility.h` | `g_mutex`, `m_thread`, `m_wait_connect`, `m_pipe`, `m_loop` | create, send, stop; connect, retry, spawn, write, read, close | workers that are detached and replaced, a waiter that must be told, unloading |
| **Registry and SPI**: `anCIM_sp` | `g_mtx`, the vector of services with their event classes | the WFP functions, `xfs_result_handler`, `send_events` | entries left by failed opens, a handle reopened before its old entry is erased |

| **Thread pool**: `threadpool.c` | work queue with its condition variable, idle count, each loop's queue of finished work | submit, work, cancel, done, exit | a cancel against a worker that takes the request; wakeups lost; the exit passed from worker to worker |
| **Barriers, read-write lock, once**: `win/thread.c`, `unix/thread.c` | counters, turnstiles, semaphores, an event swapped in | wait, lock, unlock, run once, destroy | a thread that returns for the next round; a lock released by another thread than took it |
| **Pipes on Windows**: `win/pipe.c`, `win/stream.c`, `win/req-inl.h` | flags, pending requests, active count, write queue, instances, the thread that blocks in a read | connect, listen, accept, read, write, shutdown, close, endgame | whichever completion is last has to finish; a cancel of a blocking read |
| **TCP on Windows**: `win/tcp.c` | the same for sockets; a pool of accepts | the same | accepts that fail; retired accepts; closing with requests under way |
| **Poll handles on Windows**: `win/poll.c` | two requests that take turns, masks | start, stop, report, close | a poll under way cannot be changed |
| **Consoles on Windows**: `win/tty.c` | flags, one read request, a lock on the screen, the state of the thread that blocks in ReadConsole | read keys or lines, stop, set mode, write, close | the cancel of a read that blocks; a lock that another thread releases |
| **Signals on Windows**: `win/signal.c` | tree of watchers, a mark and one request per watcher | start, stop, dispatch, close; the control handler's thread | unlocked flags; a signal during the callback |
| **Timers**: `timer.c`, `heap-inl.h` | the heap of pointers, start ids, the loop's time | start, stop, again, repeat, run, next timeout | times that wrap; callbacks that restart timers; removal from the middle of the heap |
| **Prepare, check, idle**: `*/loop-watcher.c` | one list per kind | start, stop, run | the list changes while it is walked |
| **fs-poll**: `fs-poll.c` | context, stat request and timer of each start | start, stop, close | contexts outlive their start |
| **Descriptors on Linux**: `unix/core.c`, `unix/linux-core.c` | table by descriptor, queues, the kernel's interest list | start, stop, feed, close, poll | stale events of a descriptor closed and opened again in one batch |
| **Async and signals on Unix**: `unix/async.c`, `unix/signal.c` | pending marks, eventfd; tree, pipe of caught signals | send, dispatch, start, stop, close | coalescing; a handle closed with signals in the pipe |
| **Streams on Unix**: `unix/stream.c` | write queues, queue size, watcher, flags | connect, write, read, shutdown, close | every callback may call back into the stream |
| **Logging**: `log4z.cpp` | free list, queue, cache, the settings, the open file | push, flush, hot change, start, stop | a stop that races threads that log |

The parts meet at these points: the SPI calls anpc under `g_mtx`, anpc's worker calls back
`xfs_result_handler` **without** it; commands and results cross the pipe; the server's loop thread
pushes to the executer's deque; the executer and the item thread post notices to the loop; the
executer signals the item thread; the end of the loop stops both threads.

What makes each part correct: the executer answers what was accepted once and in order; the server
writes each answer to who asked and frees each notice once; the client tells a caller of its own
connection and never runs two connections; the registry holds the handles that are open and sends
an event once to each; and everything ends when it should.

Not modelled, with reasons, are the vendored libraries (cereal, log4z, tcmalloc, the rest of
libuv), the demos, the MFC test application, device tables and unused classes; `PROJECT.json` lists
every component, and every hazard at its line.

## Modules and how they correspond to the code

`map` in `PROJECT.json` gives the lines of every definition. Definitions whose comment begins
with *Variant of* are plausible bugs: substituted for the definition they vary, they make the
property named there fail. They are not part of `Next`.

**`Executer`** has three threads. The executer thread (`epc`) is `CanThread::thread_cb`: `RunEmpty`
or `Front` (the copy of the front, under the lock), the cancel scan (`ScanBegin`, `ScanOne` for each element, `ScanEnd`),
`WakeItemCheck`, `Execute`, `PauseItemCheck`, `Pop`, then `Idle` or the stop test. Each action is what
happens between two points where another thread can interfere; `Push` is the loop thread's. The
item thread (`ipc`) is `CItem_pass_check::run`; an event reads service and request in two steps.
The main thread (`mpc`) is the end of `wWinMain`: stop the executer, which stops the item check,
join it, delete it with the event handler, and only then join the item thread, through a destructor
that stops it again. A post through the deleted handler is undefined and may crash (`ItemCrash`)
or do nothing. A command is its type, service and request id: nothing else is branched on.
The cancel scan walks iterators of the deque without its lock, and the loop thread's `push_back` invalidates them. What they give after that is
undefined: `ScanOne` then visits any element of the deque, the right one among them, and `ScanCrash` ends the process.
**`CommandQueue`** is what the executer promises, and `Executer!QueueSpec` the refinement: commands
that wait are the deque less a command already executed.

**`IPCServer`** is the loop thread of the service. One action is one callback: nothing else of this
thread's state is touched by others, except through `PostNotice`. `lpc` is the place in `uv_run`:
callbacks for what was taken (`pending`), `Poll` takes the completion port's queue, `Endgames` runs the
close callbacks, then `stop_flag` is read. Pipes are named by their *addresses*, so that the memory of a
deleted `uv_pipe_t` can be given to a later client; a queued command keeps the raw address, as
the code does. `uv_is_closing` of a deleted pipe reads freed memory: it is seen closed, or whatever
reused the memory says, or the process crashes (`OnReplyCrash`). `uv_write` on a pipe whose peer is
gone may fail at once or later. A notice is an identity, its request, its client and its exit flag;
`freed` and `leaked` are sets, and `Referenced` is computed, so that a second free or a use after a free
shows. One read returns up to `MaxRead` requests and decodes the first, as the code does. A notice's
handle gets its own close, which frees it; that part is `LoopHandles`'s. Two branches of `on_new_connection` have no counterpart because pipe.c never
takes them there: it calls back with status 0 alone (`pipe.c:1919-1926`; a failed instance is queued again without a word), and with an
instance on `pending_accepts`, so that `uv_pipe_accept` (`:911-933`) succeeds. A `uv_read_start` that fails is only logged.

**`Service`** is the process: the actions of `IPCServer` and `Executer` side by side, and joint actions where one
calls the other. `Read` puts one command both in `queued`, with the client's address, and in `deque`, with its type;
`Execute` runs the front command and posts its completion, with the exit flag that the command table decided
on; `Idle` and `ItemPost` broadcast; `Return` is the end of `uv_run`, after which `Shutdown` stops and joins. **`Session`** is what
the process is to its clients: requests are asked, commands carried out once and in the order of asking, answers given after that. A client
that stays gets each at most once, those to commands and those to `WFPGetInfo`s in order. Answers for a client that has left can reach another one
(`Stray`), in reused memory; requests may be lost. `Service!SessionSpec` is the refinement: `carried` is read off the executer's and `on_read`'s
histories, `answered` is what arrived on each pipe.

**`LoopHandles`** is below that: `uv__handle_init` and `uv__handle_rm` on the loop's doubly linked
`handle_queue` and the counter `active_handles`, at the level of their loads and stores, for the thread
that owns the loop and for `Posters`, the threads that call `uv_async_init` on it. With no `Posters` it is what
libuv intends.

**`AnpcClient`** is `anpc.dll`. Callers take `g_mutex` for a whole call; `run()` is split where it starts
the thread, waits, wakes and reads the outcome. A worker is a generation: `on_close` detaches it and
the next `run()` starts another. The service and the connection are the environment, which may end
at any time. `fate` records what the code cannot continue after: a detach of a thread that is not joinable
(`std::terminate`), an exception nobody catches, or `uv_loop_init` of a loop that another worker runs. `uv_pipe_connect` succeeds or fails at once,
or leaves a pipe that is busy to a thread (`ConnectThread`); once it has succeeded the pipe can be written, so that `OnSendCmd` writes a command also
before `on_connect` has come. A read may hold part of a result (`OnReadPart`), of which cereal throws.

**`SpiServices`** is `anCIM_sp.dll` above it: the manager's calls under `g_mtx`, the registry, and the worker in
`xfs_result_handler`, which does not take that mutex. anpc and the service are the environment, with the
losses seen below: a command accepted while connecting is dropped, coalesced reads lose all but the first
message, answers may overtake. The XFS manager (external) opens a handle it does not hold, and closes it
once. A failing spawn, after which a caller never returns, is left to `AnpcClient`.

### The libraries

All of these are instantiated by `MCLibrariesSafe` or `MCLibrariesLive`. Handlers that call the program back are two steps, up
to the callback and after it, and in between the program may call the handle again as it may between handlers; `pc`,
`lpc`, `slpc` and the like say where the handler stands.

**`Threadpool`** (`threadpool.c`): submit, the worker's wait, take, work and hand-over, `uv_cancel`, `uv__work_done`, the exit
message. The global mutex and the loop's `wq_mutex` are separate, with an owner where they are held over several steps.

**`WinBarrier`**, **`PosixBarrier`** implement **`Barrier`**: a counter and two turnstiles; two counters and a condition variable. On Windows
threads come back for another round; on POSIX one round and the destruction by the serializer.
**`WinRwlock`**: the semaphore, the reader count, the critical section in which the first reader waits.
**`WinOnce`**: `ran`, and the compare-and-swap of `event`.

**`PipeReadCancel`** (`win/pipe.c`): `uv_pipe_zero_readfile_thread_proc` against `uv__pipe_interrupt_read`, at the level of
`readfile_thread_handle`, the critical section and `CancelSynchronousIo`, which only reaches a thread that blocks at that moment.
**`WinPipe`**: one end of a connection, with `flags`, `reqs_pending`, `activecnt`, `write_reqs_pending`, the shutdown request, the eof
timer and completions taken in any order; overlapped and not. **`WinPipeServer`**: the instances of the listening pipe. A second `uv_listen` is let
through by pipe.c and fails one of its assertions; the model ends there (`ListenAgain`).

**`WinTcp`**, **`WinTcpServer`** (`win/tcp.c`): the same for sockets; the pool of accepts, and its switch from many to one.
A zero-read that fails on the spot is in the loop's list without `READ_PENDING`, so that stopping and starting the reading puts it there again (`QueuedTwice`);
the walk over the list then loses requests, or goes round for ever (`Circle`).
**`WinPoll`** (`win/poll.c`): the two requests and the masks of the fast mode; polls that fail, are interrupted (`WSAEINTR`) or find the socket closed
under them; a close whose cancelling poll failed, which `uv_close` does not notice (`uncancelled`).

**`WinTty`** (`win/tty.c`): `uv__read_console_status` against the trap, `uv_tty_output_lock`, the two kinds of read under one request, and the
records in the console's input, those that are written to wake a read included. The mode may be set at any time, under a read too: `uv_tty_set_mode`
stops the reading and starts it again. `mistaken` records that a read of keys was cancelled as if it were a line's, by the flag of the new mode.

**`WinSignal`** (`win/signal.c`): the control handler marks and posts under the lock; the loop's start, stop, dispatch and close
load and store `flags`, `signum` and `pending_signum` without it, one step each.

**`TimerHeap`** (`heap-inl.h`): insert, remove and dequeue on a record of pointers. **`TimerHeapUse`** applies any sequence of them to seven nodes;
**`Timers`** (`timer.c`) runs on it with times that wrap at `TimeWrap` and waits cut at `IntMax`.

**`WinLoopWatchers`**, **`UnixLoopWatchers`** implement **`LoopWatchers`**: a linked list with a pointer to the next handle (`From` reads off
the handles that the links lead to from a pointer); two queues.
**`FsPoll`** (`fs-poll.c`): the contexts of successive starts.

**`UnixIo`** (`unix/core.c`, `unix/linux-core.c`): watchers, the table that grows, the watcher and pending queues, and `uv__io_poll` with the batch of
events behind the table's end, against a kernel with an interest list of its own. **`UnixAsync`**, **`UnixSignal`**: marks and the
eventfd, handles without a callback (`Silent`); the signal handler, message by message, on any thread, and the message that a full pipe
loses; `awaited` follows each signal caught until its callback runs. **`UnixStream`** (`unix/stream.c`): the three write queues, the watcher,
and each place in `uv__stream_io` where the user is called.

**`Log4z`** (`log4z.cpp`): threads that log, the queue and the cache, the free list, hot changes, start and stop.

## Runs

| Run | Instance | What it shows |
| --- | --- | --- |
| `exec_queue` | 4 commands out of opens, closes and cancels of two services | `CurrentIsFront`: the command popped is the one executed; `NothingLost`; `CancelExact`: a cancel marks only what it selects behind it, and all of that unless a push invalidated its iterators; `FirstExitMeansNoService` |
| `exec_item` | 3 Executes or closes, 2 events, fair | `WatchWindow`, `EventNeedsExecute`, `ShutdownCompletes`, and `QueueSpec`: the executer implements `CommandQueue`, with its liveness |
| `server_safe` | 2 clients, 2 addresses, and 2 requests or an event and a request, 2 per read | `SlotsArePipes`, `RepliesToAsker`, `RepliesInOrder`, `NoticesAccounted`, `NoLeakWhileConnected`, `BroadcastReachesAll` |
| `service` | one client, 2 requests, the four threads, fair | `ServiceEnds`, `CommandAnswered`, and `SessionSpec`: the process implements `Session` |
| `client` | 2 callers, 2 calls and workers, 2 commands, a result, fair | `ToldOfOwnConnection`, `SpawnsOnce`, `WrittenInOrder`; `CallsReturn`, `AcceptedIsWritten`, `LostConnectionNoticed` |
| `spi_registry` | 2 callers, 2 services, 4 calls, an event | `EntriesAccounted`, `EventOncePerService`, `NoEventAfterClose` |
| `libraries_safe` | below | `StreamQueuesSound`, `WakeupsCarried`, `FsPollSound`, `CountsExact`, `CallbacksBeforeClose`, `ServersKeepListening`, `LoopStructuresSound`, `LoopCallbacksDue`, `LogSound` |
| `libraries_live` | below, fair | `DoneOnceTruthfully`, `ThreadsExclude`, `EveryWorkAnswered`, `PlatformsAgree`, `EndsComplete` |
| `exec_sticky_exit` | opens and closes | **violated**: `OnlyLastCloseExits` |
| `client_two_loops` | one caller, two calls | **violated**: `OneLoopRunner` |
| `loop_foreign_init` | two posters, two handles | **violated**: `RunsWhileActive` |
| `signal_endgame` | a watcher, a one-shot watcher | **violated**: `EndgameNotPending` |

*The libraries' runs are sums.* Handles share nothing but the loop, which takes what happened to them in any order, so nothing is gained
by interleaving them. The initial state chooses a `part`, and a behaviour exercises that one. Each composite property is a
conjunction of the properties of the parts, named in `MCLibrariesSafe.tla` and `MCLibrariesLive.tla` and defined with the part's module;
every conjunct has a mutant of its own. Some are narrower than the others beside them. Of `CallbacksBeforeClose` the conjunct for TCP is only that what was
written before a shutdown is sent before it; that a closed connection is idle is in `CountsExact`. The loop's count and list in `LoopStructuresSound` are those
of one thread (`Posters <- {}`); what other threads do to them is the run `loop_foreign_init`.

*Exceptions the properties state.* Where the code breaks off what it began, the property says so rather than the instance excluding it.
`TcpCountsExact`: `reqs_pending` is one too high for each time the read was queued twice, and the handle is then never closed. `TtyLockReleased`: until a read of
keys was cancelled as a line's. `SignalDelivered`: a signal that finds the pipe full is lost, unless another message for the same watch is there.
`AsyncSendCarried` is asked of handles that have a callback. `InstancesKept` ends with a second `uv_listen`. `EndsComplete` excuses four ends (`Excused`): a TCP handle whose
read was queued twice; a poll handle closed without its cancel, until the socket returns its polls; a console closed under a read, until a key is pressed; and a
console of which a read of keys was cancelled as a line's. `ShutdownCompletes` and the liveness of `QueueSpec` excuse a crash, of the cancel scan or the item thread.

*Why the bounds are enough.* Every race here is between two or three threads that already exist in the
smallest instance; the bounds only have to let the data differ. Two services tell a service from another,
two connections an asker from somebody else, and one address for two connections, or two for two, forces or
allows reuse. Two requests, or three or four commands, give an order, a cancel with something before and behind it, a
last close with a close after it. `ReconnectCount = 2` gives a first attempt, a last one, and attempts
after the limit (the count is capped one past it). Two workers are one and its replacement. In `service` one client is enough:
what two do to each other is `server_safe`'s. A second event or a third handle would repeat.

In `libraries_safe`: two writes give an order and a queue; two handles and two senders one that is closed under another; a signal pipe
of two messages (`PipeCap`) one that fills and loses; three starts a first, a change and one after a stop. Timeouts 0, 1 and 3 at `TimeWrap = 4` are at once, soon, and the farthest;
`IntMax = 2` is below it, so the cut of the wait is reached. Seven heap nodes are all shapes of three rows. Three accepts under way,
five in all, let one fail, one be held and the switch to one happen. Two poll masks at a time (`MaxSets = 2`) supersede each other.
Three descriptors, of which one is the signal pipe's, and four opens let a number be closed and opened again within a batch of two events and
two rounds, while the table grows. Four blocks of log data are a free list, one in the queue and two in hand. `libraries_live` has the same with one write or one logging thread, three accepts in all and three sets of poll events,
three threads at a barrier for two rounds (one on POSIX), one line entered by the user and four reads or modes of a console (start, switch,
start again, start after a stop), and three watchers for the loop (first, middle, last). One read queued twice (`MaxTwice`) is the case; a second would repeat it.
Deadlock is not checked: every instance stops at its bounds, and the processes end.

*Fairness.* Threads are scheduled: weak fairness of each thread's next step. The operating system
completes an I/O operation once begun. `uv_run` dispatches everything it took in one iteration, which is why
`OnSendCmd` and `EndIteration` of the client have strong fairness: the callbacks of one iteration are finite
in number, though an `on_connect` that fails may come between any two. In `libraries_live` the loop's steps and what the system was told to
end are weakly fair; a worker of the pool is strongly fair, because the mutex it waits for is free again and again, and so is the canceller
of a blocking read, which retries to enter the critical section. No fairness is assumed of clients,
of the application, of the service seen from the client, or of a program's calls of libuv: nobody has to send, stay, answer or close.

*What the violated runs say.* (1) `an_xfs_result.h:81` says that only the completion of the last close carries
the exit flag; the flag of the Close commander is never cleared, so after the registry of services was
empty once, a service reopened, and one of two closed, the process ends under the other. (2) libuv ties a
loop to a single thread; the client's next `run()` initialises `m_loop` while the detached worker is still in
it. (3) libuv's loop runs until no handle is active; unsynchronised updates of `active_handles` by the
executer and the item thread can lose one, and `uv_run` returns with the listening pipe active. (4) `win/signal.c:272` asserts that a
signal handle's endgame finds no signal pending. A signal that arrives during the callback marks the handle and posts its request; if the callback
closes the handle, `uv_process_signal_req` queues the endgame without looking at the mark, which `uv_signal_close` does look at.

*Two states the passing runs contain.* They contradict what comments of the code say, and the properties except them by name (`twice`, `mistaken`). `win/req-inl.h:94` guards the loop's
list against a request that is in it already. `uv_tcp_queue_read` puts a read that fails on the spot into it without `UV_HANDLE_READ_PENDING`, and `uv_tcp_read_start` looks at that flag
only, so a stop and a start before the loop has come to it put it there twice (`tcp.c:543`, `:723`). And `win/tty.c:1063` takes the lock on the screen for the thread that reads a line to
release. `uv_tty_read_stop` tells lines from keys by the mode of the handle; after `uv_tty_set_mode` has changed it under a pending read of keys, as `test-tty.c:165-214` does, it cancels a
line that nobody reads, and where a trapped thread has left the status `IN_PROGRESS` (`tty.c:491-496`) the lock is never released.

## Proofs

`ExecuterProofs`, for every set of services, request types and ids, and every bound:

- `TypeCorrect`, `PopsWhatItHandled` (`CurrentIsFront`) and `QueueIsLossless` (`NothingLost`) follow from
  `IInv == TypeOK /\ CurrentIsFront /\ ScanInBounds /\ NothingLost`. `NothingLost` is not inductive alone: what
  `Pop` removes is the executed command only because of `CurrentIsFront`, which holds since pushes append and the
  executer alone removes.
- `ImplementsQueue`: the safety part of the refinement. Initial states map to initial states; `Push` maps to
  `Accept`, `Execute` to `Answer`, the return of `uv_run` or a crash to `Stop`, and every other step to a stutter.
- `FirstExitSound` (`FirstExitMeansNoService`): an action property, from the invariant that the commander's flag is
  set exactly when an exit completion has been made.

What the executer tells the item thread, and what a cancel marks, are proved in the same module:

- `WatchWindowHolds` is inductive with the queue's invariant: three steps change what the semaphore names, and the main thread's happens
  after it has left the states the property speaks of.
- `EventNeedsExecuteHolds` needs `SignalMeansExecute`, which follows a signal through the semaphore into the item thread: it stands for an
  Execute, or for the main thread, which raised its flag first. That an Execute stays taken up comes from `NothingLost`.
- `CancelExactHolds` needs `CancelInv`: commands are numbered as they are accepted, so that a mark names what was matched, and what the deque
  holds is behind the cancel at its front, whichever element the scan reads. That nothing selected is missed is an induction over the positions
  the scan has passed; it stands on the deque being as long as when the scan began, which is what `Invalidated` negates.

`IPCServerProofs`, for every set of connections and addresses, and every bound:

- `TypeCorrect`, and `RepliesToAskerHolds` (`RepliesToAsker`), from `IInv`. `RepliesToAsker` speaks of history; the
  strengthening says of everything that will become a reply (a request in an inbox, a queued command, a
  notice at the completion port or taken from it, a write under way) that its asker was accepted, and
  that the pipe named is the asker's *or* the asker has no pipe any more. The second case is stable because a connection
  is accepted once, and because `PipesOK` keeps one pipe per connection. `Stable` proves that, once for all steps;
  `Kept` that containers which lose their head or get a good element stay good; `SendNotifyStep` what sending does.
- `SlotsArePipesHolds` (`SlotsArePipes`), which is inductive with `TypeOK`.
- `BroadcastReachesAllHolds`: an action property, from `SlotsArePipes` (an open pipe has its slot, and only one).
- `NoLeakHolds` (`NoLeakWhileConnected`) needs `LeakFree`: while nobody left no slot is empty, no pipe closes and no
  completion reports a failure. `DownForGood` makes it an invariant under that condition: a client that left does not come back.
- `NoticesAccountedHolds` needs `Places`: no container holds a notice twice, and no two hold the same. `Poll` preserves it only because
  `pending` is empty then (`PollEmpty`). `StepSend` does replies and broadcasts, which write, leak and free several notices in one step.
- `RepliesInOrderHolds` (`RepliesInOrder`) needs `Order`, which is said of `Streams`, the commands of a connection or its `WFPGetInfo`s: they
  ascend in each of six places (unread, with the executer, at the completion port, taken from it, written, delivered), and what is further on was
  sent before all that is behind (`Line`). Each step moves the head of one place to the end of another, or drops it; a `WFPGetInfo` skips the
  executer, where there are none (`QueuedAreCommands`). Writes on several pipes would break the line: by `IInv` a connection that still has its
  pipe has all its writes on that one.
- `NewAnswers`, `Delivers` and `UpHasPipe` are what the process relies on: where answers come from, whom they reach, and that a client which has
  not left has its pipe, so that only the answers of one that has can go astray.

`ServiceProofs`, for the process:

- `ImplementsSession` (`SessionSpec`): the safety of the whole refinement. Every step of the process is a step of the server and one of the
  threads, or leaves them alone, so that `IPCServerProofs`' and `ExecuterProofs`' invariants hold of the two halves (`HalvesAlways`). `Fits` is
  what neither knows: the requests handed over and not completed are the ones `queued` holds (`Mirrored`), all requests come from clients
  (`AsksKnown`), those of one client were handed over in order, before all it has unread (`HandedInOrder`, `HandedBeforeUnread`), and what is being
  answered was carried out or is a `WFPGetInfo` (`AnswersDue`). `Effect` sums up what a step does to requests, `StepSession` maps it: `Asking` to
  `Ask`, `Leaving` to `Leave`, `Completing` to `CarryOut`, the end of a write to `Answer` or `Stray`, all else to a stutter.

`AnpcClientProofs`, for every number of callers, calls, commands and attempts. `ToldOfOwnConnection`, `SpawnsOnce` and
`WrittenInOrder` speak of workers long after the call that started them, so one inductive invariant, `IInv`, carries all three:

- `LockHeld` and `CallersAt` say what a caller inside a call may rely on because it has `g_mutex`: room for a worker, a DLL that is
  loaded, a worker to stop. `Return` is the only step that gives the mutex up.
- `WorkersOK`: two workers are never in `uv_run` (`OneRunner`), because a worker that was detached, or followed by another, has
  closed its pipe and is not connecting (`DetachedClosed`, `OldWorkersClosed`) and a step of such a worker changes no status. A worker that
  has started the service counts its attempts (`SpawnedCounted`), so that it does not start it again; the status is the last worker's (`StatusOfLast`).
- `CommandsInOrder`: what is written is older than what is posted, each in order.

`SpiServicesProofs`, for every set of callers, services and event classes:

- `RegistryAccounted` (`EntriesAccounted`). The count of entries is right only because `CallsMade` and `ClosesApart` say that one call at
  most opens or closes a handle, and that a close is on its way once; `ErasingAt` ties the service being erased to the worker's place. `Old`
  gives the position an entry had before an erasure; the counts are cardinalities, compared by bijection.
- `EventPostedOnce` (`EventOncePerService`): `send_events` posts for entries that have a class, and by `FirstRegistered` only the first entry
  of a service has one: registrations and erasures both look for the first entry of the name.
- `NoEventToReleased` (`NoEventAfterClose`), from `RegisteredHeld`: a service is registered while the manager has its handle or until the
  worker erases it, unless the registration came late.

`LibrariesProofs`, for the parts of `MCLibrariesSafe`, each of which a step of the composition takes or leaves alone:

- `FsPollHolds` (`FsPollSound`). `FpOwned` says of each state of a context's timer who else may have the context; it needs that `poll_cb` is under
  way exactly while `lpc` is not `"run"`, and that the stat and the timer never are together.
- `ServersKeepListeningHolds` (`ServersKeepListening`). For pipes (`PsInv`): the requests on `pending_accepts` are distinct and connected, so that
  each `uv_accept` queues one that is not queued, and the count follows the cardinality of `Busy`. For sockets (`TsInv`): during the switch to single
  accepts `processed_accepts` is the number of the requests retired, none of which is lost (`TsSwitch`), so that when it reaches the number of all
  of them exactly the first is queued again (`TsSwitchEnds`).
- `CountsExactHolds` (`CountsExact`) and `CallbacksBeforeCloseHolds` (`CallbacksBeforeClose`) share the invariants of the handles. For a pipe
  (`WpInv`) and a TCP connection (`WtInv`, with `twice` added to the count of requests) each counter is the cardinality of the requests in certain states; `WpMove` and `WtMove` say what
  one request that goes on does to all of them. For a pipe more is needed: each write on `write_queue` waits there, once (`WpQueue`); a
  shutdown follows the connect and ends the writing (`WpShutdown`); who may read or write has a handle until the shutdown is done
  (`WpHandle`); the eof timer exists only after the shutdown's callback (`WpTimer`). A closed handle has nothing under way because the endgame read
  `reqs_pending = 0`, which is exact. `TsCounted` and `PsSafe` add the counts and the freeing of the two servers; a poll handle (`PoInv`) needs that
  msafd holds one request at most (`PoExclusive`) and that a closing handle watches nothing.
- `WakeupsCarriedHolds` (`WakeupsCarried`), by one invariant for each of its parts. *Async handles of Unix* (`UaInv`): an open handle is in one of the
  two queues, once, and a closed one in none (`UaQueued`); a handle that is marked is visited in this round, or the loop is, or is about to be,
  woken for the next (`UaWoken`); and what no callback has seen has a thread about to mark the handle, the mark, or a callback about to begin (`UaUnseen`).
  *Signals of Unix* (`UsInv`): the signals caught, and one more while the handler stands between the write and its count, are those dispatched
  and the messages in the pipe and in the buffer (`UsCounted`); the handler walks, under the lock, only over watchers of its signal, who are open;
  and of the handles that are not open exactly those whose counts differ still wait (`UsClosing`). A signal that is awaited is still to be
  written by the handler, is a message in the pipe, or has been read by the loop (`UsAwaited`). *Signals of Windows* (`WsInv`): a watcher has a number
  pending only while its request is posted or while its one shot has been dispatched (`WsMarked`), also when the loop stores back flags that it
  loaded before the handler's thread changed them (`WsStarting`). How often something is in a queue is the cardinality of its places there (`Times`);
  `TimesAppend`, `TimesTail` and `TimesCut` say what the operations on queues do to it.

`LibrariesLiveProofs`, for the parts of `MCLibrariesLive`, for every set of threads, requests and sockets:

- `DoneOnceTruthfullyHolds` (`DoneOnceTruthfully`): a request is in one place at a time (`TpPlaces`: the queue of the threads, the hand of one
  worker, the queue of the loop, the batch it answers, the hand of `uv_cancel`), and `TpTold` says what `w->work`, the links of its node, the
  count of its runs and its answers tell in each. `uv_cancel` reads exactly these to decide, so its truth is theirs. That a place holds a
  request once (`TpOnce`) and that two workers never have the same (`TpHand`) keep what one step takes apart from what the others hold;
  `ElemsAppend`, `ElemsTail` and `ElemsWithout` are the facts on queues that every step cites.
- `ThreadsExcludeHolds` (`ThreadsExclude`), by one invariant for each of its parts. The read-write lock (`RwInv`): `num_readers_` is the
  cardinality of the readers and a first one that waits, who is alone because it has the critical section (`RwFirst`), and the semaphore is
  taken exactly while somebody reads or writes (`RwHeld`). `uv_once` (`OnInv`): the winner of the race is the only one between the test and
  the event. The POSIX barrier (`PbInv`): the threads of a round fill it one by one (`PbRound`), the two counters are those who wait in the condition
  variable (`PbCounted`), so `pthread_barrier_destroy` finds both zero only when all rounds are over. The cancel of a blocked read (`RcInv`): whoever cancels has
  the handle's lock (`RcLocked`). The console (`TtInv`): a pending read is in one place (`TtPlace`); until a read of keys is cancelled as a line's (`TtUntilMistaken`),
  `output_lock` counts the one who must release it, the loop while it traps or the reading thread once trapped (`TtLocked`), the status word tells
  whether a thread reads, but after a trap that is still marked (`TtStatus`), and a line that is out while the handle is raw is marked (`TtMarked`).
- `PlatformsAgreeHolds` (`PlatformsAgree`): the four refinements, each by an invariant and one step per action that names the abstract action it maps to.
  *The barrier of `win/thread.c`* (`WbInv`): there is a round `k` that either fills, while the threads of the one before leave through the
  second turnstile one at a time (`WbFilling`), or drains through the first (`WbDraining`); `wb_count` is the cardinality of those it still has to count, so
  it reaches the number of threads, or zero, at the last one only, who swaps the turnstiles under the mutex. *The POSIX one* needs `PbInv` and that
  the last to leave, and nobody else, is the serializer, also when a thread of the next round has come in (`PbFits`). *The two queues of `unix/loop-watcher.c`*
  (`UwInv`): an active handle is in one of them, once, so the two joined are the abstract list, and the one being emptied is what the turn has left. *The
  linked list of `win/loop-watcher.c`* (`WwInv`): there is a sequence `order` of which each link holds the neighbours, and the next handle's pointer is
  its `p`-th element or null at its end; `From` follows the links from a pointer, so it yields `order` from the head and what follows `p - 1` from that
  pointer (`WwMapped`). Stopping the next handle moves the pointer on, stopping an earlier one moves `p` back (`CutBehind`, `CutBefore`).

`TypeOK` of the first four modules is proved and not run any more. Assumptions are those of the modules, which TLC evaluates on every run:
those of `MCLibrariesLive` are that threads and handles are finite sets, that the values standing for nobody are none of them, that the pool has a
thread, and that the bounds on rounds are not zero (`ThreadsAssumption`, `PoolAssumption`, `WatchersAssumption`);
`SignalsAssumption` of `MCLibrariesSafe` says that a loop has finitely many watchers and async handles, and that the
values for no signal and no handle are none of them.

*Only model-checked:* all liveness, the liveness half of `QueueSpec`, everything of `LoopHandles`, and of the libraries four
invariants. Liveness and `ENABLED` are beyond the provers. A theorem of the library that takes an
operator as a parameter is too, so each induction has to be stated of a set of numbers that has 0 and is closed under the successor. That is what
`LoopStructuresSound` and `LoopCallbacksDue` would take for the heap's walks up and down the tree, `StreamQueuesSound` for the fold that sums a queue's
bytes, `LogSound` for `SelectSeq`. These proofs were not made.

## What the models show that no property states

No document of the repository promises otherwise, so these are not findings; the models contain them.

- A command marked cancelled is executed all the same (`CanXfs.cpp:247`).
- `WFPLock`, `WFPUnlock`, `WFPSetTraceLevel` and `WFPCancelAsyncRequest` count as opens of a service
  (`CanXfs.cpp:17-31`), so the process outlives its last close.
- Commands still queued when the executer stops are not answered.
- The exit flag is lost with the write that carries it; a second one closes the listening pipe twice.
- A notice for a null slot, a closing client or a failed write is leaked.
- When `uv_spawn` fails, `anpc_create_ipc` never returns and holds `g_mutex`; attempts to connect never end.
- `on_close` and `stop(true)` may both detach the worker, and the second one terminates the process.
- A `WFPOpen` that cannot connect returns `WFS_SUCCESS`, sends nothing and leaves its entry; a registration
  made between the posting of a close and its erasure goes to the entry about to be erased.
- The process may end under an open service without the sticky flag too: a client that opens after the last close was executed and before its
  completion was written has its open recorded and answered, and `uv_run` returns.
- A pipe closed while it connects leaks the system's handle (`win/pipe.c:798`, `:1940`; `handle.rst:145` speaks of requests only), and the name that
  `pipe_connect_thread_proc` reads is freed under it (`win/pipe.c:605`).
- The serializer that destroys a Windows barrier, as `threading.rst:158-165` shows, closes the second turnstile under threads that
  wait there; in the POSIX one a thread that enters the next round early makes others sleep past it.
- The read into a preallocated buffer of a TCP handle is dead code while `uv_active_tcp_streams_threshold` is 0.
- A console closed while it reads closes the system's handle first (`win/tty.c:2184`), so that the read cannot be woken, and its close callback waits for a key.
- A poll handle closed while msafd refuses the poll that should cancel the others (`win/poll.c:153`) waits for its socket.
- The item thread may read the service of one Execute and the request of the next (`CanXfs.cpp:194-195`) and post an event that names both.
- A cancel scan whose iterators a push invalidated may miss a command, or end the process (`Executer.cpp:89`).
- A one-shot watcher on Unix that shares its signal number may stop the others' handler (`unix/signal.c:485`). On Windows one raised again in its callback
  keeps a mark with no request, so that its close never ends, and one started again stays deaf (`ONE_SHOT_DISPATCHED` is never cleared).
- A shutdown asked for while a Unix stream connects waits for a write that never comes (`unix/stream.c:1393`).
- log4z's destructor joins its thread from `DllMain` when `anpc.dll` is unloaded.

## Not modelled

The bytes of messages and the contents of replies; memory exhaustion; errors of `uv_read_start`, which the service only logs; two clients' SPI
processes at once (each has its own registry; the server sees several clients); the sequential demos, the user interface and
the tables of device data.

Of libuv, what is not an algorithm over its own state: files, process start, name
resolution, addresses and options, the console's escape sequences, conversion of texts, declarations of the system's interfaces (`winapi.h`
alone is 4700 lines), the pollers of the systems other than Linux, what happens after `fork`, the slow mode of poll handles, and sockets
passed over pipes. These, the other two copies of log4z, which differ in texts and waiting times, and `cereal` are most of the repository's lines:
nearly all of them hand arguments to the system and its errors back, and a model of them would be a transcription with nothing to check.

## Plan

Done: the executer with its abstract queue and proofs; the pipe server and its proofs; the process composed of both and its abstract
session; the client; the registry; the loop's handles; libuv's pool, locks, streams, servers, polling, signals, timers and watchers; the logger. Next:

1. Proofs: the heap of the timers, for `LoopStructuresSound`.
2. `ActiveExact` of `LoopHandles` for one thread and any number of handles.
3. The client's own race on `active_handles`, and a second round of the POSIX barrier.
