------------------------------- MODULE UnixIo --------------------------------
(***************************************************************************)
(* How libuv watches descriptors on Linux: uv__io_start, uv__io_stop,      *)
(* uv__io_close, uv__io_feed and uv__run_pending of unix/core.c, and       *)
(* uv__io_poll with uv__platform_invalidate_fd of unix/linux-core.c,       *)
(* against a kernel that keeps an interest list of its own.                *)
(*                                                                         *)
(* loop->watchers is indexed by descriptor, grows while events are handed  *)
(* out, and holds the list of events being handed out behind its end, so   *)
(* that a callback that closes a descriptor can strike out its events.     *)
(***************************************************************************)
EXTENDS Integers, Sequences, FiniteSets, Functions

CONSTANTS IoWatchers, SignalWatcher,  \* the uv__io_t; loop->signal_io_watcher
          Fds,          \* descriptors, from 0 up; SignalFd is the signal pipe's
          SignalFd,
          NoIo,         \* NULL
          EventList,    \* the list of events, as an entry of loop->watchers
          Writers,      \* the watchers that may ask for OUT, and be fed, not just for IN
          BatchSize,    \* ARRAY_SIZE(events)
          Rounds,       \* how often a full array is asked for again
          MaxOpens      \* bound: descriptors opened

All == IoWatchers \cup {SignalWatcher}

VARIABLES
  iow,       \* per watcher: fd (-1: none), pevents, events
  table,     \* loop->watchers[0..nwatchers], the last being the list of events
  nfds,
  watcher_queue, pending_queue,
  pq,        \* the local queue of uv__run_pending
  sock,      \* per descriptor: the open file behind it, 0 for none
  opens,     \* files opened so far
  interest,  \* the kernel's interest list: [fd, sock, mask]
  batch,     \* the events not yet handed out: [fd, sock, ev]; fd = -1 is struck out
  full,      \* nfds = ARRAY_SIZE(events)
  nevents, have_signals, count,
  iopc       \* out, pending, wait, batch, signals, cb (of a batch), pendcb

ioVars == <<iow, table, nfds, watcher_queue, pending_queue, pq, sock, opens, interest,
            batch, full, nevents, have_signals, count, iopc>>
polling == <<batch, full, nevents, have_signals, count>>

nwatchers == Cardinality(DOMAIN table) - 1

NextPowerOfTwo(n) == CHOOSE p \in {2 ^ k : k \in 0..n} : p >= n /\ p < 2 * n

\* The signal watcher is started when the loop is initialised.
Init ==
  /\ iow = [w \in All |-> IF w = SignalWatcher
                          THEN [fd |-> SignalFd, pevents |-> {"IN"}, events |-> {}]
                          ELSE [fd |-> -1, pevents |-> {}, events |-> {}]]
  /\ table = [i \in 0..NextPowerOfTwo(SignalFd + 3) - 2 |->
                IF i = SignalFd THEN SignalWatcher ELSE NoIo]
  /\ nfds = 1 /\ watcher_queue = <<SignalWatcher>> /\ pending_queue = <<>> /\ pq = <<>>
  /\ sock = [fd \in Fds |-> IF fd = SignalFd THEN 1 ELSE 0] /\ opens = 1 /\ interest = {}
  /\ batch = {} /\ full = FALSE /\ nevents = 0 /\ have_signals = FALSE /\ count = 0
  /\ iopc = "out"

-----------------------------------------------------------------------------
(* What handles do with their watchers, between or in callbacks. *)

UserRuns == iopc \in {"out", "cb", "pendcb"}
Interests(w) == (SUBSET IF w \in Writers THEN {"IN", "OUT"} ELSE {"IN"}) \ {{}}
Enqueued(queue, w) == IF w \in Range(queue) THEN queue ELSE Append(queue, w)
WithoutElement(queue, w) == SelectSeq(queue, LAMBDA x : x # w)

\* A handle gets a new descriptor, the lowest free one, and uv__io_init.
Open(w) ==
  /\ UserRuns /\ iow[w].fd = -1 /\ opens < MaxOpens
  /\ \E fd \in Fds :
       /\ sock[fd] = 0 /\ \A lower \in Fds : sock[lower] = 0 => fd <= lower
       /\ iow' = [iow EXCEPT ![w] = [fd |-> fd, pevents |-> {}, events |-> {}]]
       /\ sock' = [sock EXCEPT ![fd] = opens + 1]
  /\ opens' = opens + 1
  /\ UNCHANGED <<table, nfds, watcher_queue, pending_queue, pq, interest, polling, iopc>>

\* maybe_resize: what lies behind the end moves along.
Resized(len) ==
  IF len <= nwatchers THEN table
  ELSE LET size == NextPowerOfTwo(len + 2) - 2
       IN  [i \in 0..size |-> CASE i < nwatchers -> table[i]
                                [] i = size -> table[nwatchers]
                                [] OTHER -> NoIo]

\* uv__io_start: the kernel is told at the next poll.
Start(w) ==
  /\ UserRuns /\ iow[w].fd # -1
  /\ \E events \in Interests(w) :
       LET fd == iow[w].fd
           pevents == iow[w].pevents \cup events
           new == Resized(fd + 1)
       IN  /\ iow' = [iow EXCEPT ![w].pevents = pevents]
           /\ IF iow[w].events = pevents
              THEN table' = new /\ UNCHANGED <<nfds, watcher_queue>>
              ELSE /\ watcher_queue' = Enqueued(watcher_queue, w)
                   /\ table' = IF new[fd] = NoIo THEN [new EXCEPT ![fd] = w] ELSE new
                   /\ nfds' = IF new[fd] = NoIo THEN nfds + 1 ELSE nfds
  /\ UNCHANGED <<pending_queue, pq, sock, opens, interest, polling, iopc>>

\* What uv__io_stop leaves of the watcher, the table, the count and the queue.
Unwatched(w, events) ==
  LET fd == iow[w].fd
      pevents == iow[w].pevents \ events
      known == fd < nwatchers /\ table[fd] # NoIo
  IN  IF fd >= nwatchers
      THEN [w |-> iow[w], table |-> table, nfds |-> nfds, queue |-> watcher_queue]
      ELSE IF pevents # {}
      THEN [w |-> [iow[w] EXCEPT !.pevents = pevents], table |-> table, nfds |-> nfds,
            queue |-> Enqueued(watcher_queue, w)]
      ELSE [w |-> [iow[w] EXCEPT !.pevents = {}, !.events = IF known THEN {} ELSE @],
            table |-> IF known THEN [table EXCEPT ![fd] = NoIo] ELSE table,
            nfds |-> IF known THEN nfds - 1 ELSE nfds,
            queue |-> WithoutElement(watcher_queue, w)]

\* Variant of Stop: what the kernel was told last is still believed.
StopKeepsEvents(w) ==
  /\ UserRuns /\ iow[w].fd # -1
  /\ \E events \in Interests(w) :
       LET s == Unwatched(w, events)
       IN  /\ iow' = [iow EXCEPT ![w].pevents = s.w.pevents]
           /\ table' = s.table /\ nfds' = s.nfds /\ watcher_queue' = s.queue
  /\ UNCHANGED <<pending_queue, pq, sock, opens, interest, polling, iopc>>

\* uv__io_stop
Stop(w) ==
  /\ UserRuns /\ iow[w].fd # -1
  /\ \E events \in Interests(w) :
       LET s == Unwatched(w, events)
       IN  /\ iow' = [iow EXCEPT ![w] = s.w]
           /\ table' = s.table /\ nfds' = s.nfds /\ watcher_queue' = s.queue
  /\ UNCHANGED <<pending_queue, pq, sock, opens, interest, polling, iopc>>

\* Variant of InvalidateFd: events already received stay.
InvalidateKernelOnly(fd) ==
  /\ interest' = {r \in interest : r.sock # sock[fd] \/ r.fd # fd}
  /\ UNCHANGED batch

\* Variant of InvalidateFd: the kernel is not told.
InvalidateBatchOnly(fd) ==
  /\ batch' = IF table[nwatchers] = NoIo THEN batch
              ELSE {IF e.fd = fd THEN [e EXCEPT !.fd = -1] ELSE e : e \in batch}
  /\ interest' = interest

\* uv__platform_invalidate_fd
InvalidateFd(fd) ==
  /\ batch' = IF table[nwatchers] = NoIo THEN batch
              ELSE {IF e.fd = fd THEN [e EXCEPT !.fd = -1] ELSE e : e \in batch}
  /\ interest' = {r \in interest : r.sock # sock[fd] \/ r.fd # fd}

\* Variant of Close: the watcher stays in the pending queues.
CloseKeepsPending(w) ==
  /\ UserRuns /\ iow[w].fd # -1
  /\ LET s == Unwatched(w, {"IN", "OUT"})
     IN  /\ iow' = [iow EXCEPT ![w] = [s.w EXCEPT !.fd = -1]]
         /\ table' = s.table /\ nfds' = s.nfds /\ watcher_queue' = s.queue
  /\ InvalidateFd(iow[w].fd)
  /\ sock' = [sock EXCEPT ![iow[w].fd] = 0]
  /\ UNCHANGED <<pending_queue, pq, opens, full, nevents, have_signals, count, iopc>>

\* uv__io_close, then close(2) and fd = -1.  The open file lives on if another
\* process has it too, and the kernel would go on to report it.
Close(w) ==
  /\ UserRuns /\ iow[w].fd # -1
  /\ LET s == Unwatched(w, {"IN", "OUT"})
     IN  /\ iow' = [iow EXCEPT ![w] = [s.w EXCEPT !.fd = -1]]
         /\ table' = s.table /\ nfds' = s.nfds /\ watcher_queue' = s.queue
  /\ pending_queue' = WithoutElement(pending_queue, w) /\ pq' = WithoutElement(pq, w)
  /\ InvalidateFd(iow[w].fd)
  /\ sock' = [sock EXCEPT ![iow[w].fd] = 0]
  /\ UNCHANGED <<opens, full, nevents, have_signals, count, iopc>>

\* uv__io_feed, of a handle whose connect or write ended without the kernel's report.
Feed(w) ==
  /\ UserRuns /\ w \in Writers /\ iow[w].fd # -1 /\ w \notin Range(pending_queue \o pq)
  /\ pending_queue' = Append(pending_queue, w)
  /\ UNCHANGED <<iow, table, nfds, watcher_queue, pq, sock, opens, interest, polling, iopc>>

-----------------------------------------------------------------------------
(* The loop. *)

\* uv__run_pending: what is fed meanwhile is for the next turn.
RunPending ==
  /\ iopc = "out" /\ pq' = pending_queue /\ pending_queue' = <<>> /\ iopc' = "pending"
  /\ UNCHANGED <<iow, table, nfds, watcher_queue, sock, opens, interest, polling>>

PendingCallback ==
  /\ iopc = "pending" /\ pq # <<>> /\ pq' = Tail(pq) /\ iopc' = "pendcb"
  /\ UNCHANGED <<iow, table, nfds, watcher_queue, pending_queue, sock, opens, interest, polling>>

\* uv__io_poll begins: the kernel hears of the watchers that changed, an
\* EPOLL_CTL_ADD of what it knows already becomes an EPOLL_CTL_MOD.
PollBegins ==
  /\ iopc = "pending" /\ pq = <<>> /\ nfds # 0
  /\ LET changed == Range(watcher_queue)
         now(w) == [fd |-> iow[w].fd, sock |-> sock[iow[w].fd], mask |-> iow[w].pevents]
     IN  /\ interest' = {r \in interest : \A w \in changed : r.fd # iow[w].fd \/ r.sock # sock[r.fd]}
                        \cup {now(w) : w \in changed}
         /\ iow' = [w \in All |-> IF w \in changed THEN [iow[w] EXCEPT !.events = iow[w].pevents]
                                  ELSE iow[w]]
  /\ watcher_queue' = <<>> /\ count' = Rounds /\ iopc' = "wait"
  /\ UNCHANGED <<table, nfds, pending_queue, pq, sock, opens, batch, full, nevents,
                 have_signals>>

\* epoll_wait: some descriptors the kernel is interested in are ready, in what was
\* asked for or with a hangup; each is reported once.
PollReturns ==
  /\ iopc = "wait"
  /\ \E some \in SUBSET interest : \E ev \in [some -> SUBSET {"IN", "OUT", "HUP"} \ {{}}] :
       /\ Cardinality(some) \in 1..BatchSize
       /\ \A r \in some : ev[r] \subseteq r.mask \cup {"HUP"}
       /\ batch' = {[fd |-> r.fd, sock |-> r.sock, ev |-> ev[r]] : r \in some}
       /\ full' = (Cardinality(some) = BatchSize)
  /\ nevents' = 0 /\ have_signals' = FALSE
  /\ table' = [table EXCEPT ![nwatchers] = EventList] /\ iopc' = "batch"
  /\ UNCHANGED <<iow, nfds, watcher_queue, pending_queue, pq, sock, opens, interest, count>>

Idle == batch' = {} /\ full' = FALSE /\ nevents' = 0 /\ have_signals' = FALSE /\ count' = 0

\* The time is over, or a signal ended the wait.
PollTimesOut ==
  /\ iopc = "wait" /\ iopc' = "out" /\ Idle
  /\ UNCHANGED <<iow, table, nfds, watcher_queue, pending_queue, pq, sock, opens, interest>>

\* One event: struck out; of a descriptor nobody watches, which is disarmed; of the
\* signal pipe, which comes last; or the watcher's.
HandOut(e) ==
  /\ iopc = "batch" /\ e \in batch /\ batch' = batch \ {e}
  /\ \/ e.fd = -1 /\ UNCHANGED <<interest, nevents, have_signals, iopc>>
     \/ /\ e.fd # -1 /\ table[e.fd] = NoIo
        /\ interest' = {r \in interest : r.fd # e.fd \/ r.sock # sock[e.fd]}
        /\ UNCHANGED <<nevents, have_signals, iopc>>
     \/ /\ e.fd # -1 /\ table[e.fd] # NoIo
        /\ LET w == table[e.fd]
               wanted == e.ev \cap (iow[w].pevents \cup {"HUP"})
           IN  IF wanted = {} THEN UNCHANGED <<nevents, have_signals, iopc>>
               ELSE /\ nevents' = 1
                    /\ have_signals' = (have_signals \/ w = SignalWatcher)
                    /\ iopc' = IF w = SignalWatcher THEN "batch" ELSE "cb"
        /\ UNCHANGED interest
  /\ UNCHANGED <<iow, table, nfds, watcher_queue, pending_queue, pq, sock, opens, full, count>>

\* The signal watcher's callback, the last of the batch.
RunSignals ==
  /\ iopc = "batch" /\ batch = {} /\ have_signals /\ iopc' = "signals"
  /\ UNCHANGED <<iow, table, nfds, watcher_queue, pending_queue, pq, sock, opens, interest, polling>>

CallbackReturns ==
  /\ iopc \in {"cb", "pendcb"} /\ iopc' = IF iopc = "cb" THEN "batch" ELSE "pending"
  /\ UNCHANGED <<iow, table, nfds, watcher_queue, pending_queue, pq, sock, opens, interest, polling>>

\* The batch is over: the poll returns, or asks for more after a full array, or waits
\* on when nothing was of interest.
BatchEnds ==
  /\ iopc = "signals" \/ (iopc = "batch" /\ batch = {} /\ ~have_signals)
  /\ table' = [table EXCEPT ![nwatchers] = NoIo]
  /\ IF iopc = "batch" /\ (nevents = 0 \/ (full /\ count > 1))
     THEN /\ iopc' = "wait" /\ count' = IF nevents = 0 THEN count ELSE count - 1
          /\ full' = FALSE /\ nevents' = 0 /\ have_signals' = FALSE /\ UNCHANGED batch
     ELSE iopc' = "out" /\ Idle
  /\ UNCHANGED <<iow, nfds, watcher_queue, pending_queue, pq, sock, opens, interest>>

Next ==
  \/ \E w \in IoWatchers : Open(w) \/ Start(w) \/ Stop(w) \/ Close(w) \/ Feed(w)
  \/ RunPending \/ PendingCallback \/ PollBegins \/ PollReturns \/ PollTimesOut
  \/ (\E e \in batch : HandOut(e)) \/ RunSignals \/ CallbackReturns \/ BatchEnds

Spec == Init /\ [][Next]_ioVars

-----------------------------------------------------------------------------
\* The asserts of uv__io_start, uv__io_stop and uv__io_poll: the table names each
\* watched descriptor's watcher, nfds counts them, and a queued watcher has a
\* descriptor and events.
IoTableSound ==
  /\ \A w \in All : iow[w].pevents # {} =>
       iow[w].fd \in 0..nwatchers - 1 /\ table[iow[w].fd] = w
  /\ \A fd \in 0..nwatchers - 1 : table[fd] # NoIo =>
       table[fd] \in All /\ iow[table[fd]].fd = fd /\ iow[table[fd]].pevents # {}
  /\ nfds = Cardinality({w \in All : iow[w].pevents # {}})
  /\ \A w \in Range(watcher_queue) : iow[w].pevents # {}

\* unix/core.c, linux-core.c: when the poll begins to wait the kernel knows exactly
\* what each watcher wants, and what it was told last is what libuv believes, or
\* epoll_ctl fails and libuv aborts.
KernelInterestExact ==
  /\ \A w \in All : iow[w].events # {} =>
       /\ iow[w].fd # -1
       /\ [fd |-> iow[w].fd, sock |-> sock[iow[w].fd], mask |-> iow[w].events] \in interest
  /\ iopc = "wait" /\ count = Rounds => \A w \in All : iow[w].events = iow[w].pevents

\* linux-core.c uv__platform_invalidate_fd: no watcher is called for an event of a
\* descriptor's earlier life, or after it was closed.
NoStaleEvent ==
  /\ iopc = "batch" =>
       \A e \in batch : e.fd # -1 /\ table[e.fd] # NoIo => sock[e.fd] = e.sock
  /\ \A w \in Range(pending_queue \o pq) : iow[w].fd # -1
=============================================================================
