------------------------------ MODULE IPCServer ------------------------------
(***************************************************************************)
(* The loop thread of the anCRS service: CanIPCServer's callbacks on the   *)
(* named pipes of its clients, the notices (an_notice_result) the other    *)
(* threads hand to it through uv_async_t handles, and the part of uv_run   *)
(* that orders them.  Clients, the executer and the operating system's I/O *)
(* are the environment.                                                    *)
(***************************************************************************)
EXTENDS Naturals, Sequences, FiniteSets

CONSTANTS Conns,      \* connections clients make, each once
          Addrs,      \* addresses new uv_pipe_t can return
          Null,       \* nullptr
          MaxReqs,    \* bound: requests sent
          MaxEvents,  \* bound: events broadcast
          MaxRead     \* bound: requests one read may return

ASSUME IPCServerAssumption ==
  /\ Null \notin Addrs \cup Conns
  /\ MaxReqs \in Nat /\ MaxEvents \in Nat /\ MaxRead \in Nat \ {0}

\* A request: who sent it, and whether it is a WFPGetInfo.
Request == [id : 1..MaxReqs, conn : Conns, info : BOOLEAN]

VARIABLES
  link,       \* client's end of a connection: idle, waiting, up, down
  inbox,      \* requests written to a connection and not read yet
  sent,       \* number of requests sent
  pipe,       \* the uv_pipe_t at an address: free, open, closing; its connection
  slots,      \* s_client_vector: addresses, or Null where a client was erased
  listen,     \* m_handle: open, closing, closed
  queued,     \* commands handed to the executer, with the raw client pointer
  events,     \* number of events broadcast
  notices,    \* number of an_notice_result allocated
  freed,      \* notices freed
  leaked,     \* notices nothing refers to any more and nobody freed
  wq,         \* writes under way on the pipe at an address
  iocp,       \* completions queued at the completion port
  pending,    \* completions uv__poll has taken from it
  lpc,        \* where uv_run is: process, poll, endgame, ended, crashed
  stopFlag,   \* loop->stop_flag
  delivered,  \* history: replies written to a connection
  exiting     \* history: connections whose exit completion was handed over

peerVars   == <<link, inbox, sent>>
pipeVars   == <<pipe, slots, listen>>
execVars   == <<queued, events, exiting>>
noticeVars == <<notices, freed, leaked>>
ioVars     == <<wq, iocp, delivered>>
loopVars   == <<pending, lpc, stopFlag>>
vars == <<peerVars, pipeVars, execVars, noticeVars, ioVars, loopVars>>

Init ==
  /\ link = [k \in Conns |-> "idle"] /\ inbox = [k \in Conns |-> <<>>] /\ sent = 0
  /\ pipe = [a \in Addrs |-> [st |-> "free", conn |-> Null]]
  /\ slots = <<>> /\ listen = "open"
  /\ queued = <<>> /\ events = 0 /\ exiting = {}
  /\ notices = 0 /\ freed = {} /\ leaked = {}
  /\ wq = [a \in Addrs |-> <<>>] /\ iocp = <<>> /\ delivered = [k \in Conns |-> <<>>]
  /\ pending = <<>> /\ lpc = "process" /\ stopFlag = FALSE

-----------------------------------------------------------------------------
(* The clients. *)

Connect(k) ==
  /\ link[k] = "idle" /\ listen = "open"
  /\ link' = [link EXCEPT ![k] = "waiting"]
  /\ UNCHANGED <<inbox, sent, pipeVars, execVars, noticeVars, ioVars, loopVars>>

SendRequest(k, info) ==
  /\ link[k] \in {"waiting", "up"} /\ sent < MaxReqs
  /\ sent' = sent + 1
  /\ inbox' = [inbox EXCEPT ![k] = Append(@, [id |-> sent + 1, conn |-> k, info |-> info])]
  /\ UNCHANGED <<link, pipeVars, execVars, noticeVars, ioVars, loopVars>>

Disconnect(k) ==
  /\ link[k] = "up"
  /\ link' = [link EXCEPT ![k] = "down"]
  /\ UNCHANGED <<inbox, sent, pipeVars, execVars, noticeVars, ioVars, loopVars>>

-----------------------------------------------------------------------------
(* Notices. *)

Notice(req, addr, exit) == [id |-> notices + 1, req |-> req, addr |-> addr, exit |-> exit]
NoRequest == [id |-> 0, conn |-> Null, info |-> FALSE]

\* send_completed_notice: a new uv_async_t carries the notice to the loop.
\* uv_async_init is called on whatever thread sends; the module LoopHandles
\* models what that does to the loop.
PostNotice(n) ==
  /\ notices' = notices + 1
  /\ iocp' = Append(iocp, [kind |-> "async", notice |-> n, addr |-> Null, ok |-> TRUE])

\* The executer thread completes the front command; whether its completion
\* carries the exit flag is the command table's business.
ExecReply(exit) ==
  /\ queued # <<>>
  /\ queued' = Tail(queued)
  /\ PostNotice(Notice(Head(queued).req, Head(queued).addr, exit))
  /\ exiting' = IF exit THEN exiting \cup {Head(queued).req.conn} ELSE exiting
  /\ UNCHANGED <<peerVars, pipeVars, events, freed, leaked, wq, delivered, loopVars>>

\* The executer's idle() or the item thread broadcasts an event.
ExecEvent ==
  /\ events < MaxEvents
  /\ events' = events + 1
  /\ PostNotice(Notice(NoRequest, Null, FALSE))
  /\ UNCHANGED <<peerVars, pipeVars, queued, exiting, freed, leaked, wq, delivered, loopVars>>

-----------------------------------------------------------------------------
(* Pipe callbacks of the loop thread. *)

\* on_new_connection: the new uv_pipe_t may get the address of a deleted one.  libuv's
\* pipe server reports no failure, and calls back with an instance to accept, so that
\* the branches that close the server or the new uv_pipe_t are out of reach.
OnNewConnection(k, a) ==
  /\ lpc = "process" /\ listen = "open"
  /\ link[k] = "waiting" /\ pipe[a].st = "free"
  /\ link' = [link EXCEPT ![k] = "up"]
  /\ pipe' = [pipe EXCEPT ![a] = [st |-> "open", conn |-> k]]
  /\ slots' = Append(slots, a)
  /\ UNCHANGED <<inbox, sent, listen, execVars, noticeVars, ioVars, loopVars>>

\* Variant of OnRead: the command goes to the front of the executer's deque.
OnReadPushFront(a, n) ==
  LET k == pipe[a].conn
      r == Head(inbox[k])
  IN  /\ lpc = "process" /\ pipe[a].st = "open"
      /\ n <= Len(inbox[k])
      /\ inbox' = [inbox EXCEPT ![k] = SubSeq(@, n + 1, Len(@))]
      /\ IF r.info
           THEN PostNotice(Notice(r, a, FALSE)) /\ UNCHANGED queued
           ELSE /\ queued' = <<[req |-> r, addr |-> a]>> \o queued
                /\ UNCHANGED <<notices, iocp>>
      /\ UNCHANGED <<link, sent, pipeVars, events, exiting, freed, leaked, wq, delivered,
                     loopVars>>

\* on_read with data: one command is decoded, however many n the read returned.
\* A WFPGetInfo is answered here, anything else goes to the executer.
OnRead(a, n) ==
  LET k == pipe[a].conn
      r == Head(inbox[k])
  IN  /\ lpc = "process" /\ pipe[a].st = "open"
      /\ n <= Len(inbox[k])
      /\ inbox' = [inbox EXCEPT ![k] = SubSeq(@, n + 1, Len(@))]
      /\ IF r.info
           THEN PostNotice(Notice(r, a, FALSE)) /\ UNCHANGED queued
           ELSE /\ queued' = Append(queued, [req |-> r, addr |-> a])
                /\ UNCHANGED <<notices, iocp>>
      /\ UNCHANGED <<link, sent, pipeVars, events, exiting, freed, leaked, wq, delivered,
                     loopVars>>

\* on_read with an error: the peer is gone and its data has been read.
OnEof(a) ==
  /\ lpc = "process" /\ pipe[a].st = "open"
  /\ link[pipe[a].conn] = "down" /\ inbox[pipe[a].conn] = <<>>
  /\ pipe' = [pipe EXCEPT ![a].st = "closing"]
  /\ UNCHANGED <<peerVars, slots, listen, execVars, noticeVars, ioVars, loopVars>>

-----------------------------------------------------------------------------
(* Completions the loop processes: on_notify and on_write. *)

AtHead(kind) == lpc = "process" /\ pending # <<>> /\ Head(pending).kind = kind

\* send_notify, for each <<notice, address>> of T (one per address at most).  A
\* pipe that is not open leaves the notice to nobody; on an open pipe whose peer
\* is gone uv_write may fail at once, and the caller frees the notice.  lost and
\* used are notices the caller itself leaks and frees.
SendNotify(T, lost, used) ==
  LET Open == {t \in T : pipe[t[2]].st = "open"}
  IN  \E F \in SUBSET {t \in Open : link[pipe[t[2]].conn] = "down"} :
        /\ wq' = [a \in Addrs |->
                    IF \E t \in Open \ F : t[2] = a
                      THEN Append(wq[a], (CHOOSE t \in Open \ F : t[2] = a)[1])
                      ELSE wq[a]]
        /\ leaked' = leaked \cup lost \cup {t[1].id : t \in T \ Open}
        /\ freed' = freed \cup used \cup {t[1].id : t \in F}

\* Variant of OnReply: the notice is freed although the write is under way.
OnReplyFrees ==
  LET n == Head(pending).notice
  IN  /\ AtHead("async") /\ n.addr # Null
      /\ SendNotify({<<n, n.addr>>}, {}, {n.id})
      /\ pending' = Tail(pending)
      /\ UNCHANGED <<peerVars, pipeVars, execVars, notices, iocp, delivered, lpc, stopFlag>>

\* Variant of OnReply: the reply goes to the client accepted last.
OnReplyNewest ==
  LET n == Head(pending).notice
      a == slots[Len(slots)]
  IN  /\ AtHead("async") /\ n.addr # Null
      /\ SendNotify({<<n, b>> : b \in {a} \ {Null}}, {n.id : b \in {a} \cap {Null}}, {})
      /\ pending' = Tail(pending)
      /\ UNCHANGED <<peerVars, pipeVars, execVars, notices, iocp, delivered, lpc, stopFlag>>

\* Variant of OnReply: nothing is sent while a write is under way.
OnReplyWhenIdle ==
  LET n == Head(pending).notice
  IN  /\ AtHead("async") /\ n.addr # Null
      /\ IF wq[n.addr] = <<>> THEN SendNotify({<<n, n.addr>>}, {}, {})
                              ELSE SendNotify({}, {}, {n.id})
      /\ pending' = Tail(pending)
      /\ UNCHANGED <<peerVars, pipeVars, execVars, notices, iocp, delivered, lpc, stopFlag>>

\* on_notify of a completion.  uv_is_closing reads a deleted uv_pipe_t when the
\* client is gone, and sees it closed as long as nothing has reused the memory.
OnReply ==
  LET n == Head(pending).notice
  IN  /\ AtHead("async") /\ n.addr # Null
      /\ SendNotify({<<n, n.addr>>}, {}, {})
      /\ pending' = Tail(pending)
      /\ UNCHANGED <<peerVars, pipeVars, execVars, notices, iocp, delivered, lpc, stopFlag>>

\* The other outcome of that read.
OnReplyCrash ==
  /\ AtHead("async") /\ Head(pending).notice.addr # Null
  /\ pipe[Head(pending).notice.addr].st = "free"
  /\ lpc' = "crashed"
  /\ UNCHANGED <<peerVars, pipeVars, execVars, noticeVars, ioVars, pending, stopFlag>>

\* Variant of Reached: the walk ends at the first erased client.
ReachedBeforeHole == {i \in 1..Len(slots) : \A j \in 1..i : slots[j] # Null}

\* The slots of s_client_vector that broadcast_notify sends to.
Reached == {i \in 1..Len(slots) : slots[i] # Null}

\* on_notify of an event: broadcast_notify clones the notice for every slot,
\* before it looks whether the slot is null, and on_notify frees the original.
OnEvent ==
  LET n        == Head(pending).notice
      Clone(i) == [n EXCEPT !.id = notices + i]
  IN  /\ AtHead("async") /\ n.addr = Null
      /\ SendNotify({<<Clone(i), slots[i]>> : i \in Reached},
                    {notices + i : i \in (1..Len(slots)) \ Reached}, {n.id})
      /\ notices' = notices + Len(slots)
      /\ pending' = Tail(pending)
      /\ UNCHANGED <<peerVars, pipeVars, execVars, iocp, delivered, lpc, stopFlag>>

\* on_write with an error returns before it looks at the notice.
OnWriteFailed ==
  /\ AtHead("write") /\ ~Head(pending).ok
  /\ leaked' = leaked \cup {Head(pending).notice.id}
  /\ pending' = Tail(pending)
  /\ UNCHANGED <<peerVars, pipeVars, execVars, notices, freed, ioVars, lpc, stopFlag>>

\* notify_exit_server: uv_stop, and uv_close of the listening pipe.  uv_close of a
\* handle that is closing or closed asserts; a release build just returns.
NotifyExit ==
  /\ stopFlag' = TRUE
  /\ listen' = IF listen = "open" THEN "closing" ELSE listen
  /\ IF listen = "open" THEN UNCHANGED lpc ELSE lpc' \in {"process", "crashed"}

\* Variant of OnWritten: the notice is not freed.
OnWrittenKeeps ==
  LET n == Head(pending).notice
  IN  /\ AtHead("write") /\ Head(pending).ok
      /\ IF n.exit /\ n.addr # Null THEN NotifyExit ELSE UNCHANGED <<listen, lpc, stopFlag>>
      /\ leaked' = leaked \cup {n.id}
      /\ pending' = Tail(pending)
      /\ UNCHANGED <<peerVars, pipe, slots, execVars, notices, freed, ioVars>>

\* Variant of OnWritten: the exit flag is looked at for events only.
OnWrittenStays ==
  LET n == Head(pending).notice
  IN  /\ AtHead("write") /\ Head(pending).ok
      /\ IF n.exit /\ n.addr = Null THEN NotifyExit ELSE UNCHANGED <<listen, lpc, stopFlag>>
      /\ freed' = freed \cup {n.id}
      /\ pending' = Tail(pending)
      /\ UNCHANGED <<peerVars, pipe, slots, execVars, notices, leaked, ioVars>>

OnWritten ==
  LET n == Head(pending).notice
  IN  /\ AtHead("write") /\ Head(pending).ok
      /\ IF n.exit /\ n.addr # Null THEN NotifyExit ELSE UNCHANGED <<listen, lpc, stopFlag>>
      /\ freed' = freed \cup {n.id}
      /\ pending' = Tail(pending)
      /\ UNCHANGED <<peerVars, pipe, slots, execVars, notices, leaked, ioVars>>

-----------------------------------------------------------------------------
(* uv_run: process what was taken, poll, run the endgames, look at stop_flag. *)

ProcessDone ==
  /\ lpc = "process" /\ pending = <<>>
  /\ lpc' = "poll"
  /\ UNCHANGED <<peerVars, pipeVars, execVars, noticeVars, ioVars, pending, stopFlag>>

Poll ==
  /\ lpc = "poll"
  /\ pending' = iocp /\ iocp' = <<>>
  /\ lpc' = "endgame"
  /\ UNCHANGED <<peerVars, pipeVars, execVars, noticeVars, wq, delivered, stopFlag>>

\* A closing pipe reaches its close callback once its writes are processed.
Closed == {a \in Addrs : /\ pipe[a].st = "closing" /\ wq[a] = <<>>
                         /\ \A i \in 1..Len(pending) : pending[i].addr # a
                         /\ \A i \in 1..Len(iocp) : iocp[i].addr # a}

\* Variant of EraseClients: the address is kept in the vector.
EraseNobody(A) == slots

\* erase_client_vector, for each address of A.
EraseClients(A) == [i \in 1..Len(slots) |-> IF slots[i] \in A THEN Null ELSE slots[i]]

\* on_close of clients deletes the uv_pipe_t; on_close of m_handle finds no client.
Endgames ==
  /\ lpc = "endgame"
  /\ slots' = EraseClients(Closed)
  /\ pipe' = [a \in Addrs |-> IF a \in Closed THEN [st |-> "free", conn |-> Null] ELSE pipe[a]]
  /\ listen' = IF listen = "closing" THEN "closed" ELSE listen
  /\ lpc' = IF stopFlag THEN "ended" ELSE "process"
  /\ UNCHANGED <<peerVars, execVars, noticeVars, ioVars, pending, stopFlag>>

\* The system completes the oldest write on a pipe.
IoComplete(a) ==
  LET p == pipe[a]
  IN  /\ wq[a] # <<>> /\ lpc # "crashed"
      /\ \E ok \in {b \in BOOLEAN : b => p.st = "open" /\ link[p.conn] = "up"} :
           /\ ok \/ p.st # "open" \/ link[p.conn] = "down"
           /\ iocp' = Append(iocp, [kind |-> "write", notice |-> Head(wq[a]), addr |-> a, ok |-> ok])
           /\ delivered' = IF ok /\ Head(wq[a]).req # NoRequest
                             THEN [delivered EXCEPT ![p.conn] = Append(@, Head(wq[a]).req)]
                             ELSE delivered
      /\ wq' = [wq EXCEPT ![a] = Tail(@)]
      /\ UNCHANGED <<peerVars, pipeVars, execVars, noticeVars, loopVars>>

-----------------------------------------------------------------------------
OnNotify == OnReply \/ OnReplyCrash \/ OnEvent
OnWrite == OnWriteFailed \/ OnWritten

Peers == \E k \in Conns : \/ Connect(k) \/ Disconnect(k)
                          \/ \E info \in BOOLEAN : SendRequest(k, info)
Threads == ExecEvent \/ \E exit \in BOOLEAN : ExecReply(exit)
PipeCallbacks ==
  \E a \in Addrs : \/ \E k \in Conns : OnNewConnection(k, a)
                   \/ \E n \in 1..MaxRead : OnRead(a, n)
                   \/ OnEof(a)

Next ==
  \/ Peers \/ Threads \/ PipeCallbacks \/ OnNotify \/ OnWrite
  \/ ProcessDone \/ Poll \/ Endgames
  \/ \E a \in Addrs : IoComplete(a)

Spec == Init /\ [][Next]_vars

-----------------------------------------------------------------------------
(* Properties. *)

Command == [req : Request, addr : Addrs]
NoticeRec == [id : Nat, req : Request \cup {NoRequest}, addr : Addrs \cup {Null}, exit : BOOLEAN]
Completion == [kind : {"async", "write"}, notice : NoticeRec, addr : Addrs \cup {Null}, ok : BOOLEAN]

\* The type of the state.
TypeOK ==
  /\ link \in [Conns -> {"idle", "waiting", "up", "down"}]
  /\ inbox \in [Conns -> Seq(Request)] /\ sent \in 0..MaxReqs
  /\ pipe \in [Addrs -> [st : {"free", "open", "closing"}, conn : Conns \cup {Null}]]
  /\ slots \in Seq(Addrs \cup {Null}) /\ listen \in {"open", "closing", "closed"}
  /\ queued \in Seq(Command) /\ events \in 0..MaxEvents
  /\ exiting \subseteq Conns
  /\ notices \in Nat /\ freed \subseteq Nat /\ leaked \subseteq Nat
  /\ wq \in [Addrs -> Seq(NoticeRec)] /\ delivered \in [Conns -> Seq(Request)]
  /\ iocp \in Seq(Completion) /\ pending \in Seq(Completion)
  /\ lpc \in {"process", "poll", "endgame", "ended", "crashed"} /\ stopFlag \in BOOLEAN

\* s_client_vector names each uv_pipe_t that is in use once, and no other.
SlotsArePipes ==
  /\ {slots[i] : i \in 1..Len(slots)} \ {Null} = {a \in Addrs : pipe[a].st # "free"}
  /\ \A i, j \in 1..Len(slots) : slots[i] = slots[j] /\ slots[i] # Null => i = j

\* A reply reaches another connection than its asker's only when the asker's pipe
\* was closed and its memory given to the other one.
RepliesToAsker ==
  \A k \in Conns : \A i \in 1..Len(delivered[k]) :
    delivered[k][i].conn = k \/ \A a \in Addrs : pipe[a].conn # delivered[k][i].conn

\* The replies to the commands of one connection arrive in the order in which the
\* commands were sent, and so do the replies to its WFPGetInfo requests.  (These may
\* overtake the others.)
RepliesInOrder ==
  \A k \in Conns : \A i, j \in 1..Len(delivered[k]) :
    LET d == delivered[k]
    IN  i < j /\ d[i].conn = k /\ d[j].conn = k /\ d[i].info = d[j].info => d[i].id < d[j].id

\* The notices the completion port, the loop or a pipe still refers to.
Referenced ==
  {iocp[i].notice.id : i \in 1..Len(iocp)} \cup {pending[i].notice.id : i \in 1..Len(pending)}
  \cup UNION {{wq[a][i].id : i \in 1..Len(wq[a])} : a \in Addrs}

\* Every notice is still referred to, or freed, or leaked, and only one of these:
\* nothing that is freed is used again or freed twice.
NoticesAccounted ==
  /\ Referenced \cup freed \cup leaked = 1..notices
  /\ Referenced \cap (freed \cup leaked) = {} /\ freed \cap leaked = {}

\* While no client leaves, no notice leaks.
NoLeakWhileConnected == (\A k \in Conns : link[k] # "down") => leaked = {}

\* An event is written to every client that is connected when it is broadcast.
BroadcastReachesAll ==
  [][AtHead("async") /\ Head(pending).notice.addr = Null /\ pending' # pending
       => \A a \in Addrs : pipe[a].st = "open" /\ link[pipe[a].conn] = "up"
                             => Len(wq'[a]) = Len(wq[a]) + 1]_vars

-----------------------------------------------------------------------------
(* For model checking: connections and addresses are interchangeable, and an *)
(* event comes together with one request, or there are two requests and none. *)

LOCAL INSTANCE TLC

Symmetry == Permutations(Conns) \cup Permutations(Addrs)
EventOrRequests == events = 0 \/ sent <= 1
=============================================================================
