-------------------------------- MODULE WinTcp --------------------------------
(***************************************************************************)
(* A TCP connection on Windows: src/libuv/src/win/tcp.c with the stream    *)
(* functions that lead to it.  Connect, read, write, shutdown and close of *)
(* one handle against the completions of the system.  WinTcpServer has the *)
(* listening side.  Reads are always zero-reads: the threshold of          *)
(* preallocating streams is 0.  Sockets shared with another process and    *)
(* layered providers are left out.                                         *)
(*                                                                         *)
(* A handler is two steps where it calls the program back: in between      *)
(* (pc # "loop") the program may call the stream again.                    *)
(***************************************************************************)
EXTENDS Naturals, Integers, FiniteSets

CONSTANTS Writes,     \* the write requests of the program
          MaxTwice    \* bound: calls that queue the read a second time, see QueuedTwice

Reqs == {"connect", "shutdown"} \cup Writes

VARIABLES
  flags,      \* handle->flags, by name
  socket,     \* "open", "sent" (shut down for sending) or "closed"
  reqs_pending, activecnt, write_reqs_pending, shutdown_req,   \* fields of the handle
  req,        \* each request: "idle", "system", "posted", "cb", "done" or "lost"
  status,     \* what its callback is told
  read,       \* the zero-read: "none", "system", "ready", "failed" or "circling"
  pc,         \* "loop", the callback the program is in, or "circle"
  twice       \* history: how often the read was queued while it was queued

wtVars == <<flags, socket, reqs_pending, activecnt, write_reqs_pending, shutdown_req, req,
            status, read, pc, twice>>

Has(f) == f \in flags

Init ==
  /\ flags = {} /\ socket = "open"
  /\ reqs_pending = 0 /\ activecnt = 0 /\ write_reqs_pending = 0 /\ shutdown_req = FALSE
  /\ req = [r \in Reqs |-> "idle"] /\ status = [r \in Reqs |-> "none"]
  /\ read = "none" /\ pc = "loop" /\ twice = 0

WantEndgame(f) == f \cup {"ENDGAME_QUEUED"}

\* Variant of DecreasePending: a closing handle is not looked for.
DecreaseQuietly(f) ==
  /\ reqs_pending' = reqs_pending - 1
  /\ flags' = f

\* DECREASE_PENDING_REQ_COUNT.
DecreasePending(f) ==
  /\ reqs_pending' = reqs_pending - 1
  /\ flags' = IF "CLOSING" \in f /\ reqs_pending = 1 THEN WantEndgame(f) ELSE f

Callback(r, s) ==
  /\ req' = [req EXCEPT ![r] = "cb"]
  /\ status' = [status EXCEPT ![r] = s]
  /\ pc' = r

\* REGISTER_HANDLE_REQ of a request that counts as pending, given to the system
\* or, done or failed on the spot, to the loop's pending requests.
Register(r) ==
  /\ reqs_pending' = reqs_pending + 1 /\ activecnt' = activecnt + 1
  /\ \/ req' = [req EXCEPT ![r] = "system"] /\ UNCHANGED status
     \/ /\ req' = [req EXCEPT ![r] = "posted"]
        /\ \E s \in {"ok", "error"} : status' = [status EXCEPT ![r] = s]

-----------------------------------------------------------------------------
(* What the program may call.                                              *)

\* uv_tcp_try_connect; a ConnectEx that fails at once is the caller's error.
Connect ==
  /\ req["connect"] = "idle"
  /\ Register("connect") /\ status'["connect"] # "error"
  /\ UNCHANGED <<flags, socket, write_reqs_pending, shutdown_req, read, pc, twice>>

\* uv_insert_pending_req of the read that failed on the spot while it is in the
\* loop's list, which READ_PENDING does not say: the requests behind it in the list
\* fall out, so it is handled once all the same; but if it is in the list the loop
\* is walking (pc is not a callback of its own), the walk comes round to it again and
\* again.  A socket that failed on the spot is taken to fail again.
QueuedTwice ==
  /\ read' \in {"failed"} \cup (IF pc \in {"data_cb", "end_cb"} THEN {} ELSE {"circling"})
  /\ twice' = twice + 1
  /\ \E out \in SUBSET {r \in Reqs : req[r] = "posted"} :
       req' = [r \in Reqs |-> IF r \in out THEN "lost" ELSE req[r]]

InList == read \in {"failed", "circling"} /\ ~Has("READ_PENDING")

\* uv_tcp_queue_read; a read that fails on the spot is with the loop at once, and
\* READ_PENDING does not say so.
QueueRead(f) ==
  /\ \/ InList /\ QueuedTwice /\ flags' = f
     \/ /\ ~InList /\ read' \in {"system", "ready", "failed"}
        /\ flags' = IF read' = "failed" THEN f ELSE f \cup {"READ_PENDING"}
        /\ UNCHANGED <<req, twice>>

\* Variant of ReadStart: a zero-read that is still out is not looked for.
ReadStartAgain ==
  /\ Has("READABLE") /\ ~Has("READING")
  /\ activecnt' = activecnt + 1
  /\ QueueRead(flags \cup {"READING"}) /\ reqs_pending' = reqs_pending + 1
  /\ UNCHANGED <<socket, write_reqs_pending, shutdown_req, status, pc>>

\* uv_read_start, uv_tcp_read_start.
ReadStart ==
  /\ Has("READABLE") /\ ~Has("READING")
  /\ InList => twice < MaxTwice
  /\ activecnt' = activecnt + 1
  /\ IF Has("READ_PENDING")
       THEN flags' = flags \cup {"READING"} /\ UNCHANGED <<read, reqs_pending, req, twice>>
       ELSE /\ QueueRead(flags \cup {"READING"}) /\ reqs_pending' = reqs_pending + 1
            /\ read' = "failed" /\ pc \in {"data_cb", "end_cb"} => twice < MaxTwice
  /\ UNCHANGED <<socket, write_reqs_pending, shutdown_req, status, pc>>

\* uv_read_stop: the zero-read stays out.
ReadStop ==
  /\ Has("READING")
  /\ flags' = flags \ {"READING"} /\ activecnt' = activecnt - 1
  /\ UNCHANGED <<socket, reqs_pending, write_reqs_pending, shutdown_req, req, status, read, pc,
                 twice>>

\* uv_write, uv_tcp_write.
Write(w) ==
  /\ Has("WRITABLE") /\ req[w] = "idle"
  /\ Register(w)
  /\ write_reqs_pending' = write_reqs_pending + 1
  /\ UNCHANGED <<flags, socket, shutdown_req, read, pc, twice>>

\* uv_shutdown: left to the endgame.
Shutdown ==
  /\ Has("WRITABLE") /\ req["shutdown"] = "idle"
  /\ flags' = WantEndgame(flags \ {"WRITABLE"})
  /\ shutdown_req' = TRUE
  /\ req' = [req EXCEPT !["shutdown"] = "system"]
  /\ reqs_pending' = reqs_pending + 1 /\ activecnt' = activecnt + 1
  /\ UNCHANGED <<socket, write_reqs_pending, status, read, pc, twice>>

\* uv_close, uv_tcp_close: the socket is shut down if a read is out, and closed.
Close ==
  /\ socket' = "closed"
  /\ activecnt' = IF Has("READING") THEN activecnt - 1 ELSE activecnt
  /\ LET f == (flags \ {"READING", "READABLE", "WRITABLE"}) \cup {"CLOSING"} IN
       flags' = IF reqs_pending = 0 THEN WantEndgame(f) ELSE f
  /\ UNCHANGED <<reqs_pending, write_reqs_pending, shutdown_req, req, status, read, pc, twice>>

User ==
  /\ ~Has("CLOSING") /\ pc # "circle"
  /\ Connect \/ ReadStart \/ ReadStop \/ Shutdown \/ Close \/ \E w \in Writes : Write(w)

-----------------------------------------------------------------------------
(* The system ends an operation as the network will have it, and with an   *)
(* error once the socket is closed.                                        *)

Completes(r) ==
  /\ req[r] = "system" /\ r # "shutdown"
  /\ req' = [req EXCEPT ![r] = "posted"]
  /\ \E s \in {"ok", "error"} :
       /\ s = "ok" => socket # "closed"
       /\ status' = [status EXCEPT ![r] = s]
  /\ UNCHANGED <<flags, socket, reqs_pending, activecnt, write_reqs_pending, shutdown_req,
                 read, pc, twice>>

ReadCompletes ==
  /\ read = "system"
  /\ read' \in {"ready", "failed"} /\ (read' = "ready" => socket # "closed")
  /\ UNCHANGED <<flags, socket, reqs_pending, activecnt, write_reqs_pending, shutdown_req, req,
                 status, pc, twice>>

System == ReadCompletes \/ \E r \in Reqs : Completes(r)

-----------------------------------------------------------------------------
(* The loop.                                                               *)

\* uv_process_tcp_connect_req up to the callback; a connection made after
\* uv_close is reported as cancelled.
ProcessConnect ==
  /\ pc = "loop" /\ req["connect"] = "posted"
  /\ activecnt' = activecnt - 1
  /\ IF status["connect"] = "ok" /\ ~Has("CLOSING")
       THEN \/ /\ flags' = flags \cup {"CONNECTION", "READABLE", "WRITABLE"}
               /\ Callback("connect", "ok")
            \/ flags' = flags /\ Callback("connect", "error")
       ELSE flags' = flags /\ Callback("connect", IF status["connect"] = "ok" THEN "canceled"
                                                                               ELSE "error")
  /\ UNCHANGED <<socket, reqs_pending, write_reqs_pending, shutdown_req, read, twice>>

\* uv_process_tcp_write_req up to the callback.
ProcessWrite(w) ==
  /\ pc = "loop" /\ req[w] = "posted"
  /\ activecnt' = activecnt - 1
  /\ Callback(w, status[w])
  /\ UNCHANGED <<flags, socket, reqs_pending, write_reqs_pending, shutdown_req, read, twice>>

\* The rest of the handlers: the last write lets a waiting shutdown proceed.
AfterCallback(r) ==
  /\ pc = r
  /\ req' = [req EXCEPT ![r] = "done"]
  /\ write_reqs_pending' = IF r \in Writes THEN write_reqs_pending - 1 ELSE write_reqs_pending
  /\ DecreasePending(IF r \in Writes /\ shutdown_req /\ write_reqs_pending' = 0
                       THEN WantEndgame(flags) ELSE flags)
  /\ pc' = "loop"
  /\ UNCHANGED <<socket, activecnt, shutdown_req, status, read, twice>>

\* uv_process_tcp_read_req: nobody reads any more.
ProcessReadQuietly ==
  /\ pc = "loop" /\ read \in {"ready", "failed"} /\ ~Has("READING")
  /\ read' = "none"
  /\ DecreasePending(flags \ {"READ_PENDING"})
  /\ UNCHANGED <<socket, activecnt, write_reqs_pending, shutdown_req, req, status, pc, twice>>

\* A failed read stops the reading and tells the program.
ProcessReadFailed ==
  /\ pc = "loop" /\ read = "failed" /\ Has("READING")
  /\ read' = "none"
  /\ flags' = flags \ {"READ_PENDING", "READING"} /\ activecnt' = activecnt - 1
  /\ pc' = "error_cb"
  /\ UNCHANGED <<socket, reqs_pending, write_reqs_pending, shutdown_req, req, status, twice>>

\* The stream is ready: read without waiting, as long as the program reads and
\* whole buffers come; each piece, the end and an error are a callback.
ReadPiece ==
  /\ \/ pc = "loop" /\ read = "ready" /\ read' = "none" /\ Has("READING")
        /\ \/ pc' = "data_cb" /\ flags' = flags \ {"READ_PENDING"} /\ UNCHANGED activecnt
           \/ /\ pc' = "end_cb" /\ activecnt' = activecnt - 1
              /\ \E gone \in {{"READING"}, {"READING", "READABLE"}} :
                   flags' = flags \ (gone \cup {"READ_PENDING"})
     \/ pc = "data_cb" /\ Has("READING") /\ read' = read
        /\ \/ pc' = "data_cb" /\ UNCHANGED <<flags, activecnt>>
           \/ /\ pc' = "end_cb" /\ activecnt' = activecnt - 1
              /\ \E gone \in {{"READING"}, {"READING", "READABLE"}} : flags' = flags \ gone
  /\ UNCHANGED <<socket, reqs_pending, write_reqs_pending, shutdown_req, req, status, twice>>

\* The walk over the loop's requests that never ends.
Circle ==
  /\ pc = "loop" /\ read = "circling" /\ pc' = "circle"
  /\ UNCHANGED <<flags, socket, reqs_pending, activecnt, write_reqs_pending, shutdown_req, req,
                 status, read, twice>>

\* After the callback: another zero-read when the program goes on reading and
\* has none out (not after a failed one), then count this one back.
AfterRead ==
  /\ pc \in {"data_cb", "end_cb", "error_cb"}
  /\ pc' = "loop"
  /\ IF pc # "error_cb" /\ Has("READING") /\ ~Has("READ_PENDING")
       THEN QueueRead(flags) /\ UNCHANGED reqs_pending
       ELSE DecreasePending(flags) /\ UNCHANGED <<read, req, twice>>
  /\ UNCHANGED <<socket, activecnt, write_reqs_pending, shutdown_req, status>>

\* Variant of ShutdownReady: writes that are pending are not waited for.
ShutdownAtOnce == Has("CONNECTION") /\ shutdown_req

\* uv_tcp_endgame: the shutdown, once no write is pending ...
ShutdownReady == Has("CONNECTION") /\ shutdown_req /\ write_reqs_pending = 0

EndgameShutdown ==
  /\ pc = "loop" /\ Has("ENDGAME_QUEUED") /\ ShutdownReady
  /\ activecnt' = activecnt - 1
  /\ flags' = flags \ {"ENDGAME_QUEUED"}
  /\ \/ Has("CLOSING") /\ Callback("shutdown", "canceled") /\ UNCHANGED socket
     \/ ~Has("CLOSING") /\ Callback("shutdown", "ok") /\ socket' = "sent"
     \/ ~Has("CLOSING") /\ Callback("shutdown", "error") /\ UNCHANGED socket
  /\ shutdown_req' = FALSE
  /\ UNCHANGED <<reqs_pending, write_reqs_pending, read, twice>>

\* ... and the close, once no request is.
EndgameClose ==
  /\ pc = "loop" /\ Has("ENDGAME_QUEUED") /\ ~ShutdownReady
  /\ flags' = (flags \ {"ENDGAME_QUEUED"}) \cup
                (IF Has("CLOSING") /\ reqs_pending = 0 THEN {"CLOSED"} ELSE {})
  /\ UNCHANGED <<socket, reqs_pending, activecnt, write_reqs_pending, shutdown_req, req, status,
                 read, pc, twice>>

LoopStep ==
  \/ ProcessConnect \/ \E w \in Writes : ProcessWrite(w)
  \/ \E r \in Reqs : AfterCallback(r)
  \/ ProcessReadQuietly \/ ProcessReadFailed \/ ReadPiece \/ AfterRead \/ Circle
  \/ EndgameShutdown \/ EndgameClose

Next == User \/ System \/ LoopStep

\* The loop runs; a closed socket ends what is out.
Fairness == WF_wtVars(LoopStep) /\ WF_wtVars(Has("CLOSING") /\ System)

Spec == Init /\ [][Next]_wtVars /\ Fairness

-----------------------------------------------------------------------------
Pending == {r \in Reqs : req[r] \in {"system", "posted", "cb", "lost"}}
B2N(b) == IF b THEN 1 ELSE 0

\* Until the loop walks in a circle the counters are exact whatever the program does
\* in the callbacks, but that each time the read is queued twice leaves reqs_pending
\* one too high for good.  So the endgame does not run too early (at CLOSED every
\* request has had its callback and no read is out), and a handle whose read was
\* queued twice is never closed.
TcpCountsExact ==
  pc # "circle" =>
    /\ reqs_pending = Cardinality(Pending) + B2N(read # "none")
                      + B2N(pc \in {"data_cb", "end_cb", "error_cb"}) + twice
    /\ activecnt = Cardinality({r \in Pending : req[r] # "cb"}) + B2N(Has("READING"))
    /\ Has("CLOSED") => Pending = {} /\ read = "none" /\ pc = "loop" /\ twice = 0

\* Data written before a shutdown is sent before the stream is shut down.
ShutdownAfterWrites ==
  socket = "sent" => \A w \in Writes : req[w] \in {"idle", "done"}

\* uv_close has been called, and the close callback has been made.
Closing == Has("CLOSING")
Closed == Has("CLOSED")
=============================================================================
