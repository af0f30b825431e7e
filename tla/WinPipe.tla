------------------------------- MODULE WinPipe -------------------------------
(***************************************************************************)
(* One end of a named pipe on Windows: src/libuv/src/win/pipe.c with the   *)
(* stream functions that lead to it (win/stream.c, win/handle-inl.h).      *)
(* Connect, read, write, shutdown and close of one handle against the      *)
(* completions of the system, the thread-pool threads and the eof timer.   *)
(*                                                                         *)
(* A handler that calls the program back is two steps, up to the callback  *)
(* and after it; in between (pc # "loop") the program may call the pipe    *)
(* again, as it may between handlers.  Completions are taken in any order. *)
(* WinPipeServer has the listening side, PipeReadCancel the thread that    *)
(* reads a non-overlapped pipe.                                            *)
(***************************************************************************)
EXTENDS Naturals, Sequences, FiniteSets

CONSTANTS Writes   \* the write requests of the program

Reqs == {"connect", "shutdown"} \cup Writes

VARIABLES
  flags,               \* handle->flags, by name
  overlapped,          \* the pipe is not UV_HANDLE_NON_OVERLAPPED_PIPE
  handle,              \* handle->handle is not INVALID_HANDLE_VALUE
  os_open,             \* the system's pipe object is open
  reqs_pending, activecnt, write_reqs_pending,   \* the fields of the handle
  shutdown_req,        \* handle->stream.conn.shutdown_req is set
  write_queue,         \* the writes that wait for the one in the thread
  req,                 \* each request: "idle", "waiting", "posted", "cb", "done"
  result,              \* its status
  called,              \* how often its callback was called
  read,                \* the zero-read: "none", "waiting" or its completion
  eof_timer,           \* "null", "stopped" or "started"
  pc                   \* "loop", or the callback the program is in

wpVars == <<flags, overlapped, handle, os_open, reqs_pending, activecnt, write_reqs_pending,
            shutdown_req, write_queue, req, result, called, read, eof_timer, pc>>

Has(f) == f \in flags

Init ==
  /\ flags = {} /\ overlapped \in BOOLEAN /\ handle = FALSE /\ os_open = FALSE
  /\ reqs_pending = 0 /\ activecnt = 0 /\ write_reqs_pending = 0
  /\ shutdown_req = FALSE /\ write_queue = <<>>
  /\ req = [r \in Reqs |-> "idle"] /\ result = [r \in Reqs |-> "none"]
  /\ called = [r \in Reqs |-> 0]
  /\ read = "none" /\ eof_timer = "null" /\ pc = "loop"

-----------------------------------------------------------------------------
(* What the handlers share.                                                *)

\* Variant of DecreasePending: the endgame is not asked for.
DecreaseOnly(f) ==
  /\ reqs_pending' = reqs_pending - 1
  /\ flags' = f

\* DECREASE_PENDING_REQ_COUNT: the last request of a closing handle queues it
\* for the endgame.
DecreasePending(f) ==
  /\ reqs_pending' = reqs_pending - 1
  /\ flags' = IF "CLOSING" \in f /\ reqs_pending = 1 THEN f \cup {"ENDGAME_QUEUED"} ELSE f

\* uv__pipe_interrupt_read: a pending read of an open pipe is cancelled once.
Interrupted(f) ==
  IF "READ_PENDING" \in f /\ handle THEN f \cup {"CANCELLATION_PENDING"} ELSE f

\* uv__pipe_read_stop.
StopReading(f) == Interrupted(f \ {"READING"})
ReadingCount(f) == IF "READING" \in f THEN 1 ELSE 0

Enter(r) ==   \* the callback of request r
  /\ called' = [called EXCEPT ![r] = @ + 1]
  /\ req' = [req EXCEPT ![r] = "cb"]
  /\ pc' = r

-----------------------------------------------------------------------------
(* What the program may call.                                              *)

\* uv_pipe_connect: opened at once, left to a thread because the pipe is
\* busy, or failed; the flags of an opened pipe are set here.
Connect ==
  /\ req["connect"] = "idle"
  /\ reqs_pending' = reqs_pending + 1 /\ activecnt' = activecnt + 1
  /\ \/ /\ req' = [req EXCEPT !["connect"] = "posted"]
        /\ result' = [result EXCEPT !["connect"] = "ok"]
        /\ handle' = TRUE /\ os_open' = TRUE
        /\ flags' = flags \cup {"READABLE", "WRITABLE"}
     \/ /\ req' = [req EXCEPT !["connect"] = "waiting"]
        /\ UNCHANGED <<result, handle, os_open, flags>>
     \/ /\ req' = [req EXCEPT !["connect"] = "posted"]
        /\ result' = [result EXCEPT !["connect"] = "error"]
        /\ UNCHANGED <<handle, os_open, flags>>
  /\ UNCHANGED <<overlapped, write_reqs_pending, shutdown_req, write_queue, called, read,
                 eof_timer, pc>>

\* uv_pipe_queue_read: start the zero-read and the eof timer, if there is one; a
\* read that cannot be started is reported by the loop.
QueueRead(f, timer) ==
  /\ flags' = f \cup {"READ_PENDING"}
  /\ \/ read' = "waiting" /\ eof_timer' = IF timer = "null" THEN "null" ELSE "started"
     \/ read' = "error" /\ eof_timer' = timer

\* uv_read_start, uv_pipe_read_start.
ReadStart ==
  /\ Has("CONNECTION") /\ Has("READABLE") /\ ~Has("READING")
  /\ activecnt' = activecnt + 1
  /\ IF Has("READ_PENDING")
       THEN flags' = flags \cup {"READING"} /\ UNCHANGED <<read, eof_timer, reqs_pending>>
       ELSE QueueRead(flags \cup {"READING"}, eof_timer) /\ reqs_pending' = reqs_pending + 1
  /\ UNCHANGED <<overlapped, handle, os_open, write_reqs_pending, shutdown_req, write_queue,
                 req, result, called, pc>>

\* uv_read_stop.
ReadStop ==
  /\ Has("READING")
  /\ flags' = StopReading(flags)
  /\ activecnt' = activecnt - 1
  /\ UNCHANGED <<overlapped, handle, os_open, reqs_pending, write_reqs_pending, shutdown_req,
                 write_queue, req, result, called, read, eof_timer, pc>>

\* uv_write, uv__pipe_write_data: handed to the system, done on the spot
\* (blocking writes), or on a non-overlapped pipe behind the write in the thread.
Write(w) ==
  /\ Has("CONNECTION") /\ Has("WRITABLE") /\ req[w] = "idle"
  /\ IF ~overlapped /\ write_reqs_pending > 0
       THEN write_queue' = Append(write_queue, w) /\ req' = [req EXCEPT ![w] = "queued"]
            /\ UNCHANGED result
       ELSE /\ UNCHANGED write_queue
            /\ \/ req' = [req EXCEPT ![w] = "waiting"] /\ UNCHANGED result
               \/ req' = [req EXCEPT ![w] = "posted"] /\ result' = [result EXCEPT ![w] = "ok"]
  /\ reqs_pending' = reqs_pending + 1 /\ activecnt' = activecnt + 1
  /\ write_reqs_pending' = write_reqs_pending + 1
  /\ UNCHANGED <<flags, overlapped, handle, os_open, shutdown_req, called, read, eof_timer, pc>>

\* uv_shutdown: the rest is left to the endgame.
Shutdown ==
  /\ Has("CONNECTION") /\ Has("WRITABLE") /\ req["shutdown"] = "idle"
  /\ flags' = (flags \ {"WRITABLE"}) \cup {"ENDGAME_QUEUED"}
  /\ shutdown_req' = TRUE
  /\ req' = [req EXCEPT !["shutdown"] = "waiting"]
  /\ reqs_pending' = reqs_pending + 1 /\ activecnt' = activecnt + 1
  /\ UNCHANGED <<overlapped, handle, os_open, write_reqs_pending, write_queue, result, called,
                 read, eof_timer, pc>>

\* uv_close, uv_pipe_close, uv_pipe_cleanup: stop reading, cancel the read,
\* drop the timer, and close the system's handle of a connection.
Close ==
  /\ LET f == Interrupted(flags \ {"READING"}) \ {"READABLE", "WRITABLE"} IN
       flags' = f \cup {"CLOSING"} \cup (IF reqs_pending = 0 THEN {"ENDGAME_QUEUED"} ELSE {})
  /\ activecnt' = activecnt - ReadingCount(flags)
  /\ IF Has("CONNECTION") THEN handle' = FALSE /\ eof_timer' = "null"
                               /\ os_open' = (os_open /\ ~handle)
                          ELSE UNCHANGED <<handle, os_open, eof_timer>>
  /\ UNCHANGED <<overlapped, reqs_pending, write_reqs_pending, shutdown_req, write_queue, req,
                 result, called, read, pc>>

\* A program calls nothing on a handle after uv_close.
User ==
  /\ ~Has("CLOSING")
  /\ \/ Connect \/ ReadStart \/ ReadStop \/ Shutdown \/ Close
     \/ \E w \in Writes : Write(w)

-----------------------------------------------------------------------------
(* The system and the threads.                                             *)

\* pipe_connect_thread_proc: it sets the handle's fields from its own thread.
ConnectThread ==
  /\ req["connect"] = "waiting"
  /\ req' = [req EXCEPT !["connect"] = "posted"]
  /\ \/ /\ result' = [result EXCEPT !["connect"] = "ok"]
        /\ handle' = TRUE /\ os_open' = TRUE
        /\ flags' = flags \cup {"READABLE", "WRITABLE"}
     \/ /\ result' = [result EXCEPT !["connect"] = "error"]
        /\ UNCHANGED <<handle, os_open, flags>>
  /\ UNCHANGED <<overlapped, reqs_pending, activecnt, write_reqs_pending, shutdown_req,
                 write_queue, called, read, eof_timer, pc>>

\* The zero-read ends: with data or at the end of the stream whenever the peer
\* does that, aborted after a cancel or when the pipe was closed.
ReadCompletes ==
  /\ read = "waiting"
  /\ \/ os_open /\ read' \in {"data", "eof", "error"}
     \/ (Has("CANCELLATION_PENDING") \/ ~os_open) /\ read' = "aborted"
  /\ UNCHANGED <<flags, overlapped, handle, os_open, reqs_pending, activecnt,
                 write_reqs_pending, shutdown_req, write_queue, req, result, called,
                 eof_timer, pc>>

\* A write ends, in the system or in uv_pipe_writefile_thread_proc.
WriteCompletes(w) ==
  /\ req[w] = "waiting"
  /\ req' = [req EXCEPT ![w] = "posted"]
  /\ \/ os_open /\ result' = [result EXCEPT ![w] = "ok"]
     \/ result' = [result EXCEPT ![w] = "error"]
  /\ UNCHANGED <<flags, overlapped, handle, os_open, reqs_pending, activecnt,
                 write_reqs_pending, shutdown_req, write_queue, called, read, eof_timer, pc>>

\* pipe_shutdown_thread_proc has flushed.
FlushCompletes ==
  /\ req["shutdown"] = "waiting" /\ result["shutdown"] = "flushing"
  /\ req' = [req EXCEPT !["shutdown"] = "posted"]
  /\ result' = [result EXCEPT !["shutdown"] = "ok"]
  /\ UNCHANGED <<flags, overlapped, handle, os_open, reqs_pending, activecnt,
                 write_reqs_pending, shutdown_req, write_queue, called, read, eof_timer, pc>>

System == ConnectThread \/ ReadCompletes \/ (\E w \in Writes : WriteCompletes(w)) \/ FlushCompletes

-----------------------------------------------------------------------------
(* The loop.                                                               *)

\* uv_process_pipe_connect_req up to the callback.
ProcessConnect ==
  /\ pc = "loop" /\ req["connect"] = "posted"
  /\ activecnt' = activecnt - 1
  /\ flags' = IF result["connect"] = "ok" THEN flags \cup {"CONNECTION"} ELSE flags
  /\ Enter("connect")
  /\ UNCHANGED <<overlapped, handle, os_open, reqs_pending, write_reqs_pending, shutdown_req,
                 write_queue, result, read, eof_timer>>

\* uv_process_pipe_write_req up to the callback.
ProcessWrite(w) ==
  /\ pc = "loop" /\ req[w] = "posted"
  /\ activecnt' = activecnt - 1
  /\ Enter(w)
  /\ UNCHANGED <<flags, overlapped, handle, os_open, reqs_pending, write_reqs_pending,
                 shutdown_req, write_queue, result, read, eof_timer>>

\* Variant of AfterWrite: the shutdown that waits for the last write is not resumed.
AfterWriteNoShutdown(w) ==
  /\ pc = w
  /\ write_reqs_pending' = write_reqs_pending - 1
  /\ IF write_queue # <<>>
       THEN /\ write_queue' = Tail(write_queue)
            /\ req' = [req EXCEPT ![w] = "done", ![Head(write_queue)] = "waiting"]
       ELSE req' = [req EXCEPT ![w] = "done"] /\ UNCHANGED write_queue
  /\ DecreasePending(flags)
  /\ pc' = "loop"
  /\ UNCHANGED <<overlapped, handle, os_open, activecnt, shutdown_req, result, called, read,
                 eof_timer>>

\* Its rest: start the next queued write, let a waiting shutdown proceed.
AfterWrite(w) ==
  /\ pc = w
  /\ write_reqs_pending' = write_reqs_pending - 1
  /\ IF write_queue # <<>>
       THEN /\ write_queue' = Tail(write_queue)
            /\ req' = [req EXCEPT ![w] = "done", ![Head(write_queue)] = "waiting"]
       ELSE req' = [req EXCEPT ![w] = "done"] /\ UNCHANGED write_queue
  /\ DecreasePending(IF shutdown_req /\ write_reqs_pending = 1 THEN flags \cup {"ENDGAME_QUEUED"}
                                                               ELSE flags)
  /\ pc' = "loop"
  /\ UNCHANGED <<overlapped, handle, os_open, activecnt, shutdown_req, result, called, read,
                 eof_timer>>

\* The rest of the handlers of connect and shutdown.
AfterCallback(r) ==
  /\ pc = r /\ r \in {"connect", "shutdown"}
  /\ req' = [req EXCEPT ![r] = "done"]
  /\ DecreasePending(flags)
  /\ pc' = "loop"
  /\ UNCHANGED <<overlapped, handle, os_open, activecnt, write_reqs_pending, shutdown_req,
                 write_queue, result, called, read, eof_timer>>

\* uv_process_pipe_read_req, its bookkeeping, and what is decided before any
\* callback: nothing when reading was stopped, a new zero-read after a cancel, or
\* when there is nothing to read after all.
ReadDone == flags \ {"READ_PENDING", "CANCELLATION_PENDING"}
TimerStopped == IF eof_timer = "null" THEN "null" ELSE "stopped"

ProcessReadQuietly ==
  /\ pc = "loop" /\ read \notin {"none", "waiting"}
  /\ IF Has("READING")
       THEN /\ read \in {"aborted", "data"}
            /\ QueueRead(ReadDone, TimerStopped)
            /\ UNCHANGED reqs_pending
       ELSE /\ read' = "none" /\ eof_timer' = TimerStopped /\ DecreasePending(ReadDone)
  /\ UNCHANGED <<overlapped, handle, os_open, activecnt, write_reqs_pending, shutdown_req,
                 write_queue, req, result, called, pc>>

\* Data: the read callback gets it.
ProcessReadData ==
  /\ pc = "loop" /\ read = "data" /\ Has("READING")
  /\ read' = "none" /\ eof_timer' = TimerStopped
  /\ DecreasePending(ReadDone)
  /\ pc' = "data_cb"
  /\ UNCHANGED <<overlapped, handle, os_open, activecnt, write_reqs_pending, shutdown_req,
                 write_queue, req, result, called>>

\* uv_pipe_read_error_or_eof: drop the timer, stop reading, tell the program.
ProcessReadEnd ==
  /\ pc = "loop" /\ Has("READING")
  /\ read \in {"eof", "error"} \/ (read = "data" /\ os_open)
  /\ read' = "none" /\ eof_timer' = "null"
  /\ LET f == StopReading(ReadDone) IN
       \/ read # "error" /\ DecreasePending(f \ {"READABLE"})
       \/ read # "eof"   /\ DecreasePending(f)
  /\ activecnt' = activecnt - 1
  /\ pc' = "read_cb"
  /\ UNCHANGED <<overlapped, handle, os_open, write_reqs_pending, shutdown_req, write_queue,
                 req, result, called>>

\* The read loop goes on while the program reads, and finds the end there; a
\* zero-read that the callback started is then cancelled.
ReadOnToEnd ==
  /\ pc = "data_cb" /\ Has("READING")
  /\ eof_timer' = "null"
  /\ \E f \in {StopReading(flags), StopReading(flags) \ {"READABLE"}} : flags' = f
  /\ activecnt' = activecnt - 1
  /\ pc' = "read_cb"
  /\ UNCHANGED <<overlapped, handle, os_open, reqs_pending, write_reqs_pending, shutdown_req,
                 write_queue, req, result, called, read>>

\* After the read callback: another zero-read, unless one was started in it.
AfterRead ==
  /\ pc \in {"read_cb", "data_cb"}
  /\ pc' = "loop"
  /\ IF Has("READING") /\ ~Has("READ_PENDING")
       THEN QueueRead(flags, eof_timer) /\ reqs_pending' = reqs_pending + 1
       ELSE UNCHANGED <<read, flags, eof_timer, reqs_pending>>
  /\ UNCHANGED <<overlapped, handle, os_open, activecnt, write_reqs_pending, shutdown_req,
                 write_queue, req, result, called>>

\* uv_process_pipe_shutdown_req up to the callback: give the peer time to
\* close, or close at once when this end is not readable.
ProcessShutdown ==
  /\ pc = "loop" /\ req["shutdown"] = "posted"
  /\ activecnt' = activecnt - 1
  /\ IF Has("READABLE")
       THEN /\ eof_timer' = IF Has("READ_PENDING") THEN "started" ELSE "stopped"
            /\ UNCHANGED <<handle, os_open>>
       ELSE /\ handle' = FALSE /\ os_open' = (os_open /\ ~handle)
            /\ UNCHANGED eof_timer
  /\ Enter("shutdown")
  /\ UNCHANGED <<flags, overlapped, reqs_pending, write_reqs_pending, shutdown_req, write_queue,
                 result, read>>

\* eof_timer_cb: unless the read has completed meanwhile, close the pipe and
\* report the end; on a non-overlapped pipe the read always looks completed.
EofTimer ==
  /\ pc = "loop" /\ eof_timer = "started"
  /\ IF overlapped /\ read = "waiting"
       THEN /\ handle' = FALSE /\ os_open' = FALSE
            /\ activecnt' = activecnt - ReadingCount(flags)
            /\ flags' = flags \ {"READING", "READABLE"}
            /\ eof_timer' = "null"
            /\ pc' = "eof_cb"
       ELSE eof_timer' = "stopped" /\ UNCHANGED <<handle, os_open, activecnt, flags, pc>>
  /\ UNCHANGED <<overlapped, reqs_pending, write_reqs_pending, shutdown_req, write_queue, req,
                 result, called, read>>

AfterEof ==
  /\ pc = "eof_cb" /\ pc' = "loop"
  /\ UNCHANGED <<flags, overlapped, handle, os_open, reqs_pending, activecnt,
                 write_reqs_pending, shutdown_req, write_queue, req, result, called, read,
                 eof_timer>>

\* uv_pipe_endgame, the shutdown: cancelled when closing, failed, done at
\* once because nothing is buffered, or given to the flush thread.
ShutdownReady == Has("CONNECTION") /\ shutdown_req /\ write_reqs_pending = 0

EndgameShutdown ==
  /\ pc = "loop" /\ Has("ENDGAME_QUEUED") /\ ShutdownReady
  /\ shutdown_req' = FALSE
  /\ \/ /\ Has("CLOSING")
        /\ result' = [result EXCEPT !["shutdown"] = "canceled"]
        /\ flags' = flags \ {"ENDGAME_QUEUED"}
        /\ activecnt' = activecnt - 1 /\ Enter("shutdown")
     \/ /\ ~Has("CLOSING")
        /\ result' = [result EXCEPT !["shutdown"] = "error"]
        /\ flags' = (flags \ {"ENDGAME_QUEUED"}) \cup {"WRITABLE"}
        /\ activecnt' = activecnt - 1 /\ Enter("shutdown")
     \/ /\ ~Has("CLOSING") /\ handle
        /\ \/ /\ req' = [req EXCEPT !["shutdown"] = "posted"]
              /\ result' = [result EXCEPT !["shutdown"] = "ok"]
           \/ result' = [result EXCEPT !["shutdown"] = "flushing"] /\ UNCHANGED req
        /\ flags' = flags \ {"ENDGAME_QUEUED"}
        /\ UNCHANGED <<activecnt, called, pc>>
  /\ UNCHANGED <<overlapped, handle, os_open, reqs_pending, write_reqs_pending, write_queue,
                 read, eof_timer>>

\* uv_pipe_endgame of a closing handle without requests: uv__handle_close.
EndgameClose ==
  /\ pc = "loop" /\ Has("ENDGAME_QUEUED") /\ ~ShutdownReady
  /\ flags' = (flags \ {"ENDGAME_QUEUED"}) \cup
                (IF Has("CLOSING") /\ reqs_pending = 0 THEN {"CLOSED"} ELSE {})
  /\ UNCHANGED <<overlapped, handle, os_open, reqs_pending, activecnt, write_reqs_pending,
                 shutdown_req, write_queue, req, result, called, read, eof_timer, pc>>

LoopStep ==
  \/ ProcessConnect \/ \E w \in Writes : ProcessWrite(w) \/ AfterWrite(w)
  \/ \E r \in {"connect", "shutdown"} : AfterCallback(r)
  \/ ProcessReadQuietly \/ ProcessReadData \/ ProcessReadEnd \/ ReadOnToEnd \/ AfterRead
  \/ ProcessShutdown \/ EofTimer \/ AfterEof \/ EndgameShutdown \/ EndgameClose

Next == User \/ System \/ LoopStep

\* The loop runs; once the pipe is closed the system ends what is outstanding,
\* and the threads end their wait for a busy pipe or their flush.
Fairness == WF_wpVars(LoopStep) /\ WF_wpVars(Has("CLOSING") /\ System)

Spec == Init /\ [][Next]_wpVars /\ Fairness

-----------------------------------------------------------------------------
(* Properties.                                                             *)

Pending == {r \in Reqs : req[r] \in {"waiting", "queued", "posted", "cb"}}
Registered == {r \in Reqs : req[r] \in {"waiting", "queued", "posted"}}
B2N(b) == IF b THEN 1 ELSE 0

\* The three counters are exact at every callback and every completion: the
\* endgame may trust reqs_pending = 0, the loop activecnt, a shutdown
\* write_reqs_pending; READ_PENDING says whether a zero-read is out.
CountsExact ==
  /\ reqs_pending = Cardinality(Pending) + B2N(read # "none")
  /\ Has("READ_PENDING") <=> read # "none"
  /\ activecnt = Cardinality(Registered) + B2N(Has("READING"))
  /\ write_reqs_pending = Cardinality(Pending \cap Writes)

\* A request's callback is called once, and never after the close callback.
CallbackOnceBeforeClose ==
  /\ \A r \in Reqs : called[r] = B2N(req[r] \in {"cb", "done"})
  /\ Has("CLOSED") => Pending = {} /\ read = "none"

\* The assertions of eof_timer_cb, of uv_pipe_queue_read and uv__pipe_write_data
\* and of the critical comment on the timer: it runs only while a read is out,
\* and who may read or write has a handle.
PipeAsserts ==
  /\ eof_timer = "started" => Has("READ_PENDING")
  /\ Has("READING") \/ (Has("CONNECTION") /\ Has("WRITABLE")) => handle
  /\ Has("CLOSED") => eof_timer = "null"

\* uv_close has been called, and the close callback has been made.
Closing == Has("CLOSING")
Closed == Has("CLOSED")

\* docs/src/handle.rst: "Handles that wrap file descriptors are closed
\* immediately".  It does not hold of one closed while it connects, whose
\* UV_HANDLE_CONNECTION is not set yet (pipe.c:798): TLC refutes it.
ClosedReleasesPipe == Has("CLOSED") => ~os_open
=============================================================================
