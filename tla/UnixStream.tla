----------------------------- MODULE UnixStream -----------------------------
(***************************************************************************)
(* A connecting stream of libuv on Unix (libuv/src/unix/stream.c): its     *)
(* write queues, its watcher and its flags, from the connect request to    *)
(* the destruction of the handle.                                          *)
(*                                                                         *)
(* A request moves from write_queue (wq) to write_completed_queue (wcq)    *)
(* when it is done with, and from there to the local queue of              *)
(* uv__write_callbacks (pq).  uv__stream_io calls the user back in the     *)
(* middle of its work, and the user may write, shut down, read or close    *)
(* in every callback: slpc is where uv__stream_io stands.                  *)
(***************************************************************************)
EXTENDS Naturals, Sequences, Functions

CONSTANTS Writes,      \* the write requests the user may issue, each once
          Size         \* what a request has to write, in parts

VARIABLES sflags,      \* stream->flags
          creq,        \* connect_req: "none", "trying", or "refused" (delayed_error)
          watch,       \* io_watcher.pevents, a subset of {"IN", "OUT"}
          fed,         \* the watcher is in loop->pending_queue
          wq, wcq, pq,
          left,        \* left[w]: the parts of w not yet written
          failed,      \* the requests whose req->error is set
          qsize,       \* write_queue_size
          sreq,        \* shutdown_req is set
          before,      \* the requests issued before uv_shutdown
          slpc,        \* where uv__stream_io or uv__finish_close stands
          ev,          \* the events uv__stream_io was called with
          rd,          \* how the read callback under way was reached
          accepted,    \* the requests uv_write took, in order
          answered     \* the requests whose callback was made, in order

usVars == <<sflags, creq, watch, fed, wq, wcq, pq, left, failed, qsize, sreq,
            before, slpc, ev, rd, accepted, answered>>
queues == <<wq, wcq, pq, left, failed, qsize, accepted, answered>>

Open == "CLOSING" \notin sflags      \* the descriptor is not -1

Init ==
  /\ sflags = {} /\ creq = "none" /\ watch = {} /\ fed = FALSE
  /\ wq = <<>> /\ wcq = <<>> /\ pq = <<>>
  /\ left = [w \in Writes |-> Size] /\ failed = {} /\ qsize = 0
  /\ sreq = FALSE /\ before = {}
  /\ slpc = "run" /\ ev = {} /\ rd = "none"
  /\ accepted = <<>> /\ answered = <<>>

(***************************************************************************)
(* What the user calls: between two callbacks of the loop ("run") or       *)
(* inside one of this stream's.                                            *)
(***************************************************************************)
UserRuns == slpc \in {"run", "connectcb", "readcb", "writecb", "shutcb"}

(* uv__tcp_connect, once per handle (bound). *)
Connect ==
  /\ UserRuns /\ Open /\ "WRITABLE" \notin sflags
  /\ sflags' = sflags \cup {"WRITABLE", "READABLE"}
  /\ creq' \in {"trying", "refused"}
  /\ watch' = watch \cup {"OUT"}
  /\ fed' = (fed \/ creq' = "refused")
  /\ UNCHANGED <<queues, sreq, before, slpc, ev, rd>>

(* uv__write and uv__write_req_finish: at most one request is done with.   *)
(* write(2) takes it all, a part, nothing (EAGAIN), or fails.              *)
TryWrite(q, size) ==
  LET w == Head(q)
      Finish(s, bad) == /\ wq' = Tail(q) /\ wcq' = Append(wcq, w)
                        /\ qsize' = s /\ failed' = failed \cup bad
                        /\ fed' = TRUE
  IN \/ /\ left' = [left EXCEPT ![w] = 0]
        /\ Finish(size - left[w], {})
        /\ UNCHANGED watch
     \/ \E n \in 0 .. left[w] - 1 :
           /\ left' = [left EXCEPT ![w] = @ - n]
           /\ wq' = q /\ qsize' = size - n
           /\ watch' = watch \cup {"OUT"}
           /\ UNCHANGED <<wcq, failed, fed>>
     \/ /\ Finish(size, {w})
        /\ watch' = watch \ {"OUT"}
        /\ UNCHANGED left

(* uv_write2: an attempt at once when nothing is queued, the watcher       *)
(* otherwise; only the queue while the stream connects.                    *)
Write(w) ==
  /\ UserRuns /\ Open /\ "WRITABLE" \in sflags
  /\ \A i \in DOMAIN accepted : accepted[i] # w
  /\ accepted' = Append(accepted, w)
  /\ IF creq = "none" /\ qsize = 0
       THEN TryWrite(Append(wq, w), Size)
       ELSE /\ wq' = Append(wq, w) /\ qsize' = qsize + Size
            /\ watch' = IF creq = "none" THEN watch \cup {"OUT"} ELSE watch
            /\ UNCHANGED <<wcq, failed, left, fed>>
  /\ UNCHANGED <<sflags, creq, pq, sreq, before, slpc, ev, rd, answered>>

(* uv_shutdown: the request waits for the write queue to drain. *)
Shutdown ==
  /\ UserRuns /\ Open /\ "WRITABLE" \in sflags
  /\ sflags \cap {"SHUT", "SHUTTING"} = {}
  /\ sreq' = TRUE
  /\ sflags' = sflags \cup {"SHUTTING"}
  /\ watch' = watch \cup {"OUT"}
  /\ before' = Range(accepted)
  /\ UNCHANGED <<creq, fed, queues, slpc, ev, rd>>

(* uv_read_start. *)
ReadStart ==
  /\ UserRuns /\ Open /\ "READABLE" \in sflags
  /\ sflags' = sflags \cup {"READING"}
  /\ watch' = watch \cup {"IN"}
  /\ UNCHANGED <<creq, fed, queues, sreq, before, slpc, ev, rd>>

(* uv_read_stop. *)
ReadStop ==
  /\ UserRuns /\ Open /\ "READING" \in sflags
  /\ sflags' = sflags \ {"READING"}
  /\ watch' = watch \ {"IN"}
  /\ UNCHANGED <<creq, fed, queues, sreq, before, slpc, ev, rd>>

(* Variant of Close: the watcher stays in the pending queue of the loop. *)
CloseKeepsFeed ==
  /\ UserRuns /\ Open
  /\ sflags' = (sflags \ {"READING"}) \cup {"CLOSING"}
  /\ watch' = {}
  /\ UNCHANGED <<creq, fed, queues, sreq, before, slpc, ev, rd>>

(* uv_close and uv__stream_close: the watcher leaves the poll set and the  *)
(* pending queue, the descriptor is gone; the queues are left to           *)
(* uv__stream_destroy.                                                     *)
Close ==
  /\ UserRuns /\ Open
  /\ sflags' = (sflags \ {"READING"}) \cup {"CLOSING"}
  /\ watch' = {} /\ fed' = FALSE
  /\ UNCHANGED <<creq, queues, sreq, before, slpc, ev, rd>>

(***************************************************************************)
(* The loop: uv__stream_io is called for a fed watcher with POLLOUT, or    *)
(* for the events the kernel reports, with POLLHUP or POLLERR ("HUP") even *)
(* when nobody asked for them.                                             *)
(***************************************************************************)
Begin(events) ==
  /\ slpc' = IF creq # "none" THEN "connect" ELSE "read"
  /\ ev' = events

RunPending ==
  /\ slpc = "run" /\ fed
  /\ fed' = FALSE
  /\ Begin({"OUT"})
  /\ UNCHANGED <<sflags, creq, watch, queues, sreq, before, rd>>

Poll ==
  /\ slpc = "run" /\ watch # {}
  /\ \E got \in SUBSET watch, hup \in BOOLEAN :
        /\ got # {} \/ hup
        /\ Begin(IF hup THEN got \cup {"HUP"} ELSE got)
  /\ UNCHANGED <<sflags, creq, watch, fed, queues, sreq, before, rd>>

(* uv__stream_connect up to the connect callback; EINPROGRESS returns. *)
ConnectDone ==
  /\ slpc = "connect"
  /\ \/ /\ creq = "trying" /\ slpc' = "run"
        /\ UNCHANGED <<creq, watch, rd>>
     \/ \E ok \in BOOLEAN :
           /\ ok => creq = "trying"
           /\ creq' = "none"
           /\ watch' = IF ~ok \/ wq = <<>> THEN watch \ {"OUT"} ELSE watch
           /\ rd' = IF ok THEN "ok" ELSE "error"
           /\ slpc' = "connectcb"
  /\ UNCHANGED <<sflags, fed, queues, sreq, before, ev>>

(* uv__stream_flush_write_queue with ECANCELED. *)
Flush ==
  /\ wq' = <<>> /\ wcq' = wcq \o wq
  /\ failed' = failed \cup Range(wq)

(* The connect callback returns; a failed connection cancels the writes    *)
(* queued meanwhile.  In uv__stream_destroy the next step follows.         *)
ConnectCbReturns ==
  /\ slpc = "connectcb"
  /\ \/ /\ "CLOSED" \in sflags /\ slpc' = "flush"
        /\ UNCHANGED <<wq, wcq, failed>>
     \/ /\ "CLOSED" \notin sflags /\ (~Open \/ rd = "ok") /\ slpc' = "run"
        /\ UNCHANGED <<wq, wcq, failed>>
     \/ /\ Open /\ rd = "error" /\ Flush /\ slpc' = "move"
  /\ ev' = {} /\ rd' = "none"
  /\ UNCHANGED <<sflags, creq, watch, fed, pq, left, qsize, sreq, before,
                 accepted, answered>>

(* uv__read, one turn of its loop: nothing asked for, or a read that       *)
(* fills the buffer ("more"), does not ("part", or EAGAIN, "again"), finds *)
(* the end ("eof", uv__stream_eof) or fails ("error").                     *)
Read ==
  /\ slpc = "read"
  /\ \/ /\ ev \cap {"IN", "HUP"} = {} \/ "READING" \notin sflags
        /\ slpc' = "write"
        /\ UNCHANGED <<sflags, watch, rd>>
     \/ /\ ev \cap {"IN", "HUP"} # {} /\ "READING" \in sflags
        /\ rd' \in {"more", "part", "again", "eof", "error"}
        /\ sflags' = CASE rd' = "part" -> sflags \cup {"PARTIAL"}
                       [] rd' = "eof" -> (sflags \ {"PARTIAL"}) \cup {"READ_EOF"}
                       [] OTHER -> sflags \ {"PARTIAL"}
        /\ watch' = CASE rd' = "again" -> watch \cup {"IN"}
                      [] rd' = "eof" -> watch \ {"IN"}
                      [] OTHER -> watch
        /\ slpc' = "readcb"
  /\ UNCHANGED <<creq, fed, queues, sreq, before, ev>>

(* The read callback returns to uv__read, and from there to uv__stream_io, *)
(* which gives up when the callback closed the stream.  A hang-up after a  *)
(* partial read is reported as the end.                                    *)
ReadCbReturns ==
  /\ slpc = "readcb"
  /\ LET ended == rd \in {"eof", "error"}
         hangup == /\ Open /\ "HUP" \in ev /\ ~ended
                   /\ {"READING", "PARTIAL"} \subseteq sflags
                   /\ "READ_EOF" \notin sflags
     IN /\ sflags' = CASE ended -> sflags \ {"READING"}
                       [] hangup -> sflags \cup {"READ_EOF"}
                       [] OTHER -> sflags
        /\ watch' = IF hangup \/ (rd = "error" /\ "READING" \in sflags)
                      THEN watch \ {"IN"} ELSE watch
        /\ slpc' = CASE ~Open -> IF rd = "more" THEN "closedread" ELSE "run"
                     [] rd = "more" -> "read"
                     [] hangup -> "readcb"
                     [] OTHER -> "write"
        /\ rd' = IF hangup THEN "eof" ELSE "none"
  /\ UNCHANGED <<creq, fed, queues, sreq, before, ev>>

(* uv__read loops on a closed stream: READING is off, it returns. *)
ClosedRead ==
  /\ slpc = "closedread" /\ "READING" \notin sflags /\ slpc' = "run"
  /\ UNCHANGED <<sflags, creq, watch, fed, queues, sreq, before, ev, rd>>

(* The write half of uv__stream_io: one attempt for the oldest request. *)
WriteOut ==
  /\ slpc = "write"
  /\ \/ /\ ev \cap {"OUT", "HUP"} = {} /\ slpc' = "run"
        /\ UNCHANGED <<wq, wcq, failed, left, qsize, watch, fed>>
     \/ /\ ev \cap {"OUT", "HUP"} # {} /\ wq = <<>> /\ slpc' = "move"
        /\ UNCHANGED <<wq, wcq, failed, left, qsize, watch, fed>>
     \/ /\ ev \cap {"OUT", "HUP"} # {} /\ wq # <<>> /\ slpc' = "move"
        /\ TryWrite(wq, qsize)
  /\ UNCHANGED <<sflags, creq, pq, sreq, before, ev, rd, accepted, answered>>

(* uv__write_callbacks: QUEUE_MOVE of the completed requests. *)
MoveCompleted ==
  /\ slpc = "move"
  /\ pq' = wcq /\ wcq' = <<>>
  /\ slpc' = "callbacks"
  /\ UNCHANGED <<sflags, creq, watch, fed, wq, left, failed, qsize, sreq,
                 before, ev, rd, accepted, answered>>

(* Variant of WriteCb: the size of a request that failed is not taken off. *)
WriteCbKeepsSize ==
  /\ slpc = "callbacks" /\ pq # <<>>
  /\ pq' = Tail(pq)
  /\ answered' = Append(answered, Head(pq))
  /\ slpc' = "writecb"
  /\ UNCHANGED <<sflags, creq, watch, fed, wq, wcq, left, failed, qsize, sreq,
                 before, ev, rd, accepted>>

(* ... and the callback of one: a request that failed is taken off         *)
(* write_queue_size only now.                                              *)
WriteCb ==
  /\ slpc = "callbacks" /\ pq # <<>>
  /\ pq' = Tail(pq)
  /\ qsize' = IF Head(pq) \in failed THEN qsize - left[Head(pq)] ELSE qsize
  /\ answered' = Append(answered, Head(pq))
  /\ slpc' = "writecb"
  /\ UNCHANGED <<sflags, creq, watch, fed, wq, wcq, left, failed, sreq, before,
                 ev, rd, accepted>>

WriteCbReturns ==
  /\ slpc = "writecb" /\ slpc' = "callbacks"
  /\ UNCHANGED <<sflags, creq, watch, fed, queues, sreq, before, ev, rd>>

(* Variant of CallbacksOver: the stream drains with requests still queued. *)
CallbacksOverAlways ==
  /\ slpc = "callbacks" /\ pq = <<>>
  /\ slpc' = CASE "CLOSED" \in sflags -> "shutdown"
               [] ev # {} -> "drain"
               [] OTHER -> "run"
  /\ UNCHANGED <<sflags, creq, watch, fed, queues, sreq, before, ev, rd>>

(* The callbacks are over: the caller is uv__stream_connect, uv__stream_io *)
(* or uv__stream_destroy.                                                  *)
CallbacksOver ==
  /\ slpc = "callbacks" /\ pq = <<>>
  /\ slpc' = CASE "CLOSED" \in sflags -> "shutdown"
               [] ev # {} /\ wq = <<>> -> "drain"
               [] OTHER -> "run"
  /\ UNCHANGED <<sflags, creq, watch, fed, queues, sreq, before, ev, rd>>

(* uv__drain: the write watcher stops, a shutdown that waits is done. *)
Drain ==
  /\ slpc = "drain"
  /\ watch' = watch \ {"OUT"}
  /\ IF "SHUTTING" \in sflags /\ Open /\ "SHUT" \notin sflags
       THEN /\ sreq' = FALSE
            /\ \E ok \in BOOLEAN :
                  sflags' = (sflags \ {"SHUTTING"}) \cup (IF ok THEN {"SHUT"} ELSE {})
            /\ slpc' = "shutcb"
       ELSE slpc' = "run" /\ UNCHANGED <<sflags, sreq>>
  /\ UNCHANGED <<creq, fed, queues, before, ev, rd>>

ShutdownCbReturns ==
  /\ slpc = "shutcb"
  /\ slpc' = IF "CLOSED" \in sflags THEN "gone" ELSE "run"
  /\ UNCHANGED <<sflags, creq, watch, fed, queues, sreq, before, ev, rd>>

(***************************************************************************)
(* uv__finish_close and uv__stream_destroy, after uv__stream_io is over.   *)
(***************************************************************************)
FinishClose ==
  /\ slpc = "run" /\ ~Open
  /\ sflags' = sflags \cup {"CLOSED"}
  /\ creq' = "none"
  /\ slpc' = IF creq # "none" THEN "connectcb" ELSE "flush"
  /\ UNCHANGED <<watch, fed, queues, sreq, before, ev, rd>>

(* Variant of DestroyFlush: what is still queued is forgotten. *)
DestroyDrops ==
  /\ slpc = "flush" /\ slpc' = "move"
  /\ UNCHANGED <<sflags, creq, watch, fed, queues, sreq, before, ev, rd>>

(* uv__stream_destroy: what is still queued is cancelled. *)
DestroyFlush ==
  /\ slpc = "flush" /\ Flush /\ slpc' = "move"
  /\ UNCHANGED <<sflags, creq, watch, fed, pq, left, qsize, sreq, before, ev, rd,
                 accepted, answered>>

DestroyShutdown ==
  /\ slpc = "shutdown"
  /\ sreq' = FALSE
  /\ slpc' = IF sreq THEN "shutcb" ELSE "gone"
  /\ UNCHANGED <<sflags, creq, watch, fed, queues, before, ev, rd>>

User == Connect \/ (\E w \in Writes : Write(w)) \/ Shutdown \/ ReadStart \/ ReadStop \/ Close
Returns == ConnectCbReturns \/ ReadCbReturns \/ WriteCbReturns \/ ShutdownCbReturns
LoopStep ==
  \/ RunPending \/ Poll \/ ConnectDone \/ Read \/ ClosedRead \/ WriteOut
  \/ MoveCompleted \/ WriteCb \/ CallbacksOver \/ Drain
  \/ FinishClose \/ DestroyFlush \/ DestroyShutdown \/ Returns

Next == User \/ LoopStep
Spec == Init /\ [][Next]_usVars

-----------------------------------------------------------------------------
Sizes(ws) == SumFunctionOnSet(left, ws)

(* Every write the user was allowed is in one queue or has been answered,  *)
(* in the order of the calls, whatever callbacks wrote, failed, shut down  *)
(* or closed meanwhile; a destroyed stream has answered all of them.       *)
StreamWritesAnswered ==
  /\ accepted = answered \o pq \o wcq \o wq
  /\ slpc = "gone" => answered = accepted

(* write_queue_size is what the queued and the failed requests still have  *)
(* to write: the asserts of uv__write, uv__write_req_size and              *)
(* uv__stream_destroy, and the promise that a size of 0 means that a write *)
(* may be tried at once without overtaking another.                        *)
StreamSizeExact ==
  /\ qsize = Sizes(Range(wq) \cup ((Range(wcq) \cup Range(pq)) \cap failed))
  /\ slpc = "gone" => qsize = 0

(* A queued write of a connected stream is never forgotten: at rest the    *)
(* loop watches for POLLOUT or has the watcher fed; and a closing stream   *)
(* is in neither, or uv__stream_io would run on it (its assertion).        *)
StreamNotStalled ==
  /\ slpc = "run" /\ Open /\ creq = "none" /\ wq # <<>> => "OUT" \in watch \/ fed
  /\ ~Open => watch = {} /\ ~fed

(* shutdown(2) is done only when every write issued before uv_shutdown has *)
(* left the write queue.                                                   *)
StreamShutsAfterWrites == "SHUT" \in sflags => before \cap Range(wq) = {}
=============================================================================
