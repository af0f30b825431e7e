------------------------------- MODULE UnixAsync -------------------------------
(***************************************************************************)
(* uv_async_send on Unix (unix/async.c): any thread marks a handle pending *)
(* and writes to the loop's eventfd; the loop drains the eventfd and calls *)
(* the callback of every handle it finds marked.  Sends coalesce, and none *)
(* may be lost: what a thread did before it sent has to be seen by a       *)
(* callback that starts after.                                             *)
(***************************************************************************)
EXTENDS Naturals, Sequences, FiniteSets, Functions

CONSTANTS Senders,   \* threads that send
          Handles,   \* the uv_async_t of the loop
          Silent,    \* those made with no callback: a send only wakes the loop
          NoHandle,
          MaxSends   \* bound: sends of one thread

VARIABLES
  ast,            \* a handle: open, closing, closed
  pending,        \* handle->pending
  efd,            \* whether the eventfd counter is above zero
  async_handles,  \* loop->async_handles
  moved,          \* the local queue of uv__async_io
  alpc,           \* the loop: poll, io, called (in a callback)
  taken,          \* the handle whose callback is to run, or runs
  spc,            \* a sender: idle, read, cas, write
  shandle,        \* the handle it sends to
  sends,          \* sends begun by a thread
  unseen          \* history: something was made visible before a send of the handle
                  \* that no callback which began since has seen

asVars == <<ast, pending, efd, async_handles, moved, alpc, taken, spc, shandle, sends, unseen>>
senderVars == <<spc, shandle, sends>>

Init ==
  /\ ast = [h \in Handles |-> "open"] /\ pending = [h \in Handles |-> 0]
  /\ efd = FALSE /\ async_handles \in Bijection(1..Cardinality(Handles), Handles) /\ moved = <<>>
  /\ alpc = "poll" /\ taken = NoHandle
  /\ spc = [t \in Senders |-> "idle"] /\ shandle = [t \in Senders |-> NoHandle]
  /\ sends = [t \in Senders |-> 0] /\ unseen = [h \in Handles |-> FALSE]

-----------------------------------------------------------------------------
(* uv_async_send. *)

\* The thread has written what the callback is to see, and calls.
SendBegins(t, h) ==
  /\ spc[t] = "idle" /\ sends[t] < MaxSends /\ ast[h] = "open"
  /\ spc' = [spc EXCEPT ![t] = "read"] /\ shandle' = [shandle EXCEPT ![t] = h]
  /\ sends' = [sends EXCEPT ![t] = @ + 1]
  /\ unseen' = [unseen EXCEPT ![h] = TRUE]
  /\ UNCHANGED <<ast, pending, efd, async_handles, moved, alpc, taken>>

\* The cheap read.
SendReads(t) ==
  /\ spc[t] = "read"
  /\ spc' = [spc EXCEPT ![t] = IF pending[shandle[t]] # 0 THEN "idle" ELSE "cas"]
  /\ UNCHANGED <<ast, pending, efd, async_handles, moved, alpc, taken, shandle, sends, unseen>>

\* The compare and exchange of pending, 0 for 1.
SendSwaps(t) ==
  /\ spc[t] = "cas"
  /\ pending' = [pending EXCEPT ![shandle[t]] = 1]
  /\ spc' = [spc EXCEPT ![t] = IF pending[shandle[t]] = 0 THEN "write" ELSE "idle"]
  /\ UNCHANGED <<ast, efd, async_handles, moved, alpc, taken, shandle, sends, unseen>>

\* uv__async_send: the write to the eventfd.
SendWrites(t) ==
  /\ spc[t] = "write"
  /\ efd' = TRUE
  /\ spc' = [spc EXCEPT ![t] = "idle"]
  /\ UNCHANGED <<ast, pending, async_handles, moved, alpc, taken, shandle, sends, unseen>>

-----------------------------------------------------------------------------
(* The loop. *)

\* QUEUE_REMOVE takes a handle out of whichever queue it is in.
Removed(q, h) ==
  IF \A i \in DOMAIN q : q[i] # h THEN q
  ELSE LET k == CHOOSE i \in DOMAIN q : q[i] = h
       IN  [i \in 1..(Len(q) - 1) |-> IF i < k THEN q[i] ELSE q[i + 1]]

\* Variant of IoEnds: the eventfd is drained after the handles were visited.
IoEndsDrains ==
  /\ alpc = "io" /\ moved = <<>>
  /\ efd' = FALSE
  /\ alpc' = "poll"
  /\ UNCHANGED <<ast, pending, async_handles, moved, taken, senderVars, unseen>>

\* uv__async_io: read the eventfd to zero, then move the loop's queue.
IoBegins ==
  /\ alpc = "poll" /\ efd
  /\ efd' = FALSE
  /\ moved' = async_handles /\ async_handles' = <<>>
  /\ alpc' = "io"
  /\ UNCHANGED <<ast, pending, taken, senderVars, unseen>>

\* The next handle goes back to the loop's queue; its mark is taken away, and its
\* callback runs if there was one and it has one.
TakeHandle ==
  LET h == Head(moved)
  IN  /\ alpc = "io" /\ moved # <<>>
      /\ moved' = Tail(moved) /\ async_handles' = Append(async_handles, h)
      /\ pending' = [pending EXCEPT ![h] = 0]
      /\ IF pending[h] = 0 \/ h \in Silent
           THEN UNCHANGED <<alpc, taken>>
           ELSE alpc' = "taken" /\ taken' = h
      /\ UNCHANGED <<ast, efd, senderVars, unseen>>

\* async_cb begins: it sees everything made visible so far.
CallbackBegins ==
  /\ alpc = "taken"
  /\ unseen' = [unseen EXCEPT ![taken] = FALSE]
  /\ alpc' = "called"
  /\ UNCHANGED <<ast, pending, efd, async_handles, moved, taken, senderVars>>

\* Variant of CallbackReturns: the mark is taken away when the callback is done.
CallbackReturnsClears ==
  /\ alpc = "called"
  /\ pending' = [pending EXCEPT ![taken] = 0]
  /\ alpc' = "io" /\ taken' = NoHandle
  /\ UNCHANGED <<ast, efd, async_handles, moved, senderVars, unseen>>

CallbackReturns ==
  /\ alpc = "called"
  /\ alpc' = "io" /\ taken' = NoHandle
  /\ UNCHANGED <<ast, pending, efd, async_handles, moved, senderVars, unseen>>

IoEnds ==
  /\ alpc = "io" /\ moved = <<>>
  /\ alpc' = "poll"
  /\ UNCHANGED <<ast, pending, efd, async_handles, moved, taken, senderVars, unseen>>

\* Variant of Close: the handle is taken out of the loop's own queue only.
CloseLoopQueueOnly(h) ==
  /\ alpc \in {"poll", "called"} /\ ast[h] = "open"
  /\ \A t \in Senders : spc[t] = "idle" \/ shandle[t] # h
  /\ ast' = [ast EXCEPT ![h] = "closing"]
  /\ async_handles' = Removed(async_handles, h)
  /\ UNCHANGED <<moved, pending, efd, alpc, taken, senderVars, unseen>>

\* uv_close, in a callback or between them: the handle leaves whichever queue it is
\* in.  No thread may be inside uv_async_send of it, which is the user's to see to.
Close(h) ==
  /\ alpc \in {"poll", "called"} /\ ast[h] = "open"
  /\ \A t \in Senders : spc[t] = "idle" \/ shandle[t] # h
  /\ ast' = [ast EXCEPT ![h] = "closing"]
  /\ async_handles' = Removed(async_handles, h)
  /\ moved' = Removed(moved, h)
  /\ UNCHANGED <<pending, efd, alpc, taken, senderVars, unseen>>

\* The close callback; the handle may be freed.
CloseCb(h) ==
  /\ alpc = "poll" /\ ast[h] = "closing"
  /\ ast' = [ast EXCEPT ![h] = "closed"]
  /\ UNCHANGED <<pending, efd, async_handles, moved, alpc, taken, senderVars, unseen>>

Next ==
  \/ \E t \in Senders : \/ SendReads(t) \/ SendSwaps(t) \/ SendWrites(t)
                        \/ \E h \in Handles : SendBegins(t, h)
  \/ IoBegins \/ TakeHandle \/ CallbackBegins \/ CallbackReturns \/ IoEnds
  \/ \E h \in Handles : Close(h) \/ CloseCb(h)

Spec == Init /\ [][Next]_asVars

-----------------------------------------------------------------------------
(* Properties. *)

\* What no callback has seen is still carried to one: a thread is inside the send,
\* the callback is about to begin, or the handle is marked and the loop either
\* visits it in this round or will be woken.
AsyncSendCarried ==
  \A h \in Handles \ Silent : unseen[h] /\ ast[h] = "open" =>
    \/ \E t \in Senders : spc[t] \in {"read", "cas"} /\ shandle[t] = h
    \/ alpc = "taken" /\ taken = h
    \/ /\ pending[h] = 1
       /\ \/ efd \/ h \in {moved[i] : i \in 1..Len(moved)}
          \/ \E t \in Senders : spc[t] = "write"

\* The loop calls open handles only, and keeps none that is closed in its queues.
AsyncCallsOpenOnly ==
  /\ alpc = "taken" => ast[taken] = "open"
  /\ \A q \in {async_handles, moved} : \A i \in 1..Len(q) : ast[q[i]] = "open"
=============================================================================
