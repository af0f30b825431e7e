----------------------------- MODULE LoopHandles -----------------------------
(***************************************************************************)
(* What send_completed_notice does to the libuv loop.  Every notice        *)
(* travels in a uv_async_t of its own, initialised on the thread that has  *)
(* the notice: the loop thread for a WFPGetInfo, the executer and the item *)
(* thread for everything else.  uv_async_init links the handle into the    *)
(* loop's handle_queue and counts it in active_handles, with plain loads   *)
(* and stores; the loop thread unlinks and uncounts it when it closes it.  *)
(* One action is one access to the loop's memory.                          *)
(***************************************************************************)
EXTENDS Integers, Sequences, FiniteSets

CONSTANTS Handles,   \* the uv_async_t objects, each used once
          Posters,   \* threads other than the loop's that post notices
          LoopThread, Root, Listen,  \* the loop thread, &loop->handle_queue, m_handle
          Modulus    \* active_handles is an unsigned int: 2^32 in the code

Threads == Posters \cup {LoopThread}
Nodes == Handles \cup {Root, Listen}

VARIABLES
  qnext, qprev,  \* QUEUE_NEXT and QUEUE_PREV of every node
  active,        \* loop->active_handles
  state,         \* of a handle: fresh, init, sent, closing, freed
  port,          \* wake-ups posted to the completion port
  endgames,      \* loop->endgame_handles, a stack
  pc,            \* where each thread is
  handle,        \* the handle each thread works on
  reg            \* active_handles as a thread has loaded it

vars == <<qnext, qprev, active, state, port, endgames, pc, handle, reg>>

\* m_handle has been initialised and listens.
Init ==
  /\ qnext = [x \in Nodes |-> IF x = Listen THEN Root ELSE IF x = Root THEN Listen ELSE x]
  /\ qprev = [x \in Nodes |-> IF x = Listen THEN Root ELSE IF x = Root THEN Listen ELSE x]
  /\ active = 1
  /\ state = [h \in Handles |-> "fresh"] /\ port = <<>> /\ endgames = <<>>
  /\ pc = [t \in Threads |-> "idle"]
  /\ handle = [t \in Threads |-> Listen] /\ reg = [t \in Threads |-> 0]

Goto(t, l) == pc' = [pc EXCEPT ![t] = l]

-----------------------------------------------------------------------------
(* uv_async_init and uv_async_send, on thread t. *)

\* QUEUE_INSERT_TAIL: the handle's own links, which read the loop's tail.
InsertOwn(t, h) ==
  /\ pc[t] = "idle" /\ state[h] = "fresh"
  /\ state' = [state EXCEPT ![h] = "init"]
  /\ handle' = [handle EXCEPT ![t] = h]
  /\ qnext' = [qnext EXCEPT ![h] = Root]
  /\ qprev' = [qprev EXCEPT ![h] = qprev[Root]]
  /\ Goto(t, "link")
  /\ UNCHANGED <<active, port, reg, endgames>>

\* QUEUE_PREV_NEXT(q) = q
InsertLink(t) ==
  /\ pc[t] = "link"
  /\ qnext' = [qnext EXCEPT ![qprev[handle[t]]] = handle[t]]
  /\ Goto(t, "tail")
  /\ UNCHANGED <<qprev, active, state, port, handle, reg, endgames>>

\* QUEUE_PREV(h) = q
InsertTail(t) ==
  /\ pc[t] = "tail"
  /\ qprev' = [qprev EXCEPT ![Root] = handle[t]]
  /\ Goto(t, "load")
  /\ UNCHANGED <<qnext, active, state, port, handle, reg, endgames>>

\* uv__active_handle_add, which loads and then stores.
AddLoad(t) ==
  /\ pc[t] = "load"
  /\ reg' = [reg EXCEPT ![t] = active]
  /\ Goto(t, "store")
  /\ UNCHANGED <<qnext, qprev, active, state, port, handle, endgames>>

\* The store, and uv_async_send: the first send of a handle posts its wake-up.
AddStore(t) ==
  /\ pc[t] = "store"
  /\ active' = (reg[t] + 1) % Modulus
  /\ state' = [state EXCEPT ![handle[t]] = "sent"]
  /\ port' = Append(port, handle[t])
  /\ Goto(t, "idle")
  /\ UNCHANGED <<qnext, qprev, handle, reg, endgames>>

-----------------------------------------------------------------------------
(* The loop thread. *)

\* on_notify ends with uv_close: no wake-up is under way, so an endgame is due.
Wakeup ==
  /\ pc[LoopThread] = "idle" /\ port # <<>>
  /\ port' = Tail(port)
  /\ state' = [state EXCEPT ![Head(port)] = "closing"]
  /\ endgames' = <<Head(port)>> \o endgames
  /\ UNCHANGED <<qnext, qprev, active, pc, handle, reg>>

\* The requests of an iteration are processed: uv_process_endgames begins.
EndIteration ==
  /\ pc[LoopThread] = "idle"
  /\ Goto(LoopThread, "endgame")
  /\ UNCHANGED <<qnext, qprev, active, state, port, handle, reg, endgames>>

Endgame ==
  /\ pc[LoopThread] = "endgame" /\ endgames # <<>>
  /\ handle' = [handle EXCEPT ![LoopThread] = Head(endgames)]
  /\ endgames' = Tail(endgames)
  /\ Goto(LoopThread, "unlinkNext")
  /\ UNCHANGED <<qnext, qprev, active, state, port, reg>>

\* QUEUE_REMOVE: QUEUE_PREV_NEXT(q) = QUEUE_NEXT(q)
UnlinkNext ==
  /\ pc[LoopThread] = "unlinkNext"
  /\ LET h == handle[LoopThread] IN qnext' = [qnext EXCEPT ![qprev[h]] = qnext[h]]
  /\ Goto(LoopThread, "unlinkPrev")
  /\ UNCHANGED <<qprev, active, state, port, handle, reg, endgames>>

\* Variant of UnlinkPrev: the back link is forgotten.
UnlinkPrevNot ==
  /\ pc[LoopThread] = "unlinkPrev"
  /\ Goto(LoopThread, "rmLoad")
  /\ UNCHANGED <<qnext, qprev, active, state, port, handle, reg, endgames>>

\* QUEUE_NEXT_PREV(q) = QUEUE_PREV(q)
UnlinkPrev ==
  /\ pc[LoopThread] = "unlinkPrev"
  /\ LET h == handle[LoopThread] IN qprev' = [qprev EXCEPT ![qnext[h]] = qprev[h]]
  /\ Goto(LoopThread, "rmLoad")
  /\ UNCHANGED <<qnext, active, state, port, handle, reg, endgames>>

\* uv__active_handle_rm loads.
RmLoad ==
  /\ pc[LoopThread] = "rmLoad"
  /\ reg' = [reg EXCEPT ![LoopThread] = active]
  /\ Goto(LoopThread, "rmStore")
  /\ UNCHANGED <<qnext, qprev, active, state, port, handle, endgames>>

\* Variant of RmStore: closing does not uncount the handle.
RmStoreNot ==
  /\ pc[LoopThread] = "rmStore"
  /\ state' = [state EXCEPT ![handle[LoopThread]] = "freed"]
  /\ Goto(LoopThread, "endgame")
  /\ UNCHANGED <<qnext, qprev, active, port, handle, reg, endgames>>

\* It stores, and the close callback frees the handle.
RmStore ==
  /\ pc[LoopThread] = "rmStore"
  /\ active' = (reg[LoopThread] - 1) % Modulus
  /\ state' = [state EXCEPT ![handle[LoopThread]] = "freed"]
  /\ Goto(LoopThread, "endgame")
  /\ UNCHANGED <<qnext, qprev, port, handle, reg, endgames>>

\* uv_run asks uv__loop_alive at the end of an iteration.  No write is under way
\* and no endgame is due, so active_handles decides.
CheckAlive ==
  /\ pc[LoopThread] = "endgame" /\ endgames = <<>>
  /\ Goto(LoopThread, IF active > 0 THEN "idle" ELSE "returned")
  /\ UNCHANGED <<qnext, qprev, active, state, port, handle, reg, endgames>>

-----------------------------------------------------------------------------
Post(t) ==
  \/ \E h \in Handles : InsertOwn(t, h)
  \/ InsertLink(t) \/ InsertTail(t) \/ AddLoad(t) \/ AddStore(t)

Loop == Wakeup \/ EndIteration \/ Endgame \/ UnlinkNext \/ UnlinkPrev \/ RmLoad \/ RmStore \/ CheckAlive

Next == (\E t \in Threads : Post(t)) \/ Loop

Spec == Init /\ [][Next]_vars

-----------------------------------------------------------------------------
(* Properties. *)

\* The handles that are initialised and not closed, m_handle among them.
Live == {Listen} \cup {h \in Handles : state[h] \in {"sent", "closing"}}

Quiescent == \A t \in Threads : pc[t] \in {"idle", "endgame"}

\* The type of the state.
TypeOK ==
  /\ qnext \in [Nodes -> Nodes] /\ qprev \in [Nodes -> Nodes]
  /\ active \in 0..(Modulus - 1)
  /\ state \in [Handles -> {"fresh", "init", "sent", "closing", "freed"}]
  /\ port \in Seq(Handles) /\ endgames \in Seq(Handles)
  /\ handle \in [Threads -> Handles \cup {Listen}]
  /\ reg \in [Threads -> 0..(Modulus - 1)]
  /\ \A t \in Threads :
       pc[t] \in {"idle", "link", "tail", "load", "store", "unlinkNext", "unlinkPrev",
                  "rmLoad", "rmStore", "endgame", "returned"}

\* When no thread is inside libuv, active_handles counts the live handles.
ActiveExact == Quiescent => active = Cardinality(Live)

\* When no thread is inside libuv, handle_queue links the live handles, both
\* ways, and no freed one.
QueueLinked ==
  Quiescent =>
    /\ \A x \in Live \cup {Root} : qnext[x] \in Live \cup {Root} /\ qprev[qnext[x]] = x
    /\ \A x \in Live \cup {Root} : qprev[x] \in Live \cup {Root} /\ qnext[qprev[x]] = x

\* uv_run returns only when no active handle is left.
RunsWhileActive == pc[LoopThread] = "returned" => Live = {}
=============================================================================
