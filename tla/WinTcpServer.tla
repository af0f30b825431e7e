----------------------------- MODULE WinTcpServer -----------------------------
(***************************************************************************)
(* A listening uv_tcp_t on Windows (win/tcp.c): its pool of AcceptEx       *)
(* requests, each outstanding, holding a connection the user has still to  *)
(* take with uv_accept, or retired, and the switch from many simultaneous  *)
(* accepts to one while accepts are outstanding.  Clients and winsock are  *)
(* the environment.  Assertions are compiled out, as in a release build.   *)
(***************************************************************************)
EXTENDS Naturals, Sequences, FiniteSets

CONSTANTS Accepts,     \* uv_simultaneous_server_accepts
          MaxAccepts   \* bound: connections that come

Reqs == 1..Accepts

VARIABLES
  areq,       \* accept_reqs[i]: idle, out, done, broken, failed (never began), held
  held,       \* pending_accepts: connections to be taken, the newest first
  flags,      \* among LISTENING, SINGLE_ACCEPT, ACCEPT_STATE_CHANGING, ALLOCATED
  processed,  \* processed_accepts
  accepting,  \* reqs_pending
  tstate,     \* the handle: open, closing, endgame (queued), closed
  tlpc,       \* the loop: run, cb (connection_cb), rest (of a request's processing)
  lost,       \* history: requests that could not be queued
  retired,    \* history: requests the switch has retired
  came        \* connections so far

tsVars == <<areq, held, flags, processed, accepting, tstate, tlpc, lost, retired, came>>

Init ==
  /\ areq = [i \in Reqs |-> "idle"] /\ held = <<>> /\ flags = {} /\ processed = 0
  /\ accepting = 0 /\ tstate = "open" /\ tlpc = "run"
  /\ lost = {} /\ retired = {} /\ came = 0

UserRuns == tlpc \in {"run", "cb"}

-----------------------------------------------------------------------------
(* uv_tcp_queue_accept *)

\* The requests of I are queued, given the state of all; a failure to get a socket,
\* or of AcceptEx, becomes the request's completion.  Either way it is pending.
QueueAccepts(I, req, n) ==
  /\ \E F \in SUBSET I :
       areq' = [i \in Reqs |-> IF i \in F THEN "failed" ELSE IF i \in I THEN "out" ELSE req[i]]
  /\ accepting' = n + Cardinality(I)

\* uv_tcp_listen: the requests are allocated and queued the first time only.
Listen ==
  /\ UserRuns /\ tstate = "open" /\ "LISTENING" \notin flags
  /\ flags' = flags \cup {"LISTENING", "ALLOCATED"}
  /\ IF "ALLOCATED" \in flags THEN UNCHANGED <<areq, accepting>>
     ELSE QueueAccepts(IF "SINGLE_ACCEPT" \in flags THEN {1} ELSE Reqs, areq, accepting)
  /\ UNCHANGED <<held, processed, tstate, tlpc, lost, retired, came>>

\* uv_tcp_simultaneous_accepts(server, 0); there is no way back.
SimultaneousAccepts ==
  /\ UserRuns /\ tstate = "open" /\ "SINGLE_ACCEPT" \notin flags
  /\ flags' = flags \cup {"SINGLE_ACCEPT"}
               \cup {f \in {"ACCEPT_STATE_CHANGING"} : "LISTENING" \in flags}
  /\ UNCHANGED <<areq, held, processed, accepting, tstate, tlpc, lost, retired, came>>

\* Variant of Accept: the switch ends one connection early.
AcceptEarly ==
  LET i    == Head(held)
      free == [areq EXCEPT ![i] = "idle"]
  IN  /\ UserRuns /\ held # <<>> /\ tstate = "open"
      /\ held' = Tail(held)
      /\ IF "ACCEPT_STATE_CHANGING" \notin flags
           THEN QueueAccepts({i}, free, accepting) /\ UNCHANGED <<flags, processed, retired>>
         ELSE IF processed + 1 >= Accepts - 1
           THEN /\ QueueAccepts({1}, free, accepting)
                /\ flags' = flags \ {"ACCEPT_STATE_CHANGING"}
                /\ processed' = 0 /\ retired' = Reqs \ {1}
           ELSE /\ areq' = free /\ processed' = processed + 1 /\ retired' = retired \cup {i}
                /\ UNCHANGED <<accepting, flags>>
      /\ UNCHANGED <<tstate, tlpc, lost, came>>

\* uv_tcp_accept: the connection is the client's, and the request is queued again;
\* during the switch it is retired, and the last one to be retired queues the first.
Accept ==
  LET i    == Head(held)
      free == [areq EXCEPT ![i] = "idle"]
  IN  /\ UserRuns /\ held # <<>> /\ tstate # "closed"
      /\ held' = Tail(held)
      /\ IF tstate # "open"
           THEN areq' = free /\ UNCHANGED <<accepting, flags, processed, retired>>
         ELSE IF "ACCEPT_STATE_CHANGING" \notin flags
           THEN QueueAccepts({i}, free, accepting) /\ UNCHANGED <<flags, processed, retired>>
         ELSE IF processed + 1 >= Accepts
           THEN /\ QueueAccepts({1}, free, accepting)
                /\ flags' = flags \ {"ACCEPT_STATE_CHANGING"}
                /\ processed' = 0 /\ retired' = Reqs \ {1}
           ELSE /\ areq' = free /\ processed' = processed + 1 /\ retired' = retired \cup {i}
                /\ UNCHANGED <<accepting, flags>>
      /\ UNCHANGED <<tstate, tlpc, lost, came>>

\* uv_close: the listening socket is closed, which breaks what is outstanding.
Close ==
  /\ UserRuns /\ tstate = "open"
  /\ flags' = flags \ {"LISTENING"}
  /\ tstate' = IF accepting = 0 THEN "endgame" ELSE "closing"
  /\ areq' = [i \in Reqs |-> IF areq[i] \in {"out", "done"} THEN "broken" ELSE areq[i]]
  /\ UNCHANGED <<held, processed, accepting, tlpc, lost, retired, came>>

-----------------------------------------------------------------------------
(* A connection comes, or an accept breaks; the loop takes the completion. *)

Completes(i) ==
  /\ areq[i] = "out" /\ came < MaxAccepts
  /\ came' = came + 1
  /\ \E st \in {"done", "broken"} : areq' = [areq EXCEPT ![i] = st]
  /\ UNCHANGED <<held, flags, processed, accepting, tstate, tlpc, lost, retired>>

\* uv_process_tcp_accept_req up to the connection callback: a request that never
\* began stops the listening.
ProcessFailed(i) ==
  /\ tlpc = "run" /\ areq[i] = "failed"
  /\ areq' = [areq EXCEPT ![i] = "idle"] /\ lost' = lost \cup {i}
  /\ flags' = flags \ {"LISTENING"}
  /\ tlpc' = IF "LISTENING" \in flags THEN "cb" ELSE "rest"
  /\ UNCHANGED <<held, processed, accepting, tstate, retired, came>>

ProcessDone(i) ==
  /\ tlpc = "run" /\ areq[i] = "done"
  /\ areq' = [areq EXCEPT ![i] = "held"] /\ held' = <<i>> \o held
  /\ tlpc' = "cb"
  /\ UNCHANGED <<flags, processed, accepting, tstate, lost, retired, came>>

\* Variant of ProcessBroken: the request of a broken accept is not queued again.
ProcessBrokenDrops(i) ==
  /\ tlpc = "run" /\ areq[i] = "broken"
  /\ areq' = [areq EXCEPT ![i] = "idle"]
  /\ tlpc' = "rest"
  /\ UNCHANGED <<held, flags, processed, accepting, tstate, lost, retired, came>>

\* An accept that broke is queued again while the server listens.
ProcessBroken(i) ==
  /\ tlpc = "run" /\ areq[i] = "broken"
  /\ IF "LISTENING" \in flags
       THEN QueueAccepts({i}, areq, accepting) /\ UNCHANGED lost
       ELSE /\ areq' = [areq EXCEPT ![i] = "idle"] /\ UNCHANGED accepting
            /\ lost' = lost \cup {i}
  /\ tlpc' = "rest"
  /\ UNCHANGED <<held, flags, processed, tstate, retired, came>>

UserReturns ==
  /\ tlpc = "cb" /\ tlpc' = "rest"
  /\ UNCHANGED <<areq, held, flags, processed, accepting, tstate, lost, retired, came>>

\* Variant of ProcessRest: the count goes down without a look at the endgame.
ProcessRestQuiet ==
  /\ tlpc = "rest" /\ tlpc' = "run"
  /\ accepting' = accepting - 1
  /\ UNCHANGED <<areq, held, flags, processed, tstate, lost, retired, came>>

\* DECREASE_PENDING_REQ_COUNT
ProcessRest ==
  /\ tlpc = "rest" /\ tlpc' = "run"
  /\ accepting' = accepting - 1
  /\ tstate' = IF tstate = "closing" /\ accepting = 1 THEN "endgame" ELSE tstate
  /\ UNCHANGED <<areq, held, flags, processed, lost, retired, came>>

\* uv_tcp_endgame frees the requests; connections nobody took are left open.
Endgame ==
  /\ tlpc = "run" /\ tstate = "endgame"
  /\ tstate' = "closed"
  /\ UNCHANGED <<areq, held, flags, processed, accepting, tlpc, lost, retired, came>>

LoopStep ==
  \/ UserReturns \/ ProcessRest \/ Endgame
  \/ \E i \in Reqs : ProcessFailed(i) \/ ProcessDone(i) \/ ProcessBroken(i)

Next ==
  \/ Listen \/ SimultaneousAccepts \/ Accept \/ Close \/ LoopStep
  \/ \E i \in Reqs : Completes(i)

Spec == Init /\ [][Next]_tsVars /\ WF_tsVars(LoopStep)

-----------------------------------------------------------------------------
(* Properties. *)

\* No accept request of a server that is open goes missing: it is outstanding, at
\* the loop, held for uv_accept, or it could not be queued, or the switch to
\* single accepts has retired it, and only one of these.  In particular the switch
\* queues the first request when none is outstanding any more.
TcpAcceptsKept ==
  "ALLOCATED" \in flags /\ tstate = "open" =>
    LET Used == IF "SINGLE_ACCEPT" \in flags /\ retired = {} /\ ~"ACCEPT_STATE_CHANGING" \in flags
                  THEN {1} ELSE Reqs
    IN  \A i \in Used : (areq[i] = "idle") <=> (i \in lost \cup retired)

\* reqs_pending counts the requests outstanding and the one in hand, and the
\* requests are freed only when it is zero.
TcpAcceptsCounted ==
  /\ accepting = Cardinality({i \in Reqs : areq[i] \notin {"idle", "held"}})
                   + (IF tlpc = "run" THEN 0 ELSE 1)
  /\ tstate \in {"endgame", "closed"} => accepting = 0

\* uv_close has been called, and the close callback has been made.
Closing == tstate \in {"closing", "endgame"}
Closed == tstate = "closed"
=============================================================================
