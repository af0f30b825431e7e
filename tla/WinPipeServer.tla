---------------------------- MODULE WinPipeServer ----------------------------
(***************************************************************************)
(* A listening named pipe on Windows, src/libuv/src/win/pipe.c: the server *)
(* keeps several instances of the pipe waiting for a client, each with an  *)
(* accept request; connected ones are put on pending_accepts, told to the  *)
(* program through connection_cb, and given out by uv_accept.              *)
(***************************************************************************)
EXTENDS Naturals, Sequences, FiniteSets

CONSTANTS Instances,    \* the accept requests, pending_instances of them
          First,        \* the one whose pipe uv_pipe_bind creates
          MaxAccepts    \* bound: clients that are accepted

VARIABLES
  ps_flags,          \* handle->flags, by name
  instance,          \* each request: "none", "waiting", "ok", "failed",
                     \* "aborted" (completed) or "pending" (connected, not accepted)
  open,              \* requests with an open pipeHandle
  pending_accepts,   \* the list, last connected first
  ps_reqs_pending, ps_activecnt,
  announced,         \* calls of connection_cb
  accepted,          \* clients that uv_accept has given a pipe
  ps_pc              \* "loop", "connection_cb" or "broken" (see ListenAgain)

psVars == <<ps_flags, instance, open, pending_accepts, ps_reqs_pending, ps_activecnt,
            announced, accepted, ps_pc>>

Has(f) == f \in ps_flags
ProgramRuns == ps_pc # "broken" /\ ~Has("CLOSING")

Init ==
  /\ ps_flags = {} /\ instance = [i \in Instances |-> "none"] /\ open = {}
  /\ pending_accepts = <<>> /\ ps_reqs_pending = 0 /\ ps_activecnt = 0
  /\ announced = 0 /\ accepted = 0 /\ ps_pc = "loop"

\* uv_pipe_bind: the first instance of the pipe is created here, or it fails.
Bind ==
  /\ ps_flags = {}
  /\ ps_flags' = {"PIPESERVER", "BOUND"}
  /\ open' = {First}
  /\ UNCHANGED <<instance, pending_accepts, ps_reqs_pending, ps_activecnt, announced,
                 accepted, ps_pc>>

\* What uv_pipe_queue_accept makes of a request: a new instance that waits for
\* a client, one that already has one, or a request that has failed.
QueueAccept(i, inst, op) ==
  \/ instance' = [inst EXCEPT ![i] = "waiting"] /\ open' = op \cup {i}
  \/ instance' = [inst EXCEPT ![i] = "ok"]      /\ open' = op \cup {i}
  \/ instance' = [inst EXCEPT ![i] = "failed"]  /\ open' = op \ {i}

\* uv_pipe_listen: every instance is queued.
Listen ==
  /\ ProgramRuns /\ Has("BOUND") /\ ~Has("LISTENING")
  /\ ps_flags' = ps_flags \cup {"LISTENING"}
  /\ ps_activecnt' = ps_activecnt + 1
  /\ \E s \in [Instances -> {"waiting", "ok", "failed"}] :
       /\ instance' = s
       /\ open' = {i \in Instances : s[i] # "failed"}
  /\ ps_reqs_pending' = ps_reqs_pending + Cardinality(Instances)
  /\ UNCHANGED <<pending_accepts, announced, accepted, ps_pc>>

\* uv_pipe_listen lets a second call through, and queues every instance again.  An
\* instance that has its pipe fails the assertion of uv_pipe_queue_accept, and so does
\* the first one without a pipe; where neither is, requests are queued twice.  The
\* model ends here.
ListenAgain ==
  /\ ProgramRuns /\ Has("LISTENING")
  /\ ps_pc' = "broken"
  /\ UNCHANGED <<ps_flags, instance, open, pending_accepts, ps_reqs_pending, ps_activecnt,
                 announced, accepted>>

\* ConnectNamedPipe completes: with a client, with an error, or because the
\* server has closed the instance.
AcceptCompletes(i) ==
  /\ instance[i] = "waiting"
  /\ \/ i \in open    /\ \E s \in {"ok", "failed"} : instance' = [instance EXCEPT ![i] = s]
     \/ i \notin open /\ instance' = [instance EXCEPT ![i] = "aborted"]
  /\ UNCHANGED <<ps_flags, open, pending_accepts, ps_reqs_pending, ps_activecnt, announced,
                 accepted, ps_pc>>

\* DECREASE_PENDING_REQ_COUNT.
DecreasePending(n) ==
  /\ ps_reqs_pending' = n - 1
  /\ ps_flags' = IF Has("CLOSING") /\ n = 1 THEN ps_flags \cup {"ENDGAME_QUEUED"} ELSE ps_flags

\* uv_process_pipe_accept_req on a closing server: only the count.
ProcessAcceptClosing(i) ==
  /\ ps_pc = "loop" /\ Has("CLOSING") /\ instance[i] \in {"ok", "failed", "aborted"}
  /\ instance' = [instance EXCEPT ![i] = "none"]
  /\ DecreasePending(ps_reqs_pending)
  /\ UNCHANGED <<open, pending_accepts, ps_activecnt, announced, accepted, ps_pc>>

\* With a client: put it on the list and call connection_cb.
ProcessAccept(i) ==
  /\ ps_pc = "loop" /\ ~Has("CLOSING") /\ instance[i] = "ok"
  /\ instance' = [instance EXCEPT ![i] = "pending"]
  /\ pending_accepts' = <<i>> \o pending_accepts
  /\ announced' = announced + 1
  /\ ps_pc' = "connection_cb"
  /\ UNCHANGED <<ps_flags, open, ps_reqs_pending, ps_activecnt, accepted>>

\* Variant of AfterConnectionCb: the request is not counted back.
AfterConnectionCbKeep ==
  /\ ps_pc = "connection_cb" /\ ps_pc' = "loop"
  /\ UNCHANGED <<ps_flags, ps_reqs_pending, instance, open, pending_accepts, ps_activecnt,
                 announced, accepted>>

AfterConnectionCb ==
  /\ ps_pc = "connection_cb" /\ ps_pc' = "loop"
  /\ DecreasePending(ps_reqs_pending)
  /\ UNCHANGED <<instance, open, pending_accepts, ps_activecnt, announced, accepted>>

\* Variant of ProcessAcceptFailed: the instance is given up.
ProcessAcceptFailedOnce(i) ==
  /\ ps_pc = "loop" /\ ~Has("CLOSING") /\ instance[i] = "failed"
  /\ instance' = [instance EXCEPT ![i] = "none"] /\ open' = open \ {i}
  /\ DecreasePending(ps_reqs_pending)
  /\ UNCHANGED <<pending_accepts, ps_activecnt, announced, accepted, ps_pc>>

\* Without: close the instance and queue another (one request more, one less).
ProcessAcceptFailed(i) ==
  /\ ps_pc = "loop" /\ ~Has("CLOSING") /\ instance[i] = "failed"
  /\ QueueAccept(i, instance, open \ {i})
  /\ UNCHANGED <<ps_flags, pending_accepts, ps_reqs_pending, ps_activecnt, announced,
                 accepted, ps_pc>>

\* uv_pipe_accept: the client takes the pipe of the last connected instance,
\* and another instance is queued in its place.
Accept ==
  /\ ProgramRuns /\ accepted < MaxAccepts
  /\ pending_accepts # <<>>
  /\ pending_accepts' = Tail(pending_accepts)
  /\ accepted' = accepted + 1
  /\ QueueAccept(Head(pending_accepts), instance, open \ {Head(pending_accepts)})
  /\ ps_reqs_pending' = ps_reqs_pending + 1
  /\ UNCHANGED <<ps_flags, ps_activecnt, announced, ps_pc>>

\* Variant of Close: the connected instances nobody has accepted are forgotten.
CloseWaitingOnly ==
  /\ ProgramRuns /\ Has("BOUND")
  /\ ps_flags' = (ps_flags \ {"LISTENING"}) \cup {"CLOSING"} \cup
                   (IF ps_reqs_pending = 0 THEN {"ENDGAME_QUEUED"} ELSE {})
  /\ ps_activecnt' = IF Has("LISTENING") THEN ps_activecnt - 1 ELSE ps_activecnt
  /\ open' = {i \in open : instance[i] = "pending"}
  /\ UNCHANGED <<instance, pending_accepts, ps_reqs_pending, announced, accepted, ps_pc>>

\* uv_pipe_close, uv_pipe_cleanup: every instance not given out is closed.
Close ==
  /\ ProgramRuns /\ Has("BOUND")
  /\ ps_flags' = (ps_flags \ {"LISTENING"}) \cup {"CLOSING"} \cup
                   (IF ps_reqs_pending = 0 THEN {"ENDGAME_QUEUED"} ELSE {})
  /\ ps_activecnt' = IF Has("LISTENING") THEN ps_activecnt - 1 ELSE ps_activecnt
  /\ open' = {}
  /\ UNCHANGED <<instance, pending_accepts, ps_reqs_pending, announced, accepted, ps_pc>>

\* uv_pipe_endgame: free the accept requests, uv__handle_close.
Endgame ==
  /\ ps_pc = "loop" /\ Has("ENDGAME_QUEUED")
  /\ ps_flags' = (ps_flags \ {"ENDGAME_QUEUED"}) \cup
                   (IF ps_reqs_pending = 0 THEN {"CLOSED"} ELSE {})
  /\ UNCHANGED <<instance, open, pending_accepts, ps_reqs_pending, ps_activecnt, announced,
                 accepted, ps_pc>>

LoopStep ==
  \/ \E i \in Instances : ProcessAcceptClosing(i) \/ ProcessAccept(i) \/ ProcessAcceptFailed(i)
  \/ AfterConnectionCb \/ Endgame

Next ==
  \/ Bind \/ Listen \/ ListenAgain \/ Accept \/ Close \/ LoopStep
  \/ \E i \in Instances : AcceptCompletes(i)

\* The loop runs; the system completes what the close has aborted.
Fairness ==
  /\ WF_psVars(LoopStep)
  /\ \A i \in Instances : WF_psVars(i \notin open /\ AcceptCompletes(i))

Spec == Init /\ [][Next]_psVars /\ Fairness

-----------------------------------------------------------------------------
Count(S) == Cardinality({i \in Instances : instance[i] \in S})

\* The server stays reachable: while it listens every instance waits for a
\* client or has one; each announced client is accepted once or still to be;
\* the count of requests is exact, also across connection_cb.  Unless the program
\* makes it listen twice.
InstancesKept ==
  ps_pc # "broken" =>
    /\ Has("LISTENING") => Count({"none"}) = 0
    /\ announced = accepted + Len(pending_accepts)
    /\ ~Has("CLOSING") => \A i \in Instances : instance[i] = "pending" => i \in open
    /\ ps_reqs_pending = Count({"waiting", "ok", "failed", "aborted"})
                           + (IF ps_pc = "connection_cb" THEN 1 ELSE 0)

\* What is not given to a client is closed with the server, and the requests are
\* freed only when the system is done with them.
ServerFreesSafely ==
  /\ Has("CLOSING") => open = {}
  /\ Has("CLOSED") => Count({"waiting", "ok", "failed", "aborted"}) = 0

\* uv_close has been called, and the close callback has been made.
Closing == Has("CLOSING")
Closed == Has("CLOSED")
=============================================================================
