-------------------------------- MODULE WinPoll --------------------------------
(***************************************************************************)
(* A uv_poll_t on Windows, in the fast mode that msafd sockets get         *)
(* (win/poll.c): two poll requests take turns, because a request that is   *)
(* outstanding cannot be changed.  A new one, exclusive, makes the other   *)
(* return; the masks keep what both could report from being reported       *)
(* twice.  The socket and msafd are the environment.                       *)
(***************************************************************************)
EXTENDS Integers

CONSTANTS Events,   \* what can be watched: UV_READABLE, UV_WRITABLE, UV_DISCONNECT
          Watches,  \* the sets of events the user asks for
          MaxSets   \* bound: calls of uv_poll_start and uv_poll_stop, and interrupted polls

Reqs == {1, 2}     \* poll_req_1, poll_req_2
Other(i) == IF i = 1 THEN 2 ELSE 1

VARIABLES
  events,     \* handle->events
  active,     \* UV_HANDLE_ACTIVE
  submitted,  \* submitted_events_1, _2
  mask,       \* mask_events_1, _2
  preq,       \* a request: idle, out, superseded (about to return), done, failed
  report,     \* what a request that is done found: events, and "LOCAL_CLOSE" (no event)
  pstate,     \* the handle: open, closing, uncancelled (closing, and its requests were
              \* not told to return), endgame (queued), closed
  plpc,       \* the loop: run, cb (in poll_cb), rest (of the request's processing)
  told,       \* the events of the poll_cb under way
  ready,      \* what the socket is ready for
  sets

poVars == <<events, active, submitted, mask, preq, report, pstate, plpc, told, ready, sets>>
handleVars == <<events, active, pstate, sets>>
reqVars == <<submitted, mask, preq, report>>

Init ==
  /\ events = {} /\ active = FALSE /\ pstate = "open"
  /\ submitted = [i \in Reqs |-> {}] /\ mask = [i \in Reqs |-> {}]
  /\ preq = [i \in Reqs |-> "idle"] /\ report = [i \in Reqs |-> {}]
  /\ plpc = "run" /\ told = {} /\ ready = {} /\ sets = 0

-----------------------------------------------------------------------------
(* Submitting. *)

Outstanding == submitted[1] \cup submitted[2]

\* Variant of SubmitReq: the other request keeps an empty mask.
SubmitReqUnmasked(ev, sub) ==
  LET Free == {i \in Reqs : sub[i] = {}}
      i    == IF 1 \in Free THEN 1 ELSE 2
  IN  IF Free = {} THEN submitted' = sub /\ UNCHANGED <<mask, preq, report>>
      ELSE /\ submitted' = [sub EXCEPT ![i] = ev]
           /\ mask' = [mask EXCEPT ![i] = {}]
           /\ \E st \in {"out", "failed"} :
                preq' = [preq EXCEPT ![i] = st,
                           ![Other(i)] = IF @ = "out" /\ st = "out" THEN "superseded" ELSE @]
           /\ UNCHANGED report

\* Variant of SubmitReq: the request keeps the mask it had.
SubmitReqKeepsMask(ev, sub) ==
  LET Free == {i \in Reqs : sub[i] = {}}
      i    == IF 1 \in Free THEN 1 ELSE 2
  IN  IF Free = {} THEN submitted' = sub /\ UNCHANGED <<mask, preq, report>>
      ELSE /\ submitted' = [sub EXCEPT ![i] = ev]
           /\ mask' = [mask EXCEPT ![Other(i)] = ev]
           /\ \E st \in {"out", "failed"} :
                preq' = [preq EXCEPT ![i] = st,
                           ![Other(i)] = IF @ = "out" /\ st = "out" THEN "superseded" ELSE @]
           /\ UNCHANGED report

\* uv__fast_poll_submit_poll_req of the events ev, given what is submitted: the free
\* request, if there is one, polls for ev, and masks ev in the other one, which
\* returns.  With both outstanding one of them is about to return, and its
\* processing submits again.  A failure of msafd is queued as the request's error.
SubmitReq(ev, sub) ==
  LET Free == {i \in Reqs : sub[i] = {}}
      i    == IF 1 \in Free THEN 1 ELSE 2
  IN  IF Free = {} THEN submitted' = sub /\ UNCHANGED <<mask, preq, report>>
      ELSE /\ submitted' = [sub EXCEPT ![i] = ev]
           /\ mask' = [j \in Reqs |-> IF j = i THEN {} ELSE ev]
           /\ \E st \in {"out", "failed"} :
                preq' = [preq EXCEPT ![i] = st,
                           ![Other(i)] = IF @ = "out" /\ st = "out" THEN "superseded" ELSE @]
           /\ UNCHANGED report

Closing == pstate \in {"closing", "uncancelled", "endgame"}
UserRuns == plpc \in {"run", "cb"}

\* uv_poll_start(ev), and uv_poll_stop for ev = {}.
Set(ev) ==
  /\ UserRuns /\ pstate = "open" /\ sets < MaxSets
  /\ events' = ev /\ active' = (ev # {})
  /\ sets' = sets + 1
  /\ IF ev \ Outstanding # {} THEN SubmitReq(ev, submitted) ELSE UNCHANGED reqVars
  /\ UNCHANGED <<pstate, plpc, told, ready>>

\* Variant of Close: the endgame is queued with requests outstanding.
CloseAtOnce ==
  /\ UserRuns /\ pstate = "open"
  /\ events' = {} /\ active' = FALSE
  /\ pstate' = "endgame"
  /\ preq' = [i \in Reqs |-> IF preq[i] = "out" THEN "superseded" ELSE preq[i]]
  /\ UNCHANGED <<submitted, mask, report, plpc, told, ready, sets>>

\* uv_close: with requests outstanding, one more request makes them return.  uv_close
\* does not look whether msafd took it.
Close ==
  /\ UserRuns /\ pstate = "open"
  /\ events' = {} /\ active' = FALSE
  /\ IF Outstanding = {}
       THEN pstate' = "endgame" /\ UNCHANGED preq
       ELSE \/ pstate' = "uncancelled" /\ UNCHANGED preq
            \/ /\ pstate' = "closing"
               /\ preq' = [i \in Reqs |-> IF preq[i] = "out" THEN "superseded" ELSE preq[i]]
  /\ UNCHANGED <<submitted, mask, report, plpc, told, ready, sets>>

-----------------------------------------------------------------------------
(* The system. *)

SocketChanges ==
  /\ \E e \in Events : ready' \in {ready \cup {e}, ready \ {e}}
  /\ UNCHANGED <<handleVars, reqVars, plpc, told>>

\* A request returns with what it asked for and the socket has, or with nothing when
\* another one made it return.
Returns(i) ==
  /\ preq[i] = "superseded" \/ (preq[i] = "out" /\ submitted[i] \cap ready # {})
  /\ preq' = [preq EXCEPT ![i] = "done"]
  /\ report' = [report EXCEPT ![i] = submitted[i] \cap ready]
  /\ UNCHANGED <<handleVars, submitted, mask, plpc, told, ready>>

\* The socket is closed under the request.
LocalClose(i) ==
  /\ preq[i] \in {"out", "superseded"}
  /\ preq' = [preq EXCEPT ![i] = "done"]
  /\ report' = [report EXCEPT ![i] = (submitted[i] \cap ready) \cup {"LOCAL_CLOSE"}]
  /\ UNCHANGED <<handleVars, submitted, mask, plpc, told, ready>>

\* WSAEINTR: nothing is reported, and the request is submitted again.
Interrupted(i) ==
  /\ preq[i] \in {"out", "superseded"} /\ sets < MaxSets
  /\ sets' = sets + 1
  /\ preq' = [preq EXCEPT ![i] = "done"]
  /\ UNCHANGED <<events, active, pstate, submitted, mask, report, plpc, told, ready>>

Fails(i) ==
  /\ preq[i] \in {"out", "superseded"}
  /\ preq' = [preq EXCEPT ![i] = "failed"]
  /\ UNCHANGED <<handleVars, submitted, mask, report, plpc, told, ready>>

-----------------------------------------------------------------------------
(* uv__fast_poll_process_poll_req. *)

\* Up to the callback.  An error stops the watcher, which stays an active handle; when
\* the socket was closed the handle is stopped too.
Process(i) ==
  LET failed == preq[i] = "failed"
      gone   == ~failed /\ "LOCAL_CLOSE" \in report[i]
      ev     == IF failed THEN {} ELSE (report[i] \cap events) \ mask[i]
  IN  /\ plpc = "run" /\ preq[i] \in {"done", "failed"}
      /\ submitted' = [submitted EXCEPT ![i] = {}]
      /\ preq' = [preq EXCEPT ![i] = "idle"] /\ report' = [report EXCEPT ![i] = {}]
      /\ events' = IF failed \/ gone THEN {} ELSE events
      /\ active' = (active /\ ~gone)
      /\ told' = ev
      /\ plpc' = IF ev # {} \/ (failed /\ events # {}) THEN "cb" ELSE "rest"
      /\ UNCHANGED <<pstate, sets, mask, ready>>

UserReturns ==
  /\ plpc = "cb" /\ plpc' = "rest" /\ told' = {}
  /\ UNCHANGED <<handleVars, reqVars, ready>>

\* Variant of ProcessRest: a handle that wants nothing more does not look whether it
\* is closing.
ProcessRestKeep ==
  /\ plpc = "rest" /\ plpc' = "run"
  /\ IF events \ Outstanding # {} THEN SubmitReq(events, submitted) ELSE UNCHANGED reqVars
  /\ UNCHANGED <<handleVars, told, ready>>

\* After the callback, which may have started, stopped or closed the handle.
ProcessRest ==
  /\ plpc = "rest" /\ plpc' = "run"
  /\ IF events \ Outstanding # {}
       THEN SubmitReq(events, submitted) /\ UNCHANGED pstate
       ELSE /\ UNCHANGED reqVars
            /\ pstate' = IF Closing /\ Outstanding = {} THEN "endgame" ELSE pstate
  /\ UNCHANGED <<events, active, sets, told, ready>>

\* uv_poll_endgame: the handle is the user's again.
Endgame ==
  /\ plpc = "run" /\ pstate = "endgame"
  /\ pstate' = "closed"
  /\ UNCHANGED <<events, active, sets, reqVars, plpc, told, ready>>

System == \E i \in Reqs : Returns(i)
LoopStep == UserReturns \/ ProcessRest \/ Endgame \/ \E i \in Reqs : Process(i)

Next ==
  \/ \E ev \in Watches : Set(ev)
  \/ Close \/ SocketChanges \/ System \/ LoopStep
  \/ \E i \in Reqs : LocalClose(i) \/ Interrupted(i) \/ Fails(i)

Spec == Init /\ [][Next]_poVars /\ WF_poVars(System) /\ WF_poVars(LoopStep)

-----------------------------------------------------------------------------
(* Properties. *)

\* A handle on its way out has no request outstanding: uv_poll_endgame asserts it,
\* and a completion would come to memory the user has freed.
PollClosesIdle == pstate \in {"endgame", "closed"} => \A i \in Reqs : preq[i] = "idle"

\* What the socket is ready for and the user keeps watching is reported.
PollReports ==
  \A e \in Events :
    e \in events /\ e \in ready ~> e \notin events \/ e \notin ready \/ e \in told

\* The close callback has been made; until then a handle that is closing whose
\* requests were not told to return waits for the socket.
Closed == pstate = "closed"
AwaitsSocket == pstate = "uncancelled" /\ \E i \in Reqs : preq[i] = "out"

\* Never both requests report one event of one poll: while both are out the older
\* masks what the newer polls for.
PollReportsOnce ==
  \A i \in Reqs : preq[i] = "out" /\ preq[Other(i)] \in {"superseded", "done"}
                    => submitted[i] \subseteq mask[Other(i)]
=============================================================================
