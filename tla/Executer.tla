------------------------------ MODULE Executer ------------------------------
(***************************************************************************)
(* The command executer of the anCRS service process: the command deque    *)
(* (xfs_cmd_queue), the thread that drains it (CExecuter on CanThread),    *)
(* the command table it calls (CanXfs and its commanders), the thread that *)
(* watches for items (CItem_pass_check on an_semaphore) and the shutdown   *)
(* sequence of the main thread.  The libuv loop is the environment: it     *)
(* pushes commands and, once it has written a completion that carries the  *)
(* exit flag, returns from uv_run.                                         *)
(***************************************************************************)
EXTENDS Naturals, Sequences, FiniteSets

CONSTANTS Types,      \* e_an_wfp_type, the types the command table answers
          Services,   \* hService values
          ReqIds,     \* ReqID values; 0 is "every request" in a cancel
          Requests,   \* the [type, svc, req] the clients may send
          MaxCmds,    \* bound: commands the loop pushes
          MaxEvents,  \* bound: item events the history keeps
          MaxIdle     \* bound: idle broadcasts

\* Commanders that are an an_wfpopen_impl, and so record a service when run.
Recording == {"Open", "Lock", "Unlock", "CancelAsyncRequest", "SetTraceLevel"}

ASSUME ExecuterAssumption ==
  /\ Types = Recording \cup {"Close", "Deregister", "Execute", "Register"}
  /\ Services \subseteq Nat \ {0} /\ 1 \in Services
  /\ ReqIds \subseteq Nat /\ {0, 1} \subseteq ReqIds
  /\ Requests \subseteq [type : Types, svc : Services, req : ReqIds]
  /\ MaxCmds \in Nat /\ MaxEvents \in Nat /\ MaxIdle \in Nat

Command == [id : 0..MaxCmds, type : Types, svc : Services, req : ReqIds]
Event == [svc : Nat, req : Nat]   \* hService and RequestID of an item event
NoCommand == [id |-> 0, type |-> "Open", svc |-> 1, req |-> 0]

VARIABLES
  deque,      \* m_cmd_deque
  cancelled,  \* ids of the commands whose eStatus is e_an_cmd_cancelled
  epc,        \* where the executer thread is
  cur,        \* m_current_cmd
  scan,       \* for_each over m_cmd_deque: next position, captured end()
  table,      \* service_table_, as the number of entries of each service
  closeFlag,  \* _flag of the Close commander
  execStop,   \* CanThread::m_stop_flag
  sem,        \* an_semaphore: _cur_service, _cur_reqid, a pending notify
  ipc,        \* where the item thread is
  readSvc,    \* hService the item thread has read for the event it builds
  itemStop,   \* CItem_pass_check::m_stop_flag
  mpc,        \* where the main thread is
  accepted,   \* history: every command pushed, in order
  done,       \* history: every command whose completion was handed over
  exits,      \* history: ids whose completion carries the exit flag
  events,     \* history: (hService, RequestID) of the item events
  idles,      \* history: number of idle broadcasts
  scanned     \* history: cancels whose scan no push came into, and the last command
              \* there was then

execVars == <<epc, cur, scan>>
xfsVars  == <<table, closeFlag>>
itemVars == <<ipc, readSvc, events>>
mainVars == <<mpc, execStop, itemStop>>
history  == <<accepted, done, exits, idles, scanned>>
vars == <<deque, cancelled, execVars, xfsVars, sem, itemVars, mainVars, history>>

Init ==
  /\ deque = <<>> /\ cancelled = {}
  /\ epc = "check" /\ cur = NoCommand /\ scan = [pos |-> 1, end |-> 0]
  /\ table = [s \in Services |-> 0] /\ closeFlag = FALSE
  /\ sem = [svc |-> 0, req |-> 0, notified |-> FALSE]
  /\ ipc = "check" /\ readSvc = 0 /\ events = <<>>
  /\ mpc = "run" /\ execStop = FALSE /\ itemStop = FALSE
  /\ accepted = <<>> /\ done = <<>> /\ exits = {} /\ idles = 0
  /\ scanned = {}

-----------------------------------------------------------------------------
(* The loop thread. *)

\* Variant of Push: the command goes to the front of the deque.
PushFront(r) ==
  LET c == [id |-> Len(accepted) + 1, type |-> r.type, svc |-> r.svc, req |-> r.req]
  IN  /\ mpc = "run" /\ Len(accepted) < MaxCmds
      /\ deque' = <<c>> \o deque
      /\ accepted' = Append(accepted, c)
      /\ UNCHANGED <<cancelled, execVars, xfsVars, sem, itemVars, mainVars,
                     done, exits, idles, scanned>>

\* on_read hands a decoded command to the deque, under the deque's mutex.
Push(r) ==
  LET c == [id |-> Len(accepted) + 1, type |-> r.type, svc |-> r.svc, req |-> r.req]
  IN  /\ mpc = "run" /\ Len(accepted) < MaxCmds
      /\ deque' = Append(deque, c)
      /\ accepted' = Append(accepted, c)
      /\ UNCHANGED <<cancelled, execVars, xfsVars, sem, itemVars, mainVars,
                     done, exits, idles, scanned>>

-----------------------------------------------------------------------------
(* an_semaphore.  A notify wakes a sleeper only; notified is a wake-up     *)
(* that the sleeping item thread has not taken yet.                        *)

Signal(svc, req) ==
  sem' = [svc |-> svc, req |-> req,
          notified |-> sem.notified \/ (ipc = "sleeping" /\ svc # 0 /\ req # 0)]

Reset == sem' = [sem EXCEPT !.svc = 0, !.req = 0]

-----------------------------------------------------------------------------
(* The executer thread: CanThread::thread_cb around CExecuter::run. *)

CheckStop ==
  /\ epc = "check"
  /\ epc' = IF execStop THEN "exited" ELSE "run"
  /\ UNCHANGED <<deque, cancelled, cur, scan, xfsVars, sem, itemVars, mainVars, history>>

\* Variant of RunEmpty: the thread ends when it finds nothing to do.
RunEmptyEnds ==
  /\ epc = "run" /\ deque = <<>>
  /\ epc' = "exited"
  /\ UNCHANGED <<deque, cancelled, cur, scan, xfsVars, sem, itemVars, mainVars, history>>

RunEmpty ==
  /\ epc = "run" /\ deque = <<>>
  /\ epc' = "idle"
  /\ UNCHANGED <<deque, cancelled, cur, scan, xfsVars, sem, itemVars, mainVars, history>>

\* m_current_cmd is a copy of the front; a cancel goes on to scan the deque.
Front ==
  /\ epc = "run" /\ deque # <<>>
  /\ cur' = Head(deque)
  /\ epc' = IF Head(deque).type = "CancelAsyncRequest" THEN "begin" ELSE "wake"
  /\ UNCHANGED <<deque, cancelled, scan, xfsVars, sem, itemVars, mainVars, history>>

\* Variant of Matches: a request number of 0 is compared like any other.
MatchesEqualOnly(k, c) ==
  /\ c.type # "CancelAsyncRequest"
  /\ c.svc = k.svc
  /\ c.req = k.req

\* The test of the two lambdas of cmd_pre_processed: k cancels c.
Matches(k, c) ==
  /\ c.type # "CancelAsyncRequest"
  /\ c.svc = k.svc
  /\ k.req = 0 \/ c.req = k.req

\* for_each takes begin() and end(), and from here on does not take the mutex.
ScanBegin ==
  /\ epc = "begin"
  /\ scan' = [pos |-> 1, end |-> Len(deque)]
  /\ epc' = "scan"
  /\ UNCHANGED <<deque, cancelled, cur, xfsVars, sem, itemVars, mainVars, history>>

\* A push_back since then has invalidated the iterators: undefined behaviour.  Through
\* the map of blocks that the push has replaced the scan reads the element all the same,
\* or another, or what is no element (ScanCrash).
Invalidated == Len(deque) # scan.end
Reached == IF Invalidated THEN 1..Len(deque) ELSE {scan.pos}

ScanOne ==
  /\ epc = "scan" /\ scan.pos <= scan.end
  /\ \E i \in Reached :
       cancelled' = IF Matches(cur, deque[i]) THEN cancelled \cup {deque[i].id} ELSE cancelled
  /\ scan' = [scan EXCEPT !.pos = @ + 1]
  /\ UNCHANGED <<deque, epc, cur, xfsVars, sem, itemVars, mainVars, history>>

\* An access violation, or the debug library's check of iterators, ends the process.
ScanCrash ==
  /\ epc = "scan" /\ scan.pos <= scan.end /\ Invalidated
  /\ epc' = "crashed"
  /\ UNCHANGED <<deque, cancelled, cur, scan, xfsVars, sem, itemVars, mainVars, history>>

ScanEnd ==
  /\ epc = "scan" /\ scan.pos > scan.end
  /\ epc' = "wake"
  /\ scanned' = IF Invalidated THEN scanned
                 ELSE scanned \cup {[by |-> cur.id, upto |-> Len(accepted)]}
  /\ UNCHANGED <<deque, cancelled, cur, scan, xfsVars, sem, itemVars, mainVars,
                 accepted, done, exits, idles>>

WakeItemCheck ==
  /\ epc = "wake"
  /\ epc' = "execute"
  /\ IF cur.type = "Execute" THEN Signal(cur.svc, cur.req) ELSE UNCHANGED sem
  /\ UNCHANGED <<deque, cancelled, cur, scan, xfsVars, itemVars, mainVars, history>>

PushService(t, s) == [t EXCEPT ![s] = @ + 1]
RemoveService(t, s) == IF t[s] = 0 THEN t ELSE [t EXCEPT ![s] = @ - 1]
NoService(t) == \A s \in Services : t[s] = 0

\* Variant of FlagAfter: one service without entries is enough.
FlagAfterAny(flag, t) == flag \/ \E s \in Services : t[s] = 0

\* The flag an_wfpclose_impl is left with: nothing ever clears it.
FlagAfter(flag, t) == flag \/ NoService(t)

\* The commander runs and its completion is handed to the event handler.
\* eStatus is not consulted.
Execute ==
  /\ epc = "execute"
  /\ table' = CASE cur.type \in Recording -> PushService(table, cur.svc)
                [] cur.type = "Close" -> RemoveService(table, cur.svc)
                [] OTHER -> table
  /\ closeFlag' = IF cur.type = "Close" THEN FlagAfter(closeFlag, table')
                                        ELSE closeFlag
  /\ exits' = IF cur.type = "Close" /\ closeFlag' THEN exits \cup {cur.id} ELSE exits
  /\ done' = Append(done, cur)
  /\ epc' = "pause"
  /\ UNCHANGED <<deque, cancelled, cur, scan, sem, itemVars, mainVars,
                 accepted, idles, scanned>>

\* Variant of PauseItemCheck: the semaphore is not reset.
PauseKeepsSignal ==
  /\ epc = "pause"
  /\ epc' = "pop"
  /\ UNCHANGED <<deque, cancelled, cur, scan, xfsVars, sem, itemVars, mainVars, history>>

PauseItemCheck ==
  /\ epc = "pause"
  /\ epc' = "pop"
  /\ IF cur.type = "Execute" THEN Reset ELSE UNCHANGED sem
  /\ UNCHANGED <<deque, cancelled, cur, scan, xfsVars, itemVars, mainVars, history>>

\* Variant of Pop: the handled command stays in the deque.
PopNothing ==
  /\ epc = "pop"
  /\ epc' = "idle"
  /\ UNCHANGED <<deque, cancelled, cur, scan, xfsVars, sem, itemVars, mainVars, history>>

\* destroy_cmd and pop_front_cmd_deque.
Pop ==
  /\ epc = "pop"
  /\ deque' = Tail(deque)
  /\ epc' = "idle"
  /\ UNCHANGED <<cancelled, cur, scan, xfsVars, sem, itemVars, mainVars, history>>

\* idle_handle: run() returned 0, so the idle interval is looked at each time.
Idle ==
  /\ epc = "idle"
  /\ \/ idles < MaxIdle /\ idles' = idles + 1
     \/ UNCHANGED idles
  /\ epc' = "check"
  /\ UNCHANGED <<deque, cancelled, cur, scan, xfsVars, sem, itemVars, mainVars,
                 accepted, done, exits, scanned>>

ExecuterThread ==
  \/ CheckStop \/ RunEmpty \/ Front \/ ScanBegin \/ ScanOne \/ ScanCrash \/ ScanEnd
  \/ WakeItemCheck \/ Execute \/ PauseItemCheck \/ Pop \/ Idle

-----------------------------------------------------------------------------
(* The item thread: CItem_pass_check::run around CanXfs::item_pass_check. *)

otherThanItem == <<deque, cancelled, execVars, xfsVars, mainVars, history>>

ItemCheckStop ==
  /\ ipc = "check"
  /\ ipc' = IF itemStop THEN "exited" ELSE "wait"
  /\ UNCHANGED <<sem, readSvc, events, otherThanItem>>

\* an_semaphore::wait: the test of _cur_service, then the predicate of the
\* condition variable, both under the mutex.
ItemWait ==
  /\ ipc = "wait"
  /\ ipc' = IF sem.svc = 0 /\ sem.req = 0 THEN "sleeping" ELSE "test"
  /\ UNCHANGED <<sem, readSvc, events, otherThanItem>>

\* A woken sleeper evaluates the predicate again.  A spurious wake-up adds
\* nothing: _cur_reqid > 0 while asleep implies a pending notify.
ItemWake ==
  /\ ipc = "sleeping" /\ sem.notified
  /\ sem' = [sem EXCEPT !.notified = FALSE]
  /\ ipc' = IF sem.req > 0 THEN "test" ELSE "sleeping"
  /\ UNCHANGED <<readSvc, events, otherThanItem>>

ItemTestStop ==
  /\ ipc = "test"
  /\ ipc' = IF itemStop THEN "exited" ELSE "fire"
  /\ UNCHANGED <<sem, readSvc, events, otherThanItem>>

\* The callback reads _cur_service and _cur_reqid without the mutex.
ItemReadService ==
  /\ ipc = "fire"
  /\ readSvc' = sem.svc
  /\ ipc' = "post"
  /\ UNCHANGED <<sem, events, otherThanItem>>

\* The event is posted through the executer's CanEventHandler.
ItemPost ==
  /\ ipc = "post"
  /\ events' = IF Len(events) < MaxEvents
                 THEN Append(events, [svc |-> readSvc, req |-> sem.req]) ELSE events
  /\ readSvc' = 0
  /\ ipc' = "check"
  /\ UNCHANGED <<sem, otherThanItem>>

\* ~CanIPCServer has deleted that handler already: undefined behaviour, of
\* which ItemPost (the memory is still intact) is the other outcome.
HandlerDeleted == mpc \in {"stopItem2", "signalItem2", "joinItem", "done"}
ItemCrash ==
  /\ ipc = "post" /\ HandlerDeleted
  /\ ipc' = "crashed"
  /\ UNCHANGED <<sem, readSvc, events, otherThanItem>>

ItemThread ==
  \/ ItemCheckStop \/ ItemWait \/ ItemWake \/ ItemTestStop
  \/ ItemReadService \/ ItemPost \/ ItemCrash

-----------------------------------------------------------------------------
(* The main thread: wWinMain once uv_run has returned, then the destructors *)
(* of the static CanIPCServer.                                              *)

otherThanMain == <<deque, cancelled, execVars, xfsVars, itemVars, history>>

\* uv_run returns: on_write has seen a completion that carries the exit flag.
LoopReturns ==
  /\ mpc = "run" /\ exits # {}
  /\ mpc' = "stopItem"
  /\ UNCHANGED <<sem, execStop, itemStop, otherThanMain>>

\* Variant of StopItemFlag: the flag is raised by the second stop only.
StopItemFlagLate ==
  /\ mpc \in {"stopItem", "stopItem2"}
  /\ itemStop' = (mpc = "stopItem2")
  /\ mpc' = IF mpc = "stopItem" THEN "signalItem" ELSE "signalItem2"
  /\ UNCHANGED <<sem, execStop, otherThanMain>>

\* CItem_pass_check::stop, called by CExecuter::stop and again by ~CItem_pass_check:
\* the flag, then the signal.
StopItemFlag ==
  /\ mpc \in {"stopItem", "stopItem2"}
  /\ itemStop' = TRUE
  /\ mpc' = IF mpc = "stopItem" THEN "signalItem" ELSE "signalItem2"
  /\ UNCHANGED <<sem, execStop, otherThanMain>>

\* Variant of StopItemSignal: the destructor joins without signalling again.
StopItemSignalOnce ==
  /\ mpc \in {"signalItem", "signalItem2"}
  /\ IF mpc = "signalItem" THEN Signal(1, 1) ELSE UNCHANGED sem
  /\ mpc' = IF mpc = "signalItem" THEN "stopExec" ELSE "joinItem"
  /\ UNCHANGED <<execStop, itemStop, otherThanMain>>

StopItemSignal ==
  /\ mpc \in {"signalItem", "signalItem2"}
  /\ Signal(1, 1)
  /\ mpc' = IF mpc = "signalItem" THEN "stopExec" ELSE "joinItem"
  /\ UNCHANGED <<execStop, itemStop, otherThanMain>>

StopExec ==
  /\ mpc = "stopExec"
  /\ execStop' = TRUE
  /\ mpc' = "joinExec"
  /\ UNCHANGED <<sem, itemStop, otherThanMain>>

\* CanThread::join clears the flag again once the thread is gone.
JoinExec ==
  /\ mpc = "joinExec" /\ epc = "exited"
  /\ execStop' = FALSE
  /\ mpc' = "delete"
  /\ UNCHANGED <<sem, itemStop, otherThanMain>>

DeleteExecuter ==
  /\ mpc = "delete"
  /\ mpc' = "stopItem2"
  /\ UNCHANGED <<sem, execStop, itemStop, otherThanMain>>

JoinItem ==
  /\ mpc = "joinItem" /\ ipc = "exited"
  /\ mpc' = "done"
  /\ UNCHANGED <<sem, execStop, itemStop, otherThanMain>>

Shutdown ==
  \/ StopItemFlag \/ StopItemSignal \/ StopExec \/ JoinExec
  \/ DeleteExecuter \/ JoinItem

-----------------------------------------------------------------------------
\* The process is there: neither thread has crashed it.
Alive == epc # "crashed" /\ ipc # "crashed"

Next ==
  /\ Alive
  /\ \/ \E r \in Requests : Push(r)
     \/ ExecuterThread
     \/ ItemThread
     \/ LoopReturns
     \/ Shutdown

Spec == Init /\ [][Next]_vars

\* The system schedules the threads.  Nobody obliges a client to send, or to
\* stay until the completion that ends the service has been written.
Fairness ==
  /\ WF_vars(Alive /\ ExecuterThread)
  /\ WF_vars(Alive /\ ItemThread)
  /\ WF_vars(Alive /\ Shutdown)

FairSpec == Spec /\ Fairness

-----------------------------------------------------------------------------
(* Properties. *)

\* The type of the state.
TypeOK ==
  /\ deque \in Seq(Command) /\ cancelled \subseteq Nat
  /\ epc \in {"check", "run", "begin", "scan", "wake", "execute", "pause", "pop", "idle",
              "exited", "crashed"}
  /\ cur \in Command /\ scan \in [pos : Nat, end : Nat]
  /\ table \in [Services -> Nat] /\ closeFlag \in BOOLEAN
  /\ sem \in [svc : Nat, req : Nat, notified : BOOLEAN]
  /\ ipc \in {"check", "wait", "sleeping", "test", "fire", "post", "exited", "crashed"}
  /\ readSvc \in Nat /\ events \in Seq(Event)
  /\ mpc \in {"run", "stopItem", "signalItem", "stopExec", "joinExec", "delete",
              "stopItem2", "signalItem2", "joinItem", "done"}
  /\ execStop \in BOOLEAN /\ itemStop \in BOOLEAN
  /\ accepted \in Seq(Command) /\ done \in Seq(Command)
  /\ exits \subseteq Nat /\ idles \in Nat /\ scanned \subseteq [by : Nat, upto : Nat]

\* The front is copied, handled and only then popped, with the mutex released
\* in between: whatever the loop pushes meanwhile, the command popped is the
\* one that was handled.
CurrentIsFront ==
  epc \in {"begin", "scan", "wake", "execute", "pause", "pop"}
    => deque # <<>> /\ cur = Head(deque)

\* The commands that are still to be answered.
Pending == IF epc \in {"pause", "pop"} THEN Tail(deque) ELSE deque

\* The deque between loop and executer loses, repeats and reorders nothing.
NothingLost == accepted = done \o Pending

\* The cancel accepted as number k selects the command accepted as number i.
Selects(k, i) ==
  /\ accepted[k].type = "CancelAsyncRequest" /\ accepted[i].type # "CancelAsyncRequest"
  /\ accepted[k].svc = accepted[i].svc
  /\ accepted[k].req \in {0, accepted[i].req}

\* A cancel marks nothing but what it selects behind it, also when a push has
\* invalidated its iterators and the process lives on; and unless one has, it marks
\* everything it selects that waited when the scan ended.
CancelExact ==
  /\ \A i \in cancelled : \E k \in 1..(i - 1) : k <= Len(done) + 1 /\ Selects(k, i)
  /\ \A s \in scanned : \A i \in (s.by + 1)..s.upto : Selects(s.by, i) => i \in cancelled

\* The first completion that carries the exit flag is made when no service is
\* recorded any more.
FirstExitMeansNoService ==
  [][exits = {} /\ exits' # {} => NoService(table')]_vars

\* The semaphore names the Execute in progress and nothing else, until the
\* main thread signals it to stop the item thread.
WatchWindow ==
  mpc \in {"run", "stopItem", "signalItem"} =>
    IF epc \in {"execute", "pause"} /\ cur.type = "Execute"
      THEN sem.svc = cur.svc /\ sem.req = cur.req
      ELSE sem.svc = 0 /\ sem.req = 0

\* No item event is broadcast before some Execute was taken up: the signal
\* that stops the item thread never passes for one.
EventNeedsExecute ==
  events # <<>> =>
    \E i \in 1..Len(accepted) : i <= Len(done) + 1 /\ accepted[i].type = "Execute"

\* Once uv_run has returned both threads end and the process exits, whatever
\* the executer and the item thread were doing, unless one of them crashes it.
ShutdownCompletes == mpc # "run" ~> mpc = "done" \/ ~Alive

-----------------------------------------------------------------------------
(* What comments in the code say, and the code does not do. *)

\* The services open after the first n answered commands.
OpenAfter(n, s) ==
  LET Count(t) == Cardinality({i \in 1..n : done[i].type = t /\ done[i].svc = s})
  IN  Count("Open") > Count("Close")

\* Only the completion of the last close carries the exit flag.
OnlyLastCloseExits ==
  \A i \in 1..Len(done) :
    done[i].id \in exits => \A s \in Services : ~OpenAfter(i, s)

-----------------------------------------------------------------------------
(* The executer implements a queue server that answers in order. *)

Queue == INSTANCE CommandQueue
           WITH waiting <- Pending, answered <- done, serving <- (mpc = "run" /\ Alive)

\* Seen from outside, CExecuter answers the oldest command that waits and no
\* other, and while the service runs it leaves none waiting for ever.
QueueSpec == Queue!FairSpec
=============================================================================
