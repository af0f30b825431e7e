------------------------------- MODULE Service -------------------------------
(***************************************************************************)
(* The process anCRS.exe: the pipe server on the loop's thread (IPCServer) *)
(* and the executer, item and main threads (Executer) together.  They meet *)
(* where on_read hands a command to the deque, where a completion or an    *)
(* event is handed to the loop, and where the return of uv_run ends the    *)
(* process.  IPCServer sees the deque as queued, with the clients'         *)
(* addresses; Executer sees it as deque, with the commands.                *)
(***************************************************************************)
EXTENDS Naturals, Sequences, FiniteSets

CONSTANTS Conns, Addrs, Null, MaxReqs, MaxEvents, MaxRead,   \* of IPCServer
          Types, Services, ReqIds, Requests, MaxIdle         \* of Executer

VARIABLES
  link, inbox, sent, pipe, slots, listen, queued, events, notices, freed, leaked, wq, iocp,
  pending, lpc, stopFlag, delivered, exiting,
  deque, cancelled, epc, cur, scan, table, closeFlag, execStop, sem, ipc, readSvc, itemStop,
  mpc, accepted, done, exits, itemEvents, idles, scanned,
  asked,      \* history: requests the clients made
  handed      \* history: requests on_read handed to the executer, in order

S == INSTANCE IPCServer
E == INSTANCE Executer WITH MaxCmds <- MaxReqs, MaxEvents <- 0, events <- itemEvents

server == <<link, inbox, sent, pipe, slots, listen, queued, events, notices, freed, leaked,
            wq, iocp, pending, lpc, stopFlag, delivered, exiting>>
threads == <<deque, cancelled, epc, cur, scan, table, closeFlag, execStop, sem, ipc,
             readSvc, itemStop, mpc, accepted, done, exits, itemEvents, idles,
             scanned>>
vars == <<server, threads, asked, handed>>

\* What either half assumes of its parameters.
ASSUME ServiceAssumption == S!IPCServerAssumption /\ E!ExecuterAssumption

Init == S!Init /\ E!Init /\ asked = {} /\ handed = <<>>

\* The process is there: it has neither crashed nor returned from wWinMain.
Alive == lpc # "crashed" /\ E!Alive /\ mpc # "done"

-----------------------------------------------------------------------------
(* What only one of the two sees. *)

Peers ==
  /\ \E k \in Conns :
       \/ (S!Connect(k) \/ S!Disconnect(k)) /\ UNCHANGED asked
       \/ \E info \in BOOLEAN :
            /\ S!SendRequest(k, info)
            /\ asked' = asked \cup {[id |-> sent + 1, conn |-> k, info |-> info]}
  /\ UNCHANGED <<threads, handed>>

ServerAlone(A) == Alive /\ A /\ UNCHANGED <<threads, asked, handed>>
ThreadsAlone(A) == Alive /\ A /\ UNCHANGED <<server, asked, handed>>

NewConnection == ServerAlone(\E k \in Conns, a \in Addrs : S!OnNewConnection(k, a))
Eof == ServerAlone(\E a \in Addrs : S!OnEof(a))
OnNotify == ServerAlone(S!OnNotify)
OnWrite == ServerAlone(S!OnWrite)
ProcessDone == ServerAlone(S!ProcessDone)
Poll == ServerAlone(S!Poll)
Endgames == ServerAlone(S!Endgames)
IoComplete(a) == ServerAlone(S!IoComplete(a))

ExecuterOwn ==
  ThreadsAlone(\/ E!CheckStop \/ E!RunEmpty \/ E!Front \/ E!ScanBegin \/ E!ScanOne
               \/ E!ScanCrash \/ E!ScanEnd \/ E!WakeItemCheck \/ E!PauseItemCheck \/ E!Pop)
ItemOwn ==
  ThreadsAlone(\/ E!ItemCheckStop \/ E!ItemWait \/ E!ItemWake \/ E!ItemTestStop
               \/ E!ItemReadService \/ E!ItemCrash)
Shutdown == ThreadsAlone(E!Shutdown)

-----------------------------------------------------------------------------
(* Where they meet. *)

\* on_read: what IPCServer puts in queued is the r that Executer gets.
Read(a, n, r) ==
  /\ Alive /\ S!OnRead(a, n)
  /\ IF queued' # queued
       THEN E!Push(r) /\ handed' = Append(handed, Head(inbox[pipe[a].conn]))
       ELSE UNCHANGED <<threads, handed>>
  /\ UNCHANGED asked

\* The commander runs, and its completion goes to the loop.
Execute ==
  /\ Alive /\ E!Execute /\ S!ExecReply(exits' # exits)
  /\ UNCHANGED <<asked, handed>>

\* idle() broadcasts a change of state, or not.
Idle ==
  /\ Alive /\ E!Idle
  /\ IF idles' # idles THEN S!ExecEvent ELSE UNCHANGED server
  /\ UNCHANGED <<asked, handed>>

\* The item thread broadcasts an event; beyond the bound the event is not followed.
ItemPost ==
  /\ Alive /\ E!ItemPost
  /\ IF events < MaxEvents THEN S!ExecEvent ELSE UNCHANGED server
  /\ UNCHANGED <<asked, handed>>

\* uv_run returns to wWinMain, which stops the executer.
Return == lpc = "ended" /\ ThreadsAlone(E!LoopReturns)

Next ==
  \/ Peers \/ NewConnection \/ Eof \/ OnNotify \/ OnWrite \/ ProcessDone \/ Poll \/ Endgames
  \/ \E a \in Addrs : IoComplete(a)
  \/ \E a \in Addrs, n \in 1..MaxRead, r \in Requests : Read(a, n, r)
  \/ ExecuterOwn \/ Execute \/ Idle
  \/ ItemOwn \/ ItemPost
  \/ Return \/ Shutdown

\* The system schedules each thread and completes what was begun; no client has to
\* send, or to stay.
Fairness ==
  /\ WF_vars(OnNotify \/ OnWrite \/ ProcessDone \/ Poll \/ Endgames)
  /\ \A a \in Addrs : WF_vars(IoComplete(a))
  /\ WF_vars(ExecuterOwn \/ Execute \/ Idle) /\ WF_vars(ItemOwn \/ ItemPost)
  /\ WF_vars(Return \/ Shutdown)

Spec == Init /\ [][Next]_vars /\ Fairness

-----------------------------------------------------------------------------
(* Properties. *)

\* Once a completion that ends the service was made, the process ends, all its
\* threads with it, if a client that asked for it stays to receive it.
ServiceEnds ==
  exits # {} ~> ~Alive \/ \E k \in exiting : link[k] = "down"

\* A command handed to the executer is carried out by its thread and answered to its
\* client through the loop's, unless the client leaves or the service ends.
CommandAnswered ==
  \A i \in 1..MaxReqs :
    (\E j \in 1..Len(handed) : handed[j].id = i)
      ~> \/ lpc = "ended" \/ ~Alive
         \/ \E r \in asked :
              r.id = i /\ (link[r.conn] = "down"
                           \/ \E j \in 1..Len(delivered[r.conn]) : delivered[r.conn][j] = r)

\* To its clients the process is a Session: commands are carried out in the order of
\* asking, once, and answered after that; to a client that stays, once and in order.
Promise == INSTANCE Session WITH
  Asks <- S!Request, left <- {k \in Conns : link[k] = "down"},
  carried <- [i \in 1..Len(done) |-> handed[done[i].id]], answered <- delivered
SessionSpec == Promise!Spec

-----------------------------------------------------------------------------
(* For model checking: what the clients send is an execute, during which items *)
(* are watched for, or a close, which ends the process.                        *)

ExecuteOrClose == {[type |-> t, svc |-> 1, req |-> 1] : t \in {"Execute", "Close"}}
=============================================================================
