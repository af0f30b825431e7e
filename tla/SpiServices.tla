----------------------------- MODULE SpiServices -----------------------------
(***************************************************************************)
(* The service provider, anCIM_sp.dll: the WFP calls the XFS manager makes *)
(* on its threads, one at a time under g_mtx, the registry of services     *)
(* (CanServiceInfo_Admi, under a mutex of its own) and xfs_result_handler, *)
(* which the worker of anpc.dll calls for every result it reads.  anpc.dll *)
(* and the service are abstracted to a connection with a queue each way.   *)
(***************************************************************************)
EXTENDS Naturals, FiniteSets, Sequences, SequencesExt

CONSTANTS Callers, Nobody,
          Services,   \* hService values
          Classes,    \* SERVICE_EVENTS, SYSTEM_EVENTS
          MaxCalls,   \* bound: WFP calls
          MaxEvents   \* bound: events the service broadcasts

ASSUME SpiServicesAssumption ==
  /\ Nobody \notin Callers \cup Services
  /\ MaxCalls \in Nat /\ MaxEvents \in Nat

\* WFPExecute stands for WFPLock, WFPSetTraceLevel and WFPCancelAsyncRequest too.
Ops == {"Open", "Close", "Register", "Deregister", "Execute", "GetInfo", "Unlock"}
Entry == [svc : Services, cls : SUBSET Classes]
Call == [id : 1..MaxCalls, op : Ops, svc : Services, cls : SUBSET Classes]

VARIABLES
  mutex,     \* who holds g_mtx
  call,      \* the call each caller is in
  cpc,       \* where it is: idle, enter (about to lock g_mtx), create, send
  registry,  \* service_, with hService_ and dwEventClass_
  link,      \* the connection: none, connecting, up, broken
  toServer,  \* calls sent to the service and not answered
  toClient,  \* results written to the connection and not read
  wpc,       \* the worker: read, erase (has posted the completion of a close)
  erasing,   \* the service of that close
  held,      \* the manager's handle: free, opening, open, closing
  stale,     \* history: entries left by a WFPOpen that failed
  late,      \* history: services registered by a call made before their handle
             \* was released and entered after
  calls, events

callVars == <<mutex, call, cpc, calls>>
linkVars == <<link, toServer>>
workVars == <<wpc, erasing>>
mgrVars  == <<held, stale>>
vars == <<callVars, registry, linkVars, toClient, workVars, mgrVars, late, events>>

NoCall == [id |-> 0, op |-> "none", svc |-> Nobody, cls |-> {}]

Init ==
  /\ mutex = Nobody /\ call = [c \in Callers |-> NoCall] /\ cpc = [c \in Callers |-> "idle"]
  /\ registry = <<>>
  /\ link = "none" /\ toServer = <<>> /\ toClient = <<>>
  /\ wpc = "read" /\ erasing = Nobody
  /\ held = [s \in Services |-> "free"] /\ stale = [s \in Services |-> 0]
  /\ late = {} /\ calls = 0 /\ events = 0

-----------------------------------------------------------------------------
(* The XFS manager.  It opens a handle that is free, closes one that is     *)
(* open, once, and makes the other calls on open handles, from any thread.  *)

MakeCall(c, op, s, cls) ==
  /\ cpc[c] = "idle" /\ calls < MaxCalls
  /\ CASE op = "Open"  -> held[s] = "free" /\ held' = [held EXCEPT ![s] = "opening"]
       [] op = "Close" -> held[s] = "open" /\ held' = [held EXCEPT ![s] = "closing"]
       [] OTHER        -> held[s] = "open" /\ UNCHANGED held
  /\ calls' = calls + 1
  /\ call' = [call EXCEPT ![c] = [id |-> calls + 1, op |-> op, svc |-> s, cls |-> cls]]
  /\ cpc' = [cpc EXCEPT ![c] = "enter"]
  /\ UNCHANGED <<mutex, registry, linkVars, toClient, workVars, stale, late, events>>

\* The call returns ok, or an error; the manager drops a handle it cannot open.
Return(c, ok) ==
  LET k == call[c]
  IN  /\ mutex' = Nobody
      /\ cpc' = [cpc EXCEPT ![c] = "idle"] /\ call' = [call EXCEPT ![c] = NoCall]
      /\ CASE k.op = "Open" /\ ok -> held' = [held EXCEPT ![k.svc] = "open"] /\ UNCHANGED stale
           [] k.op = "Open" /\ ~ok -> /\ held' = [held EXCEPT ![k.svc] = "free"]
                                      /\ stale' = [stale EXCEPT ![k.svc] = @ + 1]
           [] k.op = "Close" /\ ~ok -> held' = [held EXCEPT ![k.svc] = "open"] /\ UNCHANGED stale
           [] OTHER -> UNCHANGED mgrVars

-----------------------------------------------------------------------------
(* CanServiceInfo_Admi, each function under mtx_. *)

Positions(s) == {i \in 1..Len(registry) : registry[i].svc = s}
First(s) == CHOOSE i \in Positions(s) : \A j \in Positions(s) : i <= j

\* Variant of RegisterEvent: the search goes on after the first match.
RegisterEvery(s, cls) ==
  registry' = [i \in 1..Len(registry) |->
                 IF i \in Positions(s) THEN [registry[i] EXCEPT !.cls = @ \cup cls] ELSE registry[i]]

\* push, register_event, deregister_event and close_service
PushService(s) == registry' = Append(registry, [svc |-> s, cls |-> {}])
RegisterEvent(s, cls) == registry' = [registry EXCEPT ![First(s)].cls = @ \cup cls]
DeregisterEvent(s, cls) == registry' = [registry EXCEPT ![First(s)].cls = @ \ cls]

\* Variant of CloseService: the entry pushed last is erased.
CloseNewest(s) ==
  IF Positions(s) = {} THEN UNCHANGED registry
  ELSE registry' = RemoveAt(registry, CHOOSE i \in Positions(s) : \A j \in Positions(s) : j <= i)

CloseService(s) ==
  IF Positions(s) = {} THEN UNCHANGED registry
                       ELSE registry' = RemoveAt(registry, First(s))

-----------------------------------------------------------------------------
(* The WFP calls. *)

\* g_mtx, then the registry: a service that is not there ends the call.  (WFPOpen
\* with versions that do not match returns without a change.)
Enter(c) ==
  LET k == call[c]
  IN  /\ cpc[c] = "enter" /\ mutex = Nobody
      /\ IF k.op # "Open" /\ (Positions(k.svc) = {} \/ k.op = "Unlock")
           THEN Return(c, Positions(k.svc) # {}) /\ UNCHANGED registry
           ELSE /\ mutex' = c
                /\ cpc' = [cpc EXCEPT ![c] = IF k.op = "Open" THEN "create" ELSE "send"]
                /\ CASE k.op = "Open"       -> PushService(k.svc)
                     [] k.op = "Register"   -> RegisterEvent(k.svc, k.cls)
                     [] k.op = "Deregister" -> DeregisterEvent(k.svc, k.cls)
                     [] OTHER               -> UNCHANGED registry
                /\ UNCHANGED <<call, mgrVars>>
      /\ late' = IF k.op = "Register" /\ held[k.svc] \in {"free", "opening"}
                    THEN late \cup {k.svc} ELSE late
      /\ UNCHANGED <<calls, linkVars, toClient, workVars, events>>

\* anpc_create_ipc.  When it fails WFPOpen returns WFS_SUCCESS without sending,
\* and the worker of anpc.dll goes on trying to connect.
Create(c) ==
  /\ cpc[c] = "create"
  /\ \/ /\ link = "none" /\ link' = "up"
        /\ cpc' = [cpc EXCEPT ![c] = "send"] /\ UNCHANGED <<mutex, call, mgrVars>>
     \/ /\ link = "none" /\ link' = "connecting"
        /\ Return(c, TRUE)
     \/ /\ link # "none"
        /\ cpc' = [cpc EXCEPT ![c] = "send"] /\ UNCHANGED <<mutex, call, mgrVars, link>>
  /\ UNCHANGED <<calls, registry, toServer, toClient, workVars, late, events>>

\* Variant of Send: WFPClose erases the service when the command is accepted.
SendErases(c) ==
  LET k == call[c]
  IN  /\ cpc[c] = "send"
      /\ IF link = "up" THEN toServer' = Append(toServer, k) ELSE UNCHANGED toServer
      /\ Return(c, link # "none")
      /\ IF k.op = "Close" /\ link # "none" THEN CloseService(k.svc) ELSE UNCHANGED registry
      /\ UNCHANGED <<calls, link, toClient, workVars, late, events>>

\* send_xfs_cmd.  A command accepted while the pipe connects, or after its peer
\* has gone, is dropped by the worker.
Send(c) ==
  LET k == call[c]
  IN  /\ cpc[c] = "send"
      /\ IF link = "up" THEN toServer' = Append(toServer, k) ELSE UNCHANGED toServer
      /\ Return(c, link # "none")
      /\ UNCHANGED <<calls, registry, link, toClient, workVars, late, events>>

-----------------------------------------------------------------------------
(* The worker of anpc.dll, in xfs_result_handler. *)

\* One read returns n results, of which the first is decoded.
Read(n) ==
  /\ wpc = "read" /\ n <= Len(toClient)
  /\ toClient' = SubSeq(toClient, n + 1, Len(toClient))

\* send_completed_message, up to PostMessage: the manager learns of the answer.
PostCompletion(n) ==
  LET r == Head(toClient)
  IN  /\ Read(n) /\ r.op # "Event"
      /\ IF r.op = "Close"
           THEN held' = [held EXCEPT ![r.svc] = "free"] /\ wpc' = "erase" /\ erasing' = r.svc
           ELSE UNCHANGED <<held, wpc, erasing>>
      /\ UNCHANGED <<callVars, registry, link, toServer, stale, late, events>>

\* The rest of it, for WFS_CLOSE_COMPLETE.
EraseService ==
  /\ wpc = "erase"
  /\ CloseService(erasing)
  /\ wpc' = "read" /\ erasing' = Nobody
  /\ UNCHANGED <<callVars, linkVars, toClient, mgrVars, late, events>>

\* The entries send_events posts an event of a class to.
Targets(class) == {i \in 1..Len(registry) : class \in registry[i].cls}

\* send_events
PostEvents(n) ==
  /\ Read(n) /\ Head(toClient).op = "Event"
  /\ UNCHANGED <<callVars, registry, link, toServer, workVars, mgrVars, late, events>>

-----------------------------------------------------------------------------
(* The connection and the service. *)

Connected ==
  /\ link = "connecting" /\ link' = "up"
  /\ UNCHANGED <<callVars, registry, toServer, toClient, workVars, mgrVars, late, events>>

\* The service goes away with what it has not answered; what it wrote can be read.
Break ==
  /\ link = "up" /\ link' = "broken"
  /\ toServer' = <<>>
  /\ UNCHANGED <<callVars, registry, toClient, workVars, mgrVars, late, events>>

Eof ==
  /\ link = "broken" /\ toClient = <<>> /\ wpc = "read"
  /\ link' = "none"
  /\ UNCHANGED <<callVars, registry, toServer, toClient, workVars, mgrVars, late, events>>

\* The executer answers the oldest call; a WFPGetInfo is answered when it is read.
Answer(i) ==
  /\ link = "up" /\ i <= Len(toServer)
  /\ i = 1 \/ toServer[i].op = "GetInfo"
  /\ toServer' = RemoveAt(toServer, i)
  /\ toClient' = Append(toClient, toServer[i])
  /\ UNCHANGED <<callVars, registry, link, workVars, mgrVars, late, events>>

\* The service decodes the first of the commands one read returns.
LoseCommand(i) ==
  /\ i \in 2..Len(toServer)
  /\ toServer' = RemoveAt(toServer, i)
  /\ UNCHANGED <<callVars, registry, link, toClient, workVars, mgrVars, late, events>>

Broadcast(class) ==
  /\ link = "up" /\ events < MaxEvents
  /\ events' = events + 1
  /\ toClient' = Append(toClient, [id |-> 0, op |-> "Event", svc |-> Nobody, cls |-> {class}])
  /\ UNCHANGED <<callVars, registry, linkVars, workVars, mgrVars, late>>

-----------------------------------------------------------------------------
\* Registrations name classes; the other calls do not.
ClassesOf(op) == IF op \in {"Register", "Deregister"} THEN SUBSET Classes \ {{}} ELSE {{}}

Manager == \E c \in Callers, op \in Ops, s \in Services :
             \E cls \in ClassesOf(op) : MakeCall(c, op, s, cls)
WFP(c) == Enter(c) \/ Create(c) \/ Send(c)
Worker == EraseService \/ \E n \in 1..Len(toClient) : PostCompletion(n) \/ PostEvents(n)
Service == (\E i \in 1..Len(toServer) : Answer(i) \/ LoseCommand(i))
             \/ \E class \in Classes : Broadcast(class)

Next == Manager \/ (\E c \in Callers : WFP(c)) \/ Worker \/ Service
          \/ Connected \/ Break \/ Eof

Spec == Init /\ [][Next]_vars

-----------------------------------------------------------------------------
(* Properties. *)

\* The type of the state.
TypeOK ==
  /\ mutex \in Callers \cup {Nobody}
  /\ call \in [Callers -> Call \cup {NoCall}]
  /\ cpc \in [Callers -> {"idle", "enter", "create", "send"}]
  /\ registry \in Seq(Entry)
  /\ link \in {"none", "connecting", "up", "broken"} /\ toServer \in Seq(Call)
  /\ wpc \in {"read", "erase"} /\ erasing \in Services \cup {Nobody}
  /\ held \in [Services -> {"free", "opening", "open", "closing"}]
  /\ stale \in [Services -> Nat] /\ late \subseteq Services
  /\ calls \in 0..MaxCalls /\ events \in 0..MaxEvents

Pushed(s) == \E c \in Callers : cpc[c] \in {"create", "send"} /\ call[c].op = "Open" /\ call[c].svc = s

\* The registry holds one entry for each handle the manager has, one for each
\* WFPOpen that failed, and the one the worker is about to erase: a handle opened
\* again before that keeps an entry of its own.
EntriesAccounted ==
  \A s \in Services :
    Cardinality(Positions(s)) =
      stale[s] + (IF held[s] \in {"open", "closing"} \/ Pushed(s) THEN 1 ELSE 0)
               + (IF erasing = s THEN 1 ELSE 0)

\* Whatever entries a service has, one at most is registered: no event is posted
\* twice to it.
EventOncePerService ==
  \A class \in Classes : \A i, j \in Targets(class) :
    registry[i].svc = registry[j].svc => i = j

\* When the worker looks for the entries an event goes to, no service the manager
\* has released is registered, unless a call made before took effect only then.
NoEventAfterClose ==
  wpc = "read" =>
    \A class \in Classes : \A i \in Targets(class) :
      held[registry[i].svc] # "free" \/ registry[i].svc \in late

=============================================================================
