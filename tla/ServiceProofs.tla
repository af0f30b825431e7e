---------------------------- MODULE ServiceProofs ----------------------------
(***************************************************************************)
(* The theorem that the process of Service is a Session to its clients,    *)
(* for every set of connections, addresses, services and requests and      *)
(* every bound.  What the server and the threads guarantee on their own is *)
(* taken from their theorems; what is new is how the two halves fit.       *)
(***************************************************************************)
EXTENDS Service, TLAPS

SP == INSTANCE IPCServerProofs
EP == INSTANCE ExecuterProofs WITH MaxCmds <- MaxReqs, MaxEvents <- 0, events <- itemEvents

LEMMA Assumptions == SP!IPCServerAssumption /\ EP!ExecuterAssumption
  BY ServiceAssumption
  DEF S!IPCServerAssumption, SP!IPCServerAssumption,
      E!ExecuterAssumption, EP!ExecuterAssumption, E!Recording, EP!Recording

-----------------------------------------------------------------------------
(* The halves: a step of the process is a step of each, or leaves it alone. *)

LEMMA SameServerNext == S!Next <=> SP!Next
  BY SMT
  DEF S!peerVars, SP!peerVars, S!pipeVars, SP!pipeVars, S!execVars, SP!execVars,
       S!noticeVars, SP!noticeVars, S!ioVars, SP!ioVars, S!loopVars, SP!loopVars, S!vars,
       SP!vars, S!Notice, SP!Notice, S!NoRequest, SP!NoRequest, S!PostNotice, SP!PostNotice,
       S!Connect, SP!Connect, S!SendRequest, SP!SendRequest, S!Disconnect, SP!Disconnect,
       S!ExecReply, SP!ExecReply, S!ExecEvent, SP!ExecEvent, S!OnNewConnection,
       SP!OnNewConnection, S!OnRead, SP!OnRead, S!OnEof, SP!OnEof, S!AtHead, SP!AtHead,
       S!SendNotify, SP!SendNotify, S!OnReply, SP!OnReply, S!OnReplyCrash, SP!OnReplyCrash,
       S!Reached, SP!Reached, S!OnEvent, SP!OnEvent, S!OnWriteFailed, SP!OnWriteFailed,
       S!NotifyExit, SP!NotifyExit, S!OnWritten, SP!OnWritten, S!ProcessDone, SP!ProcessDone,
       S!Poll, SP!Poll, S!Closed, SP!Closed, S!EraseClients, SP!EraseClients, S!Endgames,
       SP!Endgames, S!IoComplete, SP!IoComplete, S!OnNotify, SP!OnNotify, S!OnWrite,
       SP!OnWrite, S!Peers, SP!Peers, S!Threads, SP!Threads, S!PipeCallbacks,
       SP!PipeCallbacks, S!Next, SP!Next

LEMMA SameThreadsNext == E!Next <=> EP!Next
  BY SMT
  DEF E!execVars, EP!execVars, E!xfsVars, EP!xfsVars, E!itemVars, EP!itemVars, E!mainVars,
       EP!mainVars, E!history, EP!history, E!vars, EP!vars, E!Push, EP!Push, E!Signal,
       EP!Signal, E!Reset, EP!Reset, E!CheckStop, EP!CheckStop, E!RunEmpty, EP!RunEmpty,
       E!Front, EP!Front, E!Matches, EP!Matches, E!ScanBegin, EP!ScanBegin, E!Invalidated,
       EP!Invalidated, E!Reached, EP!Reached, E!ScanOne, EP!ScanOne, E!ScanCrash, EP!ScanCrash,
       E!ScanEnd, EP!ScanEnd,
       E!WakeItemCheck, EP!WakeItemCheck, E!PushService, EP!PushService, E!RemoveService,
       EP!RemoveService, E!NoService, EP!NoService, E!FlagAfter, EP!FlagAfter, E!Recording,
       EP!Recording, E!Execute, EP!Execute, E!PauseItemCheck, EP!PauseItemCheck, E!Pop,
       EP!Pop, E!Idle, EP!Idle, E!ExecuterThread, EP!ExecuterThread, E!otherThanItem,
       EP!otherThanItem, E!ItemCheckStop, EP!ItemCheckStop, E!ItemWait, EP!ItemWait,
       E!ItemWake, EP!ItemWake, E!ItemTestStop, EP!ItemTestStop, E!ItemReadService,
       EP!ItemReadService, E!ItemPost, EP!ItemPost, E!HandlerDeleted, EP!HandlerDeleted,
       E!ItemCrash, EP!ItemCrash, E!ItemThread, EP!ItemThread, E!otherThanMain,
       EP!otherThanMain, E!LoopReturns, EP!LoopReturns, E!StopItemFlag, EP!StopItemFlag,
       E!StopItemSignal, EP!StopItemSignal, E!StopExec, EP!StopExec, E!JoinExec, EP!JoinExec,
       E!DeleteExecuter, EP!DeleteExecuter, E!JoinItem, EP!JoinItem, E!Shutdown, EP!Shutdown,
       E!Alive, EP!Alive, E!Next, EP!Next

LEMMA ServerStep ==
  ASSUME [Next]_vars
  PROVE  [SP!Next]_(SP!vars)
<1>1. S!Next \/ UNCHANGED server
  BY DEF Next, vars, Peers, NewConnection, Eof, OnNotify, OnWrite, ProcessDone, Poll, Endgames,
         IoComplete, ServerAlone, ThreadsAlone, ExecuterOwn, ItemOwn, Shutdown, Read, Execute,
         Idle, ItemPost, Return, S!Next, S!Peers, S!PipeCallbacks, S!Threads
<1>2. UNCHANGED server => UNCHANGED SP!vars
  BY DEF server, SP!vars, SP!peerVars, SP!pipeVars, SP!execVars, SP!noticeVars, SP!ioVars,
         SP!loopVars
<1> QED
  BY <1>1, <1>2, SameServerNext

LEMMA ThreadsStep ==
  ASSUME [Next]_vars
  PROVE  [EP!Next]_(EP!vars)
<1>1. E!Next \/ UNCHANGED threads
  BY DEF Next, vars, Peers, NewConnection, Eof, OnNotify, OnWrite, ProcessDone, Poll, Endgames,
         IoComplete, ServerAlone, ThreadsAlone, ExecuterOwn, ItemOwn, Shutdown, Read, Execute,
         Idle, ItemPost, Return, Alive, E!Next, E!ExecuterThread, E!ItemThread
<1>2. UNCHANGED threads => UNCHANGED EP!vars
  BY DEF threads, EP!vars, EP!execVars, EP!xfsVars, EP!itemVars, EP!mainVars, EP!history
<1> QED
  BY <1>1, <1>2, SameThreadsNext

LEMMA SameInit == (S!Init => SP!Init) /\ (E!Init => EP!Init)
  BY DEF S!Init, SP!Init, E!Init, EP!Init, E!NoCommand, EP!NoCommand

\* What each half guarantees on its own.
ServerInv == SP!IInv /\ SP!QueuedAreCommands /\ SP!Order /\ SP!UpHasPipe
ThreadsInv == EP!IInv /\ EP!CancelInv

LEMMA HalvesAlways == Spec => [](ServerInv /\ ThreadsInv)
<1>1. Spec => SP!Spec /\ EP!Spec
  <2>1. Init => SP!Init /\ EP!Init
    BY SameInit DEF Init
  <2>2. [Next]_vars => [SP!Next]_(SP!vars) /\ [EP!Next]_(EP!vars)
    BY ServerStep, ThreadsStep
  <2> QED
    BY <2>1, <2>2, PTL DEF Spec, SP!Spec, EP!Spec
<1>2. SP!Spec => [](SP!IInv /\ SP!QueuedAreCommands /\ SP!Order)
  BY Assumptions, SP!OrderAlways
<1>3. SP!Spec => []SP!UpHasPipe
  BY Assumptions, SP!UpAlways
<1>4. EP!Spec => [](EP!IInv /\ EP!CancelInv)
  BY Assumptions, EP!CancelAlways
<1> QED
  BY <1>1, <1>2, <1>3, <1>4, PTL DEF ServerInv, ThreadsInv

-----------------------------------------------------------------------------
(* What the steps of the process do to its requests. *)

\* A client asks; a client leaves; on_read takes n requests and looks at the first;
\* a completion is handed over; a write completes.
Asking(k, r) ==
  /\ r \in S!Request /\ r.conn = k /\ r.id = sent + 1 /\ link[k] \in {"waiting", "up"}
  /\ asked' = asked \cup {r} /\ sent' = sent + 1
  /\ inbox' = [inbox EXCEPT ![k] = Append(@, r)]
  /\ UNCHANGED <<handed, queued, done, delivered, link>>

Leaving(k) ==
  /\ link[k] = "up" /\ link' = [link EXCEPT ![k] = "down"]
  /\ UNCHANGED <<asked, sent, inbox, handed, queued, done, delivered>>

HandsOver(r) ==
  /\ ~r.info /\ handed' = Append(handed, r)
  /\ \E a \in Addrs : queued' = Append(queued, [req |-> r, addr |-> a])

Taking(k, n) ==
  /\ n <= Len(inbox[k])
  /\ inbox' = [inbox EXCEPT ![k] = SubSeq(@, n + 1, Len(@))]
  /\ UNCHANGED <<asked, sent, done, delivered, link>>
  /\ HandsOver(Head(inbox[k])) \/ UNCHANGED <<handed, queued>>

Completing ==
  /\ queued # <<>> /\ queued' = Tail(queued) /\ \E c : done' = Append(done, c)
  /\ UNCHANGED <<asked, sent, inbox, handed, delivered, link>>

Writing(a) ==
  /\ SP!IoComplete(a)
  /\ UNCHANGED <<asked, sent, inbox, handed, queued, done, link>>

Elsewhere ==
  /\ UNCHANGED <<asked, sent, inbox, handed, queued, done, delivered>>
  /\ \A k \in Conns : link'[k] = "down" <=> link[k] = "down"

Effect ==
  \/ \E k \in Conns : Leaving(k) \/ \E r \in S!Request : Asking(k, r)
  \/ \E k \in Conns, n \in 1..MaxRead : Taking(k, n)
  \/ Completing \/ Elsewhere
  \/ \E a \in Addrs : Writing(a)

LEMMA SameTypes == S!Request = SP!Request
  BY DEF S!Request, SP!Request

\* The types that the rest of the proof looks at.
LEMMA TypesOfHalves ==
  ASSUME ServerInv, ThreadsInv
  PROVE  /\ inbox \in [Conns -> Seq(S!Request)] /\ delivered \in [Conns -> Seq(S!Request)]
         /\ link \in [Conns -> {"idle", "waiting", "up", "down"}]
         /\ sent \in 0..MaxReqs /\ \E C : done \in Seq(C)
         /\ \E C : queued \in Seq(C)
         /\ \A a \in Addrs : pipe[a].st = "open" => pipe[a].conn \in Conns
<1>1. SP!TypeOK /\ EP!TypeOK /\ SP!PipesOK
  BY DEF ServerInv, ThreadsInv, SP!IInv, EP!IInv
<1>2. pipe \in [Addrs -> [st : {"free", "open", "closing"}, conn : Conns \cup {Null}]]
  BY <1>1 DEF SP!TypeOK
<1>3. \A a \in Addrs : pipe[a].st = "open" => pipe[a].conn \in Conns
  BY <1>1, <1>2 DEF SP!PipesOK
<1>4. done \in Seq(EP!Command)
  BY <1>1 DEF EP!TypeOK
<1>5. /\ inbox \in [Conns -> Seq(SP!Request)] /\ delivered \in [Conns -> Seq(SP!Request)]
      /\ link \in [Conns -> {"idle", "waiting", "up", "down"}]
      /\ sent \in 0..MaxReqs /\ queued \in Seq(SP!Command)
  BY <1>1 DEF SP!TypeOK
<1> QED
  BY <1>3, <1>4, <1>5, SameTypes

LEMMA Effects ==
  ASSUME ServerInv, ThreadsInv, [Next]_vars
  PROVE  Effect
<1> USE DEF S!peerVars, S!pipeVars, S!execVars, S!noticeVars, S!ioVars, S!loopVars
<1>0. /\ inbox \in [Conns -> Seq(S!Request)]
      /\ link \in [Conns -> {"idle", "waiting", "up", "down"}]
      /\ sent \in 0..MaxReqs /\ MaxReqs \in Nat
      /\ \A a \in Addrs : pipe[a].st = "open" => pipe[a].conn \in Conns
  BY TypesOfHalves, Assumptions DEF SP!IPCServerAssumption
<1>1. CASE Peers
  <2>1. ASSUME NEW k \in Conns, NEW info \in BOOLEAN, S!SendRequest(k, info),
               asked' = asked \cup {[id |-> sent + 1, conn |-> k, info |-> info]},
               UNCHANGED <<threads, handed>>
        PROVE  Effect
    <3> DEFINE r == [id |-> sent + 1, conn |-> k, info |-> info]
    <3>1. sent + 1 \in 1..MaxReqs
      BY <1>0, <2>1 DEF S!SendRequest
    <3>2. r \in S!Request /\ r.conn = k /\ r.id = sent + 1
      BY <3>1 DEF S!Request
    <3>3. Asking(k, r)
      BY <2>1, <3>2 DEF S!SendRequest, Asking, threads
    <3> QED
      BY <3>2, <3>3 DEF Effect
  <2>2. ASSUME NEW k \in Conns, S!Disconnect(k), UNCHANGED <<asked, threads, handed>>
        PROVE  Effect
    BY <2>2 DEF S!Disconnect, Leaving, Effect, threads
  <2>3. ASSUME NEW k \in Conns, S!Connect(k), UNCHANGED <<asked, threads, handed>>
        PROVE  Effect
    BY <1>0, <2>3 DEF S!Connect, Elsewhere, Effect, threads
  <2> QED
    BY <1>1, <2>1, <2>2, <2>3 DEF Peers
<1>2. ASSUME NEW a \in Addrs, NEW n \in 1..MaxRead, NEW q \in Requests, Read(a, n, q)
      PROVE  Effect
  <2> DEFINE k == pipe[a].conn
             r == Head(inbox[k])
  <2>1. S!OnRead(a, n) /\ UNCHANGED <<asked, done>>
    BY <1>2 DEF Read, E!Push, threads
  <2>2. k \in Conns /\ n <= Len(inbox[k])
    BY <1>0, <2>1 DEF S!OnRead
  <2>3. \/ r.info /\ UNCHANGED queued
        \/ ~r.info /\ queued' = Append(queued, [req |-> r, addr |-> a])
    BY <2>1 DEF S!OnRead
  <2>4. HandsOver(r) \/ UNCHANGED <<handed, queued>>
    BY <1>2, <2>3 DEF Read, HandsOver
  <2>5. Taking(k, n)
    BY <2>1, <2>2, <2>4 DEF S!OnRead, Taking
  <2> QED
    BY <2>2, <2>5 DEF Effect
<1>3. CASE Execute
  BY <1>3 DEF Execute, E!Execute, S!ExecReply, Completing, Effect
<1>4. ASSUME NEW a \in Addrs, IoComplete(a) PROVE Effect
  <2>1. S!IoComplete(a) /\ UNCHANGED <<threads, asked, handed>>
    BY <1>4 DEF IoComplete, ServerAlone
  <2>2. SP!IoComplete(a)
    BY <2>1 DEF S!IoComplete, SP!IoComplete, S!NoRequest, SP!NoRequest, SP!peerVars,
                SP!pipeVars, SP!execVars, SP!noticeVars, SP!loopVars
  <2>3. Writing(a)
    BY <2>1, <2>2 DEF S!IoComplete, Writing, threads
  <2> QED
    BY <2>3 DEF Effect
<1>5. CASE Idle \/ ItemPost
  <2>1. S!ExecEvent \/ UNCHANGED server
    BY <1>5 DEF Idle, ItemPost
  <2>2. UNCHANGED <<sent, inbox, queued, delivered, link>>
    BY <2>1 DEF S!ExecEvent, server
  <2>3. UNCHANGED <<asked, handed, done>>
    BY <1>5 DEF Idle, ItemPost, E!Idle, E!ItemPost, E!otherThanItem, E!history
  <2> QED
    BY <2>2, <2>3 DEF Elsewhere, Effect
<1>6. CASE ExecuterOwn \/ ItemOwn \/ Return \/ Shutdown
  <2>1. UNCHANGED <<server, asked, handed>>
    BY <1>6 DEF ExecuterOwn, ItemOwn, Return, Shutdown, ThreadsAlone
  <2>2. UNCHANGED done
    BY <1>6 DEF ExecuterOwn, ItemOwn, Return, Shutdown, ThreadsAlone, E!CheckStop, E!RunEmpty,
           E!Front, E!ScanBegin, E!ScanOne, E!ScanCrash, E!ScanEnd, E!WakeItemCheck, E!PauseItemCheck, E!Pop,
           E!ItemCheckStop, E!ItemWait, E!ItemWake, E!ItemTestStop, E!ItemReadService,
           E!ItemCrash, E!LoopReturns, E!Shutdown, E!StopItemFlag, E!StopItemSignal,
           E!StopExec, E!JoinExec, E!DeleteExecuter, E!JoinItem, E!otherThanItem,
           E!otherThanMain, E!history
  <2> QED
    BY <2>1, <2>2 DEF Elsewhere, Effect, server
<1>7. CASE NewConnection
  <2>1. PICK k \in Conns, a \in Addrs : S!OnNewConnection(k, a)
    BY <1>7 DEF NewConnection, ServerAlone
  <2>2. UNCHANGED <<threads, asked, handed>>
    BY <1>7 DEF NewConnection, ServerAlone
  <2> QED
    BY <1>0, <2>1, <2>2 DEF S!OnNewConnection, Elsewhere, Effect, threads
<1>8. CASE Eof \/ OnNotify \/ OnWrite \/ ProcessDone \/ Poll \/ Endgames \/ UNCHANGED vars
  <2>1. UNCHANGED <<threads, asked, handed>>
    BY <1>8 DEF Eof, OnNotify, OnWrite, ProcessDone, Poll, Endgames, ServerAlone, vars
  <2>2. UNCHANGED <<sent, inbox, queued, delivered, link>>
    BY <1>8 DEF Eof, OnNotify, OnWrite, ProcessDone, Poll, Endgames, ServerAlone, S!OnEof,
           S!OnNotify, S!OnReply, S!OnReplyCrash, S!OnEvent, S!OnWrite, S!OnWriteFailed,
           S!OnWritten, S!ProcessDone, S!Poll, S!Endgames, vars, server
  <2> QED
    BY <2>1, <2>2 DEF Elsewhere, Effect, threads
<1> QED
  BY <1>1, <1>2, <1>3, <1>4, <1>5, <1>6, <1>7, <1>8 DEF Next

-----------------------------------------------------------------------------
(* How the halves fit. *)

LEMMA Appended ==
  ASSUME NEW C, NEW q \in Seq(C), NEW x
  PROVE  /\ Len(q) \in Nat /\ Len(Append(q, x)) = Len(q) + 1
         /\ Append(q, x)[Len(q) + 1] = x
         /\ \A i \in 1..Len(q) : Append(q, x)[i] = q[i]
  OBVIOUS

LEMMA Dropped ==
  ASSUME NEW C, NEW q \in Seq(C), NEW n \in 1..Len(q)
  PROVE  /\ Len(q) \in Nat /\ Len(SubSeq(q, n + 1, Len(q))) = Len(q) - n
         /\ \A i \in 1..(Len(q) - n) : SubSeq(q, n + 1, Len(q))[i] = q[i + n]
         /\ Head(q) = q[1]
  OBVIOUS

\* What the executer has in its deque are the requests handed over and not completed.
Mirrored ==
  /\ handed \in Seq(S!Request) /\ Len(handed) = Len(done) + Len(queued)
  /\ \A i \in 1..Len(queued) : queued[i].req = handed[Len(done) + i]

\* The requests of the process are the clients', and the executer gets no WFPGetInfo.
AsksKnown ==
  /\ asked \subseteq S!Request /\ \A r \in asked : r.id <= sent
  /\ \A k \in Conns : \A i \in 1..Len(inbox[k]) : inbox[k][i] \in asked
  /\ \A i \in 1..Len(handed) : handed[i] \in asked /\ ~handed[i].info

\* The commands of a client are handed over in the order in which they were sent.
HandedInOrder ==
  \A i, j \in 1..Len(handed) :
    i < j /\ handed[i].conn = handed[j].conn => handed[i].id < handed[j].id
HandedBeforeUnread ==
  \A i \in 1..Len(handed) : \A k \in Conns : \A j \in 1..Len(inbox[k]) :
    handed[i].conn = k /\ ~inbox[k][j].info => handed[i].id < inbox[k][j].id

\* What is being answered was carried out, or is a WFPGetInfo.
Due(r) == r \in asked /\ (r.info \/ \E i \in 1..Len(done) : handed[i] = r)
AnswersDue == \A r \in SP!Answering : r = SP!NoRequest \/ Due(r)

Fits == Mirrored /\ AsksKnown /\ HandedInOrder /\ HandedBeforeUnread /\ AnswersDue

LEMMA StepMirrored ==
  ASSUME ServerInv, ThreadsInv, Mirrored, Effect
  PROVE  Mirrored'
<1>0. PICK C, D : done \in Seq(C) /\ queued \in Seq(D)
  BY TypesOfHalves
<1>1. CASE UNCHANGED <<handed, queued, done>>
  BY <1>1 DEF Mirrored
<1>2. ASSUME NEW k \in Conns, NEW n \in 1..MaxRead, Taking(k, n), HandsOver(Head(inbox[k]))
      PROVE  Mirrored'
  <2> DEFINE r == Head(inbox[k])
  <2>1. PICK a \in Addrs : queued' = Append(queued, [req |-> r, addr |-> a])
    BY <1>2 DEF HandsOver
  <2>2. handed' = Append(handed, r) /\ done' = done
    BY <1>2 DEF HandsOver, Taking
  <2>3. r \in S!Request
    BY <1>2, Assumptions, TypesOfHalves, Dropped DEF Taking, SP!IPCServerAssumption
  <2> HIDE DEF r
  <2>4. /\ Len(handed') = Len(handed) + 1 /\ handed'[Len(handed) + 1] = r
        /\ \A i \in 1..Len(handed) : handed'[i] = handed[i]
        /\ handed \in Seq(S!Request) /\ handed' \in Seq(S!Request)
    BY <2>2, <2>3, Appended DEF Mirrored
  <2>5. /\ Len(queued') = Len(queued) + 1 /\ queued'[Len(queued) + 1].req = r
        /\ \A i \in 1..Len(queued) : queued'[i] = queued[i]
    BY <1>0, <2>1, Appended
  <2>6. Len(done) \in Nat /\ Len(queued) \in Nat
    BY <1>0
  <2>7. ASSUME NEW i \in 1..Len(queued') PROVE queued'[i].req = handed'[Len(done) + i]
    <3>1. CASE i \in 1..Len(queued)
      <4>1. Len(done) + i \in 1..Len(handed)
        BY <2>6, <3>1 DEF Mirrored
      <4> QED
        BY <2>4, <2>5, <3>1, <4>1 DEF Mirrored
    <3>2. CASE i = Len(queued) + 1
      BY <2>4, <2>5, <2>6, <3>2 DEF Mirrored
    <3> QED
      BY <2>5, <2>6, <3>1, <3>2
  <2>8. Len(handed') = Len(done) + Len(queued')
    BY <2>4, <2>5, <2>6 DEF Mirrored
  <2> QED
    BY <2>2, <2>4, <2>7, <2>8 DEF Mirrored
<1>3. CASE Completing
  <2>1. PICK c : done' = Append(done, c)
    BY <1>3 DEF Completing
  <2>2. /\ Len(done') = Len(done) + 1 /\ Len(done) \in Nat
    BY <1>0, <2>1, Appended
  <2>3. /\ Len(queued') = Len(queued) - 1 /\ Len(queued) \in Nat \ {0}
        /\ \A i \in 1..Len(queued') : queued'[i] = queued[i + 1] /\ i + 1 \in 1..Len(queued)
    BY <1>0, <1>3 DEF Completing
  <2>4. handed' = handed
    BY <1>3 DEF Completing
  <2>5. Len(handed') = Len(done') + Len(queued')
    <3>1. Len(handed) = Len(done) + Len(queued)
      BY DEF Mirrored
    <3> QED
      BY <2>2, <2>3, <2>4, <3>1
  <2>6. ASSUME NEW i \in 1..Len(queued') PROVE queued'[i].req = handed'[Len(done') + i]
    <3>1. queued[i + 1].req = handed[Len(done) + (i + 1)]
      BY <2>3 DEF Mirrored
    <3>2. Len(done') + i = Len(done) + (i + 1)
      BY <2>2, <2>3
    <3> QED
      BY <2>3, <2>4, <3>1, <3>2
  <2> QED
    BY <2>4, <2>5, <2>6 DEF Mirrored
<1>4. \/ UNCHANGED <<handed, queued, done>> \/ Completing
      \/ \E k \in Conns, n \in 1..MaxRead : Taking(k, n) /\ HandsOver(Head(inbox[k]))
  BY DEF Effect, Asking, Leaving, Taking, Writing, Elsewhere
<1> QED
  BY <1>1, <1>2, <1>3, <1>4

\* What is known stays known: requests are not forgotten, and the histories grow.
LEMMA Grown ==
  ASSUME ServerInv, ThreadsInv, Mirrored, Effect
  PROVE  /\ asked \subseteq asked'
         /\ Len(handed) \in Nat /\ Len(handed') \in Nat /\ Len(handed') >= Len(handed)
         /\ \A i \in 1..Len(handed) : handed'[i] = handed[i]
         /\ Len(done) \in Nat /\ Len(done') \in Nat /\ Len(done') >= Len(done)
<1>0. PICK C : done \in Seq(C) /\ handed \in Seq(S!Request)
  BY TypesOfHalves DEF Mirrored
<1>1. asked \subseteq asked'
  BY DEF Effect, Asking, Leaving, Taking, Completing, Writing, Elsewhere
<1>2. handed' = handed \/ \E r : handed' = Append(handed, r)
  BY DEF Effect, Asking, Leaving, Taking, HandsOver, Completing, Writing, Elsewhere
<1>3. done' = done \/ \E c : done' = Append(done, c)
  BY DEF Effect, Asking, Leaving, Taking, Completing, Writing, Elsewhere
<1>4. /\ Len(handed) \in Nat /\ Len(handed') \in Nat /\ Len(handed') >= Len(handed)
      /\ \A i \in 1..Len(handed) : handed'[i] = handed[i]
  BY <1>0, <1>2, Appended
<1>5. Len(done) \in Nat /\ Len(done') \in Nat /\ Len(done') >= Len(done)
  BY <1>0, <1>3, Appended
<1> QED
  BY <1>1, <1>4, <1>5

LEMMA StepAsksKnown ==
  ASSUME ServerInv, ThreadsInv, Mirrored, AsksKnown, Effect
  PROVE  AsksKnown'
<1>0. /\ inbox \in [Conns -> Seq(S!Request)] /\ sent \in Nat /\ handed \in Seq(S!Request)
  BY TypesOfHalves DEF Mirrored
<1>1. asked' \subseteq S!Request /\ \A r \in asked' : r.id <= sent'
  <2>1. CASE UNCHANGED <<asked, sent>>
    BY <2>1 DEF AsksKnown
  <2>2. ASSUME NEW k \in Conns, NEW r \in S!Request, Asking(k, r)
        PROVE  asked' \subseteq S!Request /\ \A q \in asked' : q.id <= sent'
    <3>1. asked' = asked \cup {r} /\ sent' = sent + 1 /\ r.id = sent + 1
      BY <2>2 DEF Asking
    <3>2. \A q \in asked : q.id \in Nat
      BY DEF AsksKnown, S!Request
    <3> QED
      BY <1>0, <3>1, <3>2 DEF AsksKnown
  <2> QED
    BY <2>1, <2>2 DEF Effect, Leaving, Taking, Completing, Writing, Elsewhere
<1>2. ASSUME NEW c \in Conns, NEW i \in 1..Len(inbox'[c])
      PROVE  inbox'[c][i] \in asked'
  <2>1. CASE inbox'[c] = inbox[c]
    BY <2>1, Grown DEF AsksKnown
  <2>2. ASSUME NEW k \in Conns, NEW r \in S!Request, Asking(k, r), inbox'[c] # inbox[c]
        PROVE  inbox'[c][i] \in asked'
    <3>1. inbox'[c] = Append(inbox[c], r) /\ asked' = asked \cup {r}
      BY <1>0, <2>2 DEF Asking
    <3>2. inbox[c] \in Seq(S!Request)
      BY <1>0
    <3>3. /\ Len(inbox[c]) \in Nat /\ Len(inbox'[c]) = Len(inbox[c]) + 1
          /\ inbox'[c][Len(inbox[c]) + 1] = r
          /\ \A j \in 1..Len(inbox[c]) : inbox'[c][j] = inbox[c][j]
      BY <3>1, <3>2, Appended
    <3>4. i \in 1..Len(inbox[c]) \/ i = Len(inbox[c]) + 1
      BY <3>3
    <3> QED
      BY <3>1, <3>3, <3>4 DEF AsksKnown
  <2>3. ASSUME NEW k \in Conns, NEW n \in 1..MaxRead, Taking(k, n), inbox'[c] # inbox[c]
        PROVE  inbox'[c][i] \in asked'
    <3>1. inbox'[c] = SubSeq(inbox[c], n + 1, Len(inbox[c])) /\ n <= Len(inbox[c])
      BY <1>0, <2>3 DEF Taking
    <3>2. inbox[c] \in Seq(S!Request) /\ n \in 1..Len(inbox[c])
      BY <1>0, <3>1, Assumptions DEF SP!IPCServerAssumption
    <3>3. /\ Len(inbox[c]) \in Nat /\ Len(inbox'[c]) = Len(inbox[c]) - n
          /\ \A j \in 1..(Len(inbox[c]) - n) : inbox'[c][j] = inbox[c][j + n]
      BY <3>1, <3>2, Dropped
    <3>4. i + n \in 1..Len(inbox[c])
      BY <3>2, <3>3
    <3> QED
      BY <3>3, <3>4, Grown DEF AsksKnown
  <2> QED
    BY <2>1, <2>2, <2>3 DEF Effect, Leaving, Completing, Writing, Elsewhere
<1>3. ASSUME NEW i \in 1..Len(handed')
      PROVE  handed'[i] \in asked' /\ ~handed'[i].info
  <2>1. CASE handed' = handed
    BY <2>1, Grown DEF AsksKnown
  <2>2. ASSUME NEW k \in Conns, NEW n \in 1..MaxRead, Taking(k, n), HandsOver(Head(inbox[k]))
        PROVE  handed'[i] \in asked' /\ ~handed'[i].info
    <3>1. inbox[k] \in Seq(S!Request) /\ n \in 1..Len(inbox[k])
      BY <1>0, <2>2, Assumptions DEF Taking, SP!IPCServerAssumption
    <3>2. Head(inbox[k]) \in asked
      BY <3>1, Dropped DEF AsksKnown
    <3>3. handed' = Append(handed, Head(inbox[k])) /\ ~Head(inbox[k]).info
      BY <2>2 DEF HandsOver
    <3>4. i \in 1..Len(handed) \/ handed'[i] = Head(inbox[k])
      BY <1>0, <3>3, Appended
    <3> QED
      BY <3>2, <3>3, <3>4, Grown DEF AsksKnown
  <2> QED
    BY <2>1, <2>2 DEF Effect, Asking, Leaving, Taking, Completing, Writing, Elsewhere
<1> QED
  BY <1>1, <1>2, <1>3 DEF AsksKnown

LEMMA StepHandedInOrder ==
  ASSUME ServerInv, ThreadsInv, Mirrored, HandedInOrder, HandedBeforeUnread, Effect
  PROVE  HandedInOrder'
<1>1. CASE handed' = handed
  BY <1>1 DEF HandedInOrder
<1>2. ASSUME NEW k \in Conns, NEW n \in 1..MaxRead, Taking(k, n), HandsOver(Head(inbox[k]))
      PROVE  HandedInOrder'
  <2> DEFINE r == Head(inbox[k])
  <2>0. inbox[k] \in Seq(S!Request) /\ n \in 1..Len(inbox[k]) /\ handed \in Seq(S!Request)
    BY <1>2, TypesOfHalves, Assumptions DEF Taking, SP!IPCServerAssumption, Mirrored
  <2>1. 1 \in 1..Len(inbox[k]) /\ inbox[k][1] = r /\ ~r.info
    BY <1>2, <2>0, Dropped DEF HandsOver
  <2>2. r.conn = k
    BY <2>1 DEF ServerInv, SP!IInv, SP!InboxOK
  <2>3. \A i \in 1..Len(handed) : handed[i].conn = r.conn => handed[i].id < r.id
    BY <2>1, <2>2 DEF HandedBeforeUnread
  <2>4. handed' = Append(handed, r)
    BY <1>2 DEF HandsOver
  <2> HIDE DEF r
  <2>5. /\ Len(handed') = Len(handed) + 1 /\ handed'[Len(handed) + 1] = r /\ Len(handed) \in Nat
        /\ \A i \in 1..Len(handed) : handed'[i] = handed[i]
    BY <2>0, <2>4, Appended
  <2>6. SUFFICES ASSUME NEW i \in 1..Len(handed'), NEW j \in 1..Len(handed'), i < j,
                        handed'[i].conn = handed'[j].conn
                 PROVE  handed'[i].id < handed'[j].id
    BY DEF HandedInOrder
  <2>7. i \in 1..Len(handed) /\ (j \in 1..Len(handed) \/ j = Len(handed) + 1)
    BY <2>5, <2>6
  <2>8. CASE j \in 1..Len(handed)
    BY <2>5, <2>6, <2>7, <2>8 DEF HandedInOrder
  <2>9. CASE j = Len(handed) + 1
    BY <2>3, <2>5, <2>6, <2>7, <2>9
  <2> QED
    BY <2>7, <2>8, <2>9
<1> QED
  BY <1>1, <1>2 DEF Effect, Asking, Leaving, Taking, Completing, Writing, Elsewhere

LEMMA StepHandedBeforeUnread ==
  ASSUME ServerInv, ThreadsInv, Mirrored, AsksKnown, HandedBeforeUnread, Effect
  PROVE  HandedBeforeUnread'
<1>0. inbox \in [Conns -> Seq(S!Request)] /\ handed \in Seq(S!Request) /\ sent \in Nat
  BY TypesOfHalves DEF Mirrored
<1>1. CASE UNCHANGED <<handed, inbox>>
  BY <1>1 DEF HandedBeforeUnread
<1>2. ASSUME NEW k \in Conns, NEW r \in S!Request, Asking(k, r) PROVE HandedBeforeUnread'
  <2>1. SUFFICES ASSUME NEW i \in 1..Len(handed), NEW c \in Conns, NEW j \in 1..Len(inbox'[c]),
                        handed[i].conn = c, ~inbox'[c][j].info
                 PROVE  handed[i].id < inbox'[c][j].id
    BY <1>2 DEF Asking, HandedBeforeUnread
  <2>2. CASE c # k
    BY <1>0, <1>2, <2>1, <2>2 DEF Asking, HandedBeforeUnread
  <2>3. CASE c = k
    <3>1. inbox'[c] = Append(inbox[c], r) /\ inbox[c] \in Seq(S!Request) /\ r.id = sent + 1
      BY <1>0, <1>2, <2>3 DEF Asking
    <3>2. /\ Len(inbox[c]) \in Nat /\ Len(inbox'[c]) = Len(inbox[c]) + 1
          /\ inbox'[c][Len(inbox[c]) + 1] = r
          /\ \A m \in 1..Len(inbox[c]) : inbox'[c][m] = inbox[c][m]
      BY <3>1, Appended
    <3>3. handed[i].id \in Nat /\ handed[i].id <= sent
      BY <1>0 DEF AsksKnown, S!Request
    <3>4. CASE j \in 1..Len(inbox[c])
      BY <2>1, <3>2, <3>4 DEF HandedBeforeUnread
    <3>5. CASE j = Len(inbox[c]) + 1
      BY <1>0, <3>1, <3>2, <3>3, <3>5
    <3> QED
      BY <3>2, <3>4, <3>5
  <2> QED
    BY <2>2, <2>3
<1>3. ASSUME NEW k \in Conns, NEW n \in 1..MaxRead, Taking(k, n) PROVE HandedBeforeUnread'
  <2> DEFINE r == Head(inbox[k])
  <2>1. inbox[k] \in Seq(S!Request) /\ n \in 1..Len(inbox[k])
    BY <1>0, <1>3, Assumptions DEF Taking, SP!IPCServerAssumption
  <2>2. /\ Len(inbox[k]) \in Nat /\ Len(inbox'[k]) = Len(inbox[k]) - n /\ inbox[k][1] = r
        /\ \A m \in 1..(Len(inbox[k]) - n) : inbox'[k][m] = inbox[k][m + n]
    <3>1. inbox'[k] = SubSeq(inbox[k], n + 1, Len(inbox[k]))
      BY <1>0, <1>3 DEF Taking
    <3> QED
      BY <2>1, <3>1, Dropped
  <2>3. \A c \in Conns : c # k => inbox'[c] = inbox[c]
    BY <1>0, <1>3 DEF Taking
  <2>4. \A i \in 1..Len(inbox[k]) : inbox[k][i].conn = k
    BY DEF ServerInv, SP!IInv, SP!InboxOK
  <2>5. ASSUME NEW m \in 2..Len(inbox[k]), inbox[k][1].info = inbox[k][m].info
        PROVE  inbox[k][1].id < inbox[k][m].id
    <3>1. 1 \in 1..Len(inbox[k]) /\ m \in 1..Len(inbox[k]) /\ 1 < m
      BY <2>1
    <3> QED
      BY <2>5, <3>1, Assumptions, SP!OrderedInbox DEF ServerInv
  <2> HIDE DEF r
  <2>6. ASSUME NEW i \in 1..Len(handed), NEW c \in Conns, NEW j \in 1..Len(inbox'[c]),
               handed[i].conn = c, ~inbox'[c][j].info
        PROVE  handed[i].id < inbox'[c][j].id
    <3>1. CASE c # k
      BY <2>3, <2>6, <3>1 DEF HandedBeforeUnread
    <3>2. CASE c = k
      <4>1. j \in 1..(Len(inbox[k]) - n)
        BY <2>2, <3>2
      <4>2. j + n \in 1..Len(inbox[k]) /\ inbox'[k][j] = inbox[k][j + n]
        BY <2>1, <2>2, <4>1
      <4> QED
        BY <2>6, <3>2, <4>2 DEF HandedBeforeUnread
    <3> QED
      BY <3>1, <3>2
  <2>7. CASE handed' = handed
    BY <2>6, <2>7 DEF HandedBeforeUnread
  <2>8. CASE HandsOver(r)
    <3>1. handed' = Append(handed, r) /\ ~r.info
      BY <2>8 DEF HandsOver
    <3>2. /\ Len(handed') = Len(handed) + 1 /\ handed'[Len(handed) + 1] = r /\ Len(handed) \in Nat
          /\ \A i \in 1..Len(handed) : handed'[i] = handed[i]
      BY <1>0, <3>1, Appended
    <3>3. SUFFICES ASSUME NEW i \in 1..Len(handed'), NEW c \in Conns, NEW j \in 1..Len(inbox'[c]),
                          handed'[i].conn = c, ~inbox'[c][j].info
                   PROVE  handed'[i].id < inbox'[c][j].id
      BY DEF HandedBeforeUnread
    <3>4. CASE i \in 1..Len(handed)
      BY <2>6, <3>2, <3>3, <3>4
    <3>5. CASE i = Len(handed) + 1
      <4>1. c = k
        <5>1. r.conn = k
          BY <2>1, <2>2, <2>4
        <5> QED
          BY <3>2, <3>3, <3>5, <5>1
      <4>2. j + n \in 2..Len(inbox[k]) /\ inbox'[k][j] = inbox[k][j + n]
        BY <2>1, <2>2, <4>1
      <4>3. inbox[k][1].info = inbox[k][j + n].info
        <5>1. inbox[k][1] \in S!Request /\ inbox[k][j + n] \in S!Request
          BY <2>1, <4>2
        <5> QED
          BY <2>2, <3>1, <3>3, <4>1, <4>2, <5>1 DEF S!Request
      <4> QED
        BY <2>2, <2>5, <3>2, <3>5, <4>1, <4>2, <4>3
    <3> QED
      BY <3>2, <3>4, <3>5
  <2> QED
    BY <1>3, <2>7, <2>8 DEF Taking, r
<1> QED
  BY <1>1, <1>2, <1>3 DEF Effect, Leaving, Completing, Writing, Elsewhere

\* Due of the next state, for a request of this one.
DueNext(r) == r \in asked' /\ (r.info \/ \E i \in 1..Len(done') : handed'[i] = r)

LEMMA StepAnswersDue ==
  ASSUME ServerInv, ThreadsInv, Mirrored, Mirrored', AsksKnown, AnswersDue, Effect, [Next]_vars
  PROVE  AnswersDue'
<1>0. /\ inbox \in [Conns -> Seq(S!Request)]
      /\ Len(done) \in Nat /\ Len(done') \in Nat /\ Len(done') >= Len(done)
      /\ Len(handed) \in Nat /\ Len(handed') >= Len(handed) /\ Len(handed') \in Nat
      /\ asked \subseteq asked' /\ \A i \in 1..Len(handed) : handed'[i] = handed[i]
  BY TypesOfHalves, Grown
<1>1. Len(queued) \in Nat /\ Len(queued') \in Nat
  BY TypesOfHalves DEF Effect, Asking, Leaving, Taking, HandsOver, Completing, Writing, Elsewhere
<1>2. Len(done) <= Len(handed)
  BY <1>0, <1>1 DEF Mirrored
<1>3. ASSUME NEW r, Due(r) PROVE DueNext(r)
  BY <1>0, <1>2, <1>3 DEF Due, DueNext
<1>4. ASSUME NEW k \in Conns, inbox[k] # <<>>, Head(inbox[k]).info PROVE DueNext(Head(inbox[k]))
  <2>1. 1 \in 1..Len(inbox[k]) /\ Head(inbox[k]) = inbox[k][1]
    BY <1>0, <1>4
  <2> QED
    BY <1>0, <1>4, <2>1 DEF AsksKnown, DueNext
<1>5. ASSUME NEW exit \in BOOLEAN, SP!ExecReply(exit) PROVE DueNext(Head(queued).req)
  <2>1. PICK D : queued \in Seq(D)
    BY TypesOfHalves
  <2>2. queued # <<>> /\ Len(queued') = Len(queued) - 1 /\ 1 \in 1..Len(queued)
        /\ Head(queued) = queued[1]
    BY <1>5, <2>1 DEF SP!ExecReply
  <2>3. Head(queued).req = handed[Len(done) + 1] /\ Len(done) + 1 <= Len(handed)
    BY <1>0, <1>1, <2>2 DEF Mirrored
  <2>4. Len(handed') = Len(done') + Len(queued') /\ Len(handed) = Len(done) + Len(queued)
    BY DEF Mirrored
  <2>5. Len(done) + 1 \in 1..Len(done') /\ Len(done) + 1 \in 1..Len(handed)
    BY <1>0, <1>1, <2>2, <2>3, <2>4
  <2>6. handed'[Len(done) + 1] = Head(queued).req
    BY <1>0, <2>3, <2>5
  <2>7. Head(queued).req \in asked'
    BY <1>0, <2>3, <2>5 DEF AsksKnown
  <2> QED
    BY <2>5, <2>6, <2>7 DEF DueNext
<1>6. \A r \in SP!Answering' :
        \/ r \in SP!Answering \/ r = SP!NoRequest
        \/ \E k \in Conns : inbox[k] # <<>> /\ r = Head(inbox[k]) /\ r.info
        \/ (\E exit \in BOOLEAN : SP!ExecReply(exit)) /\ r = Head(queued).req
  BY Assumptions, ServerStep, SP!NewAnswers DEF ServerInv
<1>7. \A r \in SP!Answering' : r = SP!NoRequest \/ DueNext(r)
  BY <1>3, <1>4, <1>5, <1>6 DEF AnswersDue
<1> QED
  BY <1>7 DEF AnswersDue, Due, DueNext, SP!NoRequest

LEMMA InitFits == Init => Fits
  BY DEF Init, Fits, Mirrored, AsksKnown, HandedInOrder, HandedBeforeUnread, AnswersDue,
         S!Init, E!Init, SP!Answering, SP!CReqs, SP!NReqs, S!Request

\* The halves fit in every reachable state.
LEMMA FitsAlways == Spec => [](ServerInv /\ ThreadsInv /\ Fits)
<1>1. ServerInv /\ ThreadsInv /\ Fits /\ [Next]_vars => Fits'
  BY Effects, StepMirrored, StepAsksKnown, StepHandedInOrder, StepHandedBeforeUnread,
     StepAnswersDue DEF Fits
<1> QED
  BY <1>1, InitFits, HalvesAlways, PTL DEF Spec

-----------------------------------------------------------------------------
(* The refinement. *)

\* The commands carried out, and the clients that have left, as Session sees them.
Carried == [i \in 1..Len(done) |-> handed[done[i].id]]
Left == {k \in Conns : link[k] = "down"}

\* The executer completes the requests in the order in which they were handed over.
CarriedInTurn ==
  /\ Carried = [i \in 1..Len(done) |-> handed[i]]
  /\ Len(done) \in Nat /\ Len(handed) \in Nat /\ Len(done) <= Len(handed)

LEMMA CarriedInTurnHolds ==
  ASSUME ServerInv, ThreadsInv, Fits
  PROVE  CarriedInTurn
<1>1. \A i \in 1..Len(done) : done[i].id = i
  BY Assumptions, EP!DoneNumbered DEF ThreadsInv
<1>2. Len(done) \in Nat /\ Len(queued) \in Nat /\ Len(handed) \in Nat
  BY TypesOfHalves DEF Fits, Mirrored
<1>3. Len(done) <= Len(handed)
  BY <1>2 DEF Fits, Mirrored
<1> QED
  BY <1>1, <1>2, <1>3 DEF Carried, CarriedInTurn

\* A step that completes no command leaves what was carried out.
LEMMA SameCarried ==
  ASSUME ServerInv, ThreadsInv, Fits, CarriedInTurn, CarriedInTurn', Effect, done' = done
  PROVE  Carried' = Carried
<1>1. /\ Carried = [i \in 1..Len(done) |-> handed[i]]
      /\ Carried' = [i \in 1..Len(done) |-> handed'[i]]
  BY DEF CarriedInTurn
<1>2. \A i \in 1..Len(done) : handed'[i] = handed[i]
  <2>1. \A i \in 1..Len(done) : i \in 1..Len(handed)
    BY DEF CarriedInTurn
  <2> QED
    BY <2>1, Grown DEF Fits
<1> QED
  BY <1>1, <1>2

LEMMA StepSession ==
  ASSUME ServerInv, ThreadsInv, Fits, CarriedInTurn, ServerInv', CarriedInTurn', Fits',
         [Next]_vars
  PROVE  [Promise!Next]_(Promise!vars)
<1> DEFINE Goal == [Promise!Next]_(Promise!vars)
<1>0. Effect /\ link \in [Conns -> {"idle", "waiting", "up", "down"}]
  BY Effects, TypesOfHalves
<1>1. ASSUME NEW k \in Conns, NEW r \in S!Request, Asking(k, r) PROVE Goal
  <2>1. Carried' = Carried /\ Left' = Left
    BY <1>0, <1>1, SameCarried DEF Asking, Left
  <2>2. r.conn \notin Left /\ asked' = asked \cup {r} /\ delivered' = delivered
    BY <1>1 DEF Asking, Left
  <2>3. \A q \in asked : q.id < r.id
    <3>1. sent \in Nat
      BY TypesOfHalves
    <3>2. \A q \in asked : q.id \in Nat /\ q.id <= sent
      BY DEF Fits, AsksKnown, S!Request
    <3> QED
      BY <1>1, <3>1, <3>2 DEF Asking
  <2>4. Promise!Ask(r)
    BY <2>1, <2>2, <2>3 DEF Promise!Ask, Carried, Left
  <2> QED
    BY <2>4 DEF Promise!Next
<1>2. ASSUME NEW k \in Conns, Leaving(k) PROVE Goal
  <2>1. Carried' = Carried
    BY <1>0, <1>2, SameCarried DEF Leaving
  <2>2. k \notin Left /\ Left' = Left \cup {k} /\ UNCHANGED <<asked, delivered>>
    BY <1>0, <1>2 DEF Leaving, Left
  <2>3. Promise!Leave(k)
    BY <2>1, <2>2 DEF Promise!Leave, Carried, Left
  <2> QED
    BY <2>3 DEF Promise!Next
<1>3. CASE Completing
  <2> DEFINE n == Len(done) + 1
  <2>1. /\ handed' = handed /\ Len(done') = n /\ UNCHANGED <<asked, delivered, link>>
        /\ Len(done) \in Nat /\ Len(queued) \in Nat \ {0}
    <3>1. PICK C, D : done \in Seq(C) /\ queued \in Seq(D)
      BY TypesOfHalves
    <3>2. PICK c : done' = Append(done, c)
      BY <1>3 DEF Completing
    <3>3. Len(done') = n /\ Len(done) \in Nat
      BY <3>1, <3>2, Appended
    <3> QED
      BY <1>3, <3>1, <3>3 DEF Completing
  <2>2. n \in 1..Len(handed) /\ Len(handed) \in Nat
    <3>1. Len(handed) = Len(done) + Len(queued)
      BY DEF Fits, Mirrored
    <3> QED
      BY <2>1, <3>1
  <2>3. PICK r \in S!Request : r = handed[n] /\ r \in asked /\ ~r.info
    BY <2>2 DEF Fits, AsksKnown
  <2>4. Carried = [i \in 1..Len(done) |-> handed[i]] /\ Carried' = [i \in 1..n |-> handed[i]]
    BY <2>1 DEF CarriedInTurn
  <2>5. Len(Carried) = Len(done) /\ \A i \in 1..Len(Carried) : Carried[i] = handed[i]
    BY <2>1, <2>4
  <2>6. Carried' = Append(Carried, r)
    <3>1. [i \in 1..n |-> handed[i]] = Append([i \in 1..Len(done) |-> handed[i]], r)
      BY <2>1, <2>2, <2>3
    <3> QED
      BY <2>4, <3>1
  <2>7. \A i \in 1..Len(Carried) : Carried[i].conn = r.conn => Carried[i].id < r.id
    <3>1. \A i \in 1..Len(done) : i \in 1..Len(handed) /\ i < n
      BY <2>1, <2>2
    <3> QED
      BY <2>2, <2>3, <2>5, <3>1 DEF Fits, HandedInOrder
  <2>8. Left' = Left
    BY <2>1 DEF Left
  <2>9. Promise!CarryOut(r)
    BY <2>1, <2>3, <2>6, <2>7, <2>8 DEF Promise!CarryOut, Carried, Left
  <2> QED
    BY <2>9 DEF Promise!Next
<1>4. ASSUME NEW a \in Addrs, Writing(a), delivered' # delivered PROVE Goal
  <2>1. PICK k \in Conns, r \in SP!Answering \cap SP!Request :
          /\ link[k] = "up" /\ delivered' = [delivered EXCEPT ![k] = Append(@, r)]
          /\ r.conn = k \/ link[r.conn] = "down"
    BY <1>4, Assumptions, SP!Delivers DEF Writing, ServerInv
  <2>2. r \in S!Request /\ Due(r)
    <3>1. r # SP!NoRequest
      BY DEF SP!Request, SP!NoRequest
    <3> QED
      BY <3>1, SameTypes DEF Fits, AnswersDue
  <2>3. Carried' = Carried /\ Left' = Left /\ asked' = asked
    BY <1>0, <1>4, SameCarried DEF Writing, Left
  <2>4. r \in asked /\ (r.info \/ \E i \in 1..Len(Carried) : Carried[i] = r)
    <3>1. Len(Carried) = Len(done) /\ \A i \in 1..Len(done) : Carried[i] = handed[i]
      BY DEF CarriedInTurn
    <3> QED
      BY <2>2, <3>1 DEF Due
  <2>5. Promise!Deliver(k, r)
    BY <2>1, <2>3, <2>4 DEF Promise!Deliver, Promise!Ready, Carried, Left
  <2>6. CASE r.conn = k
    <3>1. delivered[k] \in Seq(S!Request) /\ delivered'[k] = Append(delivered[k], r)
      BY <2>1, TypesOfHalves
    <3>2. /\ Len(delivered[k]) \in Nat /\ Len(delivered'[k]) = Len(delivered[k]) + 1
          /\ delivered'[k][Len(delivered[k]) + 1] = r
          /\ \A i \in 1..Len(delivered[k]) : delivered'[k][i] = delivered[k][i]
      BY <3>1, Appended
    <3>3. SP!RepliesInOrder'
      BY Assumptions, SP!OrderedReplies, PTL DEF ServerInv
    <3>4. ASSUME NEW i \in 1..Len(delivered[k]), delivered[k][i].conn = k,
                 delivered[k][i].info = r.info
          PROVE  delivered[k][i].id < r.id
      <4>1. /\ i \in 1..Len(delivered'[k]) /\ Len(delivered[k]) + 1 \in 1..Len(delivered'[k])
            /\ i < Len(delivered[k]) + 1
        BY <3>2
      <4> QED
        BY <2>6, <3>2, <3>3, <3>4, <4>1 DEF SP!RepliesInOrder
    <3>5. Promise!Answer(r)
      BY <2>5, <2>6, <3>4 DEF Promise!Answer
    <3> QED
      BY <2>2, <3>5 DEF Promise!Next
  <2>7. CASE r.conn # k
    <3>1. r.conn \in Left
      BY <2>1, <2>2, <2>7 DEF Left, S!Request
    <3>2. Promise!Stray(k, r)
      BY <2>5, <3>1 DEF Promise!Stray, Left
    <3> QED
      BY <2>2, <3>2 DEF Promise!Next
  <2> QED
    BY <2>6, <2>7
<1>5. ASSUME done' = done, asked' = asked, delivered' = delivered,
             \A k \in Conns : link'[k] = "down" <=> link[k] = "down"
      PROVE  Goal
  <2>1. Carried' = Carried /\ Left' = Left
    BY <1>0, <1>5, SameCarried DEF Left
  <2> QED
    BY <1>5, <2>1 DEF Promise!vars, Carried, Left
<1> QED
  BY <1>0, <1>1, <1>2, <1>3, <1>4, <1>5 DEF Effect, Taking, Writing, Elsewhere

\* The anCRS process, its pipe server, its executer and its item thread together, is to
\* its clients what Session says: a command is carried out once and in the order of
\* asking, and answered after that; a client that stays is answered at most once, in
\* order, and only with its own answers or with those of clients that have left.
THEOREM ImplementsSession == Spec => SessionSpec
<1>1. Init => Promise!Init
  BY DEF Init, Promise!Init, S!Init, E!Init
<1>2. ServerInv /\ ThreadsInv /\ Fits => CarriedInTurn
  BY CarriedInTurnHolds
<1>3. /\ ServerInv /\ ThreadsInv /\ Fits /\ CarriedInTurn
      /\ (ServerInv /\ ThreadsInv /\ Fits /\ CarriedInTurn)'
      /\ [Next]_vars
      => [Promise!Next]_(Promise!vars)
  BY StepSession
<1> QED
  BY <1>1, <1>2, <1>3, FitsAlways, PTL DEF Spec, SessionSpec, Promise!Spec
=============================================================================
