--------------------------- MODULE ExecuterProofs ---------------------------
(***************************************************************************)
(* Theorems about Executer, for every set of services, requests and every  *)
(* bound.                                                                  *)
(***************************************************************************)
EXTENDS Executer, TLAPS

\* A scan of the deque stays within it: the executer alone shortens the deque.
ScanInBounds == epc = "scan" => scan.pos \in Nat \ {0} /\ scan.end <= Len(deque)

\* The inductive invariant.  ScanInBounds types what the scan reads, and
\* CurrentIsFront makes the popped command the answered one.
IInv == TypeOK /\ CurrentIsFront /\ ScanInBounds /\ NothingLost

\* The executer thread's local variables and the deque are all that
\* CurrentIsFront, ScanInBounds and NothingLost look at.
queueVars == <<deque, epc, cur, scan, accepted, done>>

-----------------------------------------------------------------------------
(* Sequences. *)

LEMMA TailAppend ==
  ASSUME NEW S, NEW q \in Seq(S), NEW x \in S, q # <<>>
  PROVE  Tail(Append(q, x)) = Append(Tail(q), x) /\ Head(Append(q, x)) = Head(q)
  OBVIOUS

LEMMA ConcatAppend ==
  ASSUME NEW S, NEW p \in Seq(S), NEW q \in Seq(S), NEW x \in S
  PROVE  p \o Append(q, x) = Append(p \o q, x)
  OBVIOUS

LEMMA MoveHead ==
  ASSUME NEW S, NEW p \in Seq(S), NEW q \in Seq(S), q # <<>>
  PROVE  Append(p, Head(q)) \o Tail(q) = p \o q
  OBVIOUS

LEMMA AppendType ==
  ASSUME NEW S, NEW q \in Seq(S), NEW x \in S
  PROVE  Append(q, x) \in Seq(S)
  OBVIOUS

-----------------------------------------------------------------------------
(* Type correctness. *)

LEMMA InitTypeOK == Init => TypeOK
<1> SUFFICES ASSUME Init PROVE TypeOK
  OBVIOUS
<1>1. NoCommand \in Command
  BY ExecuterAssumption DEF NoCommand, Command, Recording
<1>2. table \in [Services -> Nat]
  BY DEF Init
<1>3. sem \in [svc : Nat, req : Nat, notified : BOOLEAN]
  BY DEF Init
<1>4. deque \in Seq(Command) /\ accepted \in Seq(Command) /\ done \in Seq(Command)
  BY DEF Init
<1>5. events \in Seq(Event)
  BY DEF Init
<1>6. scan \in [pos : Nat, end : Nat] /\ idles \in Nat /\ readSvc \in Nat
  BY DEF Init
<1>7. cancelled \subseteq Nat /\ exits \subseteq Nat
  BY DEF Init
<1> QED
  BY <1>1, <1>2, <1>3, <1>4, <1>5, <1>6, <1>7 DEF Init, TypeOK

LEMMA SignalType ==
  ASSUME TypeOK, NEW s \in Nat, NEW q \in Nat, Signal(s, q)
  PROVE  sem' \in [svc : Nat, req : Nat, notified : BOOLEAN]
  BY DEF TypeOK, Signal

\* What the scan reaches is in the deque.
LEMMA ReachedInDeque ==
  ASSUME TypeOK, ScanInBounds, ScanOne
  PROVE  Reached \subseteq 1..Len(deque) /\ scan.pos \in 1..Len(deque)
<1>1. scan.pos \in Nat \ {0} /\ scan.pos <= scan.end /\ scan.end <= Len(deque)
  BY DEF ScanOne, ScanInBounds
<1>2. scan.end \in Nat /\ Len(deque) \in Nat
  BY DEF TypeOK
<1> QED
  BY <1>1, <1>2 DEF Reached

LEMMA StepTypeOK ==
  ASSUME IInv, [Next]_vars
  PROVE  TypeOK'
<1> USE ExecuterAssumption DEF IInv
<1>1. CASE UNCHANGED vars
  BY <1>1 DEF TypeOK, vars, execVars, xfsVars, itemVars, mainVars, history
<1>2. ASSUME NEW r \in Requests, Push(r)
      PROVE  TypeOK'
  <2>1. [id |-> Len(accepted) + 1, type |-> r.type, svc |-> r.svc, req |-> r.req] \in Command
    BY <1>2 DEF Push, Command, TypeOK
  <2> QED
    BY <1>2, <2>1 DEF TypeOK, Push, execVars, xfsVars, itemVars, mainVars
<1>3. CASE CheckStop
  BY <1>3 DEF TypeOK, CheckStop, execVars, xfsVars, itemVars, mainVars, history
<1>4. CASE RunEmpty
  BY <1>4 DEF TypeOK, RunEmpty, execVars, xfsVars, itemVars, mainVars, history
<1>5. CASE Front
  BY <1>5 DEF TypeOK, Front, execVars, xfsVars, itemVars, mainVars, history
<1>6. CASE ScanOne
  <2>1. PICK i \in 1..Len(deque) :
          cancelled' = IF Matches(cur, deque[i]) THEN cancelled \cup {deque[i].id} ELSE cancelled
    BY <1>6, ReachedInDeque DEF ScanOne
  <2>2. deque[i].id \in Nat
    <3>1. deque[i] \in Command
      BY <2>1 DEF TypeOK
    <3> QED
      BY <3>1 DEF Command
  <2>3. cancelled' \subseteq Nat
    BY <2>1, <2>2 DEF TypeOK
  <2>4. scan' \in [pos : Nat, end : Nat]
    <3>1. scan' = [scan EXCEPT !.pos = scan.pos + 1]
      BY <1>6 DEF ScanOne
    <3>2. scan \in [pos : Nat, end : Nat]
      BY DEF TypeOK
    <3> QED
      BY <3>1, <3>2
  <2> QED
    BY <1>6, <2>3, <2>4 DEF TypeOK, ScanOne, execVars, xfsVars, itemVars, mainVars, history
<1>7. CASE ScanEnd
  <2>1. cur.id \in Nat /\ Len(accepted) \in Nat
    BY DEF TypeOK, Command
  <2> QED
    BY <1>7, <2>1 DEF TypeOK, ScanEnd, execVars, xfsVars, itemVars, mainVars
<1>27. CASE ScanBegin
  <2>1. Len(deque) \in Nat
    BY DEF TypeOK
  <2> QED
    BY <1>27, <2>1 DEF TypeOK, ScanBegin, execVars, xfsVars, itemVars, mainVars, history
<1>28. CASE ScanCrash
  BY <1>28 DEF TypeOK, ScanCrash, execVars, xfsVars, itemVars, mainVars, history
<1>8. CASE WakeItemCheck
  <2>1. cur.svc \in Nat /\ cur.req \in Nat
    BY DEF TypeOK, Command
  <2>2. sem' \in [svc : Nat, req : Nat, notified : BOOLEAN]
    BY <1>8, <2>1, SignalType DEF WakeItemCheck, TypeOK
  <2> QED
    BY <1>8, <2>2 DEF TypeOK, WakeItemCheck, execVars, xfsVars, itemVars, mainVars, history
<1>9. CASE Execute
  <2>1. cur.svc \in Services /\ cur.id \in Nat /\ cur \in Command
    BY DEF TypeOK, Command
  <2>2. table' \in [Services -> Nat]
    <3>1. \A s \in Services : PushService(table, s) \in [Services -> Nat]
      BY DEF TypeOK, PushService
    <3>2. \A s \in Services : RemoveService(table, s) \in [Services -> Nat]
      BY DEF TypeOK, RemoveService
    <3> QED
      BY <1>9, <2>1, <3>1, <3>2 DEF Execute, TypeOK
  <2>3. closeFlag' \in BOOLEAN
    BY <1>9 DEF Execute, TypeOK, FlagAfter
  <2>4. done' \in Seq(Command)
    BY <1>9, <2>1 DEF Execute, TypeOK
  <2>5. exits' \subseteq Nat
    BY <1>9, <2>1 DEF Execute, TypeOK
  <2> QED
    BY <1>9, <2>2, <2>3, <2>4, <2>5 DEF TypeOK, Execute, execVars, xfsVars, itemVars, mainVars, history
<1>10. CASE PauseItemCheck
  <2>1. sem' \in [svc : Nat, req : Nat, notified : BOOLEAN]
    BY <1>10 DEF PauseItemCheck, Reset, TypeOK
  <2> QED
    BY <1>10, <2>1 DEF TypeOK, PauseItemCheck, execVars, xfsVars, itemVars, mainVars, history
<1>11. CASE Pop
  <2>1. deque' \in Seq(Command)
    BY <1>11 DEF Pop, CurrentIsFront, TypeOK
  <2> QED
    BY <1>11, <2>1 DEF TypeOK, Pop, execVars, xfsVars, itemVars, mainVars, history
<1>12. CASE Idle
  BY <1>12 DEF TypeOK, Idle, execVars, xfsVars, itemVars, mainVars, history
<1>13. CASE ItemCheckStop
  BY <1>13 DEF TypeOK, ItemCheckStop, otherThanItem, execVars, xfsVars, itemVars, mainVars, history
<1>14. CASE ItemWait
  BY <1>14 DEF TypeOK, ItemWait, otherThanItem, execVars, xfsVars, itemVars, mainVars, history
<1>15. CASE ItemWake
  BY <1>15 DEF TypeOK, ItemWake, otherThanItem, execVars, xfsVars, itemVars, mainVars, history
<1>16. CASE ItemTestStop
  BY <1>16 DEF TypeOK, ItemTestStop, otherThanItem, execVars, xfsVars, itemVars, mainVars, history
<1>17. CASE ItemReadService
  BY <1>17 DEF TypeOK, ItemReadService, otherThanItem, execVars, xfsVars, itemVars, mainVars, history
<1>18. CASE ItemPost
  <2>1. events' \in Seq(Event)
    <3>1. [svc |-> readSvc, req |-> sem.req] \in Event
      BY DEF TypeOK, Event
    <3>2. events \in Seq(Event)
      BY DEF TypeOK
    <3>3. events' = Append(events, [svc |-> readSvc, req |-> sem.req]) \/ events' = events
      BY <1>18 DEF ItemPost
    <3> QED
      BY <3>1, <3>2, <3>3, AppendType
  <2> QED
    BY <1>18, <2>1 DEF TypeOK, ItemPost, otherThanItem, execVars, xfsVars, itemVars, mainVars, history
<1>19. CASE ItemCrash
  BY <1>19 DEF TypeOK, ItemCrash, otherThanItem, execVars, xfsVars, itemVars, mainVars, history
<1>20. CASE LoopReturns
  BY <1>20 DEF TypeOK, LoopReturns, otherThanMain, execVars, xfsVars, itemVars, mainVars, history
<1>21. CASE StopItemFlag
  BY <1>21 DEF TypeOK, StopItemFlag, otherThanMain, execVars, xfsVars, itemVars, mainVars, history
<1>22. CASE StopItemSignal
  <2>1. sem' \in [svc : Nat, req : Nat, notified : BOOLEAN]
    BY <1>22, SignalType DEF StopItemSignal
  <2> QED
    BY <1>22, <2>1 DEF TypeOK, StopItemSignal, otherThanMain, execVars, xfsVars, itemVars, mainVars, history
<1>23. CASE StopExec
  BY <1>23 DEF TypeOK, StopExec, otherThanMain, execVars, xfsVars, itemVars, mainVars, history
<1>24. CASE JoinExec
  BY <1>24 DEF TypeOK, JoinExec, otherThanMain, execVars, xfsVars, itemVars, mainVars, history
<1>25. CASE DeleteExecuter
  BY <1>25 DEF TypeOK, DeleteExecuter, otherThanMain, execVars, xfsVars, itemVars, mainVars, history
<1>26. CASE JoinItem
  BY <1>26 DEF TypeOK, JoinItem, otherThanMain, execVars, xfsVars, itemVars, mainVars, history
<1> QED
  BY <1>1, <1>2, <1>3, <1>4, <1>5, <1>6, <1>7, <1>8, <1>9, <1>10, <1>11, <1>12, <1>13, <1>14, <1>15, <1>16, <1>17, <1>18, <1>19, <1>20, <1>21, <1>22, <1>23, <1>24, <1>25, <1>26,
     <1>27, <1>28 DEF Next, ExecuterThread, ItemThread, Shutdown

-----------------------------------------------------------------------------
(* The queue. *)

QueueInv == CurrentIsFront /\ ScanInBounds /\ NothingLost

LEMMA QueueInvDependsOn ==
  ASSUME QueueInv, UNCHANGED queueVars
  PROVE  QueueInv'
  BY DEF QueueInv, queueVars, CurrentIsFront, ScanInBounds, NothingLost, Pending

\* What the item thread and the main thread do is out of the queue's sight.
LEMMA OtherThreads ==
  ASSUME ItemThread \/ LoopReturns \/ Shutdown \/ UNCHANGED vars
  PROVE  UNCHANGED queueVars
  BY DEF ItemThread, ItemCheckStop, ItemWait, ItemWake, ItemTestStop, ItemReadService,
         ItemPost, ItemCrash, LoopReturns, Shutdown, StopItemFlag, StopItemSignal,
         StopExec, JoinExec, DeleteExecuter, JoinItem, otherThanItem, otherThanMain,
         execVars, history, queueVars, vars

LEMMA StepQueueInv ==
  ASSUME IInv, [Next]_vars
  PROVE  QueueInv'
<1> USE DEF IInv
<1>0. QueueInv
  BY DEF QueueInv
<1>t. deque \in Seq(Command) /\ done \in Seq(Command) /\ accepted \in Seq(Command) /\ scan \in [pos : Nat, end : Nat]
  BY DEF TypeOK
<1>1. CASE ItemThread \/ LoopReturns \/ Shutdown \/ UNCHANGED vars
  BY <1>0, <1>1, OtherThreads, QueueInvDependsOn
<1>2. ASSUME NEW r \in Requests, Push(r)
      PROVE  QueueInv'
  <2> DEFINE c == [id |-> Len(accepted) + 1, type |-> r.type, svc |-> r.svc, req |-> r.req]
  <2>1. c \in Command
    BY <1>2, ExecuterAssumption DEF Push, Command, TypeOK
  <2>2. deque' = Append(deque, c) /\ accepted' = Append(accepted, c)
        /\ UNCHANGED <<done, epc, cur, scan>>
    BY <1>2 DEF Push, execVars
  <2> HIDE DEF c
  <2>3. CurrentIsFront'
    BY <1>t, <2>1, <2>2, TailAppend DEF CurrentIsFront
  <2>4. ScanInBounds'
    BY <1>t, <2>1, <2>2 DEF ScanInBounds
  <2>5. Pending' = Append(Pending, c) /\ Pending \in Seq(Command)
    BY <1>t, <2>1, <2>2, TailAppend DEF Pending, CurrentIsFront
  <2>6. NothingLost'
    <3>1. done \o Append(Pending, c) = Append(done \o Pending, c)
      BY <1>t, <2>1, <2>5, ConcatAppend
    <3> QED
      BY <2>2, <2>5, <3>1 DEF NothingLost
  <2> QED
    BY <2>3, <2>4, <2>6 DEF QueueInv
<1>3. CASE Front
  BY <1>3, <1>t DEF Front, QueueInv, CurrentIsFront, ScanInBounds, NothingLost, Pending, history
<1>4. CASE ScanOne
  BY <1>4, <1>t DEF ScanOne, QueueInv, CurrentIsFront, ScanInBounds, NothingLost, Pending, history
<1>5. CASE Execute
  <2>1. deque # <<>> /\ cur = Head(deque) /\ Pending = deque
    BY <1>5 DEF Execute, CurrentIsFront, Pending
  <2>2. done' = Append(done, cur) /\ Pending' = Tail(deque) /\ UNCHANGED accepted
    BY <1>5 DEF Execute, Pending
  <2>3. NothingLost'
    BY <1>t, <2>1, <2>2, MoveHead DEF NothingLost
  <2> QED
    BY <1>5, <2>3 DEF Execute, QueueInv, CurrentIsFront, ScanInBounds
<1>6. CASE Pop
  BY <1>6, <1>t DEF Pop, QueueInv, CurrentIsFront, ScanInBounds, NothingLost, Pending, history
<1>7. CASE ScanBegin
  BY <1>7, <1>t DEF ScanBegin, QueueInv, CurrentIsFront, ScanInBounds, NothingLost, Pending, history
<1>8. CASE CheckStop \/ RunEmpty \/ WakeItemCheck \/ PauseItemCheck \/ Idle
  BY <1>8 DEF CheckStop, RunEmpty, WakeItemCheck, PauseItemCheck, Idle,
              QueueInv, CurrentIsFront, ScanInBounds, NothingLost, Pending, history
<1>9. CASE ScanCrash \/ ScanEnd
  BY <1>9 DEF ScanCrash, ScanEnd, QueueInv, CurrentIsFront, ScanInBounds, NothingLost, Pending,
              history
<1> QED
  BY <1>1, <1>2, <1>3, <1>4, <1>5, <1>6, <1>7, <1>8, <1>9 DEF Next, ExecuterThread

-----------------------------------------------------------------------------
(* The theorems. *)

LEMMA InitIInv == Init => IInv
  BY InitTypeOK DEF Init, IInv, CurrentIsFront, ScanInBounds, NothingLost, Pending

LEMMA StepIInv == IInv /\ [Next]_vars => IInv'
  BY StepTypeOK, StepQueueInv DEF IInv, QueueInv

LEMMA Inductive == Spec => []IInv
  BY InitIInv, StepIInv, PTL DEF Spec

\* Every reachable state of the executer has the declared type.
THEOREM TypeCorrect == Spec => []TypeOK
<1>1. IInv => TypeOK
  BY DEF IInv
<1> QED
  BY <1>1, Inductive, PTL

\* The command the executer pops is the one it has handled, although the deque
\* is unlocked in between.
THEOREM PopsWhatItHandled == Spec => []CurrentIsFront
<1>1. IInv => CurrentIsFront
  BY DEF IInv
<1> QED
  BY <1>1, Inductive, PTL

\* The deque between the loop and the executer loses, repeats and reorders no
\* command, for any number of commands.
THEOREM QueueIsLossless == Spec => []NothingLost
<1>1. IInv => NothingLost
  BY DEF IInv
<1> QED
  BY <1>1, Inductive, PTL

-----------------------------------------------------------------------------
(* Refinement. *)

LEMMA InitQueue == Init => Queue!Init
  BY DEF Init, Queue!Init, Pending, Alive

LEMMA StepQueue ==
  ASSUME IInv, [Next]_vars
  PROVE  [Queue!Next]_(Queue!vars)
<1> USE DEF IInv, Queue!vars
<1>t. deque \in Seq(Command) /\ done \in Seq(Command)
  BY DEF TypeOK
<1>6. CASE UNCHANGED vars
  <2>1. UNCHANGED <<Pending, done>>
    BY <1>6, OtherThreads DEF queueVars, Pending
  <2> QED
    BY <1>6, <2>1 DEF Alive, vars, execVars, itemVars, mainVars
<1>s. SUFFICES ASSUME Next, Alive
               PROVE  Queue!Next \/ UNCHANGED Queue!vars
  BY <1>6 DEF Next
<1>1. CASE ItemThread \/ Shutdown
  <2>1. UNCHANGED <<Pending, done>>
    BY <1>1, OtherThreads DEF queueVars, Pending
  <2>2. (mpc = "run" /\ Alive)' = (mpc = "run" /\ Alive)
    <3>1. CASE ItemCrash
      BY <3>1 DEF ItemCrash, HandlerDeleted, otherThanItem, mainVars
    <3>2. CASE Shutdown
      BY <1>s, <3>2 DEF Alive, Shutdown, StopItemFlag, StopItemSignal, StopExec, JoinExec,
           DeleteExecuter, JoinItem, otherThanMain, execVars, itemVars
    <3>3. CASE \/ ItemCheckStop \/ ItemWait \/ ItemWake \/ ItemTestStop
               \/ ItemReadService \/ ItemPost
      BY <1>s, <3>3 DEF Alive, ItemCheckStop, ItemWait, ItemWake, ItemTestStop,
           ItemReadService, ItemPost, otherThanItem, execVars, mainVars
    <3> QED
      BY <1>1, <3>1, <3>2, <3>3 DEF ItemThread
  <2> QED
    BY <2>1, <2>2
<1>2. CASE LoopReturns
  <2>1. UNCHANGED <<Pending, done>>
    BY <1>2, OtherThreads DEF queueVars, Pending
  <2>2. Queue!Stop
    BY <1>s, <1>2, <2>1 DEF Queue!Stop, LoopReturns
  <2> QED
    BY <2>2 DEF Queue!Next
<1>3. ASSUME NEW r \in Requests, Push(r)
      PROVE  Queue!Next
  <2> DEFINE c == [id |-> Len(accepted) + 1, type |-> r.type, svc |-> r.svc, req |-> r.req]
  <2>1. c \in Command
    BY <1>3, ExecuterAssumption DEF Push, Command, TypeOK
  <2>2. deque' = Append(deque, c) /\ UNCHANGED <<done, epc, ipc, mpc>> /\ mpc = "run"
    BY <1>3 DEF Push, execVars, itemVars, mainVars
  <2> HIDE DEF c
  <2>3. Pending' = Append(Pending, c)
    BY <1>t, <2>1, <2>2, TailAppend DEF Pending, CurrentIsFront
  <2>4. Queue!Accept(c)
    BY <1>s, <2>2, <2>3 DEF Queue!Accept, Alive
  <2> QED
    BY <2>1, <2>4 DEF Queue!Next
<1>4. CASE Execute
  <2>1. Pending # <<>> /\ cur = Head(Pending)
    BY <1>4 DEF Execute, CurrentIsFront, Pending
  <2>2. done' = Append(done, cur) /\ Pending' = Tail(Pending) /\ UNCHANGED <<mpc, Alive>>
    BY <1>s, <1>4 DEF Execute, Pending, Alive, mainVars, itemVars
  <2> QED
    BY <2>1, <2>2 DEF Queue!Next, Queue!Answer
<1>5. CASE \/ CheckStop \/ RunEmpty \/ Front \/ ScanBegin \/ ScanOne \/ ScanEnd
           \/ WakeItemCheck \/ PauseItemCheck \/ Pop \/ Idle
  <2>1. UNCHANGED <<Pending, done>>
    BY <1>5 DEF CheckStop, RunEmpty, Front, ScanBegin, ScanOne, ScanEnd, WakeItemCheck,
                PauseItemCheck, Pop, Idle, Pending, history
  <2>2. UNCHANGED <<mpc, ipc>> /\ epc' # "crashed"
    BY <1>5 DEF CheckStop, RunEmpty, Front, ScanBegin, ScanOne, ScanEnd, WakeItemCheck,
                PauseItemCheck, Pop, Idle, mainVars, itemVars
  <2> QED
    BY <1>s, <2>1, <2>2 DEF Alive
<1>7. CASE ScanCrash
  <2>1. UNCHANGED <<Pending, done, mpc>> /\ ~Alive'
    BY <1>7 DEF ScanCrash, Pending, Alive, mainVars, history
  <2> QED
    BY <1>s, <2>1 DEF Queue!Next, Queue!Stop
<1> QED
  BY <1>s, <1>1, <1>2, <1>3, <1>4, <1>5, <1>7 DEF Next, ExecuterThread

\* The executer implements the queue server: it answers the oldest command that
\* waits, once, and accepts commands only while the service runs; a crash is its end.
THEOREM ImplementsQueue == Spec => Queue!Spec
  BY InitQueue, StepQueue, Inductive, PTL DEF Spec, Queue!Spec

-----------------------------------------------------------------------------
(* The exit flag. *)

\* The Close commander's flag is raised together with the first exit completion.
FlagMeansExit == closeFlag <=> exits # {}

LEMMA OnlyExecuteExits ==
  ASSUME [Next]_vars, ~Execute
  PROVE  UNCHANGED <<closeFlag, exits>>
  BY DEF Next, ExecuterThread, ItemThread, Shutdown, Push, CheckStop, RunEmpty, Front,
       ScanBegin, ScanOne, ScanCrash, ScanEnd, WakeItemCheck, PauseItemCheck, Pop, Idle, ItemCheckStop,
       ItemWait, ItemWake, ItemTestStop, ItemReadService, ItemPost, ItemCrash,
       LoopReturns, StopItemFlag, StopItemSignal, StopExec, JoinExec, DeleteExecuter,
       JoinItem, otherThanItem, otherThanMain, xfsVars, history, vars

LEMMA FlagInvariant == Spec => []FlagMeansExit
<1>1. Init => FlagMeansExit
  BY DEF Init, FlagMeansExit
<1>2. FlagMeansExit /\ [Next]_vars => FlagMeansExit'
  <2> SUFFICES ASSUME FlagMeansExit, [Next]_vars
               PROVE  FlagMeansExit'
    OBVIOUS
  <2>1. CASE Execute
    BY <2>1 DEF Execute, FlagMeansExit, FlagAfter
  <2>2. CASE UNCHANGED <<closeFlag, exits>>
    BY <2>2 DEF FlagMeansExit
  <2> QED
    BY <2>1, <2>2, OnlyExecuteExits
<1> QED
  BY <1>1, <1>2, PTL DEF Spec

\* The first exit completion is made when service_table_ has become empty.
THEOREM FirstExitSound == Spec => FirstExitMeansNoService
<1>1. FlagMeansExit /\ [Next]_vars
        => [exits = {} /\ exits' # {} => NoService(table')]_vars
  <2> SUFFICES ASSUME FlagMeansExit, Next, exits = {}, exits' # {}
               PROVE  NoService(table')
    OBVIOUS
  <2>1. Execute
    BY OnlyExecuteExits
  <2> QED
    BY <2>1 DEF Execute, FlagMeansExit, FlagAfter
<1> QED
  BY <1>1, FlagInvariant, PTL DEF Spec, FirstExitMeansNoService

-----------------------------------------------------------------------------
(* What the executer tells the item thread, and what a cancel marks.  These *)
(* theorems rest on the queue's invariant, IInv.                            *)

(* The semaphore. *)

\* Only three steps change the semaphore's service and request.
LEMMA SemaphoreChanges ==
  ASSUME TypeOK, [Next]_vars, ~WakeItemCheck, ~PauseItemCheck, ~StopItemSignal
  PROVE  sem'.svc = sem.svc /\ sem'.req = sem.req
<1>1. CASE ItemWake
  BY <1>1 DEF ItemWake, TypeOK
<1>2. CASE ~ItemWake
  BY <1>2 DEF Next, ExecuterThread, ItemThread, Shutdown, Push, CheckStop, RunEmpty, Front,
       ScanBegin, ScanOne, ScanCrash, ScanEnd, Execute, Pop, Idle, ItemCheckStop, ItemWait, ItemTestStop,
       ItemReadService, ItemPost, ItemCrash, LoopReturns, StopItemFlag, StopExec, JoinExec,
       DeleteExecuter, JoinItem, otherThanItem, otherThanMain, vars
<1> QED
  BY <1>1, <1>2

\* The main thread is past its first signal for good.
LEMMA SignalledForGood ==
  ASSUME [Next]_vars, mpc' \in {"run", "stopItem", "signalItem"}
  PROVE  mpc \in {"run", "stopItem", "signalItem"} /\ ~StopItemSignal
  BY DEF Next, ExecuterThread, ItemThread, Shutdown, Push, CheckStop, RunEmpty, Front,
       ScanBegin, ScanOne, ScanCrash, ScanEnd, WakeItemCheck, Execute, PauseItemCheck, Pop, Idle, ItemCheckStop,
       ItemWait, ItemWake, ItemTestStop, ItemReadService, ItemPost, ItemCrash,
       LoopReturns, StopItemFlag, StopItemSignal, StopExec, JoinExec, DeleteExecuter,
       JoinItem, otherThanItem, mainVars, vars

\* Where the executer thread is relative to the commander's run.
LEMMA AroundExecute ==
  ASSUME [Next]_vars, ~WakeItemCheck, ~PauseItemCheck
  PROVE  \/ UNCHANGED cur /\ (epc \in {"execute", "pause"} <=> epc' \in {"execute", "pause"})
         \/ epc \notin {"execute", "pause"} /\ epc' \notin {"execute", "pause"}
  BY DEF Next, ExecuterThread, ItemThread, Shutdown, Push, CheckStop, RunEmpty, Front,
       ScanBegin, ScanOne, ScanCrash, ScanEnd, Execute, Pop, Idle, ItemCheckStop,
       ItemWait, ItemWake, ItemTestStop, ItemReadService, ItemPost, ItemCrash,
       LoopReturns, StopItemFlag, StopItemSignal, StopExec, JoinExec, DeleteExecuter,
       JoinItem, otherThanItem, otherThanMain, execVars, vars

LEMMA StepWatchWindow ==
  ASSUME TypeOK, WatchWindow, [Next]_vars
  PROVE  WatchWindow'
<1> SUFFICES ASSUME mpc' \in {"run", "stopItem", "signalItem"}
             PROVE  WatchWindow'
  BY DEF WatchWindow
<1>1. mpc \in {"run", "stopItem", "signalItem"} /\ ~StopItemSignal
  BY SignalledForGood
<1>2. CASE WakeItemCheck
  BY <1>1, <1>2 DEF WakeItemCheck, WatchWindow, Signal
<1>3. CASE PauseItemCheck
  BY <1>1, <1>3 DEF PauseItemCheck, WatchWindow, Reset, TypeOK
<1>4. CASE ~WakeItemCheck /\ ~PauseItemCheck
  <2>1. sem'.svc = sem.svc /\ sem'.req = sem.req
    BY <1>1, <1>4, SemaphoreChanges
  <2> QED
    BY <1>1, <1>4, <2>1, AroundExecute DEF WatchWindow
<1> QED
  BY <1>2, <1>3, <1>4

\* The semaphore names the Execute in progress from before its commander runs until
\* after, and nothing at any other time, until the item thread is stopped.
THEOREM WatchWindowHolds == Spec => []WatchWindow
<1>1. Init => WatchWindow
  BY DEF Init, WatchWindow
<1>2. IInv /\ WatchWindow /\ [Next]_vars => WatchWindow'
  BY StepWatchWindow DEF IInv
<1> QED
  BY <1>1, <1>2, Inductive, PTL DEF Spec

-----------------------------------------------------------------------------
(* Events. *)

\* Some Execute was taken up.
ExecuteTaken ==
  \E i \in 1..Len(accepted) : i <= Len(done) + 1 /\ accepted[i].type = "Execute"

\* A signal, and an item thread that saw it, stand for an Execute, or for the main
\* thread that has raised the flag before it signalled.
SignalMeansExecute ==
  /\ sem.svc # 0 \/ sem.req # 0 => ExecuteTaken \/ itemStop
  /\ ipc = "test" => ExecuteTaken \/ itemStop
  /\ ipc \in {"fire", "post"} => ExecuteTaken
  /\ EventNeedsExecute
  /\ mpc \notin {"run", "stopItem"} => itemStop

\* What was taken up was accepted, and both histories only grow.
LEMMA ExecuteStaysTaken ==
  ASSUME IInv, [Next]_vars, ExecuteTaken
  PROVE  ExecuteTaken'
<1> USE DEF IInv
<1>t. accepted \in Seq(Command) /\ done \in Seq(Command) /\ cur \in Command
  BY DEF TypeOK
<1>1. ASSUME NEW r \in Requests, Push(r)
      PROVE  ExecuteTaken'
  <2> DEFINE c == [id |-> Len(accepted) + 1, type |-> r.type, svc |-> r.svc, req |-> r.req]
  <2>1. accepted' = Append(accepted, c) /\ UNCHANGED done
    BY <1>1 DEF Push
  <2> HIDE DEF c
  <2> QED
    BY <1>t, <2>1 DEF ExecuteTaken
<1>2. CASE Execute
  <2>1. done' = Append(done, cur) /\ UNCHANGED accepted
    BY <1>2 DEF Execute
  <2>2. Len(done') = Len(done) + 1
    BY <1>t, <2>1
  <2> QED
    BY <1>t, <2>1, <2>2 DEF ExecuteTaken
<1>3. CASE UNCHANGED <<accepted, done>>
  BY <1>3 DEF ExecuteTaken
<1>4. (\E r \in Requests : Push(r)) \/ Execute \/ UNCHANGED <<accepted, done>>
  BY DEF Next, ExecuterThread, ItemThread, Shutdown, CheckStop, RunEmpty, Front,
       ScanBegin, ScanOne, ScanCrash, ScanEnd, WakeItemCheck, PauseItemCheck, Pop, Idle, ItemCheckStop,
       ItemWait, ItemWake, ItemTestStop, ItemReadService, ItemPost, ItemCrash,
       LoopReturns, StopItemFlag, StopItemSignal, StopExec, JoinExec, DeleteExecuter,
       JoinItem, otherThanItem, otherThanMain, history, vars
<1> QED
  BY <1>1, <1>2, <1>3, <1>4

\* The command in hand is the next one to be answered.
LEMMA CurrentIsNext ==
  ASSUME IInv, epc \in {"begin", "scan", "wake", "execute"}
  PROVE  Len(done) + 1 \in 1..Len(accepted) /\ accepted[Len(done) + 1] = cur
<1>1. accepted = done \o deque /\ deque # <<>> /\ cur = Head(deque)
  BY DEF IInv, NothingLost, Pending, CurrentIsFront
<1>2. deque \in Seq(Command) /\ done \in Seq(Command)
  BY DEF IInv, TypeOK
<1> QED
  BY <1>1, <1>2

\* The flag is never lowered, and is up before the main thread goes on.
LEMMA StopFlag ==
  ASSUME SignalMeansExecute, [Next]_vars
  PROVE  (itemStop => itemStop') /\ (mpc' \notin {"run", "stopItem"} => itemStop')
  BY DEF SignalMeansExecute, Next, ExecuterThread, ItemThread, Shutdown, Push, CheckStop,
       RunEmpty, Front, ScanBegin, ScanOne, ScanCrash, ScanEnd, WakeItemCheck, Execute, PauseItemCheck, Pop, Idle,
       ItemCheckStop, ItemWait, ItemWake, ItemTestStop, ItemReadService, ItemPost, ItemCrash,
       LoopReturns, StopItemFlag, StopItemSignal, StopExec, JoinExec, DeleteExecuter,
       JoinItem, otherThanItem, mainVars, vars

\* The semaphore's half: what is signalled stands for an Execute.
LEMMA StepSignal ==
  ASSUME IInv, SignalMeansExecute, [Next]_vars, sem'.svc # 0 \/ sem'.req # 0
  PROVE  ExecuteTaken' \/ itemStop'
<1>1. CASE WakeItemCheck /\ cur.type = "Execute"
  <2>1. ExecuteTaken
    BY <1>1, CurrentIsNext DEF WakeItemCheck, ExecuteTaken, IInv, TypeOK
  <2> QED
    BY <2>1, ExecuteStaysTaken
<1>2. CASE StopItemSignal
  BY <1>2, StopFlag DEF StopItemSignal, SignalMeansExecute
<1>3. CASE ~(WakeItemCheck /\ cur.type = "Execute") /\ ~StopItemSignal
  <2>1. sem.svc # 0 \/ sem.req # 0
    <3>1. CASE WakeItemCheck
      BY <1>3, <3>1 DEF WakeItemCheck
    <3>2. CASE PauseItemCheck
      BY <3>2 DEF PauseItemCheck, Reset, IInv, TypeOK
    <3>3. CASE ~WakeItemCheck /\ ~PauseItemCheck
      BY <1>3, <3>3, SemaphoreChanges DEF IInv
    <3> QED
      BY <3>1, <3>2, <3>3
  <2> QED
    BY <2>1, StopFlag, ExecuteStaysTaken DEF SignalMeansExecute
<1> QED
  BY <1>1, <1>2, <1>3

\* The item thread's half: what it does, it does for an Execute.
LEMMA StepItem ==
  ASSUME IInv, SignalMeansExecute, [Next]_vars
  PROVE  /\ ipc' = "test" => ExecuteTaken' \/ itemStop'
         /\ ipc' \in {"fire", "post"} => ExecuteTaken'
         /\ events' # <<>> => ExecuteTaken'
<1>1. EventNeedsExecute <=> (events # <<>> => ExecuteTaken)
  BY DEF EventNeedsExecute, ExecuteTaken
<1>2. /\ ipc' = "test" => ipc = "test" \/ sem.svc # 0 \/ sem.req # 0
      /\ ipc' \in {"fire", "post"} => ipc \in {"fire", "post"} \/ (ipc = "test" /\ ~itemStop)
      /\ events' # <<>> => events # <<>> \/ ipc = "post"
  <2>1. CASE ItemWait \/ ItemTestStop \/ ItemReadService \/ ItemPost \/ ItemCheckStop \/ ItemCrash
    BY <2>1 DEF ItemWait, ItemTestStop, ItemReadService, ItemPost, ItemCheckStop, ItemCrash
  <2>2. CASE ItemWake
    BY <2>2 DEF ItemWake, IInv, TypeOK
  <2>3. CASE ~ItemThread
    <3>1. UNCHANGED itemVars
      BY <2>3 DEF Next, ExecuterThread, Shutdown, Push, CheckStop, RunEmpty, Front,
         ScanBegin, ScanOne, ScanCrash, ScanEnd, WakeItemCheck, Execute, PauseItemCheck, Pop, Idle, LoopReturns,
         StopItemFlag, StopItemSignal, StopExec, JoinExec, DeleteExecuter, JoinItem,
         otherThanMain, vars
    <3> QED
      BY <3>1 DEF itemVars
  <2> QED
    BY <2>1, <2>2, <2>3 DEF ItemThread
<1> QED
  BY <1>1, <1>2, StopFlag, ExecuteStaysTaken DEF SignalMeansExecute

\* No item event is broadcast before an Execute was taken up: although the signal that
\* stops the item thread looks like one that starts it, the flag is up before.
THEOREM EventNeedsExecuteHolds == Spec => []EventNeedsExecute
<1>1. Init => SignalMeansExecute
  BY DEF Init, SignalMeansExecute, EventNeedsExecute
<1>2. IInv /\ SignalMeansExecute /\ [Next]_vars => SignalMeansExecute'
  <2> SUFFICES ASSUME IInv, SignalMeansExecute, [Next]_vars
               PROVE  SignalMeansExecute'
    OBVIOUS
  <2>1. EventNeedsExecute' <=> (events' # <<>> => ExecuteTaken')
    BY DEF EventNeedsExecute, ExecuteTaken
  <2> QED
    BY <2>1, StepSignal, StepItem, StopFlag DEF SignalMeansExecute
<1>3. SignalMeansExecute => EventNeedsExecute
  BY DEF SignalMeansExecute
<1> QED
  BY <1>1, <1>2, <1>3, Inductive, PTL DEF Spec

-----------------------------------------------------------------------------
(* Cancels. *)

\* Commands are numbered in the order of their acceptance.
Numbered == \A i \in 1..Len(accepted) : accepted[i].id = i

\* CancelExact, of a set of marks and one of undisturbed scans.
OnlySelected(marks) ==
  \A i \in marks : \E k \in 1..(i - 1) : k <= Len(done) + 1 /\ Selects(k, i)
AllSelected(marks, scans) ==
  \A s \in scans : \A i \in (s.by + 1)..s.upto : Selects(s.by, i) => i \in marks

\* What a scan has passed, unless it was disturbed, it has marked.
PassedMarked ==
  epc = "scan" /\ ~Invalidated =>
    \A j \in 1..(scan.pos - 1) : Matches(cur, deque[j]) => deque[j].id \in cancelled

\* The scan is a cancel's, and the histories speak of accepted commands.
CancelInv ==
  /\ Numbered
  /\ epc \in {"begin", "scan"} => cur.type = "CancelAsyncRequest"
  /\ cancelled \subseteq 1..Len(accepted)
  /\ \A s \in scanned : s.by \in 1..Len(accepted) /\ s.upto \in 1..Len(accepted)
  /\ PassedMarked
  /\ OnlySelected(cancelled) /\ AllSelected(cancelled, scanned)

LEMMA StepCancelPush ==
  ASSUME IInv, CancelInv, NEW r \in Requests, Push(r)
  PROVE  CancelInv'
<1> DEFINE c == [id |-> Len(accepted) + 1, type |-> r.type, svc |-> r.svc, req |-> r.req]
<1>1. /\ accepted' = Append(accepted, c) /\ deque' = Append(deque, c)
      /\ UNCHANGED <<cancelled, epc, cur, done, scan, scanned>>
  BY DEF Push, execVars
<1>2. /\ accepted \in Seq(Command) /\ done \in Seq(Command) /\ deque \in Seq(Command)
      /\ scan \in [pos : Nat, end : Nat]
  BY DEF IInv, TypeOK
<1>3. /\ Len(accepted') = Len(accepted) + 1 /\ accepted'[Len(accepted) + 1] = c
      /\ \A i \in 1..Len(accepted) : accepted'[i] = accepted[i]
      /\ Len(accepted) \in Nat
  BY <1>1, <1>2
<1>4. c.id = Len(accepted) + 1
  OBVIOUS
<1>5. Len(deque') = Len(deque) + 1 /\ Len(deque) \in Nat
  BY <1>1, <1>2
<1> HIDE DEF c
<1>6. Numbered'
  BY <1>2, <1>3, <1>4 DEF CancelInv, Numbered
<1>7. \A k, i \in 1..Len(accepted) : Selects(k, i)' <=> Selects(k, i)
  BY <1>3 DEF Selects
<1>8. OnlySelected(cancelled)'
  <2>1. SUFFICES ASSUME NEW i \in cancelled
                 PROVE  \E k \in 1..(i - 1) : k <= Len(done) + 1 /\ Selects(k, i)'
    BY <1>1 DEF OnlySelected
  <2>2. i \in 1..Len(accepted)
    BY DEF CancelInv
  <2>3. PICK k \in 1..(i - 1) : k <= Len(done) + 1 /\ Selects(k, i)
    BY DEF CancelInv, OnlySelected
  <2>4. k \in 1..Len(accepted)
    BY <1>3, <2>2
  <2> QED
    BY <1>7, <2>2, <2>3, <2>4
<1>9. AllSelected(cancelled, scanned)'
  <2>1. SUFFICES ASSUME NEW s \in scanned, NEW i \in (s.by + 1)..s.upto, Selects(s.by, i)'
                 PROVE  i \in cancelled
    BY <1>1 DEF AllSelected
  <2>2. s.by \in 1..Len(accepted) /\ i \in 1..Len(accepted)
    BY <1>3 DEF CancelInv
  <2>3. Selects(s.by, i)
    BY <1>7, <2>1, <2>2
  <2> QED
    BY <2>3 DEF CancelInv, AllSelected
<1>10. PassedMarked'
  <2>1. epc = "scan" => Invalidated'
    BY <1>1, <1>2, <1>5 DEF IInv, ScanInBounds, Invalidated
  <2> QED
    BY <1>1, <2>1 DEF PassedMarked
<1>11. \A s \in scanned : s.by \in 1..Len(accepted') /\ s.upto \in 1..Len(accepted')
  BY <1>3 DEF CancelInv
<1>12. cancelled \subseteq 1..Len(accepted')
  BY <1>3 DEF CancelInv
<1> QED
  BY <1>1, <1>6, <1>8, <1>9, <1>10, <1>11, <1>12 DEF CancelInv

\* What waits in the deque while a cancel is in hand, the cancel at its front.
LEMMA ScanSees ==
  ASSUME IInv, CancelInv, epc = "scan"
  PROVE  /\ Len(done) \in Nat /\ Len(deque) \in Nat /\ Len(accepted) = Len(done) + Len(deque)
         /\ \A j \in 1..Len(deque) : /\ Len(done) + j \in 1..Len(accepted)
                                     /\ accepted[Len(done) + j] = deque[j]
                                     /\ deque[j].id = Len(done) + j
         /\ Len(done) + 1 \in 1..Len(accepted) /\ accepted[Len(done) + 1] = cur
         /\ cur.type = "CancelAsyncRequest"
<1>1. deque \in Seq(Command) /\ done \in Seq(Command)
  BY DEF IInv, TypeOK
<1>2. accepted = done \o deque
  BY DEF IInv, NothingLost, Pending
<1>3. /\ Len(done) \in Nat /\ Len(deque) \in Nat /\ Len(accepted) = Len(done) + Len(deque)
      /\ \A j \in 1..Len(deque) : /\ Len(done) + j \in 1..Len(accepted)
                                  /\ accepted[Len(done) + j] = deque[j]
  BY <1>1, <1>2
<1>4. \A j \in 1..Len(deque) : deque[j].id = Len(done) + j
  BY <1>3 DEF CancelInv, Numbered
<1> QED
  BY <1>3, <1>4, CurrentIsNext DEF CancelInv

\* The element marked is behind the cancel, which is the next command to be answered.
LEMMA StepCancelScan ==
  ASSUME IInv, CancelInv, ScanOne
  PROVE  CancelInv'
<1>1. UNCHANGED <<accepted, done, epc, cur, deque, scanned>> /\ epc = "scan"
  BY DEF ScanOne, history
<1>2. PICK e \in Reached :
        cancelled' = IF Matches(cur, deque[e]) THEN cancelled \cup {deque[e].id} ELSE cancelled
  BY DEF ScanOne
<1>3. e \in 1..Len(deque) /\ scan.pos \in 1..Len(deque)
  BY ReachedInDeque DEF IInv
<1>4. PICK i : i = Len(done) + e
  OBVIOUS
<1>5. PICK n : n = Len(done) + 1
  OBVIOUS
<1>6. /\ i \in 1..Len(accepted) /\ accepted[i] = deque[e] /\ deque[e].id = i
      /\ n \in 1..Len(accepted) /\ accepted[n] = cur /\ cur.type = "CancelAsyncRequest"
      /\ n <= i /\ Len(done) \in Nat
  BY <1>1, <1>3, <1>4, <1>5, ScanSees
<1>7. Matches(cur, deque[e]) => Selects(n, i) /\ n \in 1..(i - 1)
  <2>1. Matches(cur, deque[e]) => Selects(n, i) /\ n # i
    BY <1>6 DEF Matches, Selects
  <2> QED
    BY <1>6, <2>1
<1>8. cancelled \subseteq cancelled' /\ cancelled' \subseteq cancelled \cup {i}
      /\ (i \in cancelled' => i \in cancelled \/ Matches(cur, deque[e]))
  BY <1>2, <1>6
<1>9. OnlySelected(cancelled)'
  <2>1. SUFFICES ASSUME NEW x \in cancelled'
                 PROVE  \E k \in 1..(x - 1) : k <= Len(done) + 1 /\ Selects(k, x)
    BY <1>1 DEF OnlySelected, Selects
  <2>2. CASE x \in cancelled
    BY <2>2 DEF CancelInv, OnlySelected
  <2>3. CASE x \notin cancelled
    <3>1. x = i /\ Selects(n, i) /\ n \in 1..(i - 1) /\ n <= Len(done) + 1
      BY <1>5, <1>6, <1>7, <1>8, <2>3
    <3> QED
      BY <3>1
  <2> QED
    BY <2>2, <2>3
<1>10. AllSelected(cancelled, scanned)'
  BY <1>1, <1>8 DEF CancelInv, AllSelected, Selects
<1>11. cancelled' \subseteq 1..Len(accepted)
  BY <1>6, <1>8 DEF CancelInv
<1>12. PassedMarked'
  <2>1. SUFFICES ASSUME ~Invalidated, NEW j \in 1..(scan'.pos - 1), Matches(cur, deque[j])
                 PROVE  deque[j].id \in cancelled'
    BY <1>1 DEF PassedMarked, Invalidated, ScanOne, Matches, IInv, TypeOK
  <2>2. scan'.pos - 1 = scan.pos /\ scan.pos \in Nat
    <3>1. scan \in [pos : Nat, end : Nat]
      BY DEF IInv, TypeOK
    <3> QED
      BY <3>1 DEF ScanOne
  <2>3. e = scan.pos
    BY <2>1 DEF Reached
  <2>4. CASE j = scan.pos
    BY <1>2, <2>1, <2>3, <2>4
  <2>5. CASE j # scan.pos
    <3>1. j \in 1..(scan.pos - 1)
      BY <2>2, <2>5
    <3> QED
      BY <1>1, <1>8, <2>1, <3>1 DEF CancelInv, PassedMarked
  <2> QED
    BY <2>4, <2>5
<1> QED
  BY <1>1, <1>9, <1>10, <1>11, <1>12 DEF CancelInv, Numbered

\* A scan that was not disturbed has passed, and so marked, everything in the deque.
LEMMA StepCancelScanned ==
  ASSUME IInv, CancelInv, ScanEnd
  PROVE  CancelInv'
<1>1. /\ UNCHANGED <<accepted, done, cur, deque, cancelled>> /\ epc = "scan" /\ epc' = "wake"
      /\ scan.pos > scan.end
  BY DEF ScanEnd
<1>2. CASE Invalidated
  <2>1. scanned' = scanned
    BY <1>2 DEF ScanEnd
  <2> QED
    BY <1>1, <2>1 DEF CancelInv, Numbered, PassedMarked, OnlySelected, AllSelected, Selects
<1>3. CASE ~Invalidated
  <2>1. PICK n : n = Len(done) + 1
    OBVIOUS
  <2>2. cur = accepted[n] /\ n \in 1..Len(accepted) /\ cur.id = n /\ Len(accepted) \in 1..Len(accepted)
    <3>1. cur = accepted[n] /\ n \in 1..Len(accepted) /\ Len(accepted) \in Nat
      BY <1>1, <2>1, ScanSees
    <3> QED
      BY <3>1 DEF CancelInv, Numbered
  <2>3. scanned' = scanned \cup {[by |-> n, upto |-> Len(accepted)]}
    BY <1>3, <2>2 DEF ScanEnd
  <2>4. ASSUME NEW i \in (n + 1)..Len(accepted), Selects(n, i)
        PROVE  i \in cancelled
    <3>1. PICK j : j = i - Len(done)
      OBVIOUS
    <3>2. j \in 1..Len(deque) /\ i = Len(done) + j
      BY <1>1, <2>1, <3>1, ScanSees
    <3>3. accepted[i] = deque[j] /\ deque[j].id = i
      BY <1>1, <3>2, ScanSees
    <3>4. j \in 1..(scan.pos - 1)
      <4>1. scan.pos \in Nat /\ scan.end \in Nat /\ Len(deque) = scan.end
        BY <1>3 DEF Invalidated, IInv, TypeOK
      <4> QED
        BY <1>1, <3>2, <4>1
    <3>5. Matches(cur, deque[j])
      BY <2>2, <2>4, <3>3 DEF Matches, Selects
    <3> QED
      BY <1>1, <1>3, <3>3, <3>4, <3>5 DEF CancelInv, PassedMarked
  <2>5. AllSelected(cancelled, scanned')
    BY <2>3, <2>4 DEF CancelInv, AllSelected
  <2>6. \A s \in scanned' : s.by \in 1..Len(accepted) /\ s.upto \in 1..Len(accepted)
    BY <2>2, <2>3 DEF CancelInv
  <2> QED
    BY <1>1, <2>5, <2>6 DEF CancelInv, Numbered, PassedMarked, OnlySelected, AllSelected, Selects
<1> QED
  BY <1>2, <1>3

LEMMA StepCancelInv ==
  ASSUME IInv, CancelInv, [Next]_vars
  PROVE  CancelInv'
<1>1. CASE \E r \in Requests : Push(r)
  BY <1>1, StepCancelPush
<1>2. CASE ScanOne
  BY <1>2, StepCancelScan
<1>3. CASE ScanEnd
  BY <1>3, StepCancelScanned
<1>4. CASE Front
  BY <1>4 DEF Front, CancelInv, Numbered, PassedMarked, OnlySelected, AllSelected, Selects, history
<1>5. CASE ScanBegin
  BY <1>5 DEF ScanBegin, CancelInv, Numbered, PassedMarked, OnlySelected, AllSelected, Selects,
              history
<1>6. CASE Execute
  <2>1. done' = Append(done, cur) /\ UNCHANGED <<accepted, cancelled, scanned>>
        /\ epc' \notin {"begin", "scan"}
    BY <1>6 DEF Execute
  <2>2. done \in Seq(Command) /\ cur \in Command /\ accepted \in Seq(Command)
    BY DEF IInv, TypeOK
  <2>3. Len(done') = Len(done) + 1 /\ Len(done) \in Nat
    BY <2>1, <2>2
  <2>4. OnlySelected(cancelled)'
    <3>1. SUFFICES ASSUME NEW i \in cancelled
                   PROVE  \E k \in 1..(i - 1) : k <= Len(done) + 2 /\ Selects(k, i)
      BY <2>1, <2>3 DEF OnlySelected, Selects
    <3>2. PICK k \in 1..(i - 1) : k <= Len(done) + 1 /\ Selects(k, i)
      BY DEF CancelInv, OnlySelected
    <3>3. k <= Len(done) + 2
      BY <2>3, <3>2 DEF CancelInv
    <3> QED
      BY <3>2, <3>3
  <2> QED
    BY <2>1, <2>4 DEF CancelInv, Numbered, PassedMarked, AllSelected, Selects
<1>7. CASE Pop
  BY <1>7 DEF Pop, CancelInv, Numbered, PassedMarked, OnlySelected, AllSelected, Selects, history
<1>8. CASE /\ UNCHANGED <<accepted, done, cancelled, scanned, cur, deque, scan>>
           /\ epc' \in {"begin", "scan"} => epc' = epc
  BY <1>8 DEF CancelInv, Numbered, PassedMarked, Invalidated, OnlySelected, AllSelected, Selects,
              Matches
<1>9. \/ (\E r \in Requests : Push(r)) \/ ScanOne \/ ScanEnd \/ Front \/ ScanBegin \/ Execute \/ Pop
      \/ /\ UNCHANGED <<accepted, done, cancelled, scanned, cur, deque, scan>>
         /\ epc' \in {"begin", "scan"} => epc' = epc
  BY DEF Next, ExecuterThread, ItemThread, Shutdown, CheckStop, RunEmpty, ScanCrash,
       WakeItemCheck, PauseItemCheck, Idle, ItemCheckStop,
       ItemWait, ItemWake, ItemTestStop, ItemReadService, ItemPost, ItemCrash,
       LoopReturns, StopItemFlag, StopItemSignal, StopExec, JoinExec, DeleteExecuter,
       JoinItem, otherThanItem, otherThanMain, execVars, history, vars
<1> QED
  BY <1>1, <1>2, <1>3, <1>4, <1>5, <1>6, <1>7, <1>8, <1>9

\* IInv and CancelInv hold in every reachable state.
LEMMA CancelAlways == Spec => [](IInv /\ CancelInv)
<1>1. Init => CancelInv
  BY DEF Init, CancelInv, Numbered, PassedMarked, OnlySelected, AllSelected
<1>2. IInv /\ CancelInv /\ [Next]_vars => CancelInv'
  BY StepCancelInv
<1> QED
  BY <1>1, <1>2, Inductive, PTL DEF Spec

\* A cancel marks only what it selects, whatever its iterators reach after a push, and
\* everything it selects unless a push came into its scan.
THEOREM CancelExactHolds == Spec => []CancelExact
<1>1. CancelInv => CancelExact
  BY DEF CancelInv, CancelExact, OnlySelected, AllSelected
<1> QED
  BY <1>1, CancelAlways, PTL

\* Completions carry the numbers of their commands, which are accepted ones.
LEMMA DoneNumbered ==
  ASSUME IInv, CancelInv
  PROVE  /\ \A i \in 1..Len(done) : done[i].id = i
         /\ Len(done) \in Nat /\ Len(accepted) \in Nat /\ Len(done) <= Len(accepted)
<1>1. /\ accepted = done \o Pending
      /\ done \in Seq(Command) /\ deque \in Seq(Command) /\ accepted \in Seq(Command)
      /\ epc \in {"pause", "pop"} => deque # <<>>
  BY DEF IInv, NothingLost, TypeOK, CurrentIsFront
<1>2. Pending \in Seq(Command)
  BY <1>1 DEF Pending
<1>3. Len(done) <= Len(accepted) /\ \A i \in 1..Len(done) : accepted[i] = done[i]
  BY <1>1, <1>2
<1> QED
  BY <1>1, <1>3 DEF CancelInv, Numbered
=============================================================================
