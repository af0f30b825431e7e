-------------------------- MODULE AnpcClientProofs --------------------------
(***************************************************************************)
(* Proofs about AnpcClient, for every number of callers, calls, commands   *)
(* and attempts: the type of the state, and the three invariants its run   *)
(* checks.  They rest on one inductive invariant, IInv, about who holds    *)
(* g_mutex, which worker is in uv_run, and what is left of the pipe when   *)
(* the thread has been detached.                                           *)
(***************************************************************************)
EXTENDS AnpcClient, TLAPS

-----------------------------------------------------------------------------
(* The inductive invariant. *)

\* A caller inside a call holds g_mutex, and nobody else is inside one.
LockHeld == \A c \in Callers : cpc[c] # "idle" => mutex = c

\* What the callers have found when they go on: room for a worker or a command, a
\* DLL that is loaded, and a worker to stop.
CallersAt ==
  \A c \in Callers :
    /\ cpc[c] = "run" => gen < creates
    /\ cpc[c] = "post" => cmds < MaxCmds
    /\ cpc[c] # "idle" => ~unloaded
    /\ cpc[c] \in {"close", "detach"} => gen > 0

\* Workers that have not been started, and the one that has not begun.
Unstarted ==
  /\ \A g \in Workers : g > gen => wpc[g] = "none"
  /\ \A g \in Workers : wpc[g] \in {"none", "init"} => spawns[g] = 0
  /\ \A g \in Workers : wpc[g] = "init" => g = gen /\ (joinable \/ unloaded)

InRun(g) == wpc[g] \in {"loop", "sleep"}

OneRunner == \A g, h \in Workers : InRun(g) /\ InRun(h) => g = h

\* The thread was detached by on_close: stop has not been called to the end.
Detached == ~joinable /\ ~unloaded

\* A detached thread leaves a pipe that is closed, with no connect under way.
DetachedClosed ==
  /\ joinable => gen > 0
  /\ Detached => attempt = "none" /\ pipe = (IF gen = 0 THEN "none" ELSE "closed")

\* A worker that is still in uv_run after it was detached, or after another was
\* started, has closed the pipe and is not connecting.
OldWorkersClosed ==
  \A g \in Workers :
    InRun(g) /\ (g # gen \/ Detached) => wpc[g] = "loop" /\ pipe = "closed" /\ attempt = "none"

\* A worker that has started the service and connects again has counted an attempt.
SpawnedCounted ==
  \A g \in Workers :
    /\ spawns[g] <= 1
    /\ spawns[g] = 1 /\ wpc[g] = "loop" /\ attempt \in {"busy", "err"} => count > 0

\* The status is that of the last worker.
StatusOfLast == status = 1 => gen \in connected

Ascending(s) == \A i, j \in 1..Len(s) : i < j => s[i] < s[j]
Before(s, t) == \A i \in 1..Len(s), j \in 1..Len(t) : s[i] < t[j]

\* What is written is older than what is posted, each in order.
CommandsInOrder == Ascending(written) /\ Ascending(asyncs) /\ Before(written, asyncs)

WorkersOK ==
  /\ Unstarted /\ OneRunner /\ DetachedClosed /\ OldWorkersClosed
  /\ SpawnedCounted /\ StatusOfLast

IInv == TypeOK /\ LockHeld /\ CallersAt /\ WorkersOK /\ CommandsInOrder

\* What WorkersOK looks at.
workersVars ==
  <<wpc, gen, joinable, unloaded, pipe, attempt, count, status, connected, spawns>>

-----------------------------------------------------------------------------
(* Sequences of numbers. *)

LEMMA AppendAscending ==
  ASSUME NEW n \in Nat, NEW q \in Seq(1..n), Ascending(q)
  PROVE  Ascending(Append(q, n + 1))
  BY DEF Ascending

LEMMA TailAscending ==
  ASSUME NEW S, NEW q \in Seq(S), q # <<>>, Ascending(q)
  PROVE  Ascending(Tail(q))
  BY DEF Ascending

LEMMA BeforeAppend ==
  ASSUME NEW n \in Nat, NEW p \in Seq(1..n), NEW q \in Seq(1..n), Before(p, q)
  PROVE  Before(p, Append(q, n + 1))
<1> SUFFICES ASSUME NEW i \in 1..Len(p), NEW j \in 1..Len(Append(q, n + 1))
             PROVE  p[i] < Append(q, n + 1)[j]
  BY DEF Before
<1>1. p[i] \in 1..n
  OBVIOUS
<1>2. CASE j = Len(q) + 1
  BY <1>1, <1>2
<1>3. CASE j \in 1..Len(q)
  BY <1>3 DEF Before
<1> QED
  BY <1>2, <1>3

LEMMA BeforeTail ==
  ASSUME NEW S, NEW p \in Seq(S), NEW q \in Seq(S), q # <<>>, Before(p, q)
  PROVE  Before(p, Tail(q))
  BY DEF Before

\* The oldest command posted becomes the newest one written.
LEMMA MoveInOrder ==
  ASSUME NEW n \in Nat, NEW p \in Seq(1..n), NEW q \in Seq(1..n), q # <<>>,
         Ascending(p), Ascending(q), Before(p, q)
  PROVE  /\ Append(p, Head(q)) \in Seq(1..n)
         /\ Ascending(Append(p, Head(q))) /\ Before(Append(p, Head(q)), Tail(q))
<1> DEFINE r == Append(p, Head(q))
           t == Tail(q)
<1>1. Head(q) = q[1] /\ q[1] \in 1..n /\ Len(q) \in Nat \ {0}
  OBVIOUS
<1>2. /\ r \in Seq(1..n) /\ Len(r) = Len(p) + 1 /\ r[Len(p) + 1] = q[1]
      /\ \A i \in 1..Len(p) : r[i] = p[i]
  BY <1>1
<1>3. t \in Seq(1..n) /\ Len(t) = Len(q) - 1 /\ \A i \in 1..Len(t) : t[i] = q[i + 1]
  BY <1>1
<1> HIDE DEF r, t
<1>4. Ascending(r)
  <2>1. \A i, j \in 1..Len(p) : i < j => r[i] < r[j]
    BY <1>2 DEF Ascending
  <2>2. \A i \in 1..Len(p) : r[i] < r[Len(p) + 1]
    <3>1. 1 \in 1..Len(q)
      BY <1>1
    <3> QED
      BY <3>1, <1>2 DEF Before
  <2>3. \A i, j \in 1..(Len(p) + 1) : i < j => r[i] < r[j]
    BY <2>1, <2>2
  <2> QED
    BY <2>3, <1>2 DEF Ascending
<1>5. Before(r, t)
  <2> SUFFICES ASSUME NEW i \in 1..Len(r), NEW j \in 1..Len(t) PROVE r[i] < t[j]
    BY DEF Before
  <2>1. j + 1 \in 1..Len(q) /\ t[j] = q[j + 1] /\ 1 < j + 1 /\ 1 \in 1..Len(q)
    BY <1>1, <1>3
  <2>2. CASE i = Len(p) + 1
    BY <2>1, <2>2, <1>2 DEF Ascending
  <2>3. CASE i \in 1..Len(p)
    BY <2>1, <2>3, <1>2 DEF Before
  <2> QED
    BY <2>2, <2>3, <1>2
<1> QED
  BY <1>2, <1>4, <1>5 DEF r, t

LEMMA HeadTailType ==
  ASSUME NEW S, NEW p \in Seq(S), NEW q \in Seq(S), q # <<>>
  PROVE  Head(q) \in S /\ Tail(q) \in Seq(S) /\ Append(p, Head(q)) \in Seq(S)
  OBVIOUS

LEMMA SuffixType ==
  ASSUME NEW S, NEW q \in Seq(S), NEW n \in 1..Len(q)
  PROVE  q # <<>> /\ SubSeq(q, n + 1, Len(q)) \in Seq(S)
<1>1. CASE n = Len(q)
  BY <1>1
<1>2. CASE n < Len(q)
  BY <1>2
<1> QED
  BY <1>1, <1>2

LEMMA SeqWiden ==
  ASSUME NEW n \in Nat, NEW q \in Seq(1..n)
  PROVE  q \in Seq(1..(n + 1)) /\ Append(q, n + 1) \in Seq(1..(n + 1))
<1>1. \A i \in 1..Len(q) : q[i] \in 1..(n + 1)
  OBVIOUS
<1>2. q \in Seq(1..(n + 1))
  BY <1>1
<1> QED
  BY <1>2

-----------------------------------------------------------------------------
(* Type correctness. *)

LEMMA InitIInv == Init => IInv
<1> SUFFICES ASSUME Init PROVE IInv
  OBVIOUS
<1> USE AnpcClientAssumption DEF Init
<1>1. TypeOK
  <2>1. asyncs \in Seq(1..cmds) /\ written \in Seq(1..cmds)
    OBVIOUS
  <2>2. incoming \in Seq(1..results) /\ handed \in Seq(1..results)
    OBVIOUS
  <2>3. /\ count \in 0..CountBound /\ status \in 0..2
        /\ gen \in 0..creates /\ creates \in 0..MaxCreates
        /\ cmds \in 0..MaxCmds /\ results \in 0..MaxResults
    BY DEF CountBound
  <2>4. /\ mutex \in Callers \cup {NoCaller}
        /\ cpc \in [Callers -> {"idle", "run", "started", "wait", "asleep", "result", "post",
                            "close", "detach"}]
        /\ wpc \in [Workers -> {"none", "init", "loop", "sleep", "done"}]
        /\ connected \subseteq Workers /\ spawns \in [Workers -> Nat]
    OBVIOUS
  <2>5. /\ joinable \in BOOLEAN /\ stopFlag \in BOOLEAN /\ busy \in BOOLEAN
        /\ spawnFailed \in BOOLEAN /\ unloaded \in BOOLEAN
    OBVIOUS
  <2>6. /\ pipe = "none" /\ attempt = "none" /\ server \in {"down", "up"} /\ link = "none"
        /\ fate = "running"
    OBVIOUS
  <2> HIDE DEF Init
  <2> QED
    BY <2>1, <2>2, <2>3, <2>4, <2>5, <2>6 DEF TypeOK
<1>2. LockHeld /\ CallersAt
  BY DEF LockHeld, CallersAt
<1>3. Unstarted /\ OneRunner /\ DetachedClosed /\ OldWorkersClosed
  BY DEF Unstarted, OneRunner, DetachedClosed, OldWorkersClosed, InRun, Detached
<1>4. SpawnedCounted /\ StatusOfLast
  BY DEF SpawnedCounted, StatusOfLast
<1>5. CommandsInOrder
  BY DEF CommandsInOrder, Ascending, Before
<1> QED
  BY <1>1, <1>2, <1>3, <1>4, <1>5 DEF IInv, WorkersOK

LEMMA CountUpType ==
  ASSUME NEW S, NEW f \in [S -> Nat], NEW x \in S
  PROVE  [f EXCEPT ![x] = @ + 1] \in [S -> Nat]
  OBVIOUS

LEMMA SignalOnceType ==
  ASSUME TypeOK, SignalOnce
  PROVE  count' \in 0..CountBound /\ status' \in 0..2 /\ count' > 0
  BY AnpcClientAssumption DEF TypeOK, SignalOnce, CountBound

LEMMA AttemptType ==
  ASSUME TypeOK, Attempt
  PROVE  attempt' \in {"busy", "ok", "err"} /\ link' \in {"none", "up", "down"}
           /\ incoming' \in Seq(1..results)
<1>1. attempt' \in {"busy", "ok", "err"} /\ link' \in {"none", "up", "down"}
  BY DEF TypeOK, Attempt
<1>2. incoming \in Seq(1..results) /\ <<>> \in Seq(1..results)
  BY DEF TypeOK
<1> QED
  BY <1>1, <1>2 DEF Attempt

LEMMA SendPostType ==
  ASSUME TypeOK, CallersAt, NEW c \in Callers, SendPost(c)
  PROVE  /\ cmds' \in 0..MaxCmds /\ cmds' = cmds + 1
         /\ asyncs' \in Seq(1..cmds') /\ written' \in Seq(1..cmds')
<1>1. cmds \in Nat /\ cmds < MaxCmds /\ MaxCmds \in Nat
  BY AnpcClientAssumption DEF SendPost, At, CallersAt, TypeOK
<1>2. cmds' = cmds + 1 /\ asyncs' = Append(asyncs, cmds + 1) /\ written' = written
  BY DEF SendPost, histVars
<1>3. asyncs \in Seq(1..cmds) /\ written \in Seq(1..cmds)
  BY DEF TypeOK
<1>4. Append(asyncs, cmds + 1) \in Seq(1..(cmds + 1)) /\ written \in Seq(1..(cmds + 1))
  BY <1>1, <1>3, SeqWiden
<1> QED
  BY <1>1, <1>2, <1>4

LEMMA OnSendCmdType ==
  ASSUME TypeOK, NEW g \in Workers, OnSendCmd(g)
  PROVE  asyncs' \in Seq(1..cmds) /\ written' \in Seq(1..cmds)
<1>1. asyncs \in Seq(1..cmds) /\ written \in Seq(1..cmds) /\ asyncs # <<>>
  BY DEF OnSendCmd, TypeOK
<1>2. Tail(asyncs) \in Seq(1..cmds) /\ Append(written, Head(asyncs)) \in Seq(1..cmds)
  BY <1>1, HeadTailType
<1> QED
  BY <1>1, <1>2 DEF OnSendCmd

LEMMA OnReadType ==
  ASSUME TypeOK, NEW g \in Workers, OnRead(g)
  PROVE  incoming' \in Seq(1..results) /\ handed' \in Seq(1..results)
<1>1. PICK n \in 1..Len(incoming) : incoming' = SubSeq(incoming, n + 1, Len(incoming))
  BY DEF OnRead
<1>2. incoming \in Seq(1..results) /\ handed \in Seq(1..results)
  BY DEF TypeOK
<1>3. incoming' \in Seq(1..results) /\ incoming # <<>>
  BY <1>1, <1>2, SuffixType
<1>4. Append(handed, Head(incoming)) \in Seq(1..results)
  BY <1>2, <1>3, HeadTailType
<1> QED
  BY <1>3, <1>4 DEF OnRead

LEMMA ServerResultType ==
  ASSUME TypeOK, ServerResult
  PROVE  /\ results' \in 0..MaxResults
         /\ incoming' \in Seq(1..results') /\ handed' \in Seq(1..results')
<1>1. results \in Nat /\ results < MaxResults /\ MaxResults \in Nat
  BY AnpcClientAssumption DEF ServerResult, TypeOK
<1>2. results' = results + 1 /\ incoming' = Append(incoming, results + 1) /\ handed' = handed
  BY DEF ServerResult, histVars
<1>3. incoming \in Seq(1..results) /\ handed \in Seq(1..results)
  BY DEF TypeOK
<1>4. Append(incoming, results + 1) \in Seq(1..(results + 1)) /\ handed \in Seq(1..(results + 1))
  BY <1>1, <1>3, SeqWiden
<1> QED
  BY <1>1, <1>2, <1>4

\* A step of the callers keeps the type of the state.
LEMMA CallerTypeOK ==
  ASSUME TypeOK, LockHeld, CallersAt, NEW c \in Callers,
         Create(c) \/ SendCheck(c) \/ Stop(c) \/ Call(c)
  PROVE  TypeOK'
<1> USE AnpcClientAssumption
    DEF TypeOK, callVars, threadVars, semVars, loopVars, envVars, histVars, At, Goto, Return
<1> DEFINE Places == [Callers -> {"idle", "run", "started", "wait", "asleep", "result",
                                  "post", "close", "detach"}]
<1>1. CASE Create(c)
  BY <1>1 DEF Create, Lock
<1>2. CASE RunJoinable(c)
  BY <1>2 DEF RunJoinable
<1>3. CASE RunStart(c)
  <2>1. gen < creates /\ gen + 1 \in Workers
    BY <1>3 DEF RunStart, CallersAt, Workers
  <2>2. wpc' \in [Workers -> {"none", "init", "loop", "sleep", "done"}]
    BY <1>3, <2>1 DEF RunStart
  <2>3. gen' \in 0..creates /\ joinable' = TRUE /\ count' = 0 /\ status' = 0
    BY <1>3, <2>1 DEF RunStart, ResetWait
  <2>4. 0 \in 0..CountBound
    BY DEF CountBound
  <2> QED
    BY <1>3, <2>2, <2>3, <2>4 DEF RunStart
<1>4. CASE RunStarted(c)
  <2>1. mutex' \in Callers \cup {NoCaller} /\ cpc' \in Places
    BY <1>4 DEF RunStarted
  <2> QED
    BY <1>4, <2>1 DEF RunStarted
<1>5. CASE RunWait(c)
  BY <1>5 DEF RunWait
<1>6. CASE RunWoken(c)
  BY <1>6 DEF RunWoken
<1>7. CASE RunResult(c)
  BY <1>7 DEF RunResult
<1>8. CASE SendCheck(c)
  BY <1>8 DEF SendCheck, Lock
<1>9. CASE SendPost(c)
  <2>1. /\ cmds' \in 0..MaxCmds
        /\ asyncs' \in Seq(1..cmds') /\ written' \in Seq(1..cmds')
    BY <1>9, SendPostType
  <2> QED
    BY <1>9, <2>1 DEF SendPost
<1>10. CASE Stop(c)
  <2>1. mutex' \in Callers \cup {NoCaller} /\ cpc' \in Places
    BY <1>10 DEF Stop, Lock
  <2>2. stopFlag' \in BOOLEAN /\ unloaded' \in BOOLEAN
    BY <1>10 DEF Stop
  <2> QED
    BY <1>10, <2>1, <2>2 DEF Stop
<1>11. CASE StopClose(c)
  BY <1>11 DEF StopClose
<1>12. CASE StopDetach(c)
  <2>1. fate' \in {"running", "clobbered", "aborted"}
    BY <1>12 DEF StopDetach
  <2>2. cpc' \in Places /\ mutex' \in Callers \cup {NoCaller}
    BY <1>12 DEF StopDetach
  <2>3. joinable' \in BOOLEAN /\ unloaded' \in BOOLEAN
    BY <1>12 DEF StopDetach
  <2>4. /\ UNCHANGED <<creates, cmds, gen, wpc, count, status, pipe, attempt, stopFlag, busy, asyncs,
                       link, server, results, incoming, written, handed, connected, spawns,
                       spawnFailed>>
    BY <1>12 DEF StopDetach
  <2> QED
    BY <2>1, <2>2, <2>3, <2>4
<1> QED
  BY <1>1, <1>2, <1>3, <1>4, <1>5, <1>6, <1>7, <1>8, <1>9, <1>10, <1>11, <1>12 DEF Call, Run

\* And so does a step of a worker.
LEMMA WorkerTypeOK ==
  ASSUME TypeOK, NEW g \in Workers, Worker(g)
  PROVE  TypeOK'
<1> USE AnpcClientAssumption
    DEF TypeOK, callVars, threadVars, semVars, loopVars, envVars, histVars, InLoop
<1>1. CASE WorkerInit(g)
  <2>1. CASE UNCHANGED <<wpc, pipe, attempt, loopVars, link, incoming>> /\ fate' = "clobbered"
    BY <1>1, <2>1 DEF WorkerInit
  <2>2. CASE /\ pipe' = "connecting" /\ Attempt
             /\ stopFlag' = FALSE /\ busy' = FALSE /\ asyncs' = <<>>
             /\ wpc' = [wpc EXCEPT ![g] = "loop"]
             /\ UNCHANGED fate
    <3>1. /\ attempt' \in {"busy", "ok", "err"} /\ link' \in {"none", "up", "down"}
          /\ incoming' \in Seq(1..results)
      BY <2>2, AttemptType
    <3>2. asyncs' \in Seq(1..cmds)
      BY <2>2
    <3> QED
      BY <1>1, <2>2, <3>1, <3>2 DEF WorkerInit
  <2> QED
    BY <1>1, <2>1, <2>2 DEF WorkerInit
<1>2. CASE OnConnected(g)
  <2>1. count' \in 0..CountBound /\ status' \in 0..2
    BY <1>2 DEF OnConnected, CountBound
  <2>2. pipe' \in {"none", "idle", "connecting", "open", "closing", "stopping", "closed"}
    BY <1>2 DEF OnConnected
  <2>3. connected' \subseteq Workers
    BY <1>2 DEF OnConnected
  <2>4. /\ attempt' = "none" /\ busy' \in BOOLEAN
        /\ UNCHANGED <<callVars, threadVars, wpc, stopFlag, asyncs, link, envVars, written, handed,
                       spawns, spawnFailed, fate>>
    BY <1>2 DEF OnConnected
  <2> QED
    BY <2>1, <2>2, <2>3, <2>4
<1>3. CASE OnConnectFailed(g)
  <2>1. pipe' \in {"none", "idle", "connecting", "open", "closing", "stopping", "closed"}
    BY <1>3 DEF OnConnectFailed
  <2>2. server' \in {"down", "starting", "up"} /\ spawnFailed' \in BOOLEAN
    BY <1>3 DEF OnConnectFailed
  <2>3. /\ spawns' \in {spawns, [spawns EXCEPT ![g] = @ + 1]}
        /\ wpc' \in {wpc, [wpc EXCEPT ![g] = "sleep"]}
    BY <1>3 DEF OnConnectFailed
  <2>4. /\ attempt' = "none" /\ busy' \in BOOLEAN
        /\ UNCHANGED <<callVars, threadVars, semVars, stopFlag, asyncs, link, results, incoming,
                       written, handed, connected, fate>>
    BY <1>3 DEF OnConnectFailed
  <2>5. spawns' \in [Workers -> Nat]
    <3>1. spawns \in [Workers -> Nat] /\ [spawns EXCEPT ![g] = @ + 1] \in [Workers -> Nat]
      BY CountUpType
    <3> HIDE DEF TypeOK
    <3> QED
      BY <2>3, <3>1
  <2>6. wpc' \in [Workers -> {"none", "init", "loop", "sleep", "done"}]
    BY <2>3
  <2> QED
    BY <2>1, <2>2, <2>4, <2>5, <2>6
<1>4. CASE Reconnect(g)
  <2>1. /\ attempt' \in {"busy", "ok", "err"} /\ link' \in {"none", "up", "down"}
        /\ incoming' \in Seq(1..results)
    BY <1>4, AttemptType DEF Reconnect
  <2>2. count' \in 0..CountBound /\ status' \in 0..2
    BY <1>4, SignalOnceType DEF Reconnect
  <2> QED
    BY <1>4, <2>1, <2>2 DEF Reconnect
<1>5. CASE OnSendCmd(g)
  <2>1. asyncs' \in Seq(1..cmds) /\ written' \in Seq(1..cmds)
    BY <1>5, OnSendCmdType
  <2> QED
    BY <1>5, <2>1 DEF OnSendCmd
<1>6. CASE OnRead(g)
  <2>1. incoming' \in Seq(1..results) /\ handed' \in Seq(1..results)
    BY <1>6, OnReadType
  <2> QED
    BY <1>6, <2>1 DEF OnRead
<1>7. CASE OnEof(g)
  BY <1>7 DEF OnEof
<1>8. CASE OnClose(g)
  BY <1>8 DEF OnClose
<1>9. CASE EndIteration(g)
  <2>1. stopFlag' \in BOOLEAN /\ wpc' \in [Workers -> {"none", "init", "loop", "sleep", "done"}]
    BY <1>9 DEF EndIteration
  <2>2. /\ busy' \in BOOLEAN
        /\ UNCHANGED <<callVars, threadVars, semVars, pipe, attempt, asyncs, link, envVars,
                       histVars, fate>>
    BY <1>9 DEF EndIteration
  <2> QED
    BY <2>1, <2>2
<1>10. CASE OnReadPart(g)
  BY <1>10 DEF OnReadPart
<1> QED
  BY <1>1, <1>2, <1>3, <1>4, <1>5, <1>6, <1>7, <1>8, <1>9, <1>10 DEF Worker

\* And so does the thread that waits for an instance.
LEMMA ConnectTypeOK ==
  ASSUME TypeOK, ConnectThread
  PROVE  TypeOK'
<1>1. /\ attempt' \in {"ok", "err"} /\ link' \in {"none", "up", "down"}
      /\ incoming' \in Seq(1..results)
  <2>1. incoming \in Seq(1..results) /\ <<>> \in Seq(1..results)
    BY DEF TypeOK
  <2>2. CASE attempt' = "ok" /\ link' = "up" /\ incoming' = <<>>
    BY <2>1, <2>2
  <2>3. CASE attempt' = "err" /\ UNCHANGED <<link, incoming>>
    BY <2>1, <2>3 DEF TypeOK
  <2> QED
    BY <2>2, <2>3 DEF ConnectThread
<1> QED
  BY <1>1 DEF ConnectThread, TypeOK, callVars, threadVars, semVars, loopVars, histVars

LEMMA StepTypeOK ==
  ASSUME IInv, [Next]_vars
  PROVE  TypeOK'
<1> USE DEF IInv
<1>1. CASE UNCHANGED vars
  BY <1>1 DEF TypeOK, vars, callVars, threadVars, semVars, loopVars, envVars, histVars
<1>2. ASSUME NEW c \in Callers, Create(c) \/ SendCheck(c) \/ Stop(c) \/ Call(c)
      PROVE  TypeOK'
  BY <1>2, CallerTypeOK
<1>3. ASSUME NEW g \in Workers, Worker(g)
      PROVE  TypeOK'
  BY <1>3, WorkerTypeOK
<1>4. CASE ServerUp \/ ServerDown
  <2>1. server' \in {"down", "starting", "up"} /\ link' \in {"none", "up", "down"}
    BY <1>4 DEF ServerUp, ServerDown, TypeOK
  <2> QED
    BY <1>4, <2>1 DEF ServerUp, ServerDown, TypeOK, callVars, threadVars, semVars, loopVars,
                      histVars
<1>5. CASE ServerResult
  <2>1. /\ results' \in 0..MaxResults
        /\ incoming' \in Seq(1..results') /\ handed' \in Seq(1..results')
    BY <1>5, ServerResultType
  <2> QED
    BY <1>5, <2>1 DEF ServerResult, TypeOK, callVars, threadVars, semVars, loopVars, histVars
<1>6. CASE ConnectThread
  BY <1>6, ConnectTypeOK
<1> QED
  BY <1>1, <1>2, <1>3, <1>4, <1>5, <1>6 DEF Next

-----------------------------------------------------------------------------
(* The callers. *)

LEMMA StepCallers ==
  ASSUME IInv, [Next]_vars
  PROVE  LockHeld' /\ CallersAt'
<1> USE AnpcClientAssumption DEF IInv, TypeOK
<1>1. CASE UNCHANGED <<callVars, gen>>
  BY <1>1 DEF LockHeld, CallersAt, callVars
<1>2. ASSUME NEW g \in Workers, Worker(g)
      PROVE  UNCHANGED <<callVars, gen>>
  BY <1>2 DEF Worker, WorkerInit, OnConnected, OnConnectFailed, Reconnect, OnSendCmd, OnRead,
              OnReadPart, OnEof, OnClose, EndIteration, threadVars
<1>3. ASSUME NEW c \in Callers, Create(c) \/ SendCheck(c) \/ Stop(c) \/ Call(c)
      PROVE  LockHeld' /\ CallersAt'
  <2> USE DEF At, Goto, Return, Lock, callVars, threadVars, LockHeld, CallersAt
  <2>1. CASE Create(c)
    BY <1>3, <2>1 DEF Create
  <2>2. CASE RunJoinable(c)
    BY <1>3, <2>2 DEF RunJoinable
  <2>3. CASE RunStart(c)
    BY <1>3, <2>3 DEF RunStart
  <2>4. CASE RunStarted(c)
    BY <1>3, <2>4 DEF RunStarted
  <2>5. CASE RunWait(c)
    BY <1>3, <2>5 DEF RunWait
  <2>6. CASE RunWoken(c)
    BY <1>3, <2>6 DEF RunWoken
  <2>7. CASE RunResult(c)
    BY <1>3, <2>7 DEF RunResult
  <2>8. CASE SendCheck(c)
    BY <1>3, <2>8 DEF SendCheck
  <2>9. CASE SendPost(c)
    BY <1>3, <2>9 DEF SendPost
  <2>10. CASE Stop(c)
    BY <1>3, <2>10 DEF Stop, WorkersOK, DetachedClosed
  <2>11. CASE StopClose(c)
    BY <1>3, <2>11 DEF StopClose
  <2>12. CASE StopDetach(c)
    BY <1>3, <2>12 DEF StopDetach
  <2> QED
    BY <1>3, <2>1, <2>2, <2>3, <2>4, <2>5, <2>6, <2>7, <2>8, <2>9, <2>10, <2>11, <2>12 DEF Call, Run
<1>4. CASE ConnectThread \/ ServerUp \/ ServerDown \/ ServerResult
  BY <1>1, <1>4 DEF ConnectThread, ServerUp, ServerDown, ServerResult, threadVars
<1>5. CASE UNCHANGED vars
  BY <1>1, <1>5 DEF vars, threadVars
<1> QED
  BY <1>1, <1>2, <1>3, <1>4, <1>5 DEF Next

-----------------------------------------------------------------------------
(* The workers.  One lemma per action that WorkersOK depends on. *)

LEMMA WorkersUnchanged ==
  ASSUME WorkersOK, UNCHANGED workersVars
  PROVE  WorkersOK'
  BY DEF WorkersOK, workersVars, Unstarted, OneRunner, InRun, DetachedClosed, Detached,
         OldWorkersClosed, SpawnedCounted, StatusOfLast

\* A worker is started when the one before has been detached: none is about to
\* begin, and one that is still in uv_run has closed the pipe.
LEMMA RunStartWorkers ==
  ASSUME IInv, NEW c \in Callers, RunStart(c)
  PROVE  WorkersOK'
<1> USE AnpcClientAssumption
<1>1. /\ ~joinable /\ ~unloaded /\ gen < creates
      /\ joinable' = TRUE /\ gen' = gen + 1 /\ wpc' = [wpc EXCEPT ![gen + 1] = "init"]
      /\ count' = 0 /\ status' = 0
      /\ UNCHANGED <<unloaded, pipe, attempt, connected, spawns>>
  BY DEF RunStart, At, IInv, CallersAt, ResetWait, histVars
<1>2. /\ gen \in Nat /\ gen + 1 \in Workers
      /\ wpc \in [Workers -> {"none", "init", "loop", "sleep", "done"}]
      /\ \A g \in Workers : g \in Nat
  BY <1>1 DEF IInv, TypeOK, Workers
<1>3. /\ Unstarted /\ OneRunner /\ OldWorkersClosed /\ SpawnedCounted
  BY DEF IInv, WorkersOK
<1>4. \A g \in Workers : wpc'[g] = IF g = gen + 1 THEN "init" ELSE wpc[g]
  BY <1>1, <1>2
<1>5. wpc[gen + 1] = "none" /\ spawns[gen + 1] = 0
  BY <1>2, <1>3 DEF Unstarted
<1>6. Detached /\ ~Detached'
  BY <1>1 DEF Detached
<1>7. \A g \in Workers : InRun(g)' => InRun(g) /\ g # gen + 1
  BY <1>4 DEF InRun
<1>8. \A g \in Workers : InRun(g) => wpc[g] = "loop" /\ pipe = "closed" /\ attempt = "none"
  BY <1>3, <1>6 DEF OldWorkersClosed
<1>9. Unstarted'
  BY <1>1, <1>2, <1>3, <1>4, <1>5 DEF Unstarted
<1>10. OneRunner'
  BY <1>3, <1>7 DEF OneRunner
<1>11. DetachedClosed'
  BY <1>1, <1>2, <1>6 DEF DetachedClosed
<1>12. OldWorkersClosed'
  BY <1>1, <1>4, <1>7, <1>8 DEF OldWorkersClosed
<1>13. SpawnedCounted'
  <2>1. \A g \in Workers : wpc'[g] = "loop" => attempt' = "none"
    BY <1>1, <1>4, <1>7, <1>8 DEF InRun
  <2> QED
    BY <1>1, <1>3, <2>1 DEF SpawnedCounted
<1>14. StatusOfLast'
  BY <1>1 DEF StatusOfLast
<1> QED
  BY <1>9, <1>10, <1>11, <1>12, <1>13, <1>14 DEF WorkersOK

\* stop leaves a closed pipe closed.
LEMMA StopWorkers ==
  ASSUME IInv, NEW c \in Callers, Stop(c) \/ StopClose(c) \/ StopDetach(c)
  PROVE  WorkersOK'
<1>1. UNCHANGED <<wpc, gen, attempt, count, status, connected, spawns>>
  BY DEF Stop, StopClose, StopDetach, threadVars, semVars, histVars
<1>2. WorkersOK
  BY DEF IInv
<1>3. CASE Stop(c)
  <2>1. UNCHANGED <<joinable, pipe>> /\ (unloaded' = unloaded \/ unloaded')
    BY <1>3 DEF Stop, threadVars
  <2> QED
    BY <1>1, <1>2, <2>1 DEF WorkersOK, Unstarted, OneRunner, InRun, DetachedClosed, Detached,
                            OldWorkersClosed, SpawnedCounted, StatusOfLast
<1>4. CASE StopClose(c)
  <2>1. gen > 0 /\ gen \in Nat
    BY <1>4 DEF IInv, CallersAt, StopClose, At, TypeOK
  <2>2. UNCHANGED <<joinable, unloaded>> /\ (pipe = "closed" => pipe' = "closed")
    BY <1>4 DEF StopClose, threadVars
  <2> QED
    BY <1>1, <1>2, <2>1, <2>2 DEF WorkersOK, Unstarted, OneRunner, InRun, DetachedClosed, Detached,
                                  OldWorkersClosed, SpawnedCounted, StatusOfLast
<1>5. CASE StopDetach(c)
  <2>1. unloaded' /\ ~joinable' /\ pipe' = pipe
    BY <1>5 DEF StopDetach
  <2> QED
    BY <1>1, <1>2, <2>1 DEF WorkersOK, Unstarted, OneRunner, InRun, DetachedClosed, Detached,
                            OldWorkersClosed, SpawnedCounted, StatusOfLast
<1> QED
  BY <1>3, <1>4, <1>5

\* The pipe is free for the next worker, or the process is not running any more.
LEMMA WorkerInitWorkers ==
  ASSUME IInv, NEW g \in Workers, WorkerInit(g)
  PROVE  WorkersOK'
<1>1. /\ UNCHANGED <<gen, joinable, unloaded, count, status, connected, spawns>>
      /\ wpc[g] = "init"
  BY DEF WorkerInit, callVars, threadVars, semVars, histVars
<1>2. WorkersOK /\ wpc \in [Workers -> {"none", "init", "loop", "sleep", "done"}]
  BY DEF IInv, TypeOK
<1>3. CASE UNCHANGED <<wpc, pipe, attempt>>
  BY <1>1, <1>2, <1>3, WorkersUnchanged DEF workersVars
<1>4. CASE /\ \A h \in Workers : ~InRun(h)
           /\ wpc' = [wpc EXCEPT ![g] = "loop"]
  <2>1. g = gen /\ (joinable \/ unloaded) /\ spawns[g] = 0
    BY <1>1, <1>2 DEF WorkersOK, Unstarted
  <2>2. \A h \in Workers : wpc'[h] = IF h = g THEN "loop" ELSE wpc[h]
    BY <1>2, <1>4
  <2>3. \A h \in Workers : InRun(h)' => h = g
    BY <1>4, <2>2 DEF InRun
  <2>4. ~Detached'
    BY <1>1, <2>1 DEF Detached
  <2>5. Unstarted'
    BY <1>1, <1>2, <2>1, <2>2 DEF WorkersOK, Unstarted
  <2>6. OneRunner'
    BY <2>3 DEF OneRunner
  <2>7. DetachedClosed'
    BY <1>1, <1>2, <2>4 DEF WorkersOK, DetachedClosed
  <2>8. OldWorkersClosed'
    BY <1>1, <2>1, <2>3, <2>4 DEF OldWorkersClosed
  <2>9. SpawnedCounted'
    BY <1>1, <1>2, <1>4, <2>1, <2>2 DEF WorkersOK, SpawnedCounted, InRun
  <2>10. StatusOfLast'
    BY <1>1, <1>2 DEF WorkersOK, StatusOfLast
  <2> QED
    BY <2>5, <2>6, <2>7, <2>8, <2>9, <2>10 DEF WorkersOK
<1> QED
  BY <1>3, <1>4 DEF WorkerInit, InRun

\* Only the last worker can still be connecting.
LEMMA OnConnectedWorkers ==
  ASSUME IInv, NEW g \in Workers, OnConnected(g)
  PROVE  WorkersOK'
<1>1. /\ UNCHANGED <<wpc, gen, joinable, unloaded, spawns>>
      /\ wpc[g] = "loop" /\ attempt = "ok" /\ attempt' = "none" /\ count' = 1 /\ status' = 1
      /\ connected' = connected \cup {g}
  BY DEF OnConnected, InLoop, callVars, threadVars
<1>2. WorkersOK
  BY DEF IInv
<1>3. InRun(g) /\ ~Detached /\ g = gen
  BY <1>1, <1>2 DEF WorkersOK, DetachedClosed, OldWorkersClosed, InRun
<1>4. \A h \in Workers : InRun(h) => h = g
  BY <1>2, <1>3 DEF WorkersOK, OneRunner
<1>5. Unstarted' /\ OneRunner'
  BY <1>1, <1>2 DEF WorkersOK, Unstarted, OneRunner, InRun
<1>6. DetachedClosed' /\ OldWorkersClosed'
  BY <1>1, <1>2, <1>3, <1>4 DEF WorkersOK, DetachedClosed, OldWorkersClosed, Detached, InRun
<1>7. SpawnedCounted'
  BY <1>1, <1>2 DEF WorkersOK, SpawnedCounted
<1>8. StatusOfLast'
  BY <1>1, <1>3 DEF StatusOfLast
<1> QED
  BY <1>5, <1>6, <1>7, <1>8 DEF WorkersOK

\* A worker that starts the service has counted no attempt yet, so it has not
\* started it before.
LEMMA OnConnectFailedWorkers ==
  ASSUME IInv, NEW g \in Workers, OnConnectFailed(g)
  PROVE  WorkersOK'
<1>1. /\ UNCHANGED <<gen, joinable, unloaded, count, status, connected>>
      /\ wpc[g] = "loop" /\ attempt = "err" /\ attempt' = "none"
      /\ \/ spawns' = spawns
         \/ count = 0 /\ spawns' = [spawns EXCEPT ![g] = @ + 1]
      /\ wpc' = wpc \/ wpc' = [wpc EXCEPT ![g] = "sleep"]
  BY DEF OnConnectFailed, InLoop, callVars, threadVars, semVars
<1>2. /\ WorkersOK /\ spawns \in [Workers -> Nat] /\ count \in Nat
      /\ wpc \in [Workers -> {"none", "init", "loop", "sleep", "done"}]
  BY AnpcClientAssumption DEF IInv, TypeOK, CountBound
<1>3. InRun(g) /\ ~Detached /\ g = gen
  BY <1>1, <1>2 DEF WorkersOK, DetachedClosed, OldWorkersClosed, InRun
<1>4. \A h \in Workers : InRun(h) => h = g
  BY <1>2, <1>3 DEF WorkersOK, OneRunner
<1>5. \A h \in Workers :
        /\ h # g => wpc'[h] = wpc[h] /\ spawns'[h] = spawns[h]
        /\ wpc'[g] \in {"loop", "sleep"}
  BY <1>1, <1>2
<1>6. spawns'[g] <= 1
  BY <1>1, <1>2 DEF WorkersOK, SpawnedCounted
<1>7. \A h \in Workers : InRun(h)' => h = g
  BY <1>4, <1>5 DEF InRun
<1>8. Unstarted'
  BY <1>1, <1>2, <1>3, <1>5 DEF WorkersOK, Unstarted
<1>9. OneRunner'
  BY <1>7 DEF OneRunner
<1>10. DetachedClosed' /\ OldWorkersClosed'
  BY <1>1, <1>2, <1>3, <1>7 DEF WorkersOK, DetachedClosed, OldWorkersClosed, Detached
<1>11. SpawnedCounted'
  BY <1>1, <1>2, <1>5, <1>6 DEF WorkersOK, SpawnedCounted
<1>12. StatusOfLast'
  BY <1>1, <1>2 DEF WorkersOK, StatusOfLast
<1> QED
  BY <1>8, <1>9, <1>10, <1>11, <1>12 DEF WorkersOK

\* Each further attempt is counted.
LEMMA ReconnectWorkers ==
  ASSUME IInv, NEW g \in Workers, Reconnect(g)
  PROVE  WorkersOK'
<1>1. /\ UNCHANGED <<gen, joinable, unloaded, connected, spawns>>
      /\ wpc[g] = "sleep" /\ wpc' = [wpc EXCEPT ![g] = "loop"]
      /\ status' = status \/ status' = 2
  BY DEF Reconnect, SignalOnce, callVars, threadVars, histVars
<1>2. /\ WorkersOK /\ count' > 0
      /\ wpc \in [Workers -> {"none", "init", "loop", "sleep", "done"}]
  BY SignalOnceType DEF IInv, TypeOK, Reconnect
<1>3. InRun(g) /\ ~Detached /\ g = gen
  BY <1>1, <1>2 DEF WorkersOK, OldWorkersClosed, InRun
<1>4. \A h \in Workers : InRun(h) => h = g
  BY <1>2, <1>3 DEF WorkersOK, OneRunner
<1>5. \A h \in Workers : wpc'[h] = IF h = g THEN "loop" ELSE wpc[h]
  BY <1>1, <1>2
<1>6. \A h \in Workers : InRun(h)' => h = g
  BY <1>4, <1>5 DEF InRun
<1>7. Unstarted'
  BY <1>1, <1>2, <1>3, <1>5 DEF WorkersOK, Unstarted
<1>8. OneRunner'
  BY <1>6 DEF OneRunner
<1>9. DetachedClosed' /\ OldWorkersClosed'
  BY <1>1, <1>2, <1>3, <1>6 DEF WorkersOK, DetachedClosed, OldWorkersClosed, Detached
<1>10. SpawnedCounted'
  BY <1>1, <1>2 DEF WorkersOK, SpawnedCounted
<1>11. StatusOfLast'
  BY <1>1, <1>2 DEF WorkersOK, StatusOfLast
<1> QED
  BY <1>7, <1>8, <1>9, <1>10, <1>11 DEF WorkersOK

\* on_close detaches the thread of the last worker, when its pipe is closed.
LEMMA OnCloseWorkers ==
  ASSUME IInv, NEW g \in Workers, OnEof(g) \/ OnClose(g)
  PROVE  WorkersOK'
<1>1. /\ UNCHANGED <<wpc, gen, unloaded, attempt, count, status, connected, spawns>>
      /\ wpc[g] = "loop" /\ pipe \in {"open", "closing", "stopping"}
  BY DEF OnEof, OnClose, InLoop, callVars, threadVars, semVars, histVars
<1>2. WorkersOK
  BY DEF IInv
<1>3. InRun(g) /\ ~Detached /\ g = gen
  BY <1>1, <1>2 DEF WorkersOK, OldWorkersClosed, InRun
<1>4. \A h \in Workers : InRun(h) => h = g
  BY <1>2, <1>3 DEF WorkersOK, OneRunner
<1>5. \A h \in Workers : wpc[h] # "init"
  BY <1>1, <1>2, <1>3 DEF WorkersOK, Unstarted
<1>6. CASE OnEof(g)
  <2>1. joinable' = joinable
    BY <1>6 DEF OnEof, threadVars
  <2>2. DetachedClosed' /\ OldWorkersClosed'
    BY <1>1, <1>2, <1>3, <1>4, <2>1
       DEF WorkersOK, DetachedClosed, OldWorkersClosed, Detached, InRun
  <2> QED
    BY <1>1, <1>2, <2>1, <2>2
       DEF WorkersOK, Unstarted, OneRunner, InRun, SpawnedCounted, StatusOfLast
<1>7. CASE OnClose(g)
  <2>1. /\ attempt = "none" /\ pipe' = "closed"
        /\ joinable' = joinable \/ ~joinable'
    BY <1>7 DEF OnClose
  <2>2. joinable \/ unloaded
    BY <1>3 DEF Detached
  <2>3. gen > 0
    BY <1>1, <1>2, <1>3 DEF Workers
  <2>4. DetachedClosed' /\ OldWorkersClosed'
    BY <1>1, <1>2, <1>3, <1>4, <2>1, <2>3
       DEF WorkersOK, DetachedClosed, OldWorkersClosed, Detached, InRun
  <2>5. Unstarted'
    BY <1>1, <1>2, <1>5, <2>1 DEF WorkersOK, Unstarted
  <2> QED
    BY <1>1, <1>2, <2>1, <2>4, <2>5
       DEF WorkersOK, OneRunner, InRun, SpawnedCounted, StatusOfLast
<1> QED
  BY <1>6, <1>7

LEMMA EndIterationWorkers ==
  ASSUME IInv, NEW g \in Workers, EndIteration(g)
  PROVE  WorkersOK'
<1>1. /\ UNCHANGED <<gen, joinable, unloaded, pipe, attempt, count, status, connected, spawns>>
      /\ wpc[g] = "loop" /\ (wpc' = wpc \/ wpc' = [wpc EXCEPT ![g] = "done"])
  BY DEF EndIteration, InLoop, callVars, threadVars, semVars, histVars
<1>2. /\ WorkersOK
      /\ wpc \in [Workers -> {"none", "init", "loop", "sleep", "done"}]
  BY DEF IInv, TypeOK
<1>3. CASE wpc' = wpc
  BY <1>1, <1>2, <1>3, WorkersUnchanged DEF workersVars
<1>4. CASE wpc' = [wpc EXCEPT ![g] = "done"]
  <2>1. \A h \in Workers : wpc'[h] = IF h = g THEN "done" ELSE wpc[h]
    BY <1>2, <1>4
  <2>2. \A h \in Workers : InRun(h)' => InRun(h) /\ wpc'[h] = wpc[h]
    BY <2>1 DEF InRun
  <2>3. Unstarted'
    BY <1>1, <1>2, <2>1 DEF WorkersOK, Unstarted
  <2>4. OneRunner'
    BY <1>2, <2>2 DEF WorkersOK, OneRunner
  <2>5. DetachedClosed' /\ StatusOfLast'
    BY <1>1, <1>2 DEF WorkersOK, DetachedClosed, Detached, StatusOfLast
  <2>6. OldWorkersClosed'
    BY <1>1, <1>2, <2>2 DEF WorkersOK, OldWorkersClosed, Detached
  <2>7. SpawnedCounted'
    BY <1>1, <1>2, <2>1 DEF WorkersOK, SpawnedCounted
  <2> QED
    BY <2>3, <2>4, <2>5, <2>6, <2>7 DEF WorkersOK
<1> QED
  BY <1>1, <1>3, <1>4

\* An attempt that ends was counted when it began; neither a detached worker nor an
\* older one is connecting.
LEMMA ConnectThreadWorkers ==
  ASSUME IInv, ConnectThread
  PROVE  WorkersOK'
<1>1. /\ UNCHANGED <<wpc, gen, joinable, unloaded, pipe, count, status, connected, spawns>>
      /\ attempt = "busy"
  BY DEF ConnectThread, callVars, threadVars, semVars, histVars
<1>2. WorkersOK
  BY DEF IInv
<1>3. Unstarted' /\ OneRunner' /\ StatusOfLast'
  BY <1>1, <1>2 DEF WorkersOK, Unstarted, OneRunner, InRun, StatusOfLast
<1>4. DetachedClosed'
  BY <1>1, <1>2 DEF WorkersOK, DetachedClosed, Detached
<1>5. OldWorkersClosed'
  BY <1>1, <1>2 DEF WorkersOK, OldWorkersClosed, InRun, Detached
<1>6. SpawnedCounted'
  BY <1>1, <1>2 DEF WorkersOK, SpawnedCounted
<1> QED
  BY <1>3, <1>4, <1>5, <1>6 DEF WorkersOK

LEMMA StepWorkers ==
  ASSUME IInv, [Next]_vars
  PROVE  WorkersOK'
<1>1. WorkersOK /\ (UNCHANGED workersVars => WorkersOK')
  BY WorkersUnchanged DEF IInv
<1>2. ASSUME NEW c \in Callers,
             \/ Create(c) \/ SendCheck(c) \/ SendPost(c)
             \/ RunJoinable(c) \/ RunStarted(c) \/ RunWait(c) \/ RunWoken(c) \/ RunResult(c)
      PROVE  WorkersOK'
  BY <1>1, <1>2 DEF Create, SendCheck, SendPost, RunJoinable, RunStarted, RunWait, RunWoken,
                    RunResult, workersVars, threadVars, semVars, histVars
<1>3. ASSUME NEW c \in Callers, RunStart(c) \/ Stop(c) \/ StopClose(c) \/ StopDetach(c)
      PROVE  WorkersOK'
  BY <1>3, RunStartWorkers, StopWorkers
<1>4. ASSUME NEW g \in Workers, OnSendCmd(g) \/ OnRead(g) \/ OnReadPart(g)
      PROVE  WorkersOK'
  BY <1>1, <1>4 DEF OnSendCmd, OnRead, OnReadPart, workersVars, callVars, threadVars, semVars,
                    histVars
<1>5. ASSUME NEW g \in Workers,
             \/ WorkerInit(g) \/ OnConnected(g) \/ OnConnectFailed(g) \/ Reconnect(g)
             \/ OnEof(g) \/ OnClose(g) \/ EndIteration(g)
      PROVE  WorkersOK'
  BY <1>5, WorkerInitWorkers, OnConnectedWorkers, OnConnectFailedWorkers, ReconnectWorkers,
     OnCloseWorkers, EndIterationWorkers
<1>6. CASE ServerUp \/ ServerDown \/ ServerResult
  BY <1>1, <1>6 DEF ServerUp, ServerDown, ServerResult, workersVars, callVars, threadVars,
                    semVars, histVars
<1>7. CASE UNCHANGED vars
  BY <1>1, <1>7 DEF vars, workersVars, callVars, threadVars, semVars, histVars
<1>8. CASE ConnectThread
  BY <1>8, ConnectThreadWorkers
<1> QED
  BY <1>2, <1>3, <1>4, <1>5, <1>6, <1>7, <1>8 DEF Next, Call, Run, Worker

-----------------------------------------------------------------------------
(* The commands. *)

LEMMA StepCommands ==
  ASSUME IInv, [Next]_vars
  PROVE  CommandsInOrder'
<1>1. CommandsInOrder /\ CallersAt /\ TypeOK
  BY DEF IInv
<1>2. asyncs \in Seq(1..cmds) /\ written \in Seq(1..cmds) /\ cmds \in Nat
  BY AnpcClientAssumption DEF IInv, TypeOK
<1>3. CASE UNCHANGED <<asyncs, written>>
  BY <1>1, <1>3 DEF CommandsInOrder
<1>4. ASSUME NEW c \in Callers, SendPost(c)
      PROVE  CommandsInOrder'
  <2>1. asyncs' = Append(asyncs, cmds + 1) /\ written' = written
    BY <1>4 DEF SendPost, histVars
  <2> QED
    BY <1>1, <1>2, <2>1, AppendAscending, BeforeAppend DEF CommandsInOrder
<1>5. ASSUME NEW g \in Workers, WorkerInit(g)
      PROVE  CommandsInOrder'
  <2>1. written' = written /\ (asyncs' = asyncs \/ asyncs' = <<>>)
    BY <1>5 DEF WorkerInit, histVars, loopVars
  <2> QED
    BY <1>1, <2>1 DEF CommandsInOrder, Ascending, Before
<1>6. ASSUME NEW g \in Workers, OnSendCmd(g)
      PROVE  CommandsInOrder'
  <2>1. /\ asyncs # <<>> /\ asyncs' = Tail(asyncs)
        /\ written' = Append(written, Head(asyncs)) \/ written' = written
    BY <1>6 DEF OnSendCmd
  <2>2. CASE written' = Append(written, Head(asyncs))
    BY <1>1, <1>2, <2>1, <2>2, MoveInOrder, TailAscending DEF CommandsInOrder
  <2>3. CASE written' = written
    BY <1>1, <1>2, <2>1, <2>3, TailAscending, BeforeTail DEF CommandsInOrder
  <2> QED
    BY <2>1, <2>2, <2>3
<1>7. ASSUME NEW c \in Callers, Create(c) \/ SendCheck(c) \/ Stop(c) \/ Run(c)
                                  \/ StopClose(c) \/ StopDetach(c)
      PROVE  CommandsInOrder'
  BY <1>3, <1>7 DEF Create, SendCheck, Stop, Run, RunJoinable, RunStart, RunStarted, RunWait,
                    RunWoken, RunResult, StopClose, StopDetach, loopVars, histVars
<1>8. ASSUME NEW g \in Workers, \/ OnConnected(g) \/ OnConnectFailed(g) \/ Reconnect(g)
                                \/ OnRead(g) \/ OnReadPart(g) \/ OnEof(g) \/ OnClose(g)
                                \/ EndIteration(g)
      PROVE  CommandsInOrder'
  BY <1>3, <1>8 DEF OnConnected, OnConnectFailed, Reconnect, OnRead, OnReadPart,
                    OnEof, OnClose, EndIteration, loopVars, histVars
<1>9. CASE ConnectThread \/ ServerUp \/ ServerDown \/ ServerResult \/ UNCHANGED vars
  BY <1>3, <1>9 DEF ConnectThread, ServerUp, ServerDown, ServerResult, vars, loopVars, histVars
<1> QED
  BY <1>4, <1>5, <1>6, <1>7, <1>8, <1>9 DEF Next, Call, Worker

-----------------------------------------------------------------------------
(* The theorems. *)

LEMMA IInvAlways == Spec => []IInv
<1>1. Init => IInv
  BY InitIInv
<1>2. IInv /\ [Next]_vars => IInv'
  BY StepTypeOK, StepCallers, StepWorkers, StepCommands DEF IInv
<1> QED
  BY <1>1, <1>2, PTL DEF Spec

\* The state of the client has its type: however calls, workers and the service
\* interleave, no more workers are started than there were calls of
\* anpc_create_ipc, and what is posted and written are commands that were accepted.
THEOREM TypeCorrect == Spec => []TypeOK
<1>1. IInv => TypeOK
  BY DEF IInv
<1> QED
  BY <1>1, IInvAlways, PTL

\* CanIPC::run reports no connection but that of the worker it started, and a worker
\* with a connection is still joinable, so that the next run does not start another.
THEOREM ToldOfOwn == Spec => []ToldOfOwnConnection
<1>1. IInv => ToldOfOwnConnection
  BY DEF IInv, WorkersOK, StatusOfLast, DetachedClosed, Detached, ToldOfOwnConnection
<1> QED
  BY <1>1, IInvAlways, PTL

\* on_connect starts the service once per worker, whatever the number of attempts:
\* the wait is not reset while a worker that has started it is still connecting.
THEOREM SpawnedOnce == Spec => []SpawnsOnce
<1>1. IInv => SpawnsOnce
  BY DEF IInv, WorkersOK, SpawnedCounted, SpawnsOnce
<1> QED
  BY <1>1, IInvAlways, PTL

\* sendcmd and on_send_cmd keep the order of the commands, for any number of callers,
\* workers and connections.
THEOREM CommandsWrittenInOrder == Spec => []WrittenInOrder
<1>1. IInv => WrittenInOrder
  BY DEF IInv, CommandsInOrder, Ascending, WrittenInOrder
<1> QED
  BY <1>1, IInvAlways, PTL

=============================================================================
