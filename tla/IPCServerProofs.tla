--------------------------- MODULE IPCServerProofs ---------------------------
(***************************************************************************)
(* Theorems about IPCServer, for every set of connections and addresses    *)
(* and every bound: which pipe a reply goes to, what s_client_vector       *)
(* names, what becomes of a notice: a broadcast leaves nobody out, no      *)
(* notice is lost while no client leaves, and each is in one place at a    *)
(* time; and that replies keep the order of their requests.                *)
(***************************************************************************)
EXTENDS IPCServer, TLAPS

\* The pipe at address a is c's, or c has no pipe any more: a reply to c that is
\* sent to a goes to c, or to whoever got the memory of c's pipe.
Mine(c, a) == pipe[a].conn = c \/ \A b \in Addrs : pipe[b].conn # c

\* c has been accepted: it can get no second pipe.
Accepted(c) == link[c] \in {"up", "down"}

Asked(c, a) == c \in Conns /\ Accepted(c) /\ Mine(c, a)

\* A connection has one pipe, and an accepted peer.
PipesOK ==
  /\ \A a \in Addrs : pipe[a].st = "free" <=> pipe[a].conn = Null
  /\ \A a \in Addrs : pipe[a].conn # Null => Accepted(pipe[a].conn)
  /\ \A a, b \in Addrs : pipe[a].conn = pipe[b].conn /\ pipe[a].conn # Null => a = b

\* A request is in the inbox of the connection that sent it.
InboxOK == \A k \in Conns : \A i \in 1..Len(inbox[k]) : inbox[k][i].conn = k

QueuedOK == \A i \in 1..Len(queued) : Asked(queued[i].req.conn, queued[i].addr)

NoticeOK(n) ==
  IF n.addr = Null THEN n.req = NoRequest ELSE n.req \in Request /\ Asked(n.req.conn, n.addr)

IocpOK == \A i \in 1..Len(iocp) : iocp[i].kind = "async" => NoticeOK(iocp[i].notice)
PendingOK == \A i \in 1..Len(pending) : pending[i].kind = "async" => NoticeOK(pending[i].notice)
WqOK == \A a \in Addrs : \A i \in 1..Len(wq[a]) :
          wq[a][i].req = NoRequest \/ Asked(wq[a][i].req.conn, a)

\* A reply was written to its asker, or its asker has no pipe any more.
Owed(c, k) == c \in Conns /\ Accepted(c) /\ (c = k \/ \A a \in Addrs : pipe[a].conn # c)
DeliveredOK == \A k \in Conns : \A i \in 1..Len(delivered[k]) : Owed(delivered[k][i].conn, k)

\* The inductive invariant: everything that will become a reply names a pipe its
\* asker still has, or an asker that has no pipe and can get none.
IInv ==
  /\ TypeOK /\ PipesOK /\ InboxOK /\ QueuedOK /\ IocpOK /\ PendingOK /\ WqOK /\ DeliveredOK

-----------------------------------------------------------------------------
(* Sequences. *)

LEMMA AppendProperties ==
  ASSUME NEW S, NEW q \in Seq(S), NEW x \in S
  PROVE  /\ Append(q, x) \in Seq(S)
         /\ Len(Append(q, x)) = Len(q) + 1
         /\ \A i \in 1..Len(q) : Append(q, x)[i] = q[i]
         /\ Append(q, x)[Len(q) + 1] = x
  OBVIOUS

LEMMA TailProperties ==
  ASSUME NEW S, NEW q \in Seq(S), q # <<>>
  PROVE  /\ Tail(q) \in Seq(S) /\ Head(q) \in S /\ Head(q) = q[1]
         /\ Len(q) \in Nat \ {0} /\ Len(Tail(q)) = Len(q) - 1
         /\ \A i \in 1..Len(Tail(q)) : Tail(q)[i] = q[i + 1]
  OBVIOUS

LEMMA ElementType ==
  ASSUME NEW S, NEW q \in Seq(S), NEW i \in 1..Len(q)
  PROVE  q[i] \in S
  OBVIOUS

LEMMA AppendElements ==
  ASSUME NEW S, NEW q \in Seq(S), NEW x \in S, NEW p, p = Append(q, x)
  PROVE  \A i \in 1..Len(p) : p[i] = x \/ (i \in 1..Len(q) /\ p[i] = q[i])
  OBVIOUS

-----------------------------------------------------------------------------
(* Which step changes what. *)

LEMMA InitIInv == Init => IInv
<1> SUFFICES ASSUME Init PROVE IInv
  OBVIOUS
<1>1. TypeOK
  <2>1. sent \in 0..MaxReqs /\ events \in 0..MaxEvents /\ notices \in Nat
    <3>1. sent = 0 /\ events = 0 /\ notices = 0
      BY DEF Init
    <3> QED
      BY <3>1, IPCServerAssumption
  <2>5. /\ exiting \subseteq Conns /\ freed \subseteq Nat /\ leaked \subseteq Nat
        /\ listen \in {"open", "closing", "closed"} /\ stopFlag \in BOOLEAN
        /\ lpc \in {"process", "poll", "endgame", "ended", "crashed"}
    BY DEF Init
  <2>2. /\ link \in [Conns -> {"idle", "waiting", "up", "down"}]
        /\ pipe \in [Addrs -> [st : {"free", "open", "closing"}, conn : Conns \cup {Null}]]
    BY DEF Init
  <2>3. /\ inbox \in [Conns -> Seq(Request)] /\ delivered \in [Conns -> Seq(Request)]
        /\ wq \in [Addrs -> Seq(NoticeRec)]
    BY DEF Init
  <2>4. /\ slots \in Seq(Addrs \cup {Null}) /\ queued \in Seq(Command)
        /\ iocp \in Seq(Completion) /\ pending \in Seq(Completion)
    BY DEF Init
  <2> QED
    BY <2>1, <2>2, <2>3, <2>4, <2>5 DEF TypeOK
<1>2. PipesOK /\ InboxOK /\ QueuedOK /\ IocpOK /\ PendingOK /\ WqOK /\ DeliveredOK
  BY DEF Init, PipesOK, InboxOK, QueuedOK, IocpOK, PendingOK, WqOK, DeliveredOK
<1> QED
  BY <1>1, <1>2 DEF IInv

\* The steps that touch the pipes or the clients' ends of them.
PipeStep ==
  \/ \E k \in Conns : Connect(k) \/ Disconnect(k)
  \/ \E k \in Conns, a \in Addrs : OnNewConnection(k, a)
  \/ \E a \in Addrs : OnEof(a)
  \/ Endgames

LEMMA OtherSteps ==
  ASSUME [Next]_vars
  PROVE  PipeStep \/ UNCHANGED <<link, pipe>>
<1>1. CASE UNCHANGED vars
  BY <1>1 DEF vars, peerVars, pipeVars
<1>2. ASSUME NEW k \in Conns, NEW info \in BOOLEAN, SendRequest(k, info) PROVE UNCHANGED <<link, pipe>>
  BY <1>2 DEF SendRequest, pipeVars
<1>3. ASSUME NEW exit \in BOOLEAN, ExecReply(exit) PROVE UNCHANGED <<link, pipe>>
  BY <1>3 DEF ExecReply, pipeVars, peerVars
<1>4. CASE ExecEvent
  BY <1>4 DEF ExecEvent, pipeVars, peerVars
<1>5. ASSUME NEW a \in Addrs, NEW n \in 1..MaxRead, OnRead(a, n) PROVE UNCHANGED <<link, pipe>>
  BY <1>5 DEF OnRead, pipeVars
<1>6. CASE OnNotify
  BY <1>6 DEF OnNotify, OnReply, OnReplyCrash, OnEvent, pipeVars, peerVars
<1>7. CASE OnWrite
  BY <1>7 DEF OnWrite, OnWriteFailed, OnWritten, pipeVars, peerVars
<1>8. CASE ProcessDone \/ Poll
  BY <1>8 DEF ProcessDone, Poll, pipeVars, peerVars
<1>9. ASSUME NEW a \in Addrs, IoComplete(a) PROVE UNCHANGED <<link, pipe>>
  BY <1>9 DEF IoComplete, pipeVars, peerVars
<1> QED
  BY <1>1, <1>2, <1>3, <1>4, <1>5, <1>6, <1>7, <1>8, <1>9
  DEF Next, Peers, Threads, PipeCallbacks, PipeStep

\* What was asked for stays asked for, and what is owed stays owed.
LEMMA Stable ==
  ASSUME IInv, [Next]_vars
  PROVE  /\ PipesOK'
         /\ \A c \in Conns : Accepted(c) => Accepted(c)'
         /\ \A c, a : a \in Addrs /\ Asked(c, a) => Asked(c, a)'
         /\ \A c, k : Owed(c, k) => Owed(c, k)'
<1> USE IPCServerAssumption
<1> DEFINE Goal == /\ PipesOK'
                   /\ \A c \in Conns : Accepted(c) => Accepted(c)'
                   /\ \A c, a : a \in Addrs /\ Asked(c, a) => Asked(c, a)'
                   /\ \A c, k : Owed(c, k) => Owed(c, k)'
<1>0. /\ PipesOK
      /\ link \in [Conns -> {"idle", "waiting", "up", "down"}]
      /\ pipe \in [Addrs -> [st : {"free", "open", "closing"}, conn : Conns \cup {Null}]]
  BY DEF IInv, TypeOK
<1>1. CASE UNCHANGED <<link, pipe>>
  BY <1>0, <1>1 DEF PipesOK, Asked, Accepted, Mine, Owed
<1>2. ASSUME NEW k \in Conns, Connect(k) \/ Disconnect(k) PROVE Goal
  <2>1. pipe' = pipe /\ \A c \in Conns : Accepted(c) => Accepted(c)'
    BY <1>0, <1>2 DEF Connect, Disconnect, pipeVars, Accepted
  <2> QED
    BY <1>0, <2>1 DEF PipesOK, Asked, Mine, Owed
<1>3. ASSUME NEW k \in Conns, NEW a \in Addrs, OnNewConnection(k, a) PROVE Goal
  <2>1. /\ \A c \in Conns : Accepted(c) => Accepted(c)' /\ c # k
        /\ Accepted(k)'
    BY <1>0, <1>3 DEF OnNewConnection, Accepted
  <2>2. /\ pipe'[a] = [st |-> "open", conn |-> k]
        /\ \A b \in Addrs \ {a} : pipe'[b] = pipe[b]
        /\ pipe[a].conn = Null
    BY <1>0, <1>3 DEF OnNewConnection, PipesOK
  <2>3. \A b \in Addrs : pipe[b].conn # k
    BY <1>0, <2>1 DEF PipesOK
  <2>4. PipesOK'
    BY <1>0, <2>1, <2>2, <2>3 DEF PipesOK
  <2>5. ASSUME NEW c \in Conns, Accepted(c), NEW b \in Addrs, Mine(c, b) PROVE Mine(c, b)'
    BY <2>1, <2>2, <2>5 DEF Mine
  <2> QED
    BY <2>1, <2>2, <2>4, <2>5 DEF Asked, Owed
<1>4. ASSUME NEW a \in Addrs, OnEof(a) PROVE Goal
  <2>1. /\ UNCHANGED link
        /\ \A b \in Addrs : pipe'[b].conn = pipe[b].conn /\ (pipe'[b].st = "free" <=> pipe[b].st = "free")
    BY <1>0, <1>4 DEF OnEof, peerVars
  <2> QED
    BY <1>0, <2>1 DEF PipesOK, Asked, Accepted, Mine, Owed
<1>5. CASE Endgames
  <2>1. /\ UNCHANGED link
        /\ \A b \in Addrs : pipe'[b] = pipe[b] \/ (pipe'[b].conn = Null /\ pipe'[b].st = "free")
    BY <1>5 DEF Endgames, peerVars
  <2>2. PipesOK'
    BY <1>0, <2>1 DEF PipesOK, Accepted
  <2>3. ASSUME NEW c \in Conns, NEW b \in Addrs, Mine(c, b) PROVE Mine(c, b)'
    BY <1>0, <2>1, <2>3 DEF PipesOK, Mine
  <2> QED
    BY <2>1, <2>2, <2>3 DEF Asked, Accepted, Owed
<1> QED
  BY <1>1, <1>2, <1>3, <1>4, <1>5, OtherSteps DEF PipeStep

-----------------------------------------------------------------------------
(* Type correctness. *)

\* What send_notify does to the writes, and the types it keeps.
LEMMA SendNotifyEffect ==
  ASSUME TypeOK, NEW T, \A t \in T : t[1] \in NoticeRec /\ t[2] \in Addrs,
         NEW lost \in SUBSET Nat, NEW used \in SUBSET Nat, SendNotify(T, lost, used)
  PROVE  /\ \A a \in Addrs : \/ wq'[a] = wq[a]
                             \/ \E t \in T : t[2] = a /\ wq'[a] = Append(wq[a], t[1])
         /\ wq' \in [Addrs -> Seq(NoticeRec)]
         /\ leaked' \subseteq Nat /\ freed' \subseteq Nat
<1> DEFINE Open == {t \in T : pipe[t[2]].st = "open"}
<1>1. PICK F \in SUBSET {t \in Open : link[pipe[t[2]].conn] = "down"} :
        /\ wq' = [a \in Addrs |->
                    IF \E t \in Open \ F : t[2] = a
                      THEN Append(wq[a], (CHOOSE t \in Open \ F : t[2] = a)[1])
                      ELSE wq[a]]
        /\ leaked' = leaked \cup lost \cup {t[1].id : t \in T \ Open}
        /\ freed' = freed \cup used \cup {t[1].id : t \in F}
  BY DEF SendNotify
<1>2. \A t \in T : t[1].id \in Nat
  BY DEF NoticeRec
<1>3. leaked' \subseteq Nat /\ freed' \subseteq Nat
  <2>1. {t[1].id : t \in T \ Open} \subseteq Nat /\ {t[1].id : t \in F} \subseteq Nat
    BY <1>2
  <2>2. leaked \subseteq Nat /\ freed \subseteq Nat
    BY DEF TypeOK
  <2> HIDE DEF Open
  <2> QED
    BY <1>1, <2>1, <2>2
<1>4. ASSUME NEW a \in Addrs
      PROVE  \/ wq'[a] = wq[a]
             \/ \E t \in T : t[2] = a /\ wq'[a] = Append(wq[a], t[1])
  <2>1. CASE \E t \in Open \ F : t[2] = a
    <3> DEFINE u == CHOOSE t \in Open \ F : t[2] = a
    <3>1. u \in Open \ F /\ u[2] = a
      BY <2>1
    <3>2. wq'[a] = Append(wq[a], u[1])
      BY <1>1, <2>1
    <3> QED
      BY <3>1, <3>2
  <2>2. CASE ~ \E t \in Open \ F : t[2] = a
    BY <1>1, <2>2
  <2> QED
    BY <2>1, <2>2
<1>5. ASSUME NEW a \in Addrs PROVE wq'[a] \in Seq(NoticeRec)
  <2>1. wq[a] \in Seq(NoticeRec)
    BY DEF TypeOK
  <2>2. \A t \in T : t[1] \in NoticeRec /\ Append(wq[a], t[1]) \in Seq(NoticeRec)
    BY <2>1, AppendProperties
  <2> QED
    BY <1>4, <2>1, <2>2
<1>6. wq' \in [Addrs -> Seq(NoticeRec)]
  BY <1>1, <1>5
<1> QED
  BY <1>3, <1>4, <1>6

\* The notice at the head of the completions being processed.
LEMMA HeadType ==
  ASSUME TypeOK, pending # <<>>
  PROVE  /\ Head(pending) \in Completion /\ Tail(pending) \in Seq(Completion)
         /\ Head(pending).notice \in NoticeRec /\ Head(pending).addr \in Addrs \cup {Null}
         /\ Head(pending).notice.id \in Nat
         /\ Head(pending).notice.addr \in Addrs \cup {Null}
         /\ Head(pending).notice.req \in Request \cup {NoRequest}
<1>1. Head(pending) \in Completion /\ Tail(pending) \in Seq(Completion)
  BY TailProperties DEF TypeOK
<1> QED
  BY <1>1 DEF Completion, NoticeRec

LEMMA PostNoticeType ==
  ASSUME TypeOK, NEW n, n.id = notices + 1, n \in NoticeRec, PostNotice(n)
  PROVE  /\ notices' \in Nat /\ iocp' \in Seq(Completion)
         /\ iocp' = Append(iocp, [kind |-> "async", notice |-> n, addr |-> Null, ok |-> TRUE])
  BY DEF TypeOK, PostNotice, Completion

LEMMA NoticeType ==
  ASSUME TypeOK, NEW r \in Request \cup {NoRequest}, NEW a \in Addrs \cup {Null}, NEW e \in BOOLEAN
  PROVE  /\ Notice(r, a, e) \in NoticeRec /\ Notice(r, a, e).id = notices + 1
         /\ Notice(r, a, e).req = r /\ Notice(r, a, e).addr = a
  BY DEF TypeOK, Notice, NoticeRec

LEMMA StepTypeOK ==
  ASSUME TypeOK, PipesOK, [Next]_vars
  PROVE  TypeOK'
<1> USE IPCServerAssumption
<1> USE DEF peerVars, pipeVars, execVars, noticeVars, ioVars, loopVars
<1>1. CASE UNCHANGED vars
  BY <1>1 DEF TypeOK, vars
<1>2. ASSUME NEW k \in Conns, Connect(k) \/ Disconnect(k) PROVE TypeOK'
  <2>1. link' \in [Conns -> {"idle", "waiting", "up", "down"}]
    BY <1>2 DEF TypeOK, Connect, Disconnect
  <2> QED
    BY <1>2, <2>1 DEF TypeOK, Connect, Disconnect
<1>3. ASSUME NEW k \in Conns, NEW info \in BOOLEAN, SendRequest(k, info) PROVE TypeOK'
  <2>1. sent' \in 0..MaxReqs /\ sent + 1 \in 1..MaxReqs
    BY <1>3 DEF TypeOK, SendRequest
  <2>2. [id |-> sent + 1, conn |-> k, info |-> info] \in Request
    BY <2>1 DEF Request
  <2>3. inbox' \in [Conns -> Seq(Request)]
    BY <1>3, <2>2, AppendProperties DEF TypeOK, SendRequest
  <2> QED
    BY <1>3, <2>1, <2>3 DEF TypeOK, SendRequest
<1>4. ASSUME NEW exit \in BOOLEAN, ExecReply(exit) PROVE TypeOK'
  <2>1. /\ Head(queued).req \in Request /\ Head(queued).addr \in Addrs
        /\ queued' \in Seq(Command)
    <3>1. queued # <<>> /\ queued' = Tail(queued)
      BY <1>4 DEF ExecReply
    <3>2. queued \in Seq(Command)
      BY DEF TypeOK
    <3>3. /\ Head(queued) \in Command
          /\ Tail(queued) \in Seq(Command)
      BY <3>1, <3>2, TailProperties
    <3> QED
      BY <3>1, <3>3 DEF Command
  <2>2. notices' \in Nat /\ iocp' \in Seq(Completion)
    <3> DEFINE n == Notice(Head(queued).req, Head(queued).addr, exit)
    <3>1. n \in NoticeRec /\ n.id = notices + 1
      <4>1. Head(queued).req \in Request \cup {NoRequest} /\ Head(queued).addr \in Addrs \cup {Null}
        BY <2>1
      <4> QED
        BY <4>1, NoticeType
    <3>2. PostNotice(n)
      BY <1>4 DEF ExecReply
    <3> HIDE DEF n
    <3> QED
      BY <3>1, <3>2, PostNoticeType
  <2>3. exiting' \subseteq Conns
    BY <1>4, <2>1 DEF ExecReply, TypeOK, Request
  <2> QED
    BY <1>4, <2>1, <2>2, <2>3 DEF TypeOK, ExecReply
<1>5. CASE ExecEvent
  <2>1. notices' \in Nat /\ iocp' \in Seq(Completion)
    <3> DEFINE n == Notice(NoRequest, Null, FALSE)
    <3>1. n \in NoticeRec /\ n.id = notices + 1
      BY NoticeType
    <3>2. PostNotice(n)
      BY <1>5 DEF ExecEvent
    <3> HIDE DEF n
    <3> QED
      BY <3>1, <3>2, PostNoticeType
  <2>2. events' \in 0..MaxEvents
    BY <1>5 DEF TypeOK, ExecEvent
  <2> QED
    BY <1>5, <2>1, <2>2 DEF TypeOK, ExecEvent
<1>6. ASSUME NEW k \in Conns, NEW a \in Addrs, OnNewConnection(k, a) PROVE TypeOK'
  <2>1. link' \in [Conns -> {"idle", "waiting", "up", "down"}]
    BY <1>6 DEF TypeOK, OnNewConnection
  <2>2. pipe' \in [Addrs -> [st : {"free", "open", "closing"}, conn : Conns \cup {Null}]]
    BY <1>6 DEF TypeOK, OnNewConnection
  <2>3. slots' \in Seq(Addrs \cup {Null})
    BY <1>6, AppendProperties DEF TypeOK, OnNewConnection
  <2> QED
    BY <1>6, <2>1, <2>2, <2>3 DEF TypeOK, OnNewConnection
<1>7. ASSUME NEW a \in Addrs, NEW n \in 1..MaxRead, OnRead(a, n) PROVE TypeOK'
  <2> DEFINE k == pipe[a].conn
             r == Head(inbox[k])
  <2>1. k \in Conns
    BY <1>7 DEF TypeOK, PipesOK, OnRead
  <2>2. inbox[k] \in Seq(Request) /\ inbox[k] # <<>> /\ n \in 1..Len(inbox[k])
    BY <1>7, <2>1 DEF TypeOK, OnRead
  <2>3. r \in Request
    BY <2>2, TailProperties
  <2>4. inbox' \in [Conns -> Seq(Request)]
    <3>1. SubSeq(inbox[k], n + 1, Len(inbox[k])) \in Seq(Request)
      BY <2>2
    <3> QED
      BY <1>7, <3>1 DEF TypeOK, OnRead
  <2>5. CASE r.info
    <3>1. PostNotice(Notice(r, a, FALSE)) /\ UNCHANGED queued
      BY <1>7, <2>5 DEF OnRead
    <3>2. notices' \in Nat /\ iocp' \in Seq(Completion)
      BY <2>3, <3>1, NoticeType, PostNoticeType
    <3> QED
      BY <1>7, <2>4, <3>1, <3>2 DEF TypeOK, OnRead
  <2>6. CASE ~r.info
    <3>1. queued' = Append(queued, [req |-> r, addr |-> a]) /\ UNCHANGED <<notices, iocp>>
      BY <1>7, <2>6 DEF OnRead
    <3>2. [req |-> r, addr |-> a] \in Command
      BY <2>3 DEF Command
    <3>3. queued' \in Seq(Command)
      BY <3>1, <3>2, AppendProperties DEF TypeOK
    <3> QED
      BY <1>7, <2>4, <3>1, <3>3 DEF TypeOK, OnRead
  <2> QED
    BY <2>5, <2>6
<1>8. ASSUME NEW a \in Addrs, OnEof(a) PROVE TypeOK'
  <2>1. pipe' \in [Addrs -> [st : {"free", "open", "closing"}, conn : Conns \cup {Null}]]
    BY <1>8 DEF TypeOK, OnEof
  <2> QED
    BY <1>8, <2>1 DEF TypeOK, OnEof
<1>9. CASE OnReply
  <2> DEFINE n == Head(pending).notice
             T == {<<n, n.addr>>}
  <2>1. pending # <<>> /\ n.addr # Null /\ SendNotify(T, {}, {}) /\ pending' = Tail(pending)
    BY <1>9 DEF OnReply, AtHead
  <2>2. \A t \in T : t[1] \in NoticeRec /\ t[2] \in Addrs
    BY <2>1, HeadType
  <2>3. /\ wq' \in [Addrs -> Seq(NoticeRec)] /\ leaked' \subseteq Nat /\ freed' \subseteq Nat
    <3> HIDE DEF T
    <3> QED
      BY <2>1, <2>2, SendNotifyEffect
  <2> QED
    BY <1>9, <2>1, <2>3, HeadType DEF TypeOK, OnReply
<1>10. CASE OnReplyCrash
  BY <1>10 DEF TypeOK, OnReplyCrash
<1>11. CASE OnEvent
  <2> DEFINE n == Head(pending).notice
             Clone(i) == [n EXCEPT !.id = notices + i]
             T == {<<Clone(i), slots[i]>> : i \in Reached}
             lost == {notices + i : i \in (1..Len(slots)) \ Reached}
  <2>1. /\ pending # <<>> /\ SendNotify(T, lost, {n.id}) /\ pending' = Tail(pending)
        /\ notices' = notices + Len(slots)
    BY <1>11 DEF OnEvent, AtHead
  <2>2. \A i \in Reached : Clone(i) \in NoticeRec /\ slots[i] \in Addrs
    <3>1. \A i \in Reached : i \in Nat /\ slots[i] \in Addrs
      BY DEF Reached, TypeOK
    <3>2. n \in NoticeRec /\ notices \in Nat
      BY <2>1, HeadType DEF TypeOK
    <3> QED
      BY <3>1, <3>2 DEF NoticeRec
  <2>3. \A t \in T : t[1] \in NoticeRec /\ t[2] \in Addrs
    BY <2>2
  <2>4. lost \in SUBSET Nat /\ {n.id} \in SUBSET Nat /\ notices' \in Nat
    <3>1. notices \in Nat /\ Len(slots) \in Nat
      BY DEF TypeOK
    <3>2. n.id \in Nat
      BY <2>1, HeadType
    <3>3. \A i \in (1..Len(slots)) \ Reached : notices + i \in Nat
      BY <3>1
    <3> HIDE DEF n
    <3> QED
      BY <2>1, <3>1, <3>2, <3>3
  <2>5. /\ wq' \in [Addrs -> Seq(NoticeRec)] /\ leaked' \subseteq Nat /\ freed' \subseteq Nat
    <3> HIDE DEF T, lost, n
    <3> QED
      BY <2>1, <2>3, <2>4, SendNotifyEffect
  <2> QED
    BY <1>11, <2>1, <2>4, <2>5, HeadType DEF TypeOK, OnEvent
<1>12. CASE OnWriteFailed
  <2>1. pending # <<>> /\ pending' = Tail(pending)
    BY <1>12 DEF OnWriteFailed, AtHead
  <2> QED
    BY <1>12, <2>1, HeadType DEF TypeOK, OnWriteFailed
<1>13. CASE OnWritten
  <2>1. pending # <<>> /\ pending' = Tail(pending)
    BY <1>13 DEF OnWritten, AtHead
  <2>2. /\ listen' \in {"open", "closing", "closed"} /\ stopFlag' \in BOOLEAN
        /\ lpc' \in {"process", "poll", "endgame", "ended", "crashed"}
    BY <1>13 DEF TypeOK, OnWritten, NotifyExit
  <2>3. freed' \subseteq Nat
    BY <1>13, <2>1, HeadType DEF TypeOK, OnWritten
  <2> QED
    BY <1>13, <2>1, <2>2, <2>3, HeadType DEF TypeOK, OnWritten
<1>14. CASE ProcessDone
  BY <1>14 DEF TypeOK, ProcessDone
<1>15. CASE Poll
  <2>1. iocp' \in Seq(Completion) /\ pending' \in Seq(Completion)
    BY <1>15 DEF TypeOK, Poll
  <2> QED
    BY <1>15, <2>1 DEF TypeOK, Poll
<1>16. CASE Endgames
  <2>1. pipe' \in [Addrs -> [st : {"free", "open", "closing"}, conn : Conns \cup {Null}]]
    BY <1>16 DEF TypeOK, Endgames
  <2>2. slots' \in Seq(Addrs \cup {Null})
    <3>1. slots' = [i \in 1..Len(slots) |-> IF slots[i] \in Closed THEN Null ELSE slots[i]]
      BY <1>16 DEF Endgames, EraseClients
    <3>2. Len(slots) \in Nat /\ \A i \in 1..Len(slots) : slots[i] \in Addrs \cup {Null}
      BY DEF TypeOK
    <3> HIDE DEF Closed
    <3> QED
      BY <3>1, <3>2
  <2>3. listen' \in {"open", "closing", "closed"} /\ lpc' \in {"process", "poll", "endgame", "ended", "crashed"}
    BY <1>16 DEF TypeOK, Endgames
  <2> QED
    BY <1>16, <2>1, <2>2, <2>3 DEF TypeOK, Endgames
<1>17. ASSUME NEW a \in Addrs, IoComplete(a) PROVE TypeOK'
  <2>1. wq[a] \in Seq(NoticeRec) /\ wq[a] # <<>>
    BY <1>17 DEF TypeOK, IoComplete
  <2>2. Head(wq[a]) \in NoticeRec /\ Tail(wq[a]) \in Seq(NoticeRec)
    BY <2>1, TailProperties
  <2>3. wq' \in [Addrs -> Seq(NoticeRec)]
    BY <1>17, <2>2 DEF TypeOK, IoComplete
  <2>4. PICK ok \in {b \in BOOLEAN : b => pipe[a].st = "open" /\ link[pipe[a].conn] = "up"} :
          /\ iocp' = Append(iocp, [kind |-> "write", notice |-> Head(wq[a]), addr |-> a, ok |-> ok])
          /\ delivered' = IF ok /\ Head(wq[a]).req # NoRequest
                             THEN [delivered EXCEPT ![pipe[a].conn] = Append(@, Head(wq[a]).req)]
                             ELSE delivered
    BY <1>17 DEF IoComplete
  <2>5. [kind |-> "write", notice |-> Head(wq[a]), addr |-> a, ok |-> ok] \in Completion
    BY <2>2 DEF Completion
  <2>6. iocp' \in Seq(Completion)
    BY <2>4, <2>5, AppendProperties DEF TypeOK
  <2>7. delivered' \in [Conns -> Seq(Request)]
    <3>1. Head(wq[a]).req \in Request \cup {NoRequest}
      BY <2>2 DEF NoticeRec
    <3>2. ASSUME ok, Head(wq[a]).req # NoRequest PROVE delivered' \in [Conns -> Seq(Request)]
      <4>1. delivered' = [delivered EXCEPT ![pipe[a].conn] = Append(delivered[pipe[a].conn], Head(wq[a]).req)]
        BY <2>4, <3>2
      <4>2. pipe[a].conn \in Conns
        BY <2>4, <3>2 DEF TypeOK, PipesOK
      <4>3. Append(delivered[pipe[a].conn], Head(wq[a]).req) \in Seq(Request)
        BY <3>1, <3>2, <4>2, AppendProperties DEF TypeOK
      <4> QED
        BY <4>1, <4>3 DEF TypeOK
    <3> QED
      BY <2>4, <3>2 DEF TypeOK
  <2> QED
    BY <1>17, <2>3, <2>6, <2>7 DEF TypeOK, IoComplete
<1> QED
  BY <1>1, <1>2, <1>3, <1>4, <1>5, <1>6, <1>7, <1>8, <1>9, <1>10, <1>11, <1>12, <1>13, <1>14,
     <1>15, <1>16, <1>17
  DEF Next, Peers, Threads, PipeCallbacks, OnNotify, OnWrite

-----------------------------------------------------------------------------
(* Replies. *)

\* Asked, NoticeOK and Owed of the next state, for arguments of this one.
AskedNext(c, a) ==
  /\ c \in Conns /\ link'[c] \in {"up", "down"}
  /\ pipe'[a].conn = c \/ \A b \in Addrs : pipe'[b].conn # c
NoticeNext(n) ==
  IF n.addr = Null THEN n.req = NoRequest ELSE n.req \in Request /\ AskedNext(n.req.conn, n.addr)
OwedNext(c, k) ==
  /\ c \in Conns /\ link'[c] \in {"up", "down"}
  /\ c = k \/ \A b \in Addrs : pipe'[b].conn # c

LEMMA NextState ==
  /\ (\A i \in 1..Len(queued') : AskedNext(queued'[i].req.conn, queued'[i].addr)) => QueuedOK'
  /\ (\A i \in 1..Len(iocp') : iocp'[i].kind = "async" => NoticeNext(iocp'[i].notice)) => IocpOK'
  /\ (\A i \in 1..Len(pending') : pending'[i].kind = "async" => NoticeNext(pending'[i].notice))
       => PendingOK'
  /\ (\A a \in Addrs : \A i \in 1..Len(wq'[a]) :
        wq'[a][i].req = NoRequest \/ AskedNext(wq'[a][i].req.conn, a)) => WqOK'
  /\ (\A k \in Conns : \A i \in 1..Len(delivered'[k]) : OwedNext(delivered'[k][i].conn, k))
       => DeliveredOK'
<1>1. (\A i \in 1..Len(queued') : AskedNext(queued'[i].req.conn, queued'[i].addr)) => QueuedOK'
  BY DEF QueuedOK, AskedNext, Asked, Accepted, Mine
<1>2. (\A i \in 1..Len(iocp') : iocp'[i].kind = "async" => NoticeNext(iocp'[i].notice)) => IocpOK'
  BY DEF IocpOK, NoticeOK, NoticeNext, NoRequest, AskedNext, Asked, Accepted, Mine
<1>3. (\A i \in 1..Len(pending') : pending'[i].kind = "async" => NoticeNext(pending'[i].notice))
        => PendingOK'
  BY DEF PendingOK, NoticeOK, NoticeNext, NoRequest, AskedNext, Asked, Accepted, Mine
<1>4. (\A a \in Addrs : \A i \in 1..Len(wq'[a]) :
        wq'[a][i].req = NoRequest \/ AskedNext(wq'[a][i].req.conn, a)) => WqOK'
  BY DEF WqOK, NoRequest, AskedNext, Asked, Accepted, Mine
<1>5. (\A k \in Conns : \A i \in 1..Len(delivered'[k]) : OwedNext(delivered'[k][i].conn, k))
        => DeliveredOK'
  BY DEF DeliveredOK, OwedNext, Owed, Accepted
<1> QED
  BY <1>1, <1>2, <1>3, <1>4, <1>5

LEMMA Carried ==
  ASSUME IInv, [Next]_vars
  PROVE  /\ \A c : \A a \in Addrs : Asked(c, a) => AskedNext(c, a)
         /\ \A n : n.addr \in Addrs \cup {Null} /\ NoticeOK(n) => NoticeNext(n)
         /\ \A c, k : Owed(c, k) => OwedNext(c, k)
<1>1. \A c : \A a \in Addrs : Asked(c, a) => AskedNext(c, a)
  BY Stable DEF AskedNext, Asked, Accepted, Mine
<1>2. \A n : n.addr \in Addrs \cup {Null} /\ NoticeOK(n) => NoticeNext(n)
  BY <1>1 DEF NoticeOK, NoticeNext
<1>3. \A c, k : Owed(c, k) => OwedNext(c, k)
  BY Stable DEF OwedNext, Owed, Accepted
<1> QED
  BY <1>1, <1>2, <1>3

\* Containers that a step leaves alone, takes the head of, or appends to.
LEMMA Kept ==
  ASSUME IInv, [Next]_vars
  PROVE  /\ UNCHANGED inbox => InboxOK'
         /\ UNCHANGED queued \/ (queued # <<>> /\ queued' = Tail(queued)) => QueuedOK'
         /\ \A m \in Command : AskedNext(m.req.conn, m.addr) /\ queued' = Append(queued, m) => QueuedOK'
         /\ UNCHANGED pending \/ (pending # <<>> /\ pending' = Tail(pending)) => PendingOK'
         /\ UNCHANGED iocp => IocpOK'
         /\ \A m \in Completion :
              /\ m.kind = "async" => NoticeNext(m.notice)
              /\ iocp' = Append(iocp, m)
              => IocpOK'
         /\ (\A a \in Addrs : wq'[a] = wq[a] \/ (wq[a] # <<>> /\ wq'[a] = Tail(wq[a]))) => WqOK'
         /\ UNCHANGED delivered => DeliveredOK'
<1> USE Carried, NextState
<1>0. TypeOK /\ InboxOK /\ QueuedOK /\ IocpOK /\ PendingOK /\ WqOK /\ DeliveredOK
  BY DEF IInv
<1>1. ASSUME UNCHANGED inbox PROVE InboxOK'
  BY <1>0, <1>1 DEF InboxOK
<1>a. queued \in Seq(Command)
  BY <1>0 DEF TypeOK
<1>b. ASSUME NEW i \in 1..Len(queued) PROVE AskedNext(queued[i].req.conn, queued[i].addr)
  <2>1. queued[i] \in Command
    BY <1>a, ElementType
  <2>2. queued[i].addr \in Addrs
    BY <2>1 DEF Command
  <2>3. Asked(queued[i].req.conn, queued[i].addr)
    BY <1>0 DEF QueuedOK
  <2> QED
    BY <2>2, <2>3
<1>2. ASSUME UNCHANGED queued \/ (queued # <<>> /\ queued' = Tail(queued)) PROVE QueuedOK'
  <2>1. \A i \in 1..Len(queued') : \E j \in 1..Len(queued) : queued'[i] = queued[j]
    BY <1>2, <1>a, TailProperties
  <2> QED
    BY <1>b, <2>1
<1>c. ASSUME NEW m \in Command, AskedNext(m.req.conn, m.addr), queued' = Append(queued, m)
      PROVE  QueuedOK'
  <2>1. \A i \in 1..Len(queued') : queued'[i] = m \/ (i \in 1..Len(queued) /\ queued'[i] = queued[i])
    <3>1. queued' = Append(queued, m) /\ m \in Command
      BY <1>c
    <3> QED
      BY ONLY <1>a, <3>1, AppendElements
  <2> QED
    BY <1>b, <1>c, <2>1
<1>3. \A i \in 1..Len(pending) : pending[i].kind = "async" => NoticeNext(pending[i].notice)
  <2>1. ASSUME NEW i \in 1..Len(pending) PROVE pending[i].notice.addr \in Addrs \cup {Null}
    <3>1. pending \in Seq(Completion)
      BY <1>0 DEF TypeOK
    <3>2. pending[i] \in Completion
      BY <3>1
    <3> QED
      BY <3>2 DEF Completion, NoticeRec
  <2> QED
    BY <1>0, <2>1 DEF PendingOK
<1>4. \A i \in 1..Len(iocp) : iocp[i].kind = "async" => NoticeNext(iocp[i].notice)
  <2>1. ASSUME NEW i \in 1..Len(iocp) PROVE iocp[i].notice.addr \in Addrs \cup {Null}
    <3>1. iocp \in Seq(Completion)
      BY <1>0 DEF TypeOK
    <3>2. iocp[i] \in Completion
      BY <3>1
    <3> QED
      BY <3>2 DEF Completion, NoticeRec
  <2> QED
    BY <1>0, <2>1 DEF IocpOK
<1>5. ASSUME UNCHANGED pending \/ (pending # <<>> /\ pending' = Tail(pending)) PROVE PendingOK'
  <2>1. pending \in Seq(Completion)
    BY <1>0 DEF TypeOK
  <2>2. \A i \in 1..Len(pending') : \E j \in 1..Len(pending) : pending'[i] = pending[j]
    BY <1>5, <2>1, TailProperties
  <2> QED
    BY <1>3, <2>2
<1>6. ASSUME UNCHANGED iocp PROVE IocpOK'
  BY <1>4, <1>6
<1>7. ASSUME NEW m \in Completion, m.kind = "async" => NoticeNext(m.notice),
             iocp' = Append(iocp, m)
      PROVE  IocpOK'
  <2>1. iocp \in Seq(Completion)
    BY <1>0 DEF TypeOK
  <2>2. \A i \in 1..Len(iocp') : iocp'[i] = m \/ (i \in 1..Len(iocp) /\ iocp'[i] = iocp[i])
    <3>1. iocp' = Append(iocp, m) /\ m \in Completion
      BY <1>7
    <3> QED
      BY ONLY <2>1, <3>1, AppendElements
  <2> QED
    BY <1>4, <1>7, <2>2
<1>8. ASSUME \A a \in Addrs : wq'[a] = wq[a] \/ (wq[a] # <<>> /\ wq'[a] = Tail(wq[a]))
      PROVE  WqOK'
  <2>1. ASSUME NEW a \in Addrs, NEW i \in 1..Len(wq'[a])
        PROVE  wq'[a][i].req = NoRequest \/ AskedNext(wq'[a][i].req.conn, a)
    <3>1. wq[a] \in Seq(NoticeRec)
      BY <1>0 DEF TypeOK
    <3>2. PICK j \in 1..Len(wq[a]) : wq'[a][i] = wq[a][j]
      <4>1. CASE wq'[a] = wq[a]
        BY <2>1, <4>1
      <4>2. CASE wq[a] # <<>> /\ wq'[a] = Tail(wq[a])
        BY <2>1, <3>1, <4>2, TailProperties
      <4> QED
        BY <1>8, <4>1, <4>2
    <3> QED
      BY <1>0, <3>2 DEF WqOK
  <2> QED
    BY <2>1
<1>9. ASSUME UNCHANGED delivered PROVE DeliveredOK'
  BY <1>0, <1>9 DEF DeliveredOK
<1> QED
  BY <1>1, <1>2, <1>c, <1>5, <1>6, <1>7, <1>8, <1>9

\* send_notify writes a reply to the pipe it was asked to write it to.
LEMMA SendNotifyStep ==
  ASSUME IInv, [Next]_vars, NEW T,
         \A t \in T : /\ t[1] \in NoticeRec /\ t[2] \in Addrs
                      /\ t[1].req = NoRequest \/ AskedNext(t[1].req.conn, t[2]),
         NEW lost \in SUBSET Nat, NEW used \in SUBSET Nat, SendNotify(T, lost, used)
  PROVE  WqOK'
<1>1. TypeOK /\ WqOK
  BY DEF IInv
<1>2. ASSUME NEW a \in Addrs, NEW i \in 1..Len(wq'[a])
      PROVE  wq'[a][i].req = NoRequest \/ AskedNext(wq'[a][i].req.conn, a)
  <2>1. wq[a] \in Seq(NoticeRec)
    BY <1>1 DEF TypeOK
  <2>2. \A j \in 1..Len(wq[a]) : wq[a][j].req = NoRequest \/ AskedNext(wq[a][j].req.conn, a)
    BY <1>1, Carried DEF WqOK
  <2>3. CASE wq'[a] = wq[a]
    BY <1>2, <2>2, <2>3
  <2>4. ASSUME NEW t \in T, t[2] = a, wq'[a] = Append(wq[a], t[1])
        PROVE  wq'[a][i].req = NoRequest \/ AskedNext(wq'[a][i].req.conn, a)
    <3>1. wq'[a] = Append(wq[a], t[1]) /\ t[1] \in NoticeRec
      BY <2>4
    <3>2. \A j \in 1..Len(wq'[a]) :
            wq'[a][j] = t[1] \/ (j \in 1..Len(wq[a]) /\ wq'[a][j] = wq[a][j])
      BY ONLY <2>1, <3>1, AppendElements
    <3>3. t[1].req = NoRequest \/ AskedNext(t[1].req.conn, a)
      BY <2>4
    <3> QED
      BY <1>2, <2>2, <3>2, <3>3
  <2>5. \/ wq'[a] = wq[a]
        \/ \E t \in T : t[2] = a /\ wq'[a] = Append(wq[a], t[1])
    BY <1>1, SendNotifyEffect
  <2> QED
    BY <2>3, <2>4, <2>5
<1> QED
  BY <1>2, NextState

\* Every step keeps what IInv says of the requests, notices and replies.
LEMMA ItemsStep ==
  ASSUME IInv, [Next]_vars
  PROVE  (InboxOK /\ QueuedOK /\ IocpOK /\ PendingOK /\ WqOK /\ DeliveredOK)'
<1> USE IPCServerAssumption, Kept
<1> USE DEF peerVars, pipeVars, execVars, noticeVars, ioVars, loopVars
<1> DEFINE Goal == (InboxOK /\ QueuedOK /\ IocpOK /\ PendingOK /\ WqOK /\ DeliveredOK)'
<1>0. /\ TypeOK /\ PipesOK /\ InboxOK /\ QueuedOK /\ IocpOK /\ PendingOK /\ WqOK /\ DeliveredOK
  BY DEF IInv
<1>a. \A r \in Request : r # NoRequest
  BY DEF Request, NoRequest
<1>1. CASE UNCHANGED vars
  BY <1>1 DEF vars
<1>2. ASSUME NEW k \in Conns, Connect(k) \/ Disconnect(k) PROVE Goal
  BY <1>2 DEF Connect, Disconnect
<1>3. ASSUME NEW k \in Conns, NEW info \in BOOLEAN, SendRequest(k, info) PROVE Goal
  <2> DEFINE m == [id |-> sent + 1, conn |-> k, info |-> info]
  <2>1. InboxOK'
    <3>1. inbox' = [inbox EXCEPT ![k] = Append(@, m)] /\ inbox \in [Conns -> Seq(Request)]
      BY <1>0, <1>3 DEF SendRequest, TypeOK
    <3>2. ASSUME NEW c \in Conns, NEW i \in 1..Len(inbox'[c]) PROVE inbox'[c][i].conn = c
      <4>1. CASE c = k
        <5>1. inbox'[c] = Append(inbox[c], m) /\ inbox[c] \in Seq(Request) /\ m.conn = c
          BY <3>1, <4>1
        <5>3. m \in Request
          BY <1>0, <1>3 DEF SendRequest, TypeOK, Request
        <5> HIDE DEF m
        <5>2. \A j \in 1..Len(inbox'[c]) :
                inbox'[c][j] = m \/ (j \in 1..Len(inbox[c]) /\ inbox'[c][j] = inbox[c][j])
          BY ONLY <5>1, <5>3, AppendElements
        <5> QED
          BY <1>0, <5>1, <5>2 DEF InboxOK
      <4>2. CASE c # k
        BY <1>0, <3>1, <3>2, <4>2 DEF InboxOK
      <4> QED
        BY <4>1, <4>2
    <3> QED
      BY <3>2 DEF InboxOK
  <2> QED
    BY <1>3, <2>1 DEF SendRequest
<1>4. ASSUME NEW exit \in BOOLEAN, ExecReply(exit) PROVE Goal
  <2> DEFINE q == Head(queued)
             n == Notice(q.req, q.addr, exit)
             m == [kind |-> "async", notice |-> n, addr |-> Null, ok |-> TRUE]
  <2>1. queued # <<>> /\ queued' = Tail(queued) /\ iocp' = Append(iocp, m)
    BY <1>4 DEF ExecReply, PostNotice
  <2>2. /\ queued \in Seq(Command)
        /\ q \in Command /\ q = queued[1] /\ 1 \in 1..Len(queued)
    <3>1. queued \in Seq(Command)
      BY <1>0 DEF TypeOK
    <3> QED
      BY <2>1, <3>1, TailProperties
  <2>3. q.req \in Request /\ q.addr \in Addrs /\ Asked(q.req.conn, q.addr)
    BY <1>0, <2>2 DEF QueuedOK, Command
  <2>4. n \in NoticeRec /\ n.req = q.req /\ n.addr = q.addr
    BY <1>0, <2>3, NoticeType
  <2>5. m \in Completion /\ m.notice = n
    <3> HIDE DEF n
    <3> QED
      BY <2>4 DEF Completion
  <2>6. NoticeNext(n)
    <3> HIDE DEF n, q
    <3> QED
      BY <2>3, <2>4, Carried DEF NoticeNext
  <2>7. IocpOK'
    <3> HIDE DEF m
    <3> QED
      BY <2>1, <2>5, <2>6
  <2> QED
    BY <1>4, <2>1, <2>7 DEF ExecReply
<1>5. CASE ExecEvent
  <2> DEFINE n == Notice(NoRequest, Null, FALSE)
             m == [kind |-> "async", notice |-> n, addr |-> Null, ok |-> TRUE]
  <2>1. iocp' = Append(iocp, m)
    BY <1>5 DEF ExecEvent, PostNotice
  <2>2. n \in NoticeRec /\ n.req = NoRequest /\ n.addr = Null
    BY <1>0, NoticeType
  <2>3. m \in Completion /\ m.notice = n /\ NoticeNext(n)
    <3> HIDE DEF n
    <3> QED
      BY <2>2 DEF Completion, NoticeNext
  <2>4. IocpOK'
    <3> HIDE DEF m
    <3> QED
      BY <2>1, <2>3
  <2> QED
    BY <1>5, <2>4 DEF ExecEvent
<1>6. ASSUME NEW k \in Conns, NEW a \in Addrs, OnNewConnection(k, a) PROVE Goal
  BY <1>6 DEF OnNewConnection
<1>7. ASSUME NEW a \in Addrs, NEW n \in 1..MaxRead, OnRead(a, n) PROVE Goal
  <2> DEFINE k == pipe[a].conn
             r == Head(inbox[k])
  <2>1. k \in Conns /\ Asked(k, a)
    BY <1>0, <1>7 DEF TypeOK, PipesOK, OnRead, Asked, Mine
  <2>2. inbox[k] \in Seq(Request) /\ inbox[k] # <<>> /\ n \in 1..Len(inbox[k])
    BY <1>0, <1>7, <2>1 DEF TypeOK, OnRead
  <2>3. r \in Request /\ r.conn = k
    <3>1. r \in Request /\ r = inbox[k][1] /\ 1 \in 1..Len(inbox[k])
      BY <2>2, TailProperties
    <3> QED
      BY <1>0, <2>1, <3>1 DEF InboxOK
  <2>4. AskedNext(r.conn, a)
    BY <2>1, <2>3, Carried
  <2>5. InboxOK'
    <3>1. /\ inbox' = [inbox EXCEPT ![k] = SubSeq(inbox[k], n + 1, Len(inbox[k]))]
          /\ inbox \in [Conns -> Seq(Request)]
      BY <1>0, <1>7 DEF OnRead, TypeOK
    <3>2. ASSUME NEW c \in Conns, NEW i \in 1..Len(inbox'[c]) PROVE inbox'[c][i].conn = c
      <4>1. CASE c = k
        <5>1. inbox'[c] = SubSeq(inbox[k], n + 1, Len(inbox[k]))
          BY <3>1, <4>1
        <5>2. PICK j \in 1..Len(inbox[k]) : inbox'[c][i] = inbox[k][j]
          BY <2>2, <3>2, <5>1
        <5> QED
          BY <1>0, <2>1, <4>1, <5>2 DEF InboxOK
      <4>2. CASE c # k
        BY <1>0, <3>1, <3>2, <4>2 DEF InboxOK
      <4> QED
        BY <4>1, <4>2
    <3> QED
      BY <3>2 DEF InboxOK
  <2>6. CASE r.info
    <3> DEFINE v == Notice(r, a, FALSE)
               m == [kind |-> "async", notice |-> v, addr |-> Null, ok |-> TRUE]
    <3>1. iocp' = Append(iocp, m) /\ UNCHANGED queued
      BY <1>7, <2>6 DEF OnRead, PostNotice
    <3>2. v \in NoticeRec /\ v.req = r /\ v.addr = a
      BY <1>0, <2>3, NoticeType
    <3>3. m \in Completion /\ m.notice = v /\ NoticeNext(v)
      <4> HIDE DEF v, r
      <4>1. m \in Completion /\ m.notice = v
        BY <3>2 DEF Completion
      <4> QED
        BY <2>3, <2>4, <3>2, <4>1 DEF NoticeNext
    <3>4. IocpOK'
      <4> HIDE DEF m
      <4> QED
        BY <3>1, <3>3
    <3> QED
      BY <1>7, <2>5, <3>1, <3>4 DEF OnRead
  <2>7. CASE ~r.info
    <3> DEFINE m == [req |-> r, addr |-> a]
    <3>1. queued' = Append(queued, m) /\ UNCHANGED iocp
      BY <1>7, <2>7 DEF OnRead
    <3>2. m \in Command /\ AskedNext(m.req.conn, m.addr)
      BY <2>3, <2>4 DEF Command
    <3>3. QueuedOK'
      <4> HIDE DEF m
      <4> QED
        BY <3>1, <3>2
    <3> QED
      BY <1>7, <2>5, <3>1, <3>3 DEF OnRead
  <2> QED
    BY <2>6, <2>7
<1>8. ASSUME NEW a \in Addrs, OnEof(a) PROVE Goal
  BY <1>8 DEF OnEof
<1>9. CASE OnReply
  <2> DEFINE n == Head(pending).notice
             T == {<<n, n.addr>>}
  <2>1. pending # <<>> /\ n.addr # Null /\ SendNotify(T, {}, {}) /\ pending' = Tail(pending)
    BY <1>9 DEF OnReply, AtHead
  <2>2. n \in NoticeRec /\ n.addr \in Addrs /\ NoticeNext(n)
    <3>1. pending \in Seq(Completion) /\ Head(pending).kind = "async"
      BY <1>0, <1>9 DEF TypeOK, OnReply, AtHead
    <3>2. Head(pending) = pending[1] /\ 1 \in 1..Len(pending)
      BY <2>1, <3>1, TailProperties
    <3>3. NoticeOK(n)
      BY <1>0, <3>1, <3>2 DEF PendingOK
    <3>4. n \in NoticeRec /\ n.addr \in Addrs
      BY <1>0, <2>1, HeadType
    <3> HIDE DEF n
    <3> QED
      BY <3>3, <3>4, Carried
  <2>3. \A t \in T : /\ t[1] \in NoticeRec /\ t[2] \in Addrs
                     /\ t[1].req = NoRequest \/ AskedNext(t[1].req.conn, t[2])
    <3> HIDE DEF n
    <3> QED
      BY <2>1, <2>2 DEF NoticeNext
  <2>4. WqOK'
    <3> HIDE DEF T
    <3> QED
      BY <2>1, <2>3, SendNotifyStep
  <2> QED
    BY <1>9, <2>1, <2>4 DEF OnReply
<1>11. CASE OnEvent
  <2> DEFINE n == Head(pending).notice
             Clone(i) == [n EXCEPT !.id = notices + i]
             T == {<<Clone(i), slots[i]>> : i \in Reached}
             lost == {notices + i : i \in (1..Len(slots)) \ Reached}
  <2>1. /\ pending # <<>> /\ SendNotify(T, lost, {n.id}) /\ pending' = Tail(pending)
        /\ n.addr = Null
    BY <1>11 DEF OnEvent, AtHead
  <2>2. n \in NoticeRec /\ n.id \in Nat /\ n.req = NoRequest
    <3>1. pending \in Seq(Completion) /\ Head(pending).kind = "async"
      BY <1>0, <1>11 DEF TypeOK, OnEvent, AtHead
    <3>2. Head(pending) = pending[1] /\ 1 \in 1..Len(pending)
      BY <2>1, <3>1, TailProperties
    <3>3. NoticeOK(n)
      BY <1>0, <3>1, <3>2 DEF PendingOK
    <3>4. n \in NoticeRec /\ n.id \in Nat
      BY <1>0, <2>1, HeadType
    <3> QED
      BY <2>1, <3>3, <3>4 DEF NoticeOK
  <2>3. /\ \A i \in 1..Len(slots) : notices + i \in Nat
        /\ \A i \in Reached : i \in 1..Len(slots) /\ slots[i] \in Addrs
    BY <1>0 DEF Reached, TypeOK
  <2>4. \A t \in T : /\ t[1] \in NoticeRec /\ t[2] \in Addrs
                     /\ t[1].req = NoRequest \/ AskedNext(t[1].req.conn, t[2])
    <3>1. \A i \in Reached : Clone(i) \in NoticeRec /\ Clone(i).req = n.req
      <4> HIDE DEF n
      <4> QED
        BY <2>2, <2>3 DEF NoticeRec
    <3> HIDE DEF Clone
    <3> QED
      BY <2>2, <2>3, <3>1
  <2>5. lost \in SUBSET Nat /\ {n.id} \in SUBSET Nat
    BY <2>2, <2>3
  <2>6. WqOK'
    <3> HIDE DEF T, lost, n
    <3> QED
      BY <2>1, <2>4, <2>5, SendNotifyStep
  <2> QED
    BY <1>11, <2>1, <2>6 DEF OnEvent
<1>10. CASE OnReplyCrash
  BY <1>10 DEF OnReplyCrash
<1>12. CASE OnWriteFailed
  BY <1>12 DEF OnWriteFailed, AtHead
<1>13. CASE OnWritten
  BY <1>13 DEF OnWritten, AtHead
<1>14. CASE ProcessDone
  BY <1>14 DEF ProcessDone
<1>15. CASE Poll
  <2>1. IocpOK' /\ PendingOK'
    <3>1. pending' = iocp /\ iocp' = <<>>
      BY <1>15 DEF Poll
    <3>2. \A i \in 1..Len(iocp) : iocp[i].kind = "async" => NoticeNext(iocp[i].notice)
      <4>1. ASSUME NEW i \in 1..Len(iocp) PROVE iocp[i].notice.addr \in Addrs \cup {Null}
        <5>1. iocp \in Seq(Completion)
          BY <1>0 DEF TypeOK
        <5>2. iocp[i] \in Completion
          BY <5>1
        <5> QED
          BY <5>2 DEF Completion, NoticeRec
      <4> QED
        BY <1>0, <4>1, Carried DEF IocpOK
    <3> QED
      BY <3>1, <3>2, NextState
  <2> QED
    BY <1>15, <2>1 DEF Poll
<1>16. CASE Endgames
  BY <1>16 DEF Endgames
<1>17. ASSUME NEW a \in Addrs, IoComplete(a) PROVE Goal
  <2> DEFINE h == Head(wq[a])
             k == pipe[a].conn
  <2>1. wq[a] \in Seq(NoticeRec) /\ wq[a] # <<>> /\ wq' = [wq EXCEPT ![a] = Tail(wq[a])]
    BY <1>0, <1>17 DEF TypeOK, IoComplete
  <2>2. h \in NoticeRec /\ h = wq[a][1] /\ 1 \in 1..Len(wq[a])
    BY <2>1, TailProperties
  <2>3. h.req = NoRequest \/ (h.req \in Request /\ Asked(h.req.conn, a))
    BY <1>0, <2>2 DEF WqOK, NoticeRec
  <2>4. PICK ok \in {b \in BOOLEAN : b => pipe[a].st = "open" /\ link[pipe[a].conn] = "up"} :
          /\ iocp' = Append(iocp, [kind |-> "write", notice |-> h, addr |-> a, ok |-> ok])
          /\ delivered' = IF ok /\ h.req # NoRequest
                             THEN [delivered EXCEPT ![k] = Append(delivered[k], h.req)]
                             ELSE delivered
    BY <1>17 DEF IoComplete
  <2>5. WqOK'
    BY <1>0, <2>1 DEF TypeOK
  <2>6. IocpOK'
    <3> DEFINE m == [kind |-> "write", notice |-> h, addr |-> a, ok |-> ok]
    <3>1. m \in Completion /\ m.kind # "async" /\ iocp' = Append(iocp, m)
      BY <2>2, <2>4 DEF Completion
    <3> HIDE DEF m
    <3> QED
      BY <3>1
  <2>7. CASE ok /\ h.req # NoRequest
    <3>1. k \in Conns /\ h.req \in Request /\ Asked(h.req.conn, a)
      BY <1>0, <2>3, <2>4, <2>7 DEF TypeOK, PipesOK
    <3>2. /\ delivered' = [delivered EXCEPT ![k] = Append(delivered[k], h.req)]
          /\ delivered \in [Conns -> Seq(Request)]
      BY <1>0, <2>4, <2>7 DEF TypeOK
    <3>3. OwedNext(h.req.conn, k)
      BY <3>1, Carried DEF Asked, Mine, Owed
    <3>4. ASSUME NEW c \in Conns, NEW i \in 1..Len(delivered'[c])
          PROVE  OwedNext(delivered'[c][i].conn, c)
      <4>1. CASE c = k
        <5>1. delivered'[c] = Append(delivered[c], h.req) /\ delivered[c] \in Seq(Request)
          BY <3>2, <4>1
        <5>2. h.req \in Request
          BY <3>1
        <5>3. \A j \in 1..Len(delivered'[c]) :
                \/ delivered'[c][j] = h.req
                \/ j \in 1..Len(delivered[c]) /\ delivered'[c][j] = delivered[c][j]
          BY ONLY <5>1, <5>2, AppendElements
        <5> QED
          BY <1>0, <3>3, <4>1, <5>3, Carried DEF DeliveredOK
      <4>2. CASE c # k
        BY <1>0, <3>2, <3>4, <4>2, Carried DEF DeliveredOK
      <4> QED
        BY <4>1, <4>2
    <3>5. DeliveredOK'
      BY <3>4, NextState
    <3> QED
      BY <1>17, <2>5, <2>6, <3>5 DEF IoComplete
  <2>8. CASE ~(ok /\ h.req # NoRequest)
    BY <1>17, <2>4, <2>5, <2>6, <2>8 DEF IoComplete
  <2> QED
    BY <2>7, <2>8
<1> QED
  BY <1>1, <1>2, <1>3, <1>4, <1>5, <1>6, <1>7, <1>8, <1>9, <1>10, <1>11, <1>12, <1>13, <1>14,
     <1>15, <1>16, <1>17
  DEF Next, Peers, Threads, PipeCallbacks, OnNotify, OnWrite

-----------------------------------------------------------------------------
(* Theorems. *)

\* IInv holds in every reachable state.
LEMMA Inductive == Spec => []IInv
<1>1. Init => IInv
  BY InitIInv
<1>2. IInv /\ [Next]_vars => IInv'
  BY StepTypeOK, Stable, ItemsStep DEF IInv
<1> QED
  BY <1>1, <1>2, PTL DEF Spec

\* The variables of the loop thread, the pipes, the notices and the I/O keep the
\* types CanIPCServer declares, however many clients, addresses and requests.
THEOREM TypeCorrect == Spec => []TypeOK
<1>1. IInv => TypeOK
  BY DEF IInv
<1> QED
  BY <1>1, Inductive, PTL

\* A reply is written to the connection that asked, or the asker's uv_pipe_t was
\* closed before: the raw client pointer of a queued command is never another
\* client's while the asker is connected.
THEOREM RepliesToAskerHolds == Spec => []RepliesToAsker
<1>1. IInv => RepliesToAsker
  BY DEF IInv, DeliveredOK, Owed, RepliesToAsker
<1> QED
  BY <1>1, Inductive, PTL

\* The steps that touch s_client_vector or free a pipe, and all the others.
LEMMA SlotsStep ==
  ASSUME TypeOK, SlotsArePipes, [Next]_vars
  PROVE  SlotsArePipes'
<1> USE IPCServerAssumption
<1> USE DEF peerVars, pipeVars, execVars, noticeVars, ioVars, loopVars
<1> DEFINE Used == {a \in Addrs : pipe[a].st # "free"}
<1>0. /\ slots \in Seq(Addrs \cup {Null}) /\ Len(slots) \in Nat
      /\ pipe \in [Addrs -> [st : {"free", "open", "closing"}, conn : Conns \cup {Null}]]
      /\ {slots[i] : i \in 1..Len(slots)} \ {Null} = Used
      /\ \A i, j \in 1..Len(slots) : slots[i] = slots[j] /\ slots[i] # Null => i = j
  BY DEF TypeOK, SlotsArePipes
<1>1. CASE UNCHANGED <<slots, pipe>>
  BY <1>1 DEF SlotsArePipes
<1>2. ASSUME NEW k \in Conns, NEW a \in Addrs, OnNewConnection(k, a) PROVE SlotsArePipes'
  <2>1. /\ slots' = Append(slots, a) /\ pipe[a].st = "free"
        /\ pipe'[a].st = "open" /\ \A b \in Addrs \ {a} : pipe'[b] = pipe[b]
    BY <1>0, <1>2 DEF OnNewConnection
  <2>2. /\ Len(slots') = Len(slots) + 1 /\ slots'[Len(slots) + 1] = a
        /\ \A i \in 1..Len(slots) : slots'[i] = slots[i] /\ slots[i] # a
    BY <1>0, <2>1
  <2>3. \A i, j \in 1..Len(slots') : slots'[i] = slots'[j] /\ slots'[i] # Null => i = j
    BY <1>0, <2>2
  <2>4. {slots'[i] : i \in 1..Len(slots')} = {slots[i] : i \in 1..Len(slots)} \cup {a}
    BY <1>0, <2>2
  <2>5. {b \in Addrs : pipe'[b].st # "free"} = Used \cup {a}
    BY <2>1
  <2>6. {slots'[i] : i \in 1..Len(slots')} \ {Null} = Used \cup {a}
    <3> HIDE DEF Used
    <3>1. ({slots[i] : i \in 1..Len(slots)} \cup {a}) \ {Null} = Used \cup {a}
      BY <1>0
    <3> QED
      BY <2>4, <3>1
  <2> QED
    BY <2>3, <2>5, <2>6 DEF SlotsArePipes
<1>3. ASSUME NEW a \in Addrs, OnEof(a) PROVE SlotsArePipes'
  <2>1. slots' = slots /\ {b \in Addrs : pipe'[b].st # "free"} = Used
    BY <1>0, <1>3 DEF OnEof
  <2> QED
    BY <1>0, <2>1 DEF SlotsArePipes
<1>4. CASE Endgames
  <2>1. /\ slots' = [i \in 1..Len(slots) |-> IF slots[i] \in Closed THEN Null ELSE slots[i]]
        /\ \A b \in Addrs : pipe'[b].st = IF b \in Closed THEN "free" ELSE pipe[b].st
    BY <1>4 DEF Endgames, EraseClients
  <2>2. Closed \subseteq Used
    BY DEF Closed
  <2> HIDE DEF Closed, Used
  <2>3. /\ Len(slots') = Len(slots)
        /\ \A i \in 1..Len(slots) : slots'[i] = IF slots[i] \in Closed THEN Null ELSE slots[i]
    BY <1>0, <2>1
  <2>4. \A i, j \in 1..Len(slots') : slots'[i] = slots'[j] /\ slots'[i] # Null => i = j
    BY <1>0, <2>3
  <2>5. {slots'[i] : i \in 1..Len(slots')} \ {Null} = Used \ Closed
    BY <1>0, <2>3
  <2>6. {b \in Addrs : pipe'[b].st # "free"} = Used \ Closed
    BY <2>1 DEF Used
  <2> QED
    BY <2>4, <2>5, <2>6 DEF SlotsArePipes
<1>5. [Next]_vars => \/ UNCHANGED <<slots, pipe>> \/ Endgames
                     \/ \E a \in Addrs : OnEof(a) \/ \E k \in Conns : OnNewConnection(k, a)
  <2>1. CASE Peers \/ Threads \/ UNCHANGED vars
    BY <2>1 DEF Peers, Threads, Connect, Disconnect, SendRequest, ExecReply, ExecEvent, vars
  <2>2. CASE OnNotify \/ OnWrite
    BY <2>2 DEF OnNotify, OnReply, OnReplyCrash, OnEvent, OnWrite, OnWriteFailed, OnWritten
  <2>3. ASSUME NEW a \in Addrs, IoComplete(a) PROVE UNCHANGED <<slots, pipe>>
    BY <2>3 DEF IoComplete
  <2>4. CASE ProcessDone \/ Poll
    BY <2>4 DEF ProcessDone, Poll
  <2>5. ASSUME NEW a \in Addrs, NEW n \in 1..MaxRead, OnRead(a, n) PROVE UNCHANGED <<slots, pipe>>
    BY <2>5 DEF OnRead
  <2> QED
    BY <2>1, <2>2, <2>3, <2>4, <2>5 DEF Next, PipeCallbacks
<1> QED
  BY <1>1, <1>2, <1>3, <1>4, <1>5

\* s_client_vector names each uv_pipe_t in use once and no freed one, although its
\* slots are nulled and never removed: broadcast_notify walks live memory only.
THEOREM SlotsArePipesHolds == Spec => []SlotsArePipes
<1>1. Init => SlotsArePipes
  BY DEF Init, SlotsArePipes
<1>2. TypeOK /\ SlotsArePipes /\ [Next]_vars => SlotsArePipes'
  BY SlotsStep
<1> QED
  BY <1>1, <1>2, TypeCorrect, PTL DEF Spec

-----------------------------------------------------------------------------
(* Broadcasts. *)

\* Only on_notify of an event takes an event's notice from the completions.
LEMMA OnlyOnEventTakesEvents ==
  ASSUME [Next]_vars, AtHead("async"), Head(pending).notice.addr = Null, pending' # pending
  PROVE  OnEvent
<1>1. CASE OnNotify
  BY <1>1 DEF OnNotify, OnReply, OnReplyCrash
<1>2. CASE OnWrite \/ ProcessDone \/ Poll
  BY <1>2 DEF OnWrite, OnWriteFailed, OnWritten, AtHead, ProcessDone, Poll
<1>3. CASE Endgames
  BY <1>3 DEF Endgames, AtHead
<1>4. CASE Peers \/ Threads \/ UNCHANGED vars
  BY <1>4 DEF Peers, Threads, Connect, Disconnect, SendRequest, ExecReply, ExecEvent, loopVars, vars
<1>5. CASE PipeCallbacks
  BY <1>5 DEF PipeCallbacks, OnNewConnection, OnRead, OnEof, loopVars
<1>6. CASE \E a \in Addrs : IoComplete(a)
  BY <1>6 DEF IoComplete, loopVars
<1> QED
  BY <1>1, <1>2, <1>3, <1>4, <1>5, <1>6 DEF Next

\* send_notify writes to the pipe of every address it is given that is open and has a peer.
LEMMA SendNotifyReaches ==
  ASSUME TypeOK, NEW T, NEW lost, NEW used, SendNotify(T, lost, used),
         NEW a \in Addrs, pipe[a].st = "open", link[pipe[a].conn] # "down",
         NEW t \in T, t[2] = a
  PROVE  Len(wq'[a]) = Len(wq[a]) + 1
<1> DEFINE Open == {u \in T : pipe[u[2]].st = "open"}
<1>1. PICK F \in SUBSET {u \in Open : link[pipe[u[2]].conn] = "down"} :
        wq' = [b \in Addrs |->
                 IF \E u \in Open \ F : u[2] = b
                   THEN Append(wq[b], (CHOOSE u \in Open \ F : u[2] = b)[1])
                   ELSE wq[b]]
  BY DEF SendNotify
<1>2. t \in Open \ F
  OBVIOUS
<1>3. wq'[a] = Append(wq[a], (CHOOSE u \in Open \ F : u[2] = a)[1])
  BY <1>1, <1>2
<1>4. wq[a] \in Seq(NoticeRec)
  BY DEF TypeOK
<1> HIDE DEF Open
<1> QED
  BY <1>3, <1>4

\* broadcast_notify writes the event to every connected client: s_client_vector names
\* each of them.
THEOREM BroadcastReachesAllHolds == Spec => BroadcastReachesAll
<1>1. TypeOK /\ SlotsArePipes /\ [Next]_vars
        => [AtHead("async") /\ Head(pending).notice.addr = Null /\ pending' # pending
              => \A a \in Addrs : pipe[a].st = "open" /\ link[pipe[a].conn] = "up"
                                    => Len(wq'[a]) = Len(wq[a]) + 1]_vars
  <2> SUFFICES ASSUME TypeOK, SlotsArePipes, Next,
                      AtHead("async"), Head(pending).notice.addr = Null, pending' # pending,
                      NEW a \in Addrs, pipe[a].st = "open", link[pipe[a].conn] = "up"
               PROVE  Len(wq'[a]) = Len(wq[a]) + 1
    OBVIOUS
  <2> DEFINE n == Head(pending).notice
             Clone(i) == [n EXCEPT !.id = notices + i]
             T == {<<Clone(i), slots[i]>> : i \in Reached}
  <2>1. OnEvent
    BY OnlyOnEventTakesEvents
  <2>2. PICK lost, used : SendNotify(T, lost, used)
    BY <2>1 DEF OnEvent
  <2>3. PICK i \in 1..Len(slots) : slots[i] = a
    BY DEF SlotsArePipes
  <2>4. i \in Reached
    BY <2>3, IPCServerAssumption DEF Reached
  <2>5. <<Clone(i), a>> \in T
    BY <2>3, <2>4
  <2> HIDE DEF T, Clone
  <2> QED
    BY <2>2, <2>5, SendNotifyReaches
<1> QED
  BY <1>1, TypeCorrect, SlotsArePipesHolds, PTL DEF Spec, BroadcastReachesAll

-----------------------------------------------------------------------------
(* Leaks. *)

NoDown == \A k \in Conns : link[k] # "down"

\* While nobody left, every client that was accepted has its pipe, no pipe is closing
\* or was ever freed, and no write has failed.
LeakFree ==
  /\ leaked = {}
  /\ \A k \in Conns : link[k] = "up" => \E a \in Addrs : pipe[a].conn = k
  /\ \A a \in Addrs : pipe[a].st # "closing" /\ (pipe[a].st = "free" => wq[a] = <<>>)
  /\ \A i \in 1..Len(slots) : slots[i] # Null
  /\ \A i \in 1..Len(iocp) : iocp[i].ok
  /\ \A i \in 1..Len(pending) : pending[i].ok

LeakInv == NoDown => LeakFree

\* A client that has left does not come back.
LEMMA DownForGood ==
  ASSUME TypeOK, [Next]_vars, NoDown'
  PROVE  NoDown
<1> SUFFICES ASSUME NEW k \in Conns, link[k] = "down"
             PROVE  link'[k] = "down"
  BY DEF NoDown
<1>0. link \in [Conns -> {"idle", "waiting", "up", "down"}]
  BY DEF TypeOK
<1>1. CASE UNCHANGED link
  BY <1>1
<1>2. CASE \E c \in Conns : Connect(c) \/ Disconnect(c)
  BY <1>0, <1>2 DEF Connect, Disconnect
<1>3. CASE \E c \in Conns, a \in Addrs : OnNewConnection(c, a)
  BY <1>0, <1>3 DEF OnNewConnection
<1>4. CASE (\E a \in Addrs : OnEof(a)) \/ Endgames
  BY <1>4 DEF OnEof, Endgames, peerVars
<1> QED
  BY <1>1, <1>2, <1>3, <1>4, OtherSteps DEF PipeStep

\* send_notify leaks nothing of its own when all the pipes it is given are open.
LEMMA SendNotifyKeeps ==
  ASSUME TypeOK, NEW T, NEW lost, NEW used, SendNotify(T, lost, used),
         \A t \in T : t[2] \in Addrs /\ pipe[t[2]].st = "open"
  PROVE  /\ leaked' = leaked \cup lost
         /\ \A a \in Addrs : pipe[a].st = "free" => wq'[a] = wq[a]
<1> DEFINE Open == {u \in T : pipe[u[2]].st = "open"}
<1>1. PICK F \in SUBSET {u \in Open : link[pipe[u[2]].conn] = "down"} :
        /\ wq' = [b \in Addrs |->
                    IF \E u \in Open \ F : u[2] = b
                      THEN Append(wq[b], (CHOOSE u \in Open \ F : u[2] = b)[1])
                      ELSE wq[b]]
        /\ leaked' = leaked \cup lost \cup {t[1].id : t \in T \ Open}
  BY DEF SendNotify
<1>2. T \ Open = {}
  OBVIOUS
<1>3. {t[1].id : t \in T \ Open} = {}
  BY <1>2
<1>4. ASSUME NEW a \in Addrs, pipe[a].st = "free"
      PROVE  wq'[a] = wq[a]
  <2>1. ~ \E u \in Open \ F : u[2] = a
    BY <1>4
  <2> HIDE DEF Open
  <2> QED
    BY <1>1, <2>1
<1> QED
  BY <1>1, <1>3, <1>4

\* One completion less is taken, and none is added.
LEMMA TakenOk ==
  ASSUME TypeOK, pending # <<>>, \A i \in 1..Len(pending) : pending[i].ok, pending' = Tail(pending)
  PROVE  Head(pending).ok /\ \A i \in 1..Len(pending') : pending'[i].ok
<1>1. pending \in Seq(Completion)
  BY DEF TypeOK
<1> QED
  BY <1>1, TailProperties

LEMMA StepReply ==
  ASSUME IInv, LeakFree, NoDown, OnReply
  PROVE  LeakFree'
<1> USE DEF peerVars, pipeVars
<1> DEFINE n == Head(pending).notice
<1>1. /\ AtHead("async") /\ n.addr # Null /\ SendNotify({<<n, n.addr>>}, {}, {})
      /\ pending' = Tail(pending) /\ UNCHANGED <<link, pipe, slots, iocp>>
  BY DEF OnReply
<1>2. pending # <<>> /\ Head(pending).kind = "async"
  BY <1>1 DEF AtHead
<1>3. n.addr \in Addrs
  BY <1>1, <1>2, HeadType DEF IInv
<1>4. Asked(n.req.conn, n.addr)
  <2>1. Head(pending) = pending[1] /\ 1 \in 1..Len(pending)
    BY <1>2, TailProperties DEF IInv, TypeOK
  <2> QED
    BY <1>1, <1>2, <2>1 DEF IInv, PendingOK, NoticeOK
<1>5. pipe[n.addr].st = "open"
  <2>1. link[n.req.conn] = "up" /\ n.req.conn \in Conns
    BY <1>4 DEF Asked, Accepted, NoDown
  <2>2. pipe[n.addr].conn = n.req.conn
    BY <1>4, <2>1 DEF LeakFree, Asked, Mine
  <2>3. pipe[n.addr].st # "free"
    BY <1>3, <2>1, <2>2, IPCServerAssumption DEF IInv, PipesOK
  <2> QED
    BY <1>3, <2>3 DEF LeakFree, IInv, TypeOK
<1>6. leaked' = leaked \cup {} /\ \A a \in Addrs : pipe[a].st = "free" => wq'[a] = wq[a]
  <2> DEFINE T == {<<n, n.addr>>}
  <2>1. \A t \in T : t[2] \in Addrs /\ pipe[t[2]].st = "open"
    BY <1>3, <1>5
  <2>2. SendNotify(T, {}, {})
    BY <1>1
  <2>3. TypeOK
    BY DEF IInv
  <2> HIDE DEF T
  <2> QED
    BY <2>1, <2>2, <2>3, SendNotifyKeeps
<1> HIDE DEF n
<1>7. \A i \in 1..Len(pending') : pending'[i].ok
  BY <1>1, <1>2, TakenOk DEF IInv, LeakFree
<1> QED
  BY <1>1, <1>6, <1>7 DEF LeakFree

LEMMA StepEvent ==
  ASSUME IInv, SlotsArePipes, LeakFree, NoDown, OnEvent
  PROVE  LeakFree'
<1> USE DEF peerVars, pipeVars
<1> DEFINE n == Head(pending).notice
           Clone(i) == [n EXCEPT !.id = notices + i]
           T == {<<Clone(i), slots[i]>> : i \in Reached}
           lost == {notices + i : i \in (1..Len(slots)) \ Reached}
<1>1. /\ AtHead("async") /\ SendNotify(T, lost, {n.id})
      /\ pending' = Tail(pending) /\ UNCHANGED <<link, pipe, slots, iocp>>
  BY DEF OnEvent
<1>2. lost = {}
  BY DEF Reached, LeakFree
<1>3. \A t \in T : t[2] \in Addrs /\ pipe[t[2]].st = "open"
  <2>1. ASSUME NEW i \in Reached
        PROVE  slots[i] \in Addrs /\ pipe[slots[i]].st = "open"
    <3>1. slots[i] \in {a \in Addrs : pipe[a].st # "free"}
      BY DEF Reached, SlotsArePipes
    <3> QED
      BY <3>1 DEF LeakFree, IInv, TypeOK
  <2> QED
    BY <2>1
<1> HIDE DEF T, lost, n
<1>4. leaked' = leaked /\ \A a \in Addrs : pipe[a].st = "free" => wq'[a] = wq[a]
  <2>1. TypeOK /\ SendNotify(T, lost, {n.id})
    BY <1>1 DEF IInv
  <2>2. leaked' = leaked \cup lost /\ \A a \in Addrs : pipe[a].st = "free" => wq'[a] = wq[a]
    BY <1>3, <2>1, SendNotifyKeeps
  <2> QED
    BY <1>2, <2>2
<1>5. \A i \in 1..Len(pending') : pending'[i].ok
  BY <1>1, TakenOk DEF IInv, LeakFree, AtHead
<1> QED
  BY <1>1, <1>4, <1>5 DEF LeakFree

LEMMA StepIo ==
  ASSUME IInv, LeakFree, NoDown, NEW a \in Addrs, IoComplete(a)
  PROVE  LeakFree'
<1> USE DEF peerVars, pipeVars, noticeVars, loopVars
<1>1. pipe[a].st = "open"
  BY DEF IoComplete, LeakFree, IInv, TypeOK
<1>2. link[pipe[a].conn] # "down"
  BY <1>1, IPCServerAssumption DEF IInv, TypeOK, PipesOK, NoDown
<1>3. PICK c : c.ok /\ iocp' = Append(iocp, c)
  <2>1. PICK ok \in BOOLEAN :
          /\ ok \/ pipe[a].st # "open" \/ link[pipe[a].conn] = "down"
          /\ iocp' = Append(iocp, [kind |-> "write", notice |-> Head(wq[a]), addr |-> a, ok |-> ok])
    BY DEF IoComplete
  <2> QED
    BY <1>1, <1>2, <2>1
<1>4. \A i \in 1..Len(iocp') : iocp'[i].ok
  <2>1. iocp \in Seq(Completion)
    BY DEF IInv, TypeOK
  <2> QED
    BY <1>3, <2>1 DEF LeakFree
<1>5. \A b \in Addrs : pipe[b].st = "free" => wq'[b] = wq[b]
  BY <1>1 DEF IoComplete, IInv, TypeOK
<1> QED
  BY <1>4, <1>5 DEF LeakFree, IoComplete

LEMMA StepNewConnection ==
  ASSUME IInv, LeakFree, NEW k \in Conns, NEW a \in Addrs, OnNewConnection(k, a)
  PROVE  LeakFree'
<1> USE DEF noticeVars, ioVars, loopVars
<1>1. /\ link \in [Conns -> {"idle", "waiting", "up", "down"}]
      /\ pipe \in [Addrs -> [st : {"free", "open", "closing"}, conn : Conns \cup {Null}]]
      /\ slots \in Seq(Addrs \cup {Null})
  BY DEF IInv, TypeOK
<1>2. /\ pipe'[a] = [st |-> "open", conn |-> k] /\ \A b \in Addrs \ {a} : pipe'[b] = pipe[b]
      /\ link'[k] = "up" /\ \A c \in Conns \ {k} : link'[c] = link[c]
      /\ pipe[a].conn = Null
  BY <1>1 DEF OnNewConnection, IInv, PipesOK
<1>3. \A c \in Conns : link'[c] = "up" => \E b \in Addrs : pipe'[b].conn = c
  <2> SUFFICES ASSUME NEW c \in Conns, link'[c] = "up"
               PROVE  \E b \in Addrs : pipe'[b].conn = c
    OBVIOUS
  <2>1. CASE c = k
    BY <1>2, <2>1
  <2>2. CASE c # k
    <3>1. PICK b \in Addrs : pipe[b].conn = c
      BY <1>2, <2>2 DEF LeakFree
    <3>2. b # a
      BY <1>2, <3>1, IPCServerAssumption
    <3> QED
      BY <1>2, <3>1, <3>2
  <2> QED
    BY <2>1, <2>2
<1>4. \A i \in 1..Len(slots') : slots'[i] # Null
  <2>1. slots' = Append(slots, a) /\ a # Null
    BY IPCServerAssumption DEF OnNewConnection
  <2> QED
    BY <1>1, <2>1 DEF LeakFree
<1>5. \A b \in Addrs : pipe'[b].st # "closing" /\ (pipe'[b].st = "free" => wq[b] = <<>>)
  BY <1>2 DEF LeakFree
<1> QED
  BY <1>3, <1>4, <1>5 DEF LeakFree, OnNewConnection

\* The steps that move completions.
LEMMA StepCompletions ==
  ASSUME IInv, LeakFree,
         \/ Threads \/ OnReplyCrash \/ OnWrite \/ Poll
         \/ \E a \in Addrs, n \in 1..MaxRead : OnRead(a, n)
  PROVE  LeakFree'
<1> USE DEF peerVars, pipeVars, execVars, noticeVars, ioVars
<1>0. iocp \in Seq(Completion)
  BY DEF IInv, TypeOK
<1>1. ASSUME NEW m, PostNotice(m),
             UNCHANGED <<leaked, link, pipe, slots, wq, pending>>
      PROVE  LeakFree'
  <2>1. iocp' = Append(iocp, [kind |-> "async", notice |-> m, addr |-> Null, ok |-> TRUE])
    BY <1>1 DEF PostNotice
  <2>2. \A i \in 1..Len(iocp') : iocp'[i].ok
    BY <1>0, <2>1 DEF LeakFree
  <2> QED
    BY <1>1, <2>2 DEF LeakFree
<1>2. CASE Threads
  BY <1>1, <1>2 DEF Threads, ExecEvent, ExecReply, loopVars
<1>3. ASSUME NEW a \in Addrs, NEW n \in 1..MaxRead, OnRead(a, n)
      PROVE  LeakFree'
  <2>1. UNCHANGED <<leaked, link, pipe, slots, wq, pending>>
    BY <1>3 DEF OnRead, loopVars
  <2>2. UNCHANGED iocp \/ \E m : PostNotice(m)
    BY <1>3 DEF OnRead
  <2>3. CASE UNCHANGED iocp
    BY <2>1, <2>3 DEF LeakFree
  <2> QED
    BY <1>1, <2>1, <2>2, <2>3
<1>4. CASE OnReplyCrash
  BY <1>4 DEF OnReplyCrash, LeakFree
<1>5. CASE OnWrite
  <2>1. pending # <<>> /\ pending' = Tail(pending) /\ UNCHANGED <<link, pipe, slots, wq, iocp>>
    BY <1>5 DEF OnWrite, OnWriteFailed, OnWritten, AtHead
  <2>2. Head(pending).ok /\ \A i \in 1..Len(pending') : pending'[i].ok
    BY <2>1, TakenOk DEF IInv, LeakFree
  <2>3. UNCHANGED leaked
    BY <1>5, <2>2 DEF OnWrite, OnWriteFailed, OnWritten
  <2> QED
    BY <2>1, <2>2, <2>3 DEF LeakFree
<1>6. CASE Poll
  BY <1>6 DEF Poll, LeakFree
<1> QED
  BY <1>2, <1>3, <1>4, <1>5, <1>6

LEMMA StepLeakInv ==
  ASSUME IInv, SlotsArePipes, LeakInv, [Next]_vars
  PROVE  LeakInv'
<1> SUFFICES ASSUME NoDown'
             PROVE  LeakFree'
  BY DEF LeakInv
<1>0. NoDown /\ LeakFree
  BY DownForGood DEF LeakInv, IInv
<1>1. CASE Peers \/ UNCHANGED vars
  <2>1. UNCHANGED <<leaked, pipe, slots, wq, iocp, pending>>
    BY <1>1 DEF Peers, Connect, Disconnect, SendRequest, vars, pipeVars, noticeVars, ioVars, loopVars
  <2>2. \A k \in Conns : link'[k] = "up" => link[k] = "up"
    BY <1>1 DEF Peers, Connect, Disconnect, SendRequest, vars, peerVars, IInv, TypeOK
  <2> QED
    BY <1>0, <2>1, <2>2 DEF LeakFree
<1>2. CASE \/ Threads \/ OnReplyCrash \/ OnWrite \/ Poll
           \/ \E a \in Addrs, n \in 1..MaxRead : OnRead(a, n)
  BY <1>0, <1>2, StepCompletions
<1>3. CASE OnReply \/ OnEvent
  BY <1>0, <1>3, StepReply, StepEvent
<1>4. CASE \E k \in Conns, a \in Addrs : OnNewConnection(k, a)
  BY <1>0, <1>4, StepNewConnection
<1>5. ASSUME NEW a \in Addrs, OnEof(a)
      PROVE  LeakFree'
  <2>1. pipe[a].conn \in Conns
    BY <1>5, IPCServerAssumption DEF OnEof, IInv, PipesOK, TypeOK
  <2> QED
    BY <1>0, <1>5, <2>1 DEF OnEof, NoDown
<1>6. CASE Endgames
  <2>1. Closed = {}
    BY <1>0 DEF Closed, LeakFree
  <2> QED
    BY <1>0, <1>6, <2>1 DEF Endgames, EraseClients, LeakFree, IInv, TypeOK, peerVars, noticeVars, ioVars
<1>7. CASE ProcessDone
  BY <1>0, <1>7 DEF ProcessDone, LeakFree, peerVars, pipeVars, noticeVars, ioVars
<1>8. CASE \E a \in Addrs : IoComplete(a)
  BY <1>0, <1>8, StepIo
<1> QED
  BY <1>1, <1>2, <1>3, <1>4, <1>5, <1>6, <1>7, <1>8
  DEF Next, PipeCallbacks, OnNotify

\* While no client leaves no notice is leaked: every one is written and freed.
THEOREM NoLeakHolds == Spec => []NoLeakWhileConnected
<1>1. Init => LeakInv
  BY DEF Init, LeakInv, LeakFree
<1>2. IInv /\ SlotsArePipes /\ LeakInv /\ [Next]_vars => LeakInv'
  BY StepLeakInv
<1>3. LeakInv => NoLeakWhileConnected
  BY DEF LeakInv, NoDown, LeakFree, NoLeakWhileConnected
<1> QED
  BY <1>1, <1>2, <1>3, Inductive, SlotsArePipesHolds, PTL DEF Spec
-----------------------------------------------------------------------------
(* Where the notices are. *)

\* The notices of a sequence of completions, and of the writes on a pipe.
CIds(q) == {q[i].notice.id : i \in 1..Len(q)}
NIds(q) == {q[i].id : i \in 1..Len(q)}
COnce(q) == \A i, j \in 1..Len(q) : q[i].notice.id = q[j].notice.id => i = j
NOnce(q) == \A i, j \in 1..Len(q) : q[i].id = q[j].id => i = j

\* Every notice is in one place: at the completion port, taken from it, written on one
\* pipe, freed, or leaked.  uv__poll finds nothing left of what it took before.
Places ==
  /\ COnce(iocp) /\ COnce(pending) /\ \A a \in Addrs : NOnce(wq[a])
  /\ CIds(iocp) \cap CIds(pending) = {}
  /\ CIds(iocp) \cap (freed \cup leaked) = {}
  /\ CIds(pending) \cap (freed \cup leaked) = {}
  /\ freed \cap leaked = {}
  /\ \A a \in Addrs : NIds(wq[a]) \cap (CIds(iocp) \cup CIds(pending) \cup freed \cup leaked) = {}
  /\ \A a, b \in Addrs : a # b => NIds(wq[a]) \cap NIds(wq[b]) = {}
  /\ \A x : x \in 1..notices <=>
       \/ x \in CIds(iocp) \/ x \in CIds(pending) \/ x \in freed \/ x \in leaked
       \/ \E a \in Addrs : x \in NIds(wq[a])

PollEmpty == lpc = "poll" => pending = <<>>

LEMMA AppendC ==
  ASSUME NEW S, NEW q \in Seq(S), NEW x \in S
  PROVE  /\ CIds(Append(q, x)) = CIds(q) \cup {x.notice.id}
         /\ COnce(q) /\ x.notice.id \notin CIds(q) => COnce(Append(q, x))
<1> DEFINE p == Append(q, x)
<1>1. Len(p) = Len(q) + 1 /\ Len(q) \in Nat /\ p[Len(q) + 1] = x /\ \A i \in 1..Len(q) : p[i] = q[i]
  OBVIOUS
<1> HIDE DEF p
<1>2. CIds(p) = CIds(q) \cup {x.notice.id}
  BY <1>1 DEF CIds
<1>3. COnce(q) /\ x.notice.id \notin CIds(q) => COnce(p)
  BY <1>1 DEF COnce, CIds
<1> QED
  BY <1>2, <1>3 DEF p

LEMMA AppendN ==
  ASSUME NEW S, NEW q \in Seq(S), NEW x \in S
  PROVE  /\ NIds(Append(q, x)) = NIds(q) \cup {x.id}
         /\ NOnce(q) /\ x.id \notin NIds(q) => NOnce(Append(q, x))
<1> DEFINE p == Append(q, x)
<1>1. Len(p) = Len(q) + 1 /\ Len(q) \in Nat /\ p[Len(q) + 1] = x /\ \A i \in 1..Len(q) : p[i] = q[i]
  OBVIOUS
<1> HIDE DEF p
<1>2. NIds(p) = NIds(q) \cup {x.id}
  BY <1>1 DEF NIds
<1>3. NOnce(q) /\ x.id \notin NIds(q) => NOnce(p)
  BY <1>1 DEF NOnce, NIds
<1> QED
  BY <1>2, <1>3 DEF p

LEMMA TailC ==
  ASSUME NEW S, NEW q \in Seq(S), q # <<>>, COnce(q)
  PROVE  /\ Head(q).notice.id \in CIds(q)
         /\ CIds(Tail(q)) = CIds(q) \ {Head(q).notice.id}
         /\ COnce(Tail(q))
<1> DEFINE p == Tail(q)
<1>1. /\ Len(q) \in Nat \ {0} /\ Len(p) = Len(q) - 1 /\ Head(q) = q[1]
      /\ \A i \in 1..Len(p) : p[i] = q[i + 1]
  OBVIOUS
<1> HIDE DEF p
<1>2. \A i \in 1..Len(q) : i = 1 \/ (i - 1 \in 1..Len(p) /\ q[i] = p[i - 1])
  BY <1>1
<1>3. Head(q).notice.id \in CIds(q)
  BY <1>1 DEF CIds
<1>4. COnce(p)
  BY <1>1 DEF COnce
<1>5. CIds(p) = CIds(q) \ {Head(q).notice.id}
  <2>1. ASSUME NEW i \in 1..Len(p)
        PROVE  i + 1 \in 1..Len(q) /\ p[i] = q[i + 1] /\ p[i].notice.id # q[1].notice.id
    BY <1>1 DEF COnce
  <2>2. \A x \in CIds(p) : x \in CIds(q) /\ x # Head(q).notice.id
    BY <1>1, <2>1 DEF CIds
  <2>3. ASSUME NEW x \in CIds(q), x # Head(q).notice.id
        PROVE  x \in CIds(p)
    <3>1. PICK i \in 1..Len(q) : x = q[i].notice.id
      BY DEF CIds
    <3>2. i # 1
      BY <1>1, <2>3, <3>1
    <3> QED
      BY <1>2, <3>1, <3>2 DEF CIds
  <2> QED
    BY <2>2, <2>3
<1> QED
  BY <1>3, <1>4, <1>5 DEF p

LEMMA TailN ==
  ASSUME NEW S, NEW q \in Seq(S), q # <<>>, NOnce(q)
  PROVE  /\ Head(q).id \in NIds(q)
         /\ NIds(Tail(q)) = NIds(q) \ {Head(q).id}
         /\ NOnce(Tail(q))
<1> DEFINE p == Tail(q)
<1>1. /\ Len(q) \in Nat \ {0} /\ Len(p) = Len(q) - 1 /\ Head(q) = q[1]
      /\ \A i \in 1..Len(p) : p[i] = q[i + 1]
  OBVIOUS
<1> HIDE DEF p
<1>2. \A i \in 1..Len(q) : i = 1 \/ (i - 1 \in 1..Len(p) /\ q[i] = p[i - 1])
  BY <1>1
<1>3. Head(q).id \in NIds(q)
  BY <1>1 DEF NIds
<1>4. NOnce(p)
  BY <1>1 DEF NOnce
<1>5. NIds(p) = NIds(q) \ {Head(q).id}
  <2>1. ASSUME NEW i \in 1..Len(p)
        PROVE  i + 1 \in 1..Len(q) /\ p[i] = q[i + 1] /\ p[i].id # q[1].id
    BY <1>1 DEF NOnce
  <2>2. \A x \in NIds(p) : x \in NIds(q) /\ x # Head(q).id
    BY <1>1, <2>1 DEF NIds
  <2>3. ASSUME NEW x \in NIds(q), x # Head(q).id
        PROVE  x \in NIds(p)
    <3>1. PICK i \in 1..Len(q) : x = q[i].id
      BY DEF NIds
    <3>2. i # 1
      BY <1>1, <2>3, <3>1
    <3> QED
      BY <1>2, <3>1, <3>2 DEF NIds
  <2> QED
    BY <2>2, <2>3
<1> QED
  BY <1>3, <1>4, <1>5 DEF p

LEMMA StepPost ==
  ASSUME TypeOK, Places, NEW m \in NoticeRec, m.id = notices + 1, PostNotice(m),
         UNCHANGED <<freed, leaked, wq, pending>>
  PROVE  Places'
<1>1. /\ iocp' = Append(iocp, [kind |-> "async", notice |-> m, addr |-> Null, ok |-> TRUE])
      /\ notices' = notices + 1 /\ notices \in Nat
  BY PostNoticeType DEF PostNotice, TypeOK
<1>2. [kind |-> "async", notice |-> m, addr |-> Null, ok |-> TRUE] \in Completion /\ iocp \in Seq(Completion)
  BY DEF Completion, TypeOK
<1>3. notices + 1 \notin CIds(iocp)
  BY <1>1 DEF Places
<1>4. CIds(iocp') = CIds(iocp) \cup {notices + 1} /\ COnce(iocp')
  BY <1>1, <1>2, <1>3, AppendC DEF Places
<1>5. \A x : x \in 1..notices' <=> x \in 1..notices \/ x = notices + 1
  BY <1>1
<1>6. notices + 1 \notin 1..notices
  BY <1>1
<1> QED
  BY <1>4, <1>5, <1>6 DEF Places

\* Notices with the address each is sent to, one per address.
Sendable(T) ==
  /\ \A t \in T : t[1] \in NoticeRec /\ t[2] \in Addrs
  /\ \A t, u \in T : t[2] = u[2] => t = u

\* The notices L of T are leaked, those of F freed, the others written.
Placed(T, lost, used, L, F) ==
  /\ L \cap F = {}
  /\ leaked' = leaked \cup lost \cup {t[1].id : t \in L}
  /\ freed' = freed \cup used \cup {t[1].id : t \in F}
  /\ \A a \in Addrs : (\A t \in T \ (L \cup F) : t[2] # a) => wq'[a] = wq[a]
  /\ \A t \in T \ (L \cup F) : wq'[t[2]] = Append(wq[t[2]], t[1])

\* The notices N with which the loop replaces the one it takes: lost, used and those of T,
\* all different and new but for the one taken.
Replaces(T, lost, used, N) ==
  /\ \A t, u \in T : t[1].id = u[1].id => t = u
  /\ \A t \in T : t[1].id \notin lost \cup used
  /\ lost \cap used = {}
  /\ \A x : x \in N <=> x \in lost \/ x \in used \/ \E t \in T : x = t[1].id
  /\ Head(pending).notice.id \in N
  /\ \A x \in N : x = Head(pending).notice.id \/ x \notin 1..notices
  /\ \A x : x \in 1..notices' <=> x \in 1..notices \/ x \in N

\* What send_notify does with the notices of T: each goes to the pipe of its address, or
\* is leaked, or is freed.
LEMMA SendNotifyPlaces ==
  ASSUME TypeOK, NEW T, NEW lost, NEW used, SendNotify(T, lost, used),
         Sendable(T)
  PROVE  \E L, F \in SUBSET T : Placed(T, lost, used, L, F)
<1> USE DEF Sendable
<1> DEFINE Open == {u \in T : pipe[u[2]].st = "open"}
<1>1. PICK F \in SUBSET {u \in Open : link[pipe[u[2]].conn] = "down"} :
        /\ wq' = [b \in Addrs |->
                    IF \E u \in Open \ F : u[2] = b
                      THEN Append(wq[b], (CHOOSE u \in Open \ F : u[2] = b)[1])
                      ELSE wq[b]]
        /\ leaked' = leaked \cup lost \cup {t[1].id : t \in T \ Open}
        /\ freed' = freed \cup used \cup {t[1].id : t \in F}
  BY DEF SendNotify
<1> DEFINE L == T \ Open
<1>2. L \in SUBSET T /\ F \in SUBSET T /\ L \cap F = {} /\ T \ (L \cup F) = Open \ F
  OBVIOUS
<1>3. ASSUME NEW a \in Addrs, \A t \in Open \ F : t[2] # a PROVE wq'[a] = wq[a]
  <2> HIDE DEF Open
  <2> QED
    BY <1>1, <1>3
<1>4. ASSUME NEW t \in Open \ F PROVE wq'[t[2]] = Append(wq[t[2]], t[1])
  <2> DEFINE u == CHOOSE v \in Open \ F : v[2] = t[2]
  <2>1. u \in Open \ F /\ u[2] = t[2]
    OBVIOUS
  <2>2. u = t
    BY <2>1
  <2>3. wq'[t[2]] = Append(wq[t[2]], u[1])
    <3>1. t[2] \in Addrs
      OBVIOUS
    <3> HIDE DEF Open
    <3> QED
      BY <1>1, <3>1
  <2> QED
    BY <2>2, <2>3
<1>5. leaked' = leaked \cup lost \cup {t[1].id : t \in L}
  BY <1>1
<1>8. freed' = freed \cup used \cup {t[1].id : t \in F}
  BY <1>1
<1>6. \A a \in Addrs : (\A t \in T \ (L \cup F) : t[2] # a) => wq'[a] = wq[a]
  BY <1>2, <1>3
<1>7. \A t \in T \ (L \cup F) : wq'[t[2]] = Append(wq[t[2]], t[1])
  BY <1>2, <1>4
<1> HIDE DEF L, Open
<1> QED
  <2>1. L \in SUBSET T /\ F \in SUBSET T
    BY <1>2
  <2>2. Placed(T, lost, used, L, F)
    BY <1>2, <1>5, <1>6, <1>7, <1>8 DEF Placed
  <2> QED
    BY <2>1, <2>2

\* A completion is taken and the notices N, its own and new ones, are given places.
LEMMA StepSend ==
  ASSUME TypeOK, Places, NEW T, NEW lost, NEW used, NEW N, SendNotify(T, lost, used),
         Sendable(T), Replaces(T, lost, used, N),
         pending # <<>>, pending' = Tail(pending), UNCHANGED iocp
  PROVE  Places'
<1> DEFINE h == Head(pending).notice.id
<1>1. PICK L, F \in SUBSET T : Placed(T, lost, used, L, F)
  BY SendNotifyPlaces
<1> USE <1>1 DEF Placed, Sendable, Replaces
<1> DEFINE S == T \ (L \cup F)
           LN == lost \cup {t[1].id : t \in L}
           FN == used \cup {t[1].id : t \in F}
           G(a) == {x \in N : \E t \in S : t[2] = a /\ x = t[1].id}
<1>2. /\ h \in CIds(pending) /\ CIds(pending') = CIds(pending) \ {h} /\ COnce(pending')
  <2>1. pending \in Seq(Completion)
    BY DEF TypeOK
  <2> QED
    BY <2>1, TailC DEF Places
<1>3. \A x \in N : /\ x \notin CIds(iocp) /\ x \notin CIds(pending') /\ x \notin freed /\ x \notin leaked
                   /\ \A a \in Addrs : x \notin NIds(wq[a])
  BY <1>2 DEF Places
<1>4. ASSUME NEW a \in Addrs
      PROVE  NIds(wq'[a]) = NIds(wq[a]) \cup G(a) /\ NOnce(wq'[a])
  <2>1. CASE \A t \in S : t[2] # a
    BY <1>1, <2>1 DEF Places
  <2>2. ASSUME NEW t \in S, t[2] = a
        PROVE  NIds(wq'[a]) = NIds(wq[a]) \cup G(a) /\ NOnce(wq'[a])
    <3>1. wq'[a] = Append(wq[a], t[1]) /\ t[1] \in NoticeRec /\ wq[a] \in Seq(NoticeRec)
      BY <1>1, <2>2 DEF TypeOK
    <3>2. t[1].id \in N
      OBVIOUS
    <3>3. G(a) = {t[1].id}
      BY <2>2, <3>2
    <3>4. NOnce(wq[a]) /\ t[1].id \notin NIds(wq[a])
      BY <1>3, <3>2 DEF Places
    <3> QED
      BY <3>1, <3>3, <3>4, AppendN
  <2> QED
    BY <2>1, <2>2
<1>5. LN \cap FN = {} /\ LN \subseteq N /\ FN \subseteq N
  BY <1>1
<1>6. \A a \in Addrs : G(a) \subseteq N /\ G(a) \cap (LN \cup FN) = {}
  OBVIOUS
<1>7. \A a, b \in Addrs : a # b => G(a) \cap G(b) = {}
  OBVIOUS
<1>8. \A x \in N : x \in LN \/ x \in FN \/ \E a \in Addrs : x \in G(a)
  OBVIOUS
<1>9. leaked' = leaked \cup LN /\ freed' = freed \cup FN
  BY <1>1
<1> HIDE DEF S, LN, FN, G
<1>10. \A a \in Addrs : NIds(wq'[a]) \cap (CIds(iocp) \cup CIds(pending') \cup freed' \cup leaked') = {}
  BY <1>2, <1>3, <1>4, <1>5, <1>6, <1>9 DEF Places
<1>11. \A a, b \in Addrs : a # b => NIds(wq'[a]) \cap NIds(wq'[b]) = {}
  <2>1. \A a, b \in Addrs : a # b => NIds(wq[a]) \cap NIds(wq[b]) = {}
    BY DEF Places
  <2>2. \A a, b \in Addrs : NIds(wq[b]) \cap G(a) = {}
    BY <1>3, <1>6
  <2> QED
    BY <1>4, <1>7, <2>1, <2>2
<1>12. \A x : x \in 1..notices' <=>
           \/ x \in CIds(iocp) \/ x \in CIds(pending') \/ x \in freed' \/ x \in leaked'
           \/ \E a \in Addrs : x \in NIds(wq'[a])
  <2>1. \A x : x \in 1..notices' <=> x \in 1..notices \/ x \in N
    OBVIOUS
  <2>2. \A x : x \in N <=> x \in LN \/ x \in FN \/ \E a \in Addrs : x \in G(a)
    BY <1>5, <1>6, <1>8
  <2>3. \A x : x \in CIds(pending) <=> x \in CIds(pending') \/ x = h
    BY <1>2
  <2>4. \A x : x \in 1..notices <=>
           \/ x \in CIds(iocp) \/ x \in CIds(pending) \/ x \in freed \/ x \in leaked
           \/ \E a \in Addrs : x \in NIds(wq[a])
    BY DEF Places
  <2>5. h \in N
    OBVIOUS
  <2> HIDE DEF h
  <2> QED
    BY <1>4, <1>9, <2>1, <2>2, <2>3, <2>4, <2>5
<1>13. /\ CIds(iocp) \cap CIds(pending') = {}
       /\ CIds(iocp) \cap (freed' \cup leaked') = {}
       /\ CIds(pending') \cap (freed' \cup leaked') = {}
       /\ freed' \cap leaked' = {}
  BY <1>2, <1>3, <1>5, <1>9 DEF Places
<1> QED
  BY <1>2, <1>4, <1>10, <1>11, <1>12, <1>13 DEF Places

LEMMA StepReplyPlaces ==
  ASSUME TypeOK, Places, OnReply
  PROVE  Places'
<1> USE DEF peerVars, pipeVars
<1> DEFINE n == Head(pending).notice
           T == {<<n, n.addr>>}
<1>1. /\ pending # <<>> /\ n.addr # Null /\ SendNotify(T, {}, {})
      /\ pending' = Tail(pending) /\ UNCHANGED <<iocp, notices>>
  BY DEF OnReply, AtHead
<1>2. n \in NoticeRec /\ n.addr \in Addrs
  BY <1>1, HeadType
<1>3. n.id \in CIds(pending)
  BY <1>1, TailC DEF TypeOK, Places
<1>4. n.id \in 1..notices
  BY <1>3 DEF Places
<1>5. Sendable(T)
  BY <1>2 DEF Sendable
<1>6. Replaces(T, {}, {}, {n.id})
  BY <1>1, <1>4 DEF Replaces
<1> HIDE DEF n, T
<1> QED
  BY <1>1, <1>5, <1>6, StepSend

LEMMA StepEventPlaces ==
  ASSUME TypeOK, SlotsArePipes, Places, OnEvent
  PROVE  Places'
<1> USE DEF peerVars, pipeVars
<1> DEFINE n == Head(pending).notice
           Clone(i) == [n EXCEPT !.id = notices + i]
           T == {<<Clone(i), slots[i]>> : i \in Reached}
           lost == {notices + i : i \in (1..Len(slots)) \ Reached}
           N == {n.id} \cup {notices + i : i \in 1..Len(slots)}
<1>1. /\ pending # <<>> /\ SendNotify(T, lost, {n.id}) /\ notices' = notices + Len(slots)
      /\ pending' = Tail(pending) /\ UNCHANGED iocp
  BY DEF OnEvent, AtHead
<1>2. n \in NoticeRec /\ notices \in Nat /\ Len(slots) \in Nat
  BY <1>1, HeadType DEF TypeOK
<1>3. n.id \in CIds(pending)
  BY <1>1, TailC DEF TypeOK, Places
<1>4. n.id \in 1..notices
  BY <1>3 DEF Places
<1>5. \A i \in 1..Len(slots) : Clone(i) \in NoticeRec /\ Clone(i).id = notices + i
  BY <1>2 DEF NoticeRec
<1>6. \A i \in Reached : i \in 1..Len(slots) /\ slots[i] \in Addrs
  BY DEF Reached, TypeOK
<1>7. \A i, j \in Reached : slots[i] = slots[j] => i = j
  BY DEF Reached, SlotsArePipes
<1> HIDE DEF Clone
<1>8. \A t \in T : /\ t[1] \in NoticeRec /\ t[2] \in Addrs
                   /\ \E i \in Reached : t = <<Clone(i), slots[i]>> /\ t[1].id = notices + i
  BY <1>5, <1>6
<1>9. \A t, u \in T : t[2] = u[2] => t = u
  BY <1>7
<1>10. \A t, u \in T : t[1].id = u[1].id => t = u
  BY <1>2, <1>5, <1>6
<1>11. \A t \in T : t[1].id \notin lost \cup {n.id}
  BY <1>2, <1>4, <1>5, <1>6
<1>12. lost \cap {n.id} = {}
  BY <1>2, <1>4
<1>13. \A x : x \in N <=> x \in lost \/ x \in {n.id} \/ \E t \in T : x = t[1].id
  <2>1. \A x : (\E t \in T : x = t[1].id) <=> \E i \in Reached : x = notices + i
    <3>1. \A i \in Reached : /\ <<Clone(i), slots[i]>> \in T
                             /\ <<Clone(i), slots[i]>>[1].id = notices + i
      BY <1>5, <1>6
    <3> QED
      BY <1>8, <3>1
  <2>2. Reached \subseteq 1..Len(slots)
    BY <1>6
  <2> HIDE DEF T, n
  <2> QED
    BY <2>1, <2>2
<1>14. n.id \in N /\ \A x \in N : x = n.id \/ x \notin 1..notices
  BY <1>2
<1>15. \A x : x \in 1..notices' <=> x \in 1..notices \/ x \in N
  <2>1. notices' \in Nat /\ notices' = notices + Len(slots)
    BY <1>1, <1>2
  <2>2. \A x : x \in 1..notices' => x \in 1..notices \/ x - notices \in 1..Len(slots)
    BY <1>2, <2>1
  <2>3. \A x \in 1..notices' : x \in 1..notices \/ x \in N
    BY <1>2, <2>1, <2>2
  <2>4. \A x \in N : x \in 1..notices'
    BY <1>2, <1>4, <2>1
  <2> QED
    BY <1>2, <2>1, <2>3, <2>4
<1>16. Sendable(T)
  BY <1>8, <1>9 DEF Sendable
<1>17. Replaces(T, lost, {n.id}, N)
  <2>1. n = Head(pending).notice
    OBVIOUS
  <2> HIDE DEF n, T, lost, N
  <2> QED
    BY <2>1, <1>10, <1>11, <1>12, <1>13, <1>14, <1>15 DEF Replaces
<1> HIDE DEF n, T, lost, N
<1> QED
  BY <1>1, <1>16, <1>17, StepSend

LEMMA StepOnWritePlaces ==
  ASSUME TypeOK, Places, OnWrite
  PROVE  Places'
<1> USE DEF pipeVars, noticeVars, ioVars
<1> DEFINE h == Head(pending).notice.id
<1>1. /\ pending # <<>> /\ pending' = Tail(pending) /\ UNCHANGED <<wq, iocp, notices>>
      /\ \/ leaked' = leaked \cup {h} /\ UNCHANGED freed
         \/ freed' = freed \cup {h} /\ UNCHANGED leaked
  BY DEF OnWrite, OnWriteFailed, OnWritten, AtHead
<1>2. /\ h \in CIds(pending) /\ CIds(pending') = CIds(pending) \ {h} /\ COnce(pending')
  <2>1. pending \in Seq(Completion)
    BY DEF TypeOK
  <2> QED
    BY <1>1, <2>1, TailC DEF Places
<1> HIDE DEF h
<1>3. /\ h \notin CIds(iocp) /\ h \notin freed /\ h \notin leaked
      /\ \A a \in Addrs : h \notin NIds(wq[a])
  BY <1>2 DEF Places
<1>4. \A x : x \in CIds(pending) \/ x \in freed \/ x \in leaked
               <=> x \in CIds(pending') \/ x \in freed' \/ x \in leaked'
  BY <1>1, <1>2
<1>5. /\ CIds(iocp) \cap CIds(pending') = {}
      /\ CIds(iocp) \cap (freed' \cup leaked') = {}
      /\ CIds(pending') \cap (freed' \cup leaked') = {}
      /\ freed' \cap leaked' = {}
  BY <1>1, <1>2, <1>3 DEF Places
<1>6. \A a \in Addrs : NIds(wq[a]) \cap (CIds(iocp) \cup CIds(pending') \cup freed' \cup leaked') = {}
  BY <1>1, <1>2, <1>3 DEF Places
<1>7. \A x : x \in 1..notices <=>
           \/ x \in CIds(iocp) \/ x \in CIds(pending') \/ x \in freed' \/ x \in leaked'
           \/ \E a \in Addrs : x \in NIds(wq[a])
  BY <1>4 DEF Places
<1> QED
  BY <1>1, <1>2, <1>5, <1>6, <1>7 DEF Places

LEMMA StepIoPlaces ==
  ASSUME TypeOK, Places, NEW a \in Addrs, IoComplete(a)
  PROVE  Places'
<1> USE DEF pipeVars, noticeVars, loopVars
<1> DEFINE h == Head(wq[a])
<1>1. /\ wq[a] # <<>> /\ wq[a] \in Seq(NoticeRec) /\ iocp \in Seq(Completion)
      /\ wq' = [wq EXCEPT ![a] = Tail(@)] /\ UNCHANGED <<pending, freed, leaked, notices>>
  BY DEF IoComplete, TypeOK
<1>2. h \in NoticeRec
  BY <1>1
<1>3. PICK c \in Completion : c.notice = h /\ iocp' = Append(iocp, c)
  <2>1. PICK ok \in BOOLEAN :
          iocp' = Append(iocp, [kind |-> "write", notice |-> h, addr |-> a, ok |-> ok])
    BY DEF IoComplete
  <2>2. [kind |-> "write", notice |-> h, addr |-> a, ok |-> ok] \in Completion
    BY <1>2 DEF Completion
  <2> QED
    BY <2>1, <2>2
<1>4. /\ h.id \in NIds(wq[a]) /\ NIds(wq'[a]) = NIds(wq[a]) \ {h.id} /\ NOnce(wq'[a])
  <2>1. wq'[a] = Tail(wq[a]) /\ NOnce(wq[a])
    BY <1>1 DEF TypeOK, Places
  <2> QED
    BY <1>1, <2>1, TailN
<1>5. \A b \in Addrs \ {a} : wq'[b] = wq[b]
  BY <1>1 DEF TypeOK
<1> HIDE DEF h
<1>6. /\ h.id \notin CIds(iocp) /\ h.id \notin CIds(pending) /\ h.id \notin freed /\ h.id \notin leaked
      /\ \A b \in Addrs \ {a} : h.id \notin NIds(wq[b])
  BY <1>4 DEF Places
<1>7. CIds(iocp') = CIds(iocp) \cup {h.id} /\ COnce(iocp')
  BY <1>1, <1>3, <1>6, AppendC DEF Places
<1>8. \A b \in Addrs : NIds(wq'[b]) = NIds(wq[b]) \ {h.id} /\ NOnce(wq'[b])
  BY <1>4, <1>5, <1>6 DEF Places
<1>9. \A x : x \in CIds(iocp) \/ (\E b \in Addrs : x \in NIds(wq[b]))
               <=> x \in CIds(iocp') \/ (\E b \in Addrs : x \in NIds(wq'[b]))
  BY <1>4, <1>7, <1>8
<1>10. \A x : x \in 1..notices <=>
           \/ x \in CIds(iocp') \/ x \in CIds(pending) \/ x \in freed \/ x \in leaked
           \/ \E b \in Addrs : x \in NIds(wq'[b])
  BY <1>9 DEF Places
<1>11. /\ CIds(iocp') \cap CIds(pending) = {} /\ CIds(iocp') \cap (freed \cup leaked) = {}
  BY <1>6, <1>7 DEF Places
<1>12. \A b \in Addrs : NIds(wq'[b]) \cap (CIds(iocp') \cup CIds(pending) \cup freed \cup leaked) = {}
  BY <1>7, <1>8 DEF Places
<1>13. \A b, d \in Addrs : b # d => NIds(wq'[b]) \cap NIds(wq'[d]) = {}
  BY <1>8 DEF Places
<1> QED
  BY <1>1, <1>7, <1>8, <1>10, <1>11, <1>12, <1>13 DEF Places

LEMMA StepThreadsPlaces ==
  ASSUME IInv, Places, Threads \/ \E a \in Addrs, n \in 1..MaxRead : OnRead(a, n)
  PROVE  Places'
<1> USE DEF pipeVars, execVars, loopVars
<1>0. TypeOK
  BY DEF IInv
<1>1. CASE ExecEvent
  <2> DEFINE m == Notice(NoRequest, Null, FALSE)
  <2>1. m \in NoticeRec /\ m.id = notices + 1
    BY <1>0, NoticeType
  <2>2. PostNotice(m) /\ UNCHANGED <<freed, leaked, wq, pending>>
    BY <1>1 DEF ExecEvent
  <2> HIDE DEF m
  <2> QED
    BY <1>0, <2>1, <2>2, StepPost
<1>2. ASSUME NEW exit \in BOOLEAN, ExecReply(exit)
      PROVE  Places'
  <2> DEFINE m == Notice(Head(queued).req, Head(queued).addr, exit)
  <2>1. Head(queued).req \in Request \cup {NoRequest} /\ Head(queued).addr \in Addrs \cup {Null}
    <3>1. queued # <<>> /\ queued \in Seq(Command)
      BY <1>0, <1>2 DEF ExecReply, TypeOK
    <3>2. Head(queued) \in Command
      BY <3>1, TailProperties
    <3> QED
      BY <3>2 DEF Command
  <2>2. m \in NoticeRec /\ m.id = notices + 1
    BY <1>0, <2>1, NoticeType
  <2>3. PostNotice(m) /\ UNCHANGED <<freed, leaked, wq, pending>>
    BY <1>2 DEF ExecReply
  <2> HIDE DEF m
  <2> QED
    BY <1>0, <2>2, <2>3, StepPost
<1>3. ASSUME NEW a \in Addrs, NEW n \in 1..MaxRead, OnRead(a, n)
      PROVE  Places'
  <2> DEFINE r == Head(inbox[pipe[a].conn])
             m == Notice(r, a, FALSE)
  <2>1. pipe[a].conn \in Conns /\ n \in Nat \ {0} /\ n <= Len(inbox[pipe[a].conn])
    BY <1>3, IPCServerAssumption DEF OnRead, IInv, PipesOK, TypeOK
  <2>2. inbox[pipe[a].conn] \in Seq(Request)
    BY <1>0, <2>1 DEF TypeOK
  <2>3. r \in Request \cup {NoRequest}
    BY <2>1, <2>2
  <2>4. m \in NoticeRec /\ m.id = notices + 1
    BY <1>0, <2>3, NoticeType
  <2>5. /\ UNCHANGED <<freed, leaked, wq, pending>>
        /\ PostNotice(m) \/ UNCHANGED <<notices, iocp>>
    BY <1>3 DEF OnRead
  <2> HIDE DEF m
  <2>6. CASE PostNotice(m)
    BY <1>0, <2>4, <2>5, <2>6, StepPost
  <2>7. CASE UNCHANGED <<notices, iocp>>
    BY <2>5, <2>7 DEF Places
  <2> QED
    BY <2>5, <2>6, <2>7
<1> QED
  BY <1>1, <1>2, <1>3 DEF Threads

LEMMA StepPollEmpty ==
  ASSUME PollEmpty, [Next]_vars
  PROVE  PollEmpty'
<1>1. CASE lpc' = "poll" /\ lpc # "poll"
  BY <1>1 DEF Next, Peers, Connect, Disconnect, SendRequest, Threads, ExecEvent, ExecReply,
              PipeCallbacks, OnNewConnection, OnRead, OnEof, OnNotify, OnReply, OnReplyCrash,
              OnEvent, OnWrite, OnWriteFailed, OnWritten, NotifyExit, AtHead, ProcessDone, Poll,
              Endgames, IoComplete, PollEmpty, vars, loopVars
<1>2. CASE lpc = "poll"
  BY <1>2 DEF Next, Peers, Connect, Disconnect, SendRequest, Threads, ExecEvent, ExecReply,
              PipeCallbacks, OnNewConnection, OnRead, OnEof, OnNotify, OnReply, OnReplyCrash,
              OnEvent, OnWrite, OnWriteFailed, OnWritten, AtHead, ProcessDone, Poll,
              Endgames, IoComplete, PollEmpty, vars, loopVars
<1> QED
  BY <1>1, <1>2 DEF PollEmpty

LEMMA StepPlaces ==
  ASSUME IInv, SlotsArePipes, Places, PollEmpty, [Next]_vars
  PROVE  Places'
<1>0. TypeOK
  BY DEF IInv
<1>1. CASE \/ Peers \/ OnReplyCrash \/ ProcessDone \/ Endgames \/ UNCHANGED vars
           \/ \E a \in Addrs : OnEof(a) \/ \E k \in Conns : OnNewConnection(k, a)
  <2>1. UNCHANGED <<iocp, pending, wq, freed, leaked, notices>>
    BY <1>1 DEF Peers, Connect, Disconnect, SendRequest, OnReplyCrash, ProcessDone, Endgames,
                OnEof, OnNewConnection, vars, noticeVars, ioVars, loopVars
  <2> QED
    BY <2>1 DEF Places
<1>2. CASE Threads \/ \E a \in Addrs, n \in 1..MaxRead : OnRead(a, n)
  BY <1>2, StepThreadsPlaces
<1>3. CASE OnReply \/ OnEvent \/ OnWrite
  BY <1>0, <1>3, StepReplyPlaces, StepEventPlaces, StepOnWritePlaces
<1>4. ASSUME NEW a \in Addrs, IoComplete(a)
      PROVE  Places'
  BY <1>0, <1>4, StepIoPlaces
<1>5. CASE Poll
  <2>1. /\ pending = <<>> /\ pending' = iocp /\ iocp' = <<>>
        /\ UNCHANGED <<wq, freed, leaked, notices>>
    BY <1>5 DEF Poll, PollEmpty, noticeVars
  <2>2. CIds(<<>>) = {} /\ COnce(<<>>)
    BY DEF CIds, COnce
  <2> QED
    BY <2>1, <2>2 DEF Places
<1> QED
  BY <1>1, <1>2, <1>3, <1>4, <1>5 DEF Next, PipeCallbacks, OnNotify

\* Every notice is referred to by exactly one of the completion port, the loop and the
\* pipes, or is freed once, or leaked.
THEOREM NoticesAccountedHolds == Spec => []NoticesAccounted
<1>1. Init => Places /\ PollEmpty
  BY DEF Init, Places, PollEmpty, CIds, NIds, COnce, NOnce
<1>2. IInv /\ SlotsArePipes /\ Places /\ PollEmpty /\ [Next]_vars => Places' /\ PollEmpty'
  BY StepPlaces, StepPollEmpty
<1>3. Places => NoticesAccounted
  <2> SUFFICES ASSUME Places
               PROVE  NoticesAccounted
    OBVIOUS
  <2>1. \A x : x \in Referenced <=> \/ x \in CIds(iocp) \/ x \in CIds(pending)
                                    \/ \E a \in Addrs : x \in NIds(wq[a])
    BY DEF Referenced, CIds, NIds
  <2>2. \A x : x \in Referenced \cup freed \cup leaked <=> x \in 1..notices
    BY <2>1 DEF Places
  <2>3. Referenced \cap (freed \cup leaked) = {}
    BY <2>1 DEF Places
  <2> QED
    BY <2>2, <2>3 DEF Places, NoticesAccounted
<1> QED
  BY <1>1, <1>2, <1>3, Inductive, SlotsArePipesHolds, PTL DEF Spec

-----------------------------------------------------------------------------
(* Replies keep the order of their requests: what requests in a sequence say. *)

\* A stream is what the property speaks of: the commands of one connection, or its
\* WFPGetInfo requests.
Streams == [conn : Conns, info : BOOLEAN]

Wants(r, s) == r.conn = s.conn /\ r.info = s.info

\* Their ids in f, and that they ascend.
Ids(f, s) == {f[i].id : i \in {j \in DOMAIN f : Wants(f[j], s)}}
Ordered(f, s) ==
  \A i, j \in DOMAIN f : i < j /\ Wants(f[i], s) /\ Wants(f[j], s) => f[i].id < f[j].id

Before(A, B) == \A x \in A, y \in B : x < y

\* g is f with r behind it.
Added(f, g, r, s) ==
  IF Wants(r, s)
    THEN /\ Ids(g, s) = Ids(f, s) \cup {r.id}
         /\ Ordered(f, s) /\ Before(Ids(f, s), {r.id}) => Ordered(g, s)
    ELSE Ids(g, s) = Ids(f, s) /\ (Ordered(f, s) => Ordered(g, s))

\* g is the end of f, of which r was the head.
Removed(f, g, r, s) ==
  Ordered(f, s) =>
    /\ Ordered(g, s) /\ Ids(g, s) \subseteq Ids(f, s)
    /\ Wants(r, s) => r.id \in Ids(f, s) /\ Before({r.id}, Ids(g, s))

LEMMA Grows ==
  ASSUME NEW n \in Nat, NEW f, NEW g, NEW s, DOMAIN f = 1..n, DOMAIN g = 1..(n + 1),
         \A i \in 1..n : g[i] = f[i]
  PROVE  Added(f, g, g[n + 1], s)
<1> DEFINE r == g[n + 1]
<1>1. \A i \in 1..(n + 1) : i \in 1..n \/ i = n + 1
  OBVIOUS
<1>2. \A i \in 1..n : i \in 1..(n + 1) /\ i < n + 1 /\ ~(n + 1 < i)
  OBVIOUS
<1>3. n + 1 \in 1..(n + 1)
  OBVIOUS
<1>4. ASSUME Wants(r, s)
      PROVE  /\ Ids(g, s) = Ids(f, s) \cup {r.id}
             /\ Ordered(f, s) /\ Before(Ids(f, s), {r.id}) => Ordered(g, s)
  <2>1. Ids(g, s) = Ids(f, s) \cup {r.id}
    BY <1>1, <1>2, <1>3, <1>4 DEF Ids
  <2>2. ASSUME Ordered(f, s), Before(Ids(f, s), {r.id})
        PROVE  Ordered(g, s)
    <3>1. \A i \in 1..n : Wants(f[i], s) => f[i].id < r.id
      BY <2>2 DEF Before, Ids
    <3>2. ~(n + 1 < n + 1)
      OBVIOUS
    <3> QED
      BY <1>1, <1>2, <2>2, <3>1, <3>2 DEF Ordered
  <2> QED
    BY <2>1, <2>2
<1>5. ASSUME ~Wants(r, s)
      PROVE  Ids(g, s) = Ids(f, s) /\ (Ordered(f, s) => Ordered(g, s))
  BY <1>1, <1>2, <1>5 DEF Ids, Ordered
<1> QED
  BY <1>4, <1>5 DEF Added

LEMMA Shrinks ==
  ASSUME NEW n \in Nat, NEW m \in 1..n, NEW f, NEW g, NEW s,
         DOMAIN f = 1..n, DOMAIN g = 1..(n - m), \A i \in 1..(n - m) : g[i] = f[i + m]
  PROVE  Removed(f, g, f[1], s)
<1> SUFFICES ASSUME Ordered(f, s)
             PROVE  /\ Ordered(g, s) /\ Ids(g, s) \subseteq Ids(f, s)
                    /\ Wants(f[1], s) => f[1].id \in Ids(f, s) /\ Before({f[1].id}, Ids(g, s))
  BY DEF Removed
<1>1. \A i \in 1..(n - m) : i + m \in 1..n /\ 1 < i + m
  OBVIOUS
<1>2. \A i, j \in 1..(n - m) : i < j => i + m < j + m
  OBVIOUS
<1>3. 1 \in 1..n
  OBVIOUS
<1>4. Ordered(g, s)
  BY <1>1, <1>2 DEF Ordered
<1>5. Ids(g, s) \subseteq Ids(f, s)
  BY <1>1 DEF Ids
<1>6. ASSUME Wants(f[1], s)
      PROVE  f[1].id \in Ids(f, s) /\ Before({f[1].id}, Ids(g, s))
  BY <1>1, <1>3, <1>6 DEF Ids, Before, Ordered
<1> QED
  BY <1>4, <1>5, <1>6

\* The requests that commands or notices name, and those that completions answer.
Reqs(q) == [i \in 1..Len(q) |-> q[i].req]
Answers(q) == [i \in 1..Len(q) |-> IF q[i].kind = "async" THEN q[i].notice.req ELSE NoRequest]

LEMMA AppendIds ==
  ASSUME NEW S, NEW q \in Seq(S), NEW x \in S, NEW s
  PROVE  /\ Added(q, Append(q, x), x, s)
         /\ Added(Reqs(q), Reqs(Append(q, x)), x.req, s)
         /\ Added(Answers(q), Answers(Append(q, x)),
                  IF x.kind = "async" THEN x.notice.req ELSE NoRequest, s)
<1> DEFINE p == Append(q, x)
           n == Len(q)
<1>1. /\ n \in Nat /\ Len(p) = n + 1 /\ p[n + 1] = x /\ \A i \in 1..n : p[i] = q[i]
      /\ DOMAIN p = 1..(n + 1) /\ DOMAIN q = 1..n
  OBVIOUS
<1> HIDE DEF p, n
<1>2. Len(q) = n
  BY DEF n
<1>3. Added(q, p, p[n + 1], s)
  BY <1>1, Grows
<1>4. Added(Reqs(q), Reqs(p), Reqs(p)[n + 1], s)
  <2>1. /\ DOMAIN Reqs(q) = 1..n /\ DOMAIN Reqs(p) = 1..(n + 1)
        /\ \A i \in 1..n : Reqs(p)[i] = Reqs(q)[i]
    BY <1>1, <1>2 DEF Reqs
  <2> QED
    BY <1>1, <2>1, Grows
<1>5. Added(Answers(q), Answers(p), Answers(p)[n + 1], s)
  <2>1. /\ DOMAIN Answers(q) = 1..n /\ DOMAIN Answers(p) = 1..(n + 1)
        /\ \A i \in 1..n : Answers(p)[i] = Answers(q)[i]
    BY <1>1, <1>2 DEF Answers
  <2> QED
    BY <1>1, <2>1, Grows
<1>6. n + 1 \in 1..(n + 1)
  BY <1>1
<1>7. /\ Reqs(p)[n + 1] = x.req
      /\ Answers(p)[n + 1] = IF x.kind = "async" THEN x.notice.req ELSE NoRequest
  BY <1>1, <1>6 DEF Reqs, Answers
<1> QED
  BY <1>1, <1>3, <1>4, <1>5, <1>7 DEF p

LEMMA TailIds ==
  ASSUME NEW S, NEW q \in Seq(S), q # <<>>, NEW s
  PROVE  /\ Removed(Reqs(q), Reqs(Tail(q)), Head(q).req, s)
         /\ Removed(Answers(q), Answers(Tail(q)),
                    IF Head(q).kind = "async" THEN Head(q).notice.req ELSE NoRequest, s)
<1> DEFINE p == Tail(q)
           n == Len(q)
<1>1. /\ n \in Nat /\ 1 \in 1..n /\ Len(p) = n - 1 /\ Head(q) = q[1]
      /\ \A i \in 1..(n - 1) : i \in 1..n /\ i + 1 \in 1..n /\ p[i] = q[i + 1]
  OBVIOUS
<1> HIDE DEF p, n
<1>2. Len(q) = n
  BY DEF n
<1>3. Removed(Reqs(q), Reqs(p), Reqs(q)[1], s)
  <2>1. /\ DOMAIN Reqs(q) = 1..n /\ DOMAIN Reqs(p) = 1..(n - 1)
        /\ \A i \in 1..(n - 1) : Reqs(p)[i] = Reqs(q)[i + 1]
    BY <1>1, <1>2 DEF Reqs
  <2> QED
    BY <1>1, <2>1, Shrinks
<1>4. Removed(Answers(q), Answers(p), Answers(q)[1], s)
  <2>1. /\ DOMAIN Answers(q) = 1..n /\ DOMAIN Answers(p) = 1..(n - 1)
        /\ \A i \in 1..(n - 1) : Answers(p)[i] = Answers(q)[i + 1]
    BY <1>1, <1>2 DEF Answers
  <2> QED
    BY <1>1, <2>1, Shrinks
<1>5. /\ Reqs(q)[1] = Head(q).req
      /\ Answers(q)[1] = IF Head(q).kind = "async" THEN Head(q).notice.req ELSE NoRequest
  BY <1>1, <1>2 DEF Reqs, Answers
<1> QED
  BY <1>3, <1>4, <1>5 DEF p

LEMMA SubSeqIds ==
  ASSUME NEW S, NEW q \in Seq(S), NEW n \in 1..Len(q), NEW s
  PROVE  Removed(q, SubSeq(q, n + 1, Len(q)), Head(q), s)
<1> DEFINE p == SubSeq(q, n + 1, Len(q))
           l == Len(q)
<1>1. /\ l \in Nat /\ n \in 1..l /\ DOMAIN q = 1..l /\ DOMAIN p = 1..(l - n)
      /\ \A i \in 1..(l - n) : p[i] = q[i + n]
      /\ Head(q) = q[1]
  OBVIOUS
<1> HIDE DEF p, l
<1>2. Removed(q, p, q[1], s)
  BY <1>1, Shrinks
<1> QED
  BY <1>1, <1>2 DEF p

-----------------------------------------------------------------------------
(* The way of a request. *)

\* The requests of a stream under way on all pipes.
Written(w, s) == UNION {Ids(Reqs(w[a]), s) : a \in Addrs}

\* Ids answered (d), written (w), taken from the completion port (p), at it (c), with the
\* executer (q) and unread (n): who is further on was sent before.  m were sent.
Line(d, w, p, c, q, n, m) ==
  /\ Before(d, w \cup p \cup c \cup q \cup n)
  /\ Before(w, p \cup c \cup q \cup n)
  /\ Before(p, c \cup q \cup n)
  /\ Before(c, q \cup n)
  /\ Before(q, n)
  /\ d \cup w \cup p \cup c \cup q \cup n \subseteq 1..m

OrderedAll(s) ==
  /\ Ordered(delivered[s.conn], s) /\ \A a \in Addrs : Ordered(Reqs(wq[a]), s)
  /\ Ordered(Answers(pending), s) /\ Ordered(Answers(iocp), s)
  /\ Ordered(Reqs(queued), s) /\ Ordered(inbox[s.conn], s)

InLine(s) ==
  Line(Ids(delivered[s.conn], s), Written(wq, s), Ids(Answers(pending), s),
       Ids(Answers(iocp), s), Ids(Reqs(queued), s), Ids(inbox[s.conn], s), sent)

Order == \A s \in Streams : OrderedAll(s) /\ InLine(s)

\* A WFPGetInfo is answered by on_read: it does not go through the executer.
QueuedAreCommands == \A i \in 1..Len(queued) : ~queued[i].req.info

\* The head of one place moves to the end of the next, or is dropped.
LEMMA ReadMoves ==
  ASSUME NEW d, NEW w, NEW p, NEW c, NEW q, NEW n, NEW m, Line(d, w, p, c, q, n, m),
         NEW x \in n, NEW N \in SUBSET n, Before({x}, N)
  PROVE  Line(d, w, p, c, q \cup {x}, N, m)
<1>1. /\ Before(d, w \cup p \cup c \cup (q \cup {x}) \cup N)
      /\ Before(w, p \cup c \cup (q \cup {x}) \cup N)
  BY DEF Line, Before
<1>2. /\ Before(p, c \cup (q \cup {x}) \cup N)
      /\ Before(c, (q \cup {x}) \cup N)
      /\ Before(q \cup {x}, N)
  BY DEF Line, Before
<1>3. d \cup w \cup p \cup c \cup (q \cup {x}) \cup N \subseteq 1..m
  BY DEF Line
<1> QED
  BY <1>1, <1>2, <1>3 DEF Line

LEMMA ReplyMoves ==
  ASSUME NEW d, NEW w, NEW p, NEW c, NEW q, NEW n, NEW m, Line(d, w, p, c, q, n, m),
         NEW x \in q, NEW Q \in SUBSET q, Before({x}, Q)
  PROVE  Line(d, w, p, c \cup {x}, Q, n, m)
<1>1. /\ Before(d, w \cup p \cup (c \cup {x}) \cup Q \cup n)
      /\ Before(w, p \cup (c \cup {x}) \cup Q \cup n)
  BY DEF Line, Before
<1>2. /\ Before(p, (c \cup {x}) \cup Q \cup n)
      /\ Before(c \cup {x}, Q \cup n)
      /\ Before(Q, n)
  BY DEF Line, Before
<1>3. d \cup w \cup p \cup (c \cup {x}) \cup Q \cup n \subseteq 1..m
  BY DEF Line
<1> QED
  BY <1>1, <1>2, <1>3 DEF Line

LEMMA WriteMoves ==
  ASSUME NEW d, NEW w, NEW p, NEW c, NEW q, NEW n, NEW m, Line(d, w, p, c, q, n, m),
         NEW x \in p, NEW P \in SUBSET p, Before({x}, P)
  PROVE  Line(d, w \cup {x}, P, c, q, n, m)
<1>1. /\ Before(d, (w \cup {x}) \cup P \cup c \cup q \cup n)
      /\ Before(w \cup {x}, P \cup c \cup q \cup n)
  BY DEF Line, Before
<1>2. /\ Before(P, c \cup q \cup n)
      /\ Before(c, q \cup n)
      /\ Before(q, n)
  BY DEF Line, Before
<1>3. d \cup (w \cup {x}) \cup P \cup c \cup q \cup n \subseteq 1..m
  BY DEF Line
<1> QED
  BY <1>1, <1>2, <1>3 DEF Line

LEMMA DeliveryMoves ==
  ASSUME NEW d, NEW w, NEW p, NEW c, NEW q, NEW n, NEW m, Line(d, w, p, c, q, n, m),
         NEW x \in w, NEW W \in SUBSET w, Before({x}, W)
  PROVE  Line(d \cup {x}, W, p, c, q, n, m)
<1>1. /\ Before(d \cup {x}, W \cup p \cup c \cup q \cup n)
      /\ Before(W, p \cup c \cup q \cup n)
  BY DEF Line, Before
<1>2. /\ Before(p, c \cup q \cup n)
      /\ Before(c, q \cup n)
      /\ Before(q, n)
  BY DEF Line, Before
<1>3. (d \cup {x}) \cup W \cup p \cup c \cup q \cup n \subseteq 1..m
  BY DEF Line
<1> QED
  BY <1>1, <1>2, <1>3 DEF Line

LEMMA LineShrinks ==
  ASSUME NEW d, NEW w, NEW p, NEW c, NEW q, NEW n, NEW m, Line(d, w, p, c, q, n, m),
         NEW D \in SUBSET d, NEW W \in SUBSET w, NEW P \in SUBSET p, NEW C \in SUBSET c,
         NEW Q \in SUBSET q, NEW N \in SUBSET n
  PROVE  Line(D, W, P, C, Q, N, m)
  BY DEF Line, Before

LEMMA StepSendRequest ==
  ASSUME IInv, Order, NEW k0 \in Conns, NEW info \in BOOLEAN, SendRequest(k0, info)
  PROVE  Order'
<1> USE DEF pipeVars, execVars, noticeVars, ioVars, loopVars
<1> DEFINE r == [id |-> sent + 1, conn |-> k0, info |-> info]
<1> SUFFICES ASSUME NEW s \in Streams
             PROVE  OrderedAll(s)' /\ InLine(s)'
  BY DEF Order
<1> DEFINE k == s.conn
<1>k. k \in Conns
  BY DEF Streams
<1>1. UNCHANGED <<delivered, wq, pending, iocp, queued>> /\ sent' = sent + 1 /\ sent \in Nat
  BY DEF SendRequest, IInv, TypeOK
<1>2. OrderedAll(s) /\ InLine(s)
  BY DEF Order
<1>3. 1..sent \subseteq 1..(sent + 1) /\ sent + 1 \in 1..(sent + 1) /\ Before(1..sent, {sent + 1})
  BY <1>1 DEF Before
<1>4. CASE k = k0
  <2>1. inbox'[k] = Append(inbox[k], r) /\ inbox[k] \in Seq(Request)
    BY <1>k, <1>4 DEF SendRequest, IInv, TypeOK
  <2>2. r \in Request /\ r.id = sent + 1
    <3>1. sent + 1 \in 1..MaxReqs
      BY <1>1, IPCServerAssumption DEF SendRequest
    <3> QED
      BY <3>1 DEF Request
  <2> HIDE DEF r
  <2>3. Added(inbox[k], inbox'[k], r, s)
    BY <2>1, <2>2, AppendIds
  <2>4. Before(Ids(inbox[k], s), {r.id})
    BY <1>2, <1>3, <2>2 DEF InLine, Line, Before
  <2>5. Ordered(inbox'[k], s) /\ Ids(inbox'[k], s) \subseteq Ids(inbox[k], s) \cup {sent + 1}
    BY <1>2, <2>2, <2>3, <2>4 DEF Added, OrderedAll
  <2>6. OrderedAll(s)'
    BY <1>1, <1>2, <2>5 DEF OrderedAll
  <2>7. InLine(s)'
    BY <1>1, <1>2, <1>3, <2>5 DEF InLine, Line, Before, Written
  <2> QED
    BY <2>6, <2>7
<1>5. CASE k # k0
  <2>1. inbox'[k] = inbox[k]
    BY <1>k, <1>5 DEF SendRequest, IInv, TypeOK
  <2> QED
    BY <1>1, <1>2, <1>3, <2>1 DEF OrderedAll, InLine, Line, Before, Written
<1> QED
  BY <1>4, <1>5

\* A notice that answers somebody else, or nobody, changes nothing.
LEMMA StepPostOther ==
  ASSUME IInv, NEW s \in Streams, OrderedAll(s), NEW m \in NoticeRec, ~Wants(m.req, s),
         m.id = notices + 1, PostNotice(m)
  PROVE  Ordered(Answers(iocp'), s) /\ Ids(Answers(iocp'), s) = Ids(Answers(iocp), s)
<1> DEFINE x == [kind |-> "async", notice |-> m, addr |-> Null, ok |-> TRUE]
<1>1. iocp' = Append(iocp, x) /\ x \in Completion /\ iocp \in Seq(Completion)
  BY DEF PostNotice, Completion, IInv, TypeOK
<1>2. x.kind = "async" /\ x.notice.req = m.req
  OBVIOUS
<1> HIDE DEF x
<1>3. Added(Answers(iocp), Answers(iocp'), IF x.kind = "async" THEN x.notice.req ELSE NoRequest, s)
  BY <1>1, AppendIds
<1>4. Added(Answers(iocp), Answers(iocp'), m.req, s)
  BY <1>2, <1>3
<1> QED
  BY <1>4 DEF Added, OrderedAll

LEMMA NobodysRequest == \A s \in Streams : ~Wants(NoRequest, s)
  BY IPCServerAssumption DEF Wants, NoRequest, Streams

LEMMA StepThreads ==
  ASSUME IInv, Order, Threads
  PROVE  Order'
<1> USE DEF peerVars, pipeVars, loopVars
<1> SUFFICES ASSUME NEW s \in Streams
             PROVE  OrderedAll(s)' /\ InLine(s)'
  BY DEF Order
<1> DEFINE k == s.conn
<1>k. k \in Conns
  BY DEF Streams
<1>0. TypeOK /\ OrderedAll(s) /\ InLine(s)
  BY DEF IInv, Order
<1>1. CASE ExecEvent
  <2> DEFINE m == Notice(NoRequest, Null, FALSE)
  <2>1. m \in NoticeRec /\ m.id = notices + 1 /\ m.req = NoRequest
    BY <1>0, NoticeType
  <2>2. PostNotice(m) /\ UNCHANGED <<delivered, wq, pending, queued, inbox, sent>>
    BY <1>1 DEF ExecEvent
  <2> HIDE DEF m
  <2>3. Ordered(Answers(iocp'), s) /\ Ids(Answers(iocp'), s) = Ids(Answers(iocp), s)
    BY <1>0, <2>1, <2>2, NobodysRequest, StepPostOther
  <2> QED
    BY <1>0, <2>2, <2>3 DEF OrderedAll, InLine, Written
<1>2. ASSUME NEW exit \in BOOLEAN, ExecReply(exit)
      PROVE  OrderedAll(s)' /\ InLine(s)'
  <2> DEFINE r == Head(queued).req
             m == Notice(r, Head(queued).addr, exit)
             x == [kind |-> "async", notice |-> m, addr |-> Null, ok |-> TRUE]
  <2>1. /\ queued # <<>> /\ queued \in Seq(Command) /\ queued' = Tail(queued)
        /\ PostNotice(m) /\ UNCHANGED <<delivered, wq, pending, inbox, sent>>
    BY <1>0, <1>2 DEF ExecReply, TypeOK
  <2>2. Head(queued) \in Command
    BY <2>1, TailProperties
  <2>3. m \in NoticeRec /\ m.req = r
    <3>1. r \in Request \cup {NoRequest} /\ Head(queued).addr \in Addrs \cup {Null}
      BY <2>2 DEF Command
    <3> QED
      BY <1>0, <3>1, NoticeType
  <2>4. iocp' = Append(iocp, x) /\ iocp \in Seq(Completion)
    BY <1>0, <2>1 DEF PostNotice, TypeOK
  <2>5. x \in Completion /\ x.kind = "async" /\ x.notice.req = r
    BY <2>3 DEF Completion
  <2> HIDE DEF x, m, r
  <2>6. Added(Answers(iocp), Answers(iocp'), IF x.kind = "async" THEN x.notice.req ELSE NoRequest, s)
    BY <2>4, <2>5, AppendIds
  <2>7. Added(Answers(iocp), Answers(iocp'), r, s)
    BY <2>5, <2>6
  <2>8. Removed(Reqs(queued), Reqs(queued'), r, s)
    BY <2>1, TailIds DEF r
  <2>9. CASE Wants(r, s)
    <3>1. /\ Ordered(Reqs(queued'), s) /\ Ids(Reqs(queued'), s) \subseteq Ids(Reqs(queued), s)
          /\ r.id \in Ids(Reqs(queued), s) /\ Before({r.id}, Ids(Reqs(queued'), s))
      BY <1>0, <2>8, <2>9 DEF Removed, OrderedAll
    <3>2. Before(Ids(Answers(iocp), s), {r.id})
      BY <1>0, <3>1 DEF InLine, Line, Before
    <3>3. Ordered(Answers(iocp'), s) /\ Ids(Answers(iocp'), s) = Ids(Answers(iocp), s) \cup {r.id}
      BY <1>0, <2>7, <2>9, <3>2 DEF Added, OrderedAll
    <3>4. OrderedAll(s)'
      BY <1>0, <2>1, <3>1, <3>3 DEF OrderedAll
    <3>5. InLine(s)'
      BY <1>0, <2>1, <3>1, <3>3, ReplyMoves DEF InLine, Written
    <3> QED
      BY <3>4, <3>5
  <2>10. CASE ~Wants(r, s)
    <3>1. /\ Ordered(Reqs(queued'), s) /\ Ids(Reqs(queued'), s) \subseteq Ids(Reqs(queued), s)
          /\ Ordered(Answers(iocp'), s) /\ Ids(Answers(iocp'), s) = Ids(Answers(iocp), s)
      BY <1>0, <2>7, <2>8, <2>10 DEF Added, Removed, OrderedAll
    <3>2. OrderedAll(s)'
      BY <1>0, <2>1, <3>1 DEF OrderedAll
    <3>3. InLine(s)'
      BY <1>0, <2>1, <3>1 DEF InLine, Line, Before, Written
    <3> QED
      BY <3>2, <3>3
  <2> QED
    BY <2>9, <2>10
<1> QED
  BY <1>1, <1>2 DEF Threads

\* A request is read: it goes to the executer, or is a WFPGetInfo.
LEMMA StepRead ==
  ASSUME IInv, QueuedAreCommands, Order, NEW a \in Addrs, NEW n \in 1..MaxRead, OnRead(a, n)
  PROVE  Order'
<1> USE DEF pipeVars, loopVars
<1> DEFINE k0 == pipe[a].conn
           r == Head(inbox[k0])
<1> SUFFICES ASSUME NEW s \in Streams
             PROVE  OrderedAll(s)' /\ InLine(s)'
  BY DEF Order
<1> DEFINE k == s.conn
<1>k. k \in Conns
  BY DEF Streams
<1>0. TypeOK /\ InboxOK /\ OrderedAll(s) /\ InLine(s)
  BY DEF IInv, Order
<1>1. k0 \in Conns /\ n \in Nat \ {0} /\ n <= Len(inbox[k0])
  BY IPCServerAssumption DEF OnRead, IInv, PipesOK, TypeOK
<1>2. inbox[k0] \in Seq(Request) /\ queued \in Seq(Command) /\ iocp \in Seq(Completion)
  BY <1>0, <1>1 DEF TypeOK
<1>3. n \in 1..Len(inbox[k0]) /\ 1 \in 1..Len(inbox[k0]) /\ r = inbox[k0][1] /\ r \in Request
  BY <1>1, <1>2
<1>4. r.conn = k0
  BY <1>0, <1>1, <1>3 DEF InboxOK
<1>5. /\ inbox' = [inbox EXCEPT ![k0] = SubSeq(@, n + 1, Len(@))]
      /\ UNCHANGED <<delivered, wq, pending, sent>>
      /\ IF r.info THEN PostNotice(Notice(r, a, FALSE)) /\ UNCHANGED queued
                   ELSE queued' = Append(queued, [req |-> r, addr |-> a]) /\ UNCHANGED iocp
  BY DEF OnRead
\* What is read leaves the inbox, with what is read and dropped.
<1>6. /\ Ordered(inbox'[k], s) /\ Ids(inbox'[k], s) \subseteq Ids(inbox[k], s)
      /\ Wants(r, s) => r.id \in Ids(inbox[k], s) /\ Before({r.id}, Ids(inbox'[k], s))
  <2>1. CASE k = k0
    <3>1. inbox'[k] = SubSeq(inbox[k], n + 1, Len(inbox[k]))
      BY <1>0, <1>1, <1>5, <2>1 DEF TypeOK
    <3>2. Removed(inbox[k], inbox'[k], r, s)
      BY <1>2, <1>3, <2>1, <3>1, SubSeqIds
    <3> QED
      BY <1>0, <3>2 DEF Removed, OrderedAll
  <2>2. CASE k # k0
    <3>1. inbox'[k] = inbox[k] /\ ~Wants(r, s)
      BY <1>k, <1>0, <1>4, <1>5, <2>2 DEF TypeOK, Wants
    <3> QED
      BY <1>0, <3>1 DEF OrderedAll
  <2> QED
    BY <2>1, <2>2
\* It is added to the commands, or to the completions.
<1>7. IF r.info THEN queued' = queued ELSE Added(Reqs(queued), Reqs(queued'), r, s)
  <2> DEFINE c == [req |-> r, addr |-> a]
  <2>1. CASE ~r.info
    <3>1. c \in Command /\ c.req = r /\ queued' = Append(queued, c)
      BY <1>3, <1>5, <2>1 DEF Command
    <3> HIDE DEF c, r
    <3>2. Added(Reqs(queued), Reqs(queued'), r, s)
      BY <1>2, <3>1, AppendIds
    <3> QED
      BY <2>1, <3>2
  <2> QED
    BY <1>5, <2>1
<1>8. IF r.info THEN Added(Answers(iocp), Answers(iocp'), r, s) ELSE iocp' = iocp
  <2> DEFINE m == Notice(r, a, FALSE)
             x == [kind |-> "async", notice |-> m, addr |-> Null, ok |-> TRUE]
  <2>1. CASE r.info
    <3>1. m \in NoticeRec /\ m.req = r
      BY <1>0, <1>3, NoticeType
    <3>2. iocp' = Append(iocp, x)
      BY <1>5, <2>1 DEF PostNotice
    <3>3. x \in Completion /\ x.kind = "async" /\ x.notice.req = r
      BY <3>1 DEF Completion
    <3> HIDE DEF x, m, r
    <3>4. Added(Answers(iocp), Answers(iocp'),
                IF x.kind = "async" THEN x.notice.req ELSE NoRequest, s)
      BY <1>2, <3>2, <3>3, AppendIds
    <3>5. Added(Answers(iocp), Answers(iocp'), r, s)
      BY <3>3, <3>4
    <3> QED
      BY <2>1, <3>5
  <2> QED
    BY <1>5, <2>1
<1>9. UNCHANGED <<delivered, wq, pending, sent>>
  BY <1>5
<1> HIDE DEF r, k0
<1>10. CASE ~Wants(r, s)
  <2>1. /\ Ordered(Reqs(queued'), s) /\ Ids(Reqs(queued'), s) = Ids(Reqs(queued), s)
        /\ Ordered(Answers(iocp'), s) /\ Ids(Answers(iocp'), s) = Ids(Answers(iocp), s)
    BY <1>0, <1>7, <1>8, <1>10 DEF Added, OrderedAll
  <2>2. OrderedAll(s)'
    BY <1>0, <1>6, <1>9, <2>1 DEF OrderedAll
  <2>3. Line(Ids(delivered[k], s), Written(wq, s), Ids(Answers(pending), s),
             Ids(Answers(iocp), s), Ids(Reqs(queued), s), Ids(inbox'[k], s), sent)
    BY <1>0, <1>6, LineShrinks DEF InLine
  <2> QED
    BY <1>9, <2>1, <2>2, <2>3 DEF InLine, Written
<1>11. CASE Wants(r, s) /\ ~r.info
  <2>1. Before(Ids(Reqs(queued), s), {r.id})
    BY <1>0, <1>6, <1>11 DEF InLine, Line, Before
  <2>2. Ordered(Reqs(queued'), s) /\ Ids(Reqs(queued'), s) = Ids(Reqs(queued), s) \cup {r.id}
    BY <1>0, <1>7, <1>11, <2>1 DEF Added, OrderedAll
  <2>3. OrderedAll(s)'
    BY <1>0, <1>6, <1>8, <1>9, <1>11, <2>2 DEF OrderedAll
  <2>4. Line(Ids(delivered[k], s), Written(wq, s), Ids(Answers(pending), s),
             Ids(Answers(iocp), s), Ids(Reqs(queued), s) \cup {r.id}, Ids(inbox'[k], s), sent)
    BY <1>0, <1>6, <1>11, ReadMoves DEF InLine
  <2> QED
    BY <1>8, <1>9, <1>11, <2>2, <2>3, <2>4 DEF InLine, Written
\* The executer has no WFPGetInfo: nothing is between the inbox and the port.
<1>12. CASE Wants(r, s) /\ r.info
  <2>1. Ids(Reqs(queued), s) = {}
    BY <1>12 DEF Ids, Reqs, Wants, QueuedAreCommands
  <2>2. Before(Ids(Answers(iocp), s), {r.id})
    BY <1>0, <1>6, <1>12 DEF InLine, Line, Before
  <2>3. /\ Ordered(Answers(iocp'), s)
        /\ Ids(Answers(iocp'), s) = Ids(Answers(iocp), s) \cup {r.id}
    BY <1>0, <1>8, <1>12, <2>2 DEF Added, OrderedAll
  <2>4. OrderedAll(s)'
    BY <1>0, <1>6, <1>7, <1>9, <1>12, <2>3 DEF OrderedAll
  <2>5. Line(Ids(delivered[k], s), Written(wq, s), Ids(Answers(pending), s),
             Ids(Answers(iocp), s), {} \cup {r.id}, Ids(inbox'[k], s), sent)
    BY <1>0, <1>6, <1>12, <2>1, ReadMoves DEF InLine
  <2>6. Line(Ids(delivered[k], s), Written(wq, s), Ids(Answers(pending), s),
             Ids(Answers(iocp), s) \cup {r.id}, {}, Ids(inbox'[k], s), sent)
    BY <2>5, ReplyMoves DEF Before
  <2> QED
    BY <1>7, <1>9, <1>12, <2>1, <2>3, <2>4, <2>6 DEF InLine, Written
<1> QED
  BY <1>10, <1>11, <1>12

\* Nothing but on_read adds to the executer's commands.
LEMMA StepQueued ==
  ASSUME IInv, QueuedAreCommands, [Next]_vars
  PROVE  QueuedAreCommands'
<1> USE DEF peerVars, pipeVars, execVars, noticeVars, ioVars, loopVars
<1>1. TypeOK /\ queued \in Seq(Command)
  BY DEF IInv, TypeOK
<1>2. ASSUME NEW a \in Addrs, NEW n \in 1..MaxRead, OnRead(a, n)
      PROVE  QueuedAreCommands'
  <2> DEFINE r == Head(inbox[pipe[a].conn])
             c == [req |-> r, addr |-> a]
  <2>1. CASE r.info
    BY <1>2, <2>1 DEF OnRead, QueuedAreCommands
  <2>2. CASE ~r.info
    <3>1. inbox[pipe[a].conn] \in Seq(Request) /\ inbox[pipe[a].conn] # <<>>
      BY <1>1, <1>2, IPCServerAssumption DEF OnRead, TypeOK, IInv, PipesOK
    <3>2. r \in Request
      BY <3>1, TailProperties
    <3>3. c \in Command /\ queued' = Append(queued, c) /\ ~c.req.info
      BY <1>2, <2>2, <3>2 DEF OnRead, Command
    <3> HIDE DEF c, r
    <3>4. \A i \in 1..Len(queued') : queued'[i] = c \/ (i \in 1..Len(queued) /\ queued'[i] = queued[i])
      BY ONLY <1>1, <3>3, AppendElements
    <3> QED
      BY <3>3, <3>4 DEF QueuedAreCommands
  <2> QED
    BY <2>1, <2>2
<1>3. ASSUME NEW exit \in BOOLEAN, ExecReply(exit)
      PROVE  QueuedAreCommands'
  <2>1. \A i \in 1..Len(queued') : \E j \in 1..Len(queued) : queued'[i] = queued[j]
    <3>1. queued # <<>> /\ queued' = Tail(queued)
      BY <1>3 DEF ExecReply
    <3>2. \A i \in 1..Len(queued') : i + 1 \in 1..Len(queued) /\ queued'[i] = queued[i + 1]
      BY <1>1, <3>1, TailProperties
    <3> QED
      BY <3>2
  <2> QED
    BY <2>1 DEF QueuedAreCommands
<1>4. CASE UNCHANGED queued
  BY <1>4 DEF QueuedAreCommands
<1>5. \/ \E a \in Addrs, n \in 1..MaxRead : OnRead(a, n)
      \/ \E exit \in BOOLEAN : ExecReply(exit)
      \/ UNCHANGED queued
  BY DEF Next, Peers, Threads, PipeCallbacks, OnNotify, OnWrite, vars, Connect, Disconnect,
         SendRequest, ExecEvent, OnNewConnection, OnEof, OnReply, OnReplyCrash, OnEvent,
         OnWriteFailed, OnWritten, ProcessDone, Poll, Endgames, IoComplete
<1> QED
  BY <1>2, <1>3, <1>4, <1>5

-----------------------------------------------------------------------------
(* The way back. *)

\* send_notify adds a notice that answers r, or nothing, to the writes on each pipe.
LEMMA SendIds ==
  ASSUME TypeOK, NEW T, \A t \in T : t[1] \in NoticeRec /\ t[2] \in Addrs,
         NEW lost \in SUBSET Nat, NEW used \in SUBSET Nat, SendNotify(T, lost, used),
         NEW r, \A t \in T : t[1].req = r,
         NEW s, \A a \in Addrs : Ordered(Reqs(wq[a]), s),
         Wants(r, s) => Before(Written(wq, s), {r.id})
  PROVE  /\ \A a \in Addrs : Ordered(Reqs(wq'[a]), s)
         /\ Wants(r, s) => Written(wq', s) \subseteq Written(wq, s) \cup {r.id}
         /\ ~Wants(r, s) => Written(wq', s) \subseteq Written(wq, s)
<1>1. ASSUME NEW a \in Addrs
      PROVE  /\ Ordered(Reqs(wq'[a]), s)
             /\ Wants(r, s) => Ids(Reqs(wq'[a]), s) \subseteq Ids(Reqs(wq[a]), s) \cup {r.id}
             /\ ~Wants(r, s) => Ids(Reqs(wq'[a]), s) \subseteq Ids(Reqs(wq[a]), s)
  <2>1. CASE wq'[a] = wq[a]
    BY <2>1
  <2>2. ASSUME NEW t \in T, wq'[a] = Append(wq[a], t[1])
        PROVE  /\ Ordered(Reqs(wq'[a]), s)
               /\ Wants(r, s) => Ids(Reqs(wq'[a]), s) \subseteq Ids(Reqs(wq[a]), s) \cup {r.id}
               /\ ~Wants(r, s) => Ids(Reqs(wq'[a]), s) \subseteq Ids(Reqs(wq[a]), s)
    <3>1. wq[a] \in Seq(NoticeRec) /\ t[1] \in NoticeRec
      BY DEF TypeOK
    <3>2. Added(Reqs(wq[a]), Reqs(Append(wq[a], t[1])), t[1].req, s)
      BY <3>1, AppendIds
    <3>3. Added(Reqs(wq[a]), Reqs(wq'[a]), r, s)
      BY <2>2, <3>2
    <3>4. Wants(r, s) => Before(Ids(Reqs(wq[a]), s), {r.id})
      BY DEF Before, Written
    <3> QED
      BY <3>3, <3>4 DEF Added
  <2>3. wq'[a] = wq[a] \/ \E t \in T : t[2] = a /\ wq'[a] = Append(wq[a], t[1])
    BY SendNotifyEffect
  <2> QED
    BY <2>1, <2>2, <2>3
<1> QED
  BY <1>1 DEF Written

\* on_notify takes one notice and writes what it answers.
LEMMA StepNotify ==
  ASSUME IInv, Order, NEW T, \A t \in T : t[1] \in NoticeRec /\ t[2] \in Addrs,
         NEW lost \in SUBSET Nat, NEW used \in SUBSET Nat, SendNotify(T, lost, used),
         AtHead("async"), \A t \in T : t[1].req = Head(pending).notice.req,
         pending' = Tail(pending), UNCHANGED <<delivered, iocp, queued, inbox, sent>>
  PROVE  Order'
<1> DEFINE r == Head(pending).notice.req
<1> SUFFICES ASSUME NEW s \in Streams
             PROVE  OrderedAll(s)' /\ InLine(s)'
  BY DEF Order
<1> DEFINE k == s.conn
<1>k. k \in Conns
  BY DEF Streams
<1>0. TypeOK /\ OrderedAll(s) /\ InLine(s)
  BY DEF IInv, Order
<1>1. Removed(Answers(pending), Answers(pending'), r, s)
  <2>1. pending \in Seq(Completion) /\ pending # <<>> /\ Head(pending).kind = "async"
    BY <1>0 DEF AtHead, TypeOK
  <2>2. Removed(Answers(pending), Answers(Tail(pending)),
                IF Head(pending).kind = "async" THEN Head(pending).notice.req ELSE NoRequest, s)
    BY <2>1, TailIds
  <2> QED
    BY <2>1, <2>2
<1>2. \A t \in T : t[1].req = r
  OBVIOUS
<1> HIDE DEF r
<1>3. /\ Ordered(Answers(pending'), s)
      /\ Ids(Answers(pending'), s) \subseteq Ids(Answers(pending), s)
      /\ Wants(r, s) => /\ r.id \in Ids(Answers(pending), s)
                        /\ Before({r.id}, Ids(Answers(pending'), s))
  BY <1>0, <1>1 DEF Removed, OrderedAll
<1>4. Wants(r, s) => Before(Written(wq, s), {r.id})
  BY <1>0, <1>3 DEF InLine, Line, Before
<1>5. \A a \in Addrs : Ordered(Reqs(wq[a]), s)
  BY <1>0 DEF OrderedAll
<1>6. /\ \A a \in Addrs : Ordered(Reqs(wq'[a]), s)
      /\ Wants(r, s) => Written(wq', s) \subseteq Written(wq, s) \cup {r.id}
      /\ ~Wants(r, s) => Written(wq', s) \subseteq Written(wq, s)
  BY <1>0, <1>2, <1>4, <1>5, SendIds
<1>7. OrderedAll(s)'
  BY <1>0, <1>3, <1>6 DEF OrderedAll
<1>8. CASE Wants(r, s)
  <2>1. Line(Ids(delivered[k], s), Written(wq, s) \cup {r.id}, Ids(Answers(pending'), s),
             Ids(Answers(iocp), s), Ids(Reqs(queued), s), Ids(inbox[k], s), sent)
    BY <1>0, <1>3, <1>8, WriteMoves DEF InLine
  <2>2. Line(Ids(delivered[k], s), Written(wq', s), Ids(Answers(pending'), s),
             Ids(Answers(iocp), s), Ids(Reqs(queued), s), Ids(inbox[k], s), sent)
    BY <1>6, <1>8, <2>1, LineShrinks
  <2> QED
    BY <1>7, <2>2 DEF InLine, Written
<1>9. CASE ~Wants(r, s)
  <2>1. Line(Ids(delivered[k], s), Written(wq', s), Ids(Answers(pending'), s),
             Ids(Answers(iocp), s), Ids(Reqs(queued), s), Ids(inbox[k], s), sent)
    BY <1>0, <1>3, <1>6, <1>9, LineShrinks DEF InLine
  <2> QED
    BY <1>7, <2>1 DEF InLine, Written
<1> QED
  BY <1>8, <1>9

LEMMA StepOnReply ==
  ASSUME IInv, Order, OnReply
  PROVE  Order'
<1> USE DEF peerVars, pipeVars, execVars
<1> DEFINE n == Head(pending).notice
           T == {<<n, n.addr>>}
<1>1. /\ AtHead("async") /\ pending # <<>> /\ n.addr # Null /\ SendNotify(T, {}, {})
      /\ pending' = Tail(pending) /\ UNCHANGED <<delivered, iocp, queued, inbox, sent>>
  BY DEF OnReply, AtHead
<1>2. n \in NoticeRec /\ n.addr \in Addrs
  BY <1>1, HeadType DEF IInv
<1>3. /\ \A t \in T : t[1] \in NoticeRec /\ t[2] \in Addrs
      /\ \A t \in T : t[1].req = Head(pending).notice.req
  BY <1>2
<1>4. {} \in SUBSET Nat
  OBVIOUS
<1> HIDE DEF T, n
<1> QED
  BY <1>1, <1>3, <1>4, StepNotify

LEMMA StepOnEvent ==
  ASSUME IInv, Order, OnEvent
  PROVE  Order'
<1> USE DEF peerVars, pipeVars, execVars
<1> DEFINE n == Head(pending).notice
           Clone(i) == [n EXCEPT !.id = notices + i]
           T == {<<Clone(i), slots[i]>> : i \in Reached}
           lost == {notices + i : i \in (1..Len(slots)) \ Reached}
           used == {n.id}
<1>1. /\ AtHead("async") /\ pending # <<>> /\ SendNotify(T, lost, used)
      /\ pending' = Tail(pending) /\ UNCHANGED <<delivered, iocp, queued, inbox, sent>>
  BY DEF OnEvent, AtHead
<1>2. n \in NoticeRec /\ n.id \in Nat /\ notices \in Nat /\ slots \in Seq(Addrs \cup {Null})
  BY <1>1, HeadType DEF IInv, TypeOK
<1>3. \A i \in 1..Len(slots) : notices + i \in Nat
  BY <1>2
<1>4. \A i \in 1..Len(slots) : Clone(i) \in NoticeRec /\ Clone(i).req = n.req
  BY <1>2, <1>3 DEF NoticeRec
<1>5. \A i \in Reached : i \in 1..Len(slots) /\ slots[i] \in Addrs
  BY <1>2 DEF Reached
<1>6. lost \in SUBSET Nat /\ used \in SUBSET Nat
  BY <1>2, <1>3
<1> HIDE DEF Clone
<1>7. /\ \A t \in T : t[1] \in NoticeRec /\ t[2] \in Addrs
      /\ \A t \in T : t[1].req = Head(pending).notice.req
  BY <1>4, <1>5
<1> HIDE DEF T, n, lost, used
<1> QED
  BY <1>1, <1>6, <1>7, StepNotify

LEMMA StepOnWrite ==
  ASSUME IInv, Order, OnWrite
  PROVE  Order'
<1> USE DEF peerVars, execVars, ioVars
<1> SUFFICES ASSUME NEW s \in Streams
             PROVE  OrderedAll(s)' /\ InLine(s)'
  BY DEF Order
<1> DEFINE k == s.conn
<1>k. k \in Conns
  BY DEF Streams
<1>0. OrderedAll(s) /\ InLine(s)
  BY DEF Order
<1>1. /\ pending # <<>> /\ pending \in Seq(Completion) /\ pending' = Tail(pending)
      /\ UNCHANGED <<delivered, wq, iocp, queued, inbox, sent>>
  BY DEF OnWrite, OnWriteFailed, OnWritten, AtHead, IInv, TypeOK
<1>2. PICK r : Removed(Answers(pending), Answers(pending'), r, s)
  BY <1>1, TailIds
<1>3. /\ Ordered(Answers(pending'), s)
      /\ Ids(Answers(pending'), s) \subseteq Ids(Answers(pending), s)
  BY <1>0, <1>2 DEF Removed, OrderedAll
<1>4. OrderedAll(s)'
  BY <1>0, <1>1, <1>3 DEF OrderedAll
<1>5. InLine(s)'
  BY <1>0, <1>1, <1>3, LineShrinks DEF InLine, Written
<1> QED
  BY <1>4, <1>5

LEMMA StepPoll ==
  ASSUME Order, Poll
  PROVE  Order'
<1> USE DEF peerVars, execVars
<1> SUFFICES ASSUME NEW s \in Streams
             PROVE  OrderedAll(s)' /\ InLine(s)'
  BY DEF Order
<1> DEFINE k == s.conn
<1>k. k \in Conns
  BY DEF Streams
<1>0. OrderedAll(s) /\ InLine(s)
  BY DEF Order
<1>1. pending' = iocp /\ iocp' = <<>> /\ UNCHANGED <<delivered, wq, queued, inbox, sent>>
  BY DEF Poll
<1>2. Ids(Answers(iocp'), s) = {} /\ Ordered(Answers(iocp'), s)
  <2>1. DOMAIN Answers(<<>>) = {}
    BY DEF Answers
  <2> QED
    BY <1>1, <2>1 DEF Ids, Ordered
<1>3. OrderedAll(s)'
  BY <1>0, <1>1, <1>2 DEF OrderedAll
<1>4. Line(Ids(delivered[k], s), Written(wq, s), Ids(Answers(iocp), s), {},
           Ids(Reqs(queued), s), Ids(inbox[k], s), sent)
  BY <1>0 DEF InLine, Line, Before
<1>5. InLine(s)'
  BY <1>1, <1>2, <1>4 DEF InLine, Written
<1> QED
  BY <1>3, <1>5

\* A write completes: what it answers is delivered to the pipe's connection, if at all.
LEMMA StepIoComplete ==
  ASSUME IInv, Order, NEW a \in Addrs, IoComplete(a)
  PROVE  Order'
<1> USE DEF peerVars, pipeVars, execVars, loopVars
<1> DEFINE r == Head(wq[a]).req
           k0 == pipe[a].conn
<1> SUFFICES ASSUME NEW s \in Streams
             PROVE  OrderedAll(s)' /\ InLine(s)'
  BY DEF Order
<1> DEFINE k == s.conn
<1>k. k \in Conns
  BY DEF Streams
<1>0. TypeOK /\ WqOK /\ PipesOK /\ OrderedAll(s) /\ InLine(s)
  BY DEF IInv, Order
<1>1. /\ wq[a] # <<>> /\ wq[a] \in Seq(NoticeRec) /\ wq' = [wq EXCEPT ![a] = Tail(@)]
      /\ UNCHANGED <<pending, queued, inbox, sent>>
  BY <1>0 DEF IoComplete, TypeOK
<1>2. Head(wq[a]) \in NoticeRec /\ r \in Request \cup {NoRequest}
  <2>1. Head(wq[a]) \in NoticeRec
    BY <1>1, TailProperties
  <2> QED
    BY <2>1 DEF NoticeRec
<1>3. PICK ok \in BOOLEAN :
        /\ ok => pipe[a].st = "open"
        /\ iocp' = Append(iocp, [kind |-> "write", notice |-> Head(wq[a]), addr |-> a, ok |-> ok])
        /\ delivered' = IF ok /\ r # NoRequest
                          THEN [delivered EXCEPT ![k0] = Append(@, r)] ELSE delivered
  BY DEF IoComplete
<1>4. Ordered(Answers(iocp'), s) /\ Ids(Answers(iocp'), s) = Ids(Answers(iocp), s)
  <2> DEFINE x == [kind |-> "write", notice |-> Head(wq[a]), addr |-> a, ok |-> ok]
  <2>1. x \in Completion /\ x.kind # "async" /\ iocp' = Append(iocp, x) /\ iocp \in Seq(Completion)
    BY <1>0, <1>2, <1>3 DEF Completion, TypeOK
  <2> HIDE DEF x
  <2>2. Added(Answers(iocp), Answers(iocp'), IF x.kind = "async" THEN x.notice.req ELSE NoRequest, s)
    BY <2>1, AppendIds
  <2>3. Added(Answers(iocp), Answers(iocp'), NoRequest, s)
    BY <2>1, <2>2
  <2> QED
    BY <1>0, <2>3, NobodysRequest DEF Added, OrderedAll
<1>5. Removed(Reqs(wq[a]), Reqs(wq'[a]), r, s)
  <2>1. wq'[a] = Tail(wq[a])
    BY <1>0, <1>1 DEF TypeOK
  <2> QED
    BY <1>1, <2>1, TailIds
<1>6. \A b \in Addrs \ {a} : wq'[b] = wq[b]
  BY <1>0, <1>1 DEF TypeOK
<1> HIDE DEF r
<1>7. /\ Ordered(Reqs(wq'[a]), s) /\ Ids(Reqs(wq'[a]), s) \subseteq Ids(Reqs(wq[a]), s)
      /\ Wants(r, s) => /\ r.id \in Ids(Reqs(wq[a]), s)
                        /\ Before({r.id}, Ids(Reqs(wq'[a]), s))
  BY <1>0, <1>5 DEF Removed, OrderedAll
<1>8. (\A b \in Addrs : Ordered(Reqs(wq'[b]), s)) /\ Written(wq', s) \subseteq Written(wq, s)
  BY <1>0, <1>6, <1>7 DEF OrderedAll, Written
<1>9. CASE delivered'[k] = delivered[k]
  <2>1. OrderedAll(s)'
    BY <1>0, <1>1, <1>4, <1>8, <1>9 DEF OrderedAll
  <2>2. Line(Ids(delivered[k], s), Written(wq', s), Ids(Answers(pending), s),
             Ids(Answers(iocp), s), Ids(Reqs(queued), s), Ids(inbox[k], s), sent)
    BY <1>0, <1>8, LineShrinks DEF InLine
  <2>3. InLine(s)'
    BY <1>1, <1>4, <1>9, <2>2 DEF InLine, Written
  <2> QED
    BY <2>1, <2>3
<1>10. CASE delivered'[k] # delivered[k]
  <2>1. ok /\ r # NoRequest /\ k = k0 /\ delivered'[k] = Append(delivered[k], r)
    BY <1>k, <1>0, <1>3, <1>10 DEF TypeOK
  <2>2. r \in Request /\ delivered[k] \in Seq(Request)
    BY <1>k, <1>0, <1>2, <2>1 DEF TypeOK
  <2>3. Added(delivered[k], delivered'[k], r, s)
    BY <2>1, <2>2, AppendIds
  <2>4. CASE ~Wants(r, s)
    <3>1. Ordered(delivered'[k], s) /\ Ids(delivered'[k], s) = Ids(delivered[k], s)
      BY <1>0, <2>3, <2>4 DEF Added, OrderedAll
    <3>2. OrderedAll(s)'
      BY <1>0, <1>1, <1>4, <1>8, <3>1 DEF OrderedAll
    <3>3. Line(Ids(delivered[k], s), Written(wq', s), Ids(Answers(pending), s),
               Ids(Answers(iocp), s), Ids(Reqs(queued), s), Ids(inbox[k], s), sent)
      BY <1>0, <1>8, LineShrinks DEF InLine
    <3>4. InLine(s)'
      BY <1>1, <1>4, <3>1, <3>3 DEF InLine, Written
    <3> QED
      BY <3>2, <3>4
  <2>5. CASE Wants(r, s)
    <3>1. ASSUME NEW b \in Addrs \ {a}
          PROVE  Ids(Reqs(wq[b]), s) = {}
      <4>1. ASSUME NEW i \in 1..Len(wq[b]), Wants(wq[b][i].req, s)
            PROVE  FALSE
        <5>1. wq[b][i].req # NoRequest /\ wq[b][i].req.conn = k
          BY <4>1, NobodysRequest DEF Wants
        <5>2. Mine(k, b)
          BY <1>0, <5>1 DEF WqOK, Asked
        <5>3. pipe[b].conn = k
          BY <2>1, <5>2 DEF Mine
        <5> QED
          BY <1>k, <1>0, <2>1, <5>3, IPCServerAssumption DEF PipesOK
      <4> QED
        BY <4>1 DEF Ids, Reqs
    <3>2. r.id \in Written(wq, s) /\ Before({r.id}, Written(wq', s))
      BY <1>6, <1>7, <2>5, <3>1 DEF Written, Before
    <3>3. Before(Ids(delivered[k], s), {r.id})
      BY <1>0, <3>2 DEF InLine, Line, Before
    <3>4. /\ Ordered(delivered'[k], s)
          /\ Ids(delivered'[k], s) = Ids(delivered[k], s) \cup {r.id}
      BY <1>0, <2>3, <2>5, <3>3 DEF Added, OrderedAll
    <3>5. OrderedAll(s)'
      BY <1>0, <1>1, <1>4, <1>8, <3>4 DEF OrderedAll
    <3>6. Line(Ids(delivered[k], s) \cup {r.id}, Written(wq', s), Ids(Answers(pending), s),
               Ids(Answers(iocp), s), Ids(Reqs(queued), s), Ids(inbox[k], s), sent)
      BY <1>0, <1>8, <3>2, DeliveryMoves DEF InLine
    <3>7. InLine(s)'
      BY <1>1, <1>4, <3>4, <3>6 DEF InLine, Written
    <3> QED
      BY <3>5, <3>7
  <2> QED
    BY <2>4, <2>5
<1> QED
  BY <1>9, <1>10

-----------------------------------------------------------------------------
(* The theorem. *)

LEMMA StepOrder ==
  ASSUME IInv, QueuedAreCommands, Order, [Next]_vars
  PROVE  Order'
<1>1. CASE \/ OnReplyCrash \/ ProcessDone \/ Endgames \/ UNCHANGED vars
           \/ \E k \in Conns : Connect(k) \/ Disconnect(k)
           \/ \E a \in Addrs : OnEof(a) \/ \E k \in Conns : OnNewConnection(k, a)
  <2>1. UNCHANGED <<delivered, wq, pending, iocp, queued, inbox, sent>>
    BY <1>1 DEF Connect, Disconnect, OnReplyCrash, ProcessDone, Endgames, OnEof,
                OnNewConnection, vars, peerVars, execVars, ioVars, loopVars
  <2> QED
    BY <2>1 DEF Order, OrderedAll, InLine, Written
<1>2. CASE \E k \in Conns, info \in BOOLEAN : SendRequest(k, info)
  BY <1>2, StepSendRequest
<1>3. CASE \E a \in Addrs, n \in 1..MaxRead : OnRead(a, n)
  BY <1>3, StepRead
<1>4. CASE Threads
  BY <1>4, StepThreads
<1>5. CASE OnReply \/ OnEvent \/ OnWrite \/ Poll
  BY <1>5, StepOnReply, StepOnEvent, StepOnWrite, StepPoll
<1>6. CASE \E a \in Addrs : IoComplete(a)
  BY <1>6, StepIoComplete
<1> QED
  BY <1>1, <1>2, <1>3, <1>4, <1>5, <1>6 DEF Next, Peers, PipeCallbacks, OnNotify

LEMMA InitOrder == Init => QueuedAreCommands /\ Order
<1> SUFFICES ASSUME Init
             PROVE  QueuedAreCommands /\ Order
  OBVIOUS
<1>1. /\ \A k \in Conns : delivered[k] = <<>> /\ inbox[k] = <<>>
      /\ \A a \in Addrs : wq[a] = <<>>
      /\ pending = <<>> /\ iocp = <<>> /\ queued = <<>>
  BY DEF Init
<1>2. /\ DOMAIN <<>> = {} /\ DOMAIN Reqs(<<>>) = {} /\ DOMAIN Answers(<<>>) = {}
  BY DEF Reqs, Answers
<1>3. \A s, f : DOMAIN f = {} => Ids(f, s) = {} /\ Ordered(f, s)
  BY DEF Ids, Ordered
<1>4. \A s : Written(wq, s) = {}
  BY <1>1, <1>2, <1>3 DEF Written
<1>5. \A m : Line({}, {}, {}, {}, {}, {}, m)
  BY DEF Line, Before
<1>6. QueuedAreCommands
  BY <1>1 DEF QueuedAreCommands
<1> QED
  BY <1>1, <1>2, <1>3, <1>4, <1>5, <1>6 DEF Order, OrderedAll, InLine, Streams

\* IInv, QueuedAreCommands and Order hold in every reachable state.
LEMMA OrderAlways == Spec => [](IInv /\ QueuedAreCommands /\ Order)
<1>1. IInv /\ QueuedAreCommands /\ Order /\ [Next]_vars => QueuedAreCommands' /\ Order'
  BY StepOrder, StepQueued
<1> QED
  BY <1>1, InitOrder, Inductive, PTL DEF Spec

LEMMA OrderedReplies == IInv /\ Order => RepliesInOrder
<1> SUFFICES ASSUME IInv, Order, NEW k \in Conns,
                    NEW i \in 1..Len(delivered[k]), NEW j \in 1..Len(delivered[k]), i < j,
                    delivered[k][i].conn = k, delivered[k][j].conn = k,
                    delivered[k][i].info = delivered[k][j].info
             PROVE  delivered[k][i].id < delivered[k][j].id
  BY DEF RepliesInOrder
<1> DEFINE s == [conn |-> k, info |-> delivered[k][i].info]
<1>1. delivered[k] \in Seq(Request)
  BY DEF IInv, TypeOK
<1>2. DOMAIN delivered[k] = 1..Len(delivered[k]) /\ delivered[k][i] \in Request
  BY <1>1
<1>3. s \in Streams /\ s.conn = k
  BY <1>2 DEF Streams, Request
<1>4. Wants(delivered[k][i], s) /\ Wants(delivered[k][j], s)
  BY DEF Wants
<1> HIDE DEF s
<1>5. Ordered(delivered[k], s)
  BY <1>3 DEF Order, OrderedAll
<1> QED
  BY <1>2, <1>4, <1>5 DEF Ordered

\* The replies to the commands of one connection arrive in the order in which they were
\* sent, and so do those to its WFPGetInfo requests, whatever the other clients do and
\* however pipes are closed and reused meanwhile.
THEOREM RepliesInOrderHolds == Spec => []RepliesInOrder
<1>1. IInv /\ Order => RepliesInOrder
  BY OrderedReplies
<1> QED
  BY <1>1, OrderAlways, PTL

-----------------------------------------------------------------------------
(* What the process around the server relies on. *)

\* The requests that completions, or the writes on a pipe, answer.
CReqs(q) == {q[i].notice.req : i \in 1..Len(q)}
NReqs(q) == {q[i].req : i \in 1..Len(q)}
Answering == CReqs(iocp) \cup CReqs(pending) \cup UNION {NReqs(wq[a]) : a \in Addrs}

LEMMA AppendReqs ==
  ASSUME NEW S, NEW q \in Seq(S), NEW x \in S
  PROVE  /\ CReqs(Append(q, x)) = CReqs(q) \cup {x.notice.req}
         /\ NReqs(Append(q, x)) = NReqs(q) \cup {x.req}
<1> DEFINE p == Append(q, x)
           n == Len(q)
<1>1. /\ n \in Nat /\ Len(p) = n + 1 /\ p[n + 1] = x /\ \A i \in 1..n : p[i] = q[i]
  OBVIOUS
<1> HIDE DEF p
<1>2. \A i \in 1..(n + 1) : i \in 1..n \/ i = n + 1
  BY <1>1
<1>3. n + 1 \in 1..(n + 1) /\ \A i \in 1..n : i \in 1..(n + 1)
  BY <1>1
<1> HIDE DEF n
<1>4. Len(q) = n
  BY DEF n
<1>5. CReqs(p) = CReqs(q) \cup {x.notice.req} /\ NReqs(p) = NReqs(q) \cup {x.req}
  BY <1>1, <1>2, <1>3, <1>4 DEF CReqs, NReqs
<1> QED
  BY <1>5 DEF p

LEMMA TailReqs ==
  ASSUME NEW S, NEW q \in Seq(S), q # <<>>
  PROVE  /\ CReqs(Tail(q)) \subseteq CReqs(q) /\ Head(q).notice.req \in CReqs(q)
         /\ NReqs(Tail(q)) \subseteq NReqs(q) /\ Head(q).req \in NReqs(q)
<1>1. 1 \in 1..Len(q) /\ Head(q) = q[1]
  OBVIOUS
<1>2. \A i \in 1..Len(Tail(q)) : i + 1 \in 1..Len(q) /\ Tail(q)[i] = q[i + 1]
  OBVIOUS
<1> QED
  BY <1>1, <1>2 DEF CReqs, NReqs

\* A notice that is posted.
LEMMA PostReqs ==
  ASSUME TypeOK, NEW m \in NoticeRec, PostNotice(m)
  PROVE  CReqs(iocp') = CReqs(iocp) \cup {m.req}
<1> DEFINE x == [kind |-> "async", notice |-> m, addr |-> Null, ok |-> TRUE]
<1>1. iocp' = Append(iocp, x) /\ x \in Completion /\ iocp \in Seq(Completion) /\ x.notice = m
  BY DEF PostNotice, Completion, TypeOK
<1> HIDE DEF x
<1> QED
  BY <1>1, AppendReqs

\* on_notify writes what the notice answers.
LEMMA NotifyReqs ==
  ASSUME TypeOK, NEW T, \A t \in T : t[1] \in NoticeRec /\ t[2] \in Addrs,
         NEW lost \in SUBSET Nat, NEW used \in SUBSET Nat, SendNotify(T, lost, used),
         pending # <<>>, \A t \in T : t[1].req = Head(pending).notice.req,
         pending' = Tail(pending), UNCHANGED iocp
  PROVE  Answering' \subseteq Answering
<1> DEFINE r == Head(pending).notice.req
<1>1. pending \in Seq(Completion)
  BY DEF TypeOK
<1>2. CReqs(pending') \subseteq CReqs(pending) /\ r \in CReqs(pending)
  BY <1>1, TailReqs
<1> HIDE DEF r
<1>3. \A t \in T : t[1].req = r
  BY DEF r
<1>4. ASSUME NEW a \in Addrs
      PROVE  NReqs(wq'[a]) \subseteq NReqs(wq[a]) \cup {r}
  <2>1. wq'[a] = wq[a] \/ \E t \in T : t[2] = a /\ wq'[a] = Append(wq[a], t[1])
    BY SendNotifyEffect
  <2>2. ASSUME NEW t \in T, wq'[a] = Append(wq[a], t[1])
        PROVE  NReqs(wq'[a]) \subseteq NReqs(wq[a]) \cup {r}
    <3>1. wq[a] \in Seq(NoticeRec) /\ t[1] \in NoticeRec /\ t[1].req = r
      BY <1>3 DEF TypeOK
    <3>2. NReqs(Append(wq[a], t[1])) = NReqs(wq[a]) \cup {t[1].req}
      BY <3>1, AppendReqs
    <3> QED
      BY <2>2, <3>1, <3>2
  <2> QED
    BY <2>1, <2>2
<1>5. \A a \in Addrs : NReqs(wq'[a]) \subseteq Answering
  BY <1>2, <1>4 DEF Answering
<1> QED
  BY <1>2, <1>5 DEF Answering

\* Nothing is answered but what the executer completes and WFPGetInfos that are read.
LEMMA NewAnswers ==
  ASSUME IInv, [Next]_vars
  PROVE  \A r \in Answering' :
           \/ r \in Answering \/ r = NoRequest
           \/ \E k \in Conns : inbox[k] # <<>> /\ r = Head(inbox[k]) /\ r.info
           \/ (\E exit \in BOOLEAN : ExecReply(exit)) /\ r = Head(queued).req
<1> DEFINE New(r) == \/ r = NoRequest
                     \/ \E k \in Conns : inbox[k] # <<>> /\ r = Head(inbox[k]) /\ r.info
                     \/ (\E exit \in BOOLEAN : ExecReply(exit)) /\ r = Head(queued).req
           Goal == \A r \in Answering' : r \in Answering \/ New(r)
<1> USE DEF peerVars, pipeVars, execVars, noticeVars, ioVars, loopVars
<1>0. TypeOK /\ iocp \in Seq(Completion) /\ pending \in Seq(Completion) /\ wq \in [Addrs -> Seq(NoticeRec)]
  BY DEF IInv, TypeOK
<1>1. ASSUME UNCHANGED <<iocp, pending, wq>> PROVE Goal
  BY <1>1 DEF Answering
<1>2. ASSUME NEW m \in NoticeRec, PostNotice(m), New(m.req), UNCHANGED <<pending, wq>> PROVE Goal
  <2> HIDE DEF New
  <2>1. CReqs(iocp') = CReqs(iocp) \cup {m.req}
    BY <1>0, <1>2, PostReqs
  <2> QED
    BY <1>2, <2>1 DEF Answering
<1>3. ASSUME NEW a \in Addrs, NEW n \in 1..MaxRead, OnRead(a, n) PROVE Goal
  <2> DEFINE q == Head(inbox[pipe[a].conn])
             m == Notice(q, a, FALSE)
  <2>1. CASE ~q.info
    BY <1>1, <1>3, <2>1 DEF OnRead
  <2>2. CASE q.info
    <3>1. /\ pipe[a].conn \in Conns /\ inbox[pipe[a].conn] \in Seq(Request)
          /\ inbox[pipe[a].conn] # <<>>
      BY <1>0, <1>3, IPCServerAssumption DEF OnRead, TypeOK, IInv, PipesOK
    <3>2. q \in Request
      BY <3>1, TailProperties
    <3>3. m \in NoticeRec /\ m.req = q
      BY <1>0, <3>2, NoticeType
    <3>4. New(q)
      BY <2>2, <3>1
    <3>5. PostNotice(m) /\ UNCHANGED <<pending, wq>>
      BY <1>3, <2>2 DEF OnRead
    <3> HIDE DEF q, m, New
    <3> QED
      BY <1>2, <3>3, <3>4, <3>5
  <2> QED
    BY <2>1, <2>2
<1>4. ASSUME ExecEvent PROVE Goal
  <2> DEFINE m == Notice(NoRequest, Null, FALSE)
  <2>1. m \in NoticeRec /\ m.req = NoRequest
    BY <1>0, NoticeType
  <2>2. PostNotice(m) /\ UNCHANGED <<pending, wq>>
    BY <1>4 DEF ExecEvent
  <2> HIDE DEF m
  <2> QED
    BY <1>2, <2>1, <2>2
<1>5. ASSUME NEW exit \in BOOLEAN, ExecReply(exit) PROVE Goal
  <2> DEFINE q == Head(queued).req
             m == Notice(q, Head(queued).addr, exit)
  <2>1. Head(queued) \in Command
    <3>1. queued # <<>> /\ queued \in Seq(Command)
      BY <1>0, <1>5 DEF ExecReply, TypeOK
    <3> QED
      BY <3>1, TailProperties
  <2>2. m \in NoticeRec /\ m.req = q
    <3>1. q \in Request \cup {NoRequest} /\ Head(queued).addr \in Addrs \cup {Null}
      BY <2>1 DEF Command
    <3> QED
      BY <1>0, <3>1, NoticeType
  <2>3. PostNotice(m) /\ UNCHANGED <<pending, wq>> /\ New(q)
    BY <1>5 DEF ExecReply
  <2> HIDE DEF q, m, New
  <2> QED
    BY <1>2, <2>2, <2>3
<1> HIDE DEF New
<1>6. ASSUME OnReply PROVE Goal
  <2> DEFINE n == Head(pending).notice
             T == {<<n, n.addr>>}
  <2>1. /\ AtHead("async") /\ pending # <<>> /\ n.addr # Null /\ SendNotify(T, {}, {})
        /\ pending' = Tail(pending) /\ UNCHANGED iocp
    BY <1>6 DEF OnReply, AtHead
  <2>2. n \in NoticeRec /\ n.addr \in Addrs
    BY <1>0, <2>1, HeadType
  <2>3. /\ \A t \in T : t[1] \in NoticeRec /\ t[2] \in Addrs
        /\ \A t \in T : t[1].req = Head(pending).notice.req
    BY <2>2
  <2>4. {} \in SUBSET Nat
    OBVIOUS
  <2> HIDE DEF T, n
  <2> QED
    BY <1>0, <2>1, <2>3, <2>4, NotifyReqs
<1>7. ASSUME OnEvent PROVE Goal
  <2> DEFINE n == Head(pending).notice
             Clone(i) == [n EXCEPT !.id = notices + i]
             T == {<<Clone(i), slots[i]>> : i \in Reached}
             lost == {notices + i : i \in (1..Len(slots)) \ Reached}
             used == {n.id}
  <2>1. /\ AtHead("async") /\ pending # <<>> /\ SendNotify(T, lost, used)
        /\ pending' = Tail(pending) /\ UNCHANGED iocp
    BY <1>7 DEF OnEvent, AtHead
  <2>2. n \in NoticeRec /\ n.id \in Nat /\ notices \in Nat /\ slots \in Seq(Addrs \cup {Null})
    BY <1>0, <2>1, HeadType DEF TypeOK
  <2>3. \A i \in 1..Len(slots) : notices + i \in Nat
    BY <2>2
  <2>4. \A i \in 1..Len(slots) : Clone(i) \in NoticeRec /\ Clone(i).req = n.req
    BY <2>2, <2>3 DEF NoticeRec
  <2>5. \A i \in Reached : i \in 1..Len(slots) /\ slots[i] \in Addrs
    BY <2>2 DEF Reached
  <2>6. lost \in SUBSET Nat /\ used \in SUBSET Nat
    BY <2>2, <2>3
  <2> HIDE DEF Clone
  <2>7. /\ \A t \in T : t[1] \in NoticeRec /\ t[2] \in Addrs
        /\ \A t \in T : t[1].req = Head(pending).notice.req
    BY <2>4, <2>5
  <2> HIDE DEF T, n, lost, used
  <2> QED
    BY <1>0, <2>1, <2>6, <2>7, NotifyReqs
<1>8. ASSUME OnWrite PROVE Goal
  <2>1. pending # <<>> /\ pending' = Tail(pending) /\ UNCHANGED <<iocp, wq>>
    BY <1>8 DEF OnWrite, OnWriteFailed, OnWritten, AtHead
  <2>2. CReqs(pending') \subseteq CReqs(pending)
    BY <1>0, <2>1, TailReqs
  <2> QED
    BY <2>1, <2>2 DEF Answering
<1>9. ASSUME Poll PROVE Goal
  <2>1. pending' = iocp /\ CReqs(iocp') = {} /\ UNCHANGED wq
    BY <1>9 DEF Poll, CReqs
  <2> QED
    BY <2>1 DEF Answering
<1>10. ASSUME NEW a \in Addrs, IoComplete(a) PROVE Goal
  <2> DEFINE n == Head(wq[a])
  <2>1. PICK ok \in BOOLEAN :
          iocp' = Append(iocp, [kind |-> "write", notice |-> n, addr |-> a, ok |-> ok])
    BY <1>10 DEF IoComplete
  <2> DEFINE x == [kind |-> "write", notice |-> n, addr |-> a, ok |-> ok]
  <2>2. /\ wq[a] # <<>> /\ wq[a] \in Seq(NoticeRec) /\ wq'[a] = Tail(wq[a])
        /\ \A b \in Addrs \ {a} : wq'[b] = wq[b]
        /\ UNCHANGED pending
    BY <1>0, <1>10 DEF IoComplete
  <2>3. n \in NoticeRec
    BY <2>2, TailProperties
  <2>4. x \in Completion /\ x.notice = n /\ iocp' = Append(iocp, x)
    BY <2>1, <2>3 DEF Completion
  <2> HIDE DEF x
  <2>5. CReqs(iocp') = CReqs(iocp) \cup {n.req}
    BY <1>0, <2>4, AppendReqs
  <2>6. NReqs(wq'[a]) \subseteq NReqs(wq[a]) /\ n.req \in NReqs(wq[a])
    BY <2>2, TailReqs
  <2> HIDE DEF n
  <2>7. \A b \in Addrs : NReqs(wq'[b]) \subseteq NReqs(wq[b])
    BY <2>2, <2>6
  <2> QED
    BY <2>2, <2>5, <2>6, <2>7 DEF Answering
<1>11. UNCHANGED <<iocp, pending, wq>> => Goal
  BY <1>1
<1> HIDE DEF Goal
<1>12. ASSUME OnReplyCrash PROVE Goal
  BY <1>11, <1>12 DEF OnReplyCrash
<1>13. ASSUME ProcessDone PROVE Goal
  BY <1>11, <1>13 DEF ProcessDone
<1>14. ASSUME Endgames PROVE Goal
  BY <1>11, <1>14 DEF Endgames
<1>15. ASSUME UNCHANGED vars PROVE Goal
  BY <1>11, <1>15 DEF vars
<1>16. ASSUME Peers PROVE Goal
  BY <1>11, <1>16 DEF Peers, Connect, Disconnect, SendRequest
<1>17. ASSUME NEW a \in Addrs, OnEof(a) \/ \E k \in Conns : OnNewConnection(k, a) PROVE Goal
  BY <1>11, <1>17 DEF OnEof, OnNewConnection
<1>18. Goal
  BY <1>3, <1>4, <1>5, <1>6, <1>7, <1>8, <1>9, <1>10, <1>12, <1>13, <1>14, <1>15, <1>16, <1>17
  DEF Next, Threads, PipeCallbacks, OnNotify
<1> QED
  BY <1>18 DEF Goal, New

\* A client that was accepted and has not left has an open pipe.
UpHasPipe == \A k \in Conns : link[k] = "up" => \E a \in Addrs : pipe[a].conn = k /\ pipe[a].st = "open"

LEMMA StepUpHasPipe ==
  ASSUME IInv, UpHasPipe, [Next]_vars
  PROVE  UpHasPipe'
<1>0. /\ link \in [Conns -> {"idle", "waiting", "up", "down"}]
      /\ pipe \in [Addrs -> [st : {"free", "open", "closing"}, conn : Conns \cup {Null}]]
      /\ PipesOK
  BY DEF IInv, TypeOK
<1> USE DEF pipeVars, peerVars
<1>1. CASE UNCHANGED <<link, pipe>>
  BY <1>1 DEF UpHasPipe
<1>2. ASSUME NEW c \in Conns, Connect(c) \/ Disconnect(c) PROVE UpHasPipe'
  BY <1>0, <1>2 DEF Connect, Disconnect, UpHasPipe
<1>3. ASSUME NEW c \in Conns, NEW b \in Addrs, OnNewConnection(c, b) PROVE UpHasPipe'
  <2>1. /\ pipe'[b] = [st |-> "open", conn |-> c] /\ \A a \in Addrs \ {b} : pipe'[a] = pipe[a]
        /\ \A k \in Conns \ {c} : link'[k] = link[k]
        /\ pipe[b].st = "free"
    BY <1>0, <1>3 DEF OnNewConnection
  <2> QED
    BY <2>1 DEF UpHasPipe
<1>4. ASSUME NEW b \in Addrs, OnEof(b) PROVE UpHasPipe'
  <2>1. /\ \A a \in Addrs \ {b} : pipe'[a] = pipe[a]
        /\ link' = link /\ link[pipe[b].conn] = "down"
    BY <1>0, <1>4 DEF OnEof
  <2> QED
    BY <2>1 DEF UpHasPipe
<1>5. CASE Endgames
  <2>1. link' = link /\ \A a \in Addrs : pipe[a].st = "open" => pipe'[a] = pipe[a]
    BY <1>0, <1>5 DEF Endgames, Closed
  <2> QED
    BY <2>1 DEF UpHasPipe
<1> QED
  BY <1>1, <1>2, <1>3, <1>4, <1>5, OtherSteps DEF PipeStep

\* What a client gets is the answer to its request, unless the asker has left.
LEMMA Delivers ==
  ASSUME IInv, UpHasPipe, NEW a \in Addrs, IoComplete(a), delivered' # delivered
  PROVE  \E k \in Conns : \E r \in Answering \cap Request :
           /\ link[k] = "up" /\ delivered' = [delivered EXCEPT ![k] = Append(@, r)]
           /\ r.conn = k \/ link[r.conn] = "down"
<1> DEFINE k == pipe[a].conn
           r == Head(wq[a]).req
<1>1. /\ wq[a] # <<>> /\ pipe[a].st = "open" /\ link[k] = "up" /\ r # NoRequest
      /\ delivered' = [delivered EXCEPT ![k] = Append(@, r)]
  BY DEF IoComplete
<1>2. /\ pipe \in [Addrs -> [st : {"free", "open", "closing"}, conn : Conns \cup {Null}]]
      /\ wq[a] \in Seq(NoticeRec) /\ PipesOK
  BY DEF IInv, TypeOK
<1>3. k \in Conns
  BY <1>1, <1>2 DEF PipesOK
<1>4. Head(wq[a]) \in NoticeRec /\ r \in Request /\ r \in Answering
  <2>1. r \in NReqs(wq[a]) /\ Head(wq[a]) \in NoticeRec
    BY <1>1, <1>2, TailReqs, TailProperties
  <2> QED
    BY <1>1, <2>1 DEF Answering, NoticeRec
<1>5. Asked(r.conn, a)
  <2>1. 1 \in 1..Len(wq[a]) /\ wq[a][1] = Head(wq[a])
    BY <1>1, <1>2
  <2> QED
    BY <1>1, <2>1 DEF IInv, WqOK
<1>6. r.conn = k \/ link[r.conn] = "down"
  BY <1>5 DEF Asked, Accepted, Mine, UpHasPipe
<1> HIDE DEF k, r
<1> QED
  BY <1>1, <1>3, <1>4, <1>6

LEMMA UpAlways == Spec => []UpHasPipe
<1>1. Init => UpHasPipe
  BY DEF Init, UpHasPipe
<1>2. IInv /\ UpHasPipe /\ [Next]_vars => UpHasPipe'
  BY StepUpHasPipe
<1> QED
  BY <1>1, <1>2, Inductive, PTL DEF Spec

\* Commands that are not read yet were sent in the order in which they will be.
LEMMA OrderedInbox ==
  ASSUME IInv, Order, NEW k \in Conns,
         NEW i \in 1..Len(inbox[k]), NEW j \in 1..Len(inbox[k]), i < j,
         inbox[k][i].info = inbox[k][j].info
  PROVE  inbox[k][i].id < inbox[k][j].id
<1> DEFINE s == [conn |-> k, info |-> inbox[k][i].info]
<1>1. inbox[k] \in Seq(Request)
  BY DEF IInv, TypeOK
<1>2. DOMAIN inbox[k] = 1..Len(inbox[k]) /\ inbox[k][i] \in Request
  BY <1>1
<1>3. s \in Streams /\ s.conn = k
  BY <1>2 DEF Streams, Request
<1>4. Wants(inbox[k][i], s) /\ Wants(inbox[k][j], s)
  BY DEF Wants, IInv, InboxOK
<1> HIDE DEF s
<1>5. Ordered(inbox[k], s)
  BY <1>3 DEF Order, OrderedAll
<1> QED
  BY <1>2, <1>4, <1>5 DEF Ordered
=============================================================================
