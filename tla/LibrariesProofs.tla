--------------------------- MODULE LibrariesProofs ---------------------------
(***************************************************************************)
(* Theorems about the handles of libuv that MCLibrariesSafe composes, for  *)
(* every value of their constants.                                         *)
(***************************************************************************)
EXTENDS MCLibrariesSafe, FiniteSetTheorems, TLAPS

-----------------------------------------------------------------------------
(* What the proofs share. *)

One(b) == IF b THEN 1 ELSE 0

\* What one element more or less does to a count.
LEMMA CountChange ==
  ASSUME NEW S, NEW T, NEW r, IsFiniteSet(S), \A x : x # r => (x \in T <=> x \in S)
  PROVE  /\ IsFiniteSet(T) /\ Cardinality(S) \in Nat /\ Cardinality(T) \in Nat
         /\ Cardinality(T) = Cardinality(S) + One(r \in T) - One(r \in S)
<1>1. Cardinality(S) \in Nat
  BY FS_CardinalityType
<1>2. CASE (r \in S /\ r \in T) \/ (r \notin S /\ r \notin T)
  <2>1. T = S
    BY <1>2
  <2> QED
    BY <1>1, <1>2, <2>1 DEF One
<1>3. CASE r \notin S /\ r \in T
  <2>1. T = S \cup {r}
    BY <1>3
  <2> QED
    BY <1>1, <1>3, <2>1, FS_AddElement DEF One
<1>4. CASE r \in S /\ r \notin T
  <2>1. T = S \ {r}
    BY <1>4
  <2>2. IsFiniteSet(T) /\ Cardinality(T) = Cardinality(S) - 1
    BY <1>4, <2>1, FS_RemoveElement
  <2>3. Cardinality(T) \in Nat
    BY <2>2, FS_CardinalityType
  <2> QED
    BY <1>1, <1>4, <2>2, <2>3 DEF One
<1> QED
  BY <1>2, <1>3, <1>4

-----------------------------------------------------------------------------
(* How often something is in a queue. *)

Places(q, h) == {i \in 1..Len(q) : q[i] = h}
Times(q, h) == Cardinality(Places(q, h))
Cut(q, k) == [i \in 1..(Len(q) - 1) |-> IF i < k THEN q[i] ELSE q[i + 1]]

LEMMA SeqEqual ==
  ASSUME NEW S, NEW q \in Seq(S), NEW r \in Seq(S), Len(q) = Len(r),
         \A i \in 1..Len(q) : q[i] = r[i]
  PROVE  q = r
OBVIOUS

LEMMA TimesFinite ==
  ASSUME NEW S, NEW q \in Seq(S), NEW h
  PROVE  /\ IsFiniteSet(Places(q, h)) /\ Times(q, h) \in Nat
         /\ Times(q, h) = 0 <=> \A i \in 1..Len(q) : q[i] # h
<1>1. Len(q) \in Nat
  OBVIOUS
<1>2. IsFiniteSet(1..Len(q))
  BY <1>1, FS_Interval
<1>3. Places(q, h) \in SUBSET (1..Len(q))
  BY DEF Places
<1>4. IsFiniteSet(Places(q, h))
  BY <1>2, <1>3, FS_Subset
<1>5. Times(q, h) \in Nat
  BY <1>4, FS_CardinalityType DEF Times
<1>6. Times(q, h) = 0 <=> Places(q, h) = {}
  BY <1>4, FS_EmptySet DEF Times
<1> QED
  BY <1>4, <1>5, <1>6 DEF Places

LEMMA TimesEmpty == \A h : Times(<<>>, h) = 0
<1>1. SUFFICES ASSUME NEW h
               PROVE  Times(<<>>, h) = 0
  OBVIOUS
<1>2. <<>> \in Seq({h}) /\ \A i \in 1..Len(<<>>) : FALSE
  OBVIOUS
<1> QED
  BY <1>2, TimesFinite

LEMMA TimesAppend ==
  ASSUME NEW S, NEW q \in Seq(S), NEW e \in S
  PROVE  /\ Append(q, e) \in Seq(S)
         /\ \A h : Times(Append(q, e), h) = Times(q, h) + One(e = h)
<1>1. /\ Append(q, e) \in Seq(S) /\ Len(Append(q, e)) = Len(q) + 1 /\ Len(q) \in Nat
      /\ \A i \in 1..Len(q) : Append(q, e)[i] = q[i]
      /\ Append(q, e)[Len(q) + 1] = e
  OBVIOUS
<1>2. ASSUME NEW h
      PROVE  Times(Append(q, e), h) = Times(q, h) + One(e = h)
  <2>1. \A i : i # Len(q) + 1 => (i \in Places(Append(q, e), h) <=> i \in Places(q, h))
    BY <1>1 DEF Places
  <2>2. Len(q) + 1 \notin Places(q, h)
    BY <1>1 DEF Places
  <2>3. Len(q) + 1 \in Places(Append(q, e), h) <=> e = h
    BY <1>1 DEF Places
  <2>4. IsFiniteSet(Places(q, h))
    BY TimesFinite
  <2>5. /\ Times(Append(q, e), h) = Times(q, h) + One(Len(q) + 1 \in Places(Append(q, e), h))
                                      - One(Len(q) + 1 \in Places(q, h))
        /\ Times(q, h) \in Nat
    BY <2>1, <2>4, CountChange, Zenon DEF Times
  <2>6. CASE e = h
    BY <2>2, <2>3, <2>5, <2>6 DEF One
  <2>7. CASE e # h
    BY <2>2, <2>3, <2>5, <2>7 DEF One
  <2> QED
    BY <2>6, <2>7
<1> QED
  BY <1>1, <1>2

LEMMA TimesCut ==
  ASSUME NEW S, NEW q \in Seq(S), NEW k \in 1..Len(q)
  PROVE  /\ Cut(q, k) \in Seq(S) /\ Len(Cut(q, k)) = Len(q) - 1
         /\ \A i \in 1..(Len(q) - 1) : Cut(q, k)[i] = IF i < k THEN q[i] ELSE q[i + 1]
         /\ \A h : Times(Cut(q, k), h) = Times(q, h) - One(q[k] = h)
<1>1. DOMAIN q = 1..Len(q) /\ Len(q) \in Nat /\ \A i \in 1..Len(q) : q[i] \in S
  OBVIOUS
<1>2. Len(q) - 1 \in Nat /\ \A i \in 1..(Len(q) - 1) : (IF i < k THEN q[i] ELSE q[i + 1]) \in S
  BY <1>1
<1>3. Cut(q, k) \in [1..(Len(q) - 1) -> S]
  BY <1>2 DEF Cut
<1>4. /\ Cut(q, k) \in Seq(S) /\ Len(Cut(q, k)) = Len(q) - 1
      /\ \A i \in 1..(Len(q) - 1) : Cut(q, k)[i] = IF i < k THEN q[i] ELSE q[i + 1]
  BY <1>2, <1>3 DEF Cut
<1>5. ASSUME NEW h
      PROVE  Times(Cut(q, k), h) = Times(q, h) - One(q[k] = h)
  <2>1. PICK c : c = Cut(q, k)
    OBVIOUS
  <2>2. PICK A : A = Places(c, h)
    OBVIOUS
  <2>3. PICK B : B = Places(q, h) \ {k}
    OBVIOUS
  <2>4. PICK f : f = [i \in A |-> IF i < k THEN i ELSE i + 1]
    OBVIOUS
  <2>5. \A i : i \in A <=> i \in 1..(Len(q) - 1) /\ (IF i < k THEN q[i] ELSE q[i + 1]) = h
    BY <1>4, <2>1, <2>2 DEF Places
  <2>6. \A j : j \in B <=> j \in 1..Len(q) /\ q[j] = h /\ j # k
    BY <2>3 DEF Places
  <2>7. f \in [A -> B]
    <3>1. \A i \in A : (IF i < k THEN i ELSE i + 1) \in B
      BY <1>1, <2>5, <2>6
    <3> QED
      BY <2>4, <3>1
  <2>8. \A i, j \in A : f[i] = f[j] => i = j
    <3>1. \A i \in A : f[i] = (IF i < k THEN i ELSE i + 1) /\ i \in Nat
      BY <2>4, <2>5
    <3> QED
      BY <3>1
  <2>9. \A j \in B : \E i \in A : f[i] = j
    <3>1. SUFFICES ASSUME NEW j \in B
                   PROVE  \E i \in A : f[i] = j
      OBVIOUS
    <3>2. j \in 1..Len(q) /\ q[j] = h /\ j # k
      BY <2>6
    <3>3. CASE j < k
      <4>1. j \in A
        BY <1>1, <2>5, <3>2, <3>3
      <4>2. f[j] = j
        BY <2>4, <3>3, <4>1
      <4> QED
        BY <4>1, <4>2
    <3>4. CASE ~(j < k)
      <4>1. PICK i : i = j - 1
        OBVIOUS
      <4>2. i \in 1..(Len(q) - 1) /\ ~(i < k) /\ i + 1 = j
        BY <1>1, <3>2, <3>4, <4>1
      <4>3. i \in A
        BY <2>5, <3>2, <4>2
      <4>4. f[i] = j
        BY <2>4, <4>2, <4>3
      <4> QED
        BY <4>3, <4>4
    <3> QED
      BY <3>3, <3>4
  <2>10. ExistsBijection(A, B)
    BY <2>7, <2>8, <2>9 DEF ExistsBijection, Bijection, Injection, Surjection, IsInjective
  <2>11. IsFiniteSet(A) /\ IsFiniteSet(Places(q, h)) /\ Times(q, h) \in Nat
    BY <1>4, <2>1, <2>2, TimesFinite
  <2>12. Cardinality(B) = Cardinality(A)
    BY <2>10, <2>11, FS_Bijection
  <2>13. Cardinality(B) = IF k \in Places(q, h) THEN Times(q, h) - 1 ELSE Times(q, h)
    BY <2>3, <2>11, FS_RemoveElement DEF Times
  <2>14. k \in Places(q, h) <=> q[k] = h
    BY DEF Places
  <2>15. Times(c, h) = Cardinality(A)
    BY <2>2 DEF Times
  <2> QED
    <3>1. Times(Cut(q, k), h) = IF q[k] = h THEN Times(q, h) - 1 ELSE Times(q, h)
      BY <2>1, <2>12, <2>13, <2>14, <2>15, Zenon
    <3>2. CASE q[k] = h
      BY <2>11, <3>1, <3>2 DEF One
    <3>3. CASE q[k] # h
      BY <2>11, <3>1, <3>3 DEF One
    <3> QED
      BY <3>2, <3>3
<1> QED
  BY <1>4, <1>5

LEMMA TimesTail ==
  ASSUME NEW S, NEW q \in Seq(S), q # <<>>
  PROVE  /\ Tail(q) \in Seq(S) /\ Head(q) \in S
         /\ \A h : Times(Tail(q), h) = Times(q, h) - One(Head(q) = h)
<1>1. /\ Head(q) = q[1] /\ q[1] \in S /\ Tail(q) \in Seq(S)
      /\ Len(q) \in Nat /\ Len(Tail(q)) = Len(q) - 1
      /\ \A i \in 1..(Len(q) - 1) : Tail(q)[i] = q[i + 1]
  OBVIOUS
<1>2. 1 \in 1..Len(q)
  OBVIOUS
<1>3. /\ Cut(q, 1) \in Seq(S) /\ Len(Cut(q, 1)) = Len(q) - 1
      /\ \A i \in 1..(Len(q) - 1) : Cut(q, 1)[i] = IF i < 1 THEN q[i] ELSE q[i + 1]
      /\ \A h : Times(Cut(q, 1), h) = Times(q, h) - One(q[1] = h)
  BY <1>2, TimesCut, ZenonT(40)
<1>4. Tail(q) = Cut(q, 1)
  <2>1. PICK c : c = Cut(q, 1)
    OBVIOUS
  <2>2. /\ c \in Seq(S) /\ Len(c) = Len(q) - 1
        /\ \A i \in 1..(Len(q) - 1) : c[i] = IF i < 1 THEN q[i] ELSE q[i + 1]
    BY <1>3, <2>1, Zenon
  <2>3. \A i \in 1..(Len(q) - 1) : ~(i < 1)
    BY <1>1
  <2>4. \A i \in 1..Len(c) : c[i] = Tail(q)[i]
    BY <1>1, <2>2, <2>3
  <2> QED
    BY <1>1, <2>1, <2>2, <2>4, SeqEqual
<1> QED
  BY <1>1, <1>3, <1>4, Zenon

-----------------------------------------------------------------------------
(* Poll contexts of fs-poll.c. *)

\* A step of the composition is a step of uv_fs_poll_t or none of its.
LEMMA FsPollStep ==
  ASSUME [Next]_vars
  PROVE  FP!Next \/ UNCHANGED fsPollVars
BY DEF Next, vars, OnlyStream, OnlyAsync, OnlySignal, OnlyFsPoll, OnlyLoop, OnlyTimers,
       OnlyHeap, OnlyUnixIo, OnlyWinSignal, OnlyPipe, OnlyPipeServer, OnlyTcp, OnlyTcpServer,
       OnlyPoll, OnlyLogger

FpContext ==
  [parent : BOOLEAN, req : {"none", "busy"} \cup FP!Results,
   timer : {"free", "idle", "active", "closing"},
   busy : {"no", "yes"} \cup Errors, statbuf : Stats \cup {"zero"}]

FpType ==
  /\ poll_ctx \in Ctxs \cup {Null} /\ current \in Ctxs \cup {Null}
  /\ ctx \in [Ctxs -> FpContext]
  /\ file \in FP!Results
  /\ lpc \in {"run", "tell", "out"}
  /\ view \in [Ctxs -> {"nothing"} \cup FP!Results]

\* poll_cb is under way exactly inside it.
FpCurrent == lpc = "run" <=> current = Null

\* A context is free, or has one owner.
FpOwned ==
  \A c \in Ctxs :
    /\ ctx[c].timer = "free" => c # current /\ ctx[c].req = "none"
    /\ ctx[c].timer = "idle" => (ctx[c].req # "none" <=> c # current)
    /\ ctx[c].timer \in {"active", "closing"} => c # current /\ ctx[c].req = "none"
    /\ ctx[c].parent <=> c = poll_ctx
    /\ ctx[c].parent => ctx[c].timer \in {"idle", "active"}
    /\ ctx[c].timer = "active" => ctx[c].parent

FpInv == FpType /\ FpCurrent /\ FpOwned /\ FP!FsUserKnowsLastStat

LEMMA FpInit == Init => FpInv
<1> SUFFICES ASSUME FP!Init
             PROVE  FpInv
  BY DEF Init
<1>1. FpType /\ FpCurrent /\ FpOwned
  BY FsPollAssumption DEF FP!Init, FP!Fresh, FpType, FpContext, FP!Results, FpCurrent, FpOwned
<1>2. FP!FsUserKnowsLastStat
  BY DEF FP!Init, FP!Fresh, FP!FsUserKnowsLastStat
<1> QED
  BY <1>1, <1>2 DEF FpInv

\* What a step may disturb, per action.
LEMMA FpNext ==
  ASSUME FpInv, FP!Next
  PROVE  FpInv'
<1> USE FsPollAssumption DEF FpInv
<1>1. ASSUME FP!FileChanges
      PROVE  FpInv'
  BY <1>1 DEF FP!FileChanges, FpType, FpCurrent, FpOwned, FP!FsUserKnowsLastStat
<1>2. ASSUME FP!Stop \/ FP!Close
      PROVE  FpInv'
  <2>1. FP!StopCtx /\ UNCHANGED <<file, lpc, current, view>>
    BY <1>2 DEF FP!Stop, FP!Close
  <2>2. \A c \in Ctxs : ctx'[c] = IF c = poll_ctx THEN FP!StoppedCtx(ctx[c]) ELSE ctx[c]
    BY <2>1 DEF FP!StopCtx
  <2>3. \A c \in Ctxs : FP!StoppedCtx(ctx[c]) \in FpContext
    BY ZenonT(60) DEF FpType, FpContext, FP!StoppedCtx, FP!Results
  <2>7. ctx' \in [Ctxs -> FpContext]
    BY <2>1, <2>3 DEF FpType, FP!StopCtx
  <2>4. FpType'
    BY <2>1, <2>7 DEF FpType, FP!StopCtx
  <2>8. \A x \in FpContext :
          LET y == FP!StoppedCtx(x)
          IN  /\ y.req = x.req /\ y.parent = FALSE
              /\ y.timer = IF x.timer = "active" THEN "closing" ELSE x.timer
    BY DEF FpContext, FP!StoppedCtx
  <2>5. FpOwned'
    BY <2>1, <2>2, <2>8 DEF FpOwned, FP!StopCtx, FpType
  <2>6. FP!FsUserKnowsLastStat'
    <3>1. \A c \in Ctxs : ctx'[c].parent => ctx'[c] = ctx[c]
      BY <2>2, <2>8 DEF FpType
    <3> QED
      BY <2>1, <3>1 DEF FP!FsUserKnowsLastStat
  <2> QED
    BY <2>1, <2>4, <2>5, <2>6 DEF FpCurrent
<1>3. ASSUME FP!CloseCb \/ FP!UserReturns
      PROVE  FpInv'
  BY <1>3 DEF FP!CloseCb, FP!UserReturns, FpType, FpCurrent, FpOwned, FP!FsUserKnowsLastStat
<1>4. ASSUME FP!PollOut
      PROVE  FpInv'
  <2>1. current \in Ctxs /\ ctx[current].timer = "idle" /\ ctx[current].req = "none"
    BY <1>4 DEF FP!PollOut, FpType, FpCurrent, FpOwned, FpContext
  <2>2. \A c \in Ctxs :
          ctx'[c] = IF c = current
                      THEN [ctx[c] EXCEPT !.timer = IF ctx[c].parent THEN "active" ELSE "closing"]
                      ELSE ctx[c]
    BY <1>4 DEF FP!PollOut, FpType
  <2>3. FpType'
    BY <1>4, <2>1 DEF FP!PollOut, FpType, FpContext
  <2>4. FpOwned'
    BY <1>4, <2>1, <2>2 DEF FP!PollOut, FpOwned, FpType, FpContext
  <2>5. FP!FsUserKnowsLastStat'
    BY <1>4, <2>2 DEF FP!PollOut, FP!FsUserKnowsLastStat, FpType, FpContext
  <2> QED
    BY <1>4, <2>3, <2>4, <2>5 DEF FP!PollOut, FpCurrent
<1>5. ASSUME NEW c \in Ctxs, FP!Start(c)
      PROVE  FpInv'
  BY <1>5 DEF FP!Start, FP!UserRuns, FP!Fresh, FpType, FpContext, FP!Results, FpCurrent,
              FpOwned, FP!FsUserKnowsLastStat
<1>6. ASSUME NEW c \in Ctxs, FP!StatDone(c) \/ FP!TimerCb(c) \/ FP!TimerCloseCb(c)
      PROVE  FpInv'
  <2>4. ctx' \in [Ctxs -> FpContext]
    <3>1. CASE FP!StatDone(c)
      <4>1. [ctx[c] EXCEPT !.req = file] \in FpContext
        BY DEF FpType, FpContext
      <4>2. ctx' = [ctx EXCEPT ![c] = [ctx[c] EXCEPT !.req = file]]
        BY <3>1 DEF FP!StatDone, FpType
      <4> QED
        BY <4>1, <4>2 DEF FpType
    <3>2. CASE FP!TimerCb(c)
      <4>1. [ctx[c] EXCEPT !.timer = "idle", !.req = "busy"] \in FpContext
        BY DEF FpType, FpContext
      <4>2. ctx' = [ctx EXCEPT ![c] = [ctx[c] EXCEPT !.timer = "idle", !.req = "busy"]]
        BY <3>2 DEF FP!TimerCb, FpType
      <4> QED
        BY <4>1, <4>2 DEF FpType
    <3>3. CASE FP!TimerCloseCb(c)
      BY <3>3 DEF FP!TimerCloseCb, FP!Fresh, FpType, FpContext
    <3> QED
      BY <1>6, <3>1, <3>2, <3>3
  <2>1. FpType'
    BY <1>6, <2>4 DEF FP!StatDone, FP!TimerCb, FP!TimerCloseCb, FpType
  <2>2. FpOwned'
    BY <1>6 DEF FP!StatDone, FP!TimerCb, FP!TimerCloseCb, FP!Fresh, FpType, FpContext,
                FP!Results, FpOwned, FpCurrent
  <2>3. FP!FsUserKnowsLastStat'
    BY <1>6, SMTT(60) DEF FP!StatDone, FP!TimerCb, FP!TimerCloseCb, FP!Fresh, FpType, FpContext,
                FP!FsUserKnowsLastStat
  <2> QED
    BY <1>6, <2>1, <2>2, <2>3 DEF FP!StatDone, FP!TimerCb, FP!TimerCloseCb, FpCurrent
<1>7. ASSUME NEW c \in Ctxs, FP!PollCbStopped(c)
      PROVE  FpInv'
  BY <1>7 DEF FP!PollCbStopped, FpType, FpContext, FpCurrent, FpOwned, FP!Results,
              FP!FsUserKnowsLastStat
<1>8. ASSUME NEW c \in Ctxs, FP!PollCb(c)
      PROVE  FpInv'
  <2>11. ctx[c].req \in FP!Results /\ ctx[c] \in FpContext
    BY <1>8 DEF FP!PollCb, FpType
  <2>12. ctx'[c] \in FpContext
    <3> DEFINE r == ctx[c].req
    <3>1. [ctx[c] EXCEPT !.req = "none", !.busy = IF r \in Errors THEN r ELSE "yes",
                         !.statbuf = IF r \in Errors THEN @ ELSE r] \in FpContext
      BY <2>11 DEF FpContext, FP!Results
    <3> QED
      BY <1>8, <3>1 DEF FP!PollCb, FpType
  <2>13. ctx' \in [Ctxs -> FpContext]
    BY <1>8, <2>12 DEF FP!PollCb, FpType
  <2>1. FpType'
    BY <1>8, <2>11, <2>13 DEF FP!PollCb, FpType
  <2>2. FpOwned'
    BY <1>8 DEF FP!PollCb, FpType, FpContext, FP!Results, FpCurrent, FpOwned
  <2>5. /\ \A d \in Ctxs \ {c} : ctx'[d] = ctx[d] /\ view'[d] = view[d]
        /\ ctx'[c].busy = IF ctx[c].req \in Errors THEN ctx[c].req ELSE "yes"
        /\ ctx'[c].statbuf = IF ctx[c].req \in Errors THEN ctx[c].statbuf ELSE ctx[c].req
    BY <1>8, <2>11 DEF FP!PollCb, FpType, FpContext
  <2>6. view'[c] = IF FP!Tells(ctx[c], ctx[c].req)
                       \/ (ctx[c].busy = "no" /\ ctx[c].req \in Stats)
                     THEN ctx[c].req ELSE view[c]
    BY <1>8 DEF FP!PollCb, FpType
  <2>7. ctx[c].parent /\ ctx[c].busy # "no"
          => view[c] = IF ctx[c].busy = "yes" THEN ctx[c].statbuf ELSE ctx[c].busy
    BY DEF FP!FsUserKnowsLastStat
  <2>8. ctx[c].parent
    BY <1>8 DEF FP!PollCb
  <2>9. view'[c] = IF ctx'[c].busy = "yes" THEN ctx'[c].statbuf ELSE ctx'[c].busy
    BY <2>11, <2>5, <2>6, <2>7, <2>8 DEF FP!Tells, FP!Results
  <2>10. \A d \in Ctxs \ {c} : ctx[d].parent /\ ctx[d].busy # "no"
           => view[d] = IF ctx[d].busy = "yes" THEN ctx[d].statbuf ELSE ctx[d].busy
    BY DEF FP!FsUserKnowsLastStat
  <2>3. FP!FsUserKnowsLastStat'
    BY <2>5, <2>9, <2>10 DEF FP!FsUserKnowsLastStat
  <2> QED
    BY <1>8, <2>1, <2>2, <2>3 DEF FP!PollCb, FP!Tells, FpCurrent, FpType
<1> QED
  BY <1>1, <1>2, <1>3, <1>4, <1>5, <1>6, <1>7, <1>8 DEF FP!Next

\* FsPollSound: a poll context has one owner while it is allocated, whatever the
\* handle does with it meanwhile, and the user knows what its last stat found.
THEOREM FsPollHolds == Spec => []FsPollSound
<1>1. FpInv /\ [Next]_vars => FpInv'
  <2> SUFFICES ASSUME FpInv, UNCHANGED fsPollVars
               PROVE  FpInv'
    BY FsPollStep, FpNext
  <2> QED
    BY DEF fsPollVars, FpInv, FpType, FpCurrent, FpOwned, FP!FsUserKnowsLastStat
<1>2. FpInv => FsPollSound
  <2> SUFFICES ASSUME FpInv
               PROVE  FP!FsContextHasOneOwner /\ FP!FsUserKnowsLastStat
    BY DEF FsPollSound
  <2> SUFFICES ASSUME NEW c \in Ctxs
               PROVE  FP!FsContextHasOneOwner!(c)
    BY DEF FpInv, FP!FsContextHasOneOwner
  <2> DEFINE Ways == {w \in {"stat", "timer", "close", "poll_cb"} :
                        CASE w = "stat"    -> ctx[c].req # "none"
                          [] w = "timer"   -> ctx[c].timer = "active"
                          [] w = "close"   -> ctx[c].timer = "closing"
                          [] w = "poll_cb" -> c = current}
  <2>1. \A w : w \in Ways <=> \/ w = "stat" /\ ctx[c].req # "none"
                              \/ w = "timer" /\ ctx[c].timer = "active"
                              \/ w = "close" /\ ctx[c].timer = "closing"
                              \/ w = "poll_cb" /\ c = current
    OBVIOUS
  <2>2. ctx[c].timer = "free" => Ways = {}
    BY <2>1 DEF FpInv, FpOwned
  <2>3. ctx[c].timer # "free" => \E w \in Ways : Ways = {w}
    <3> HIDE DEF Ways
    <3>1. CASE ctx[c].timer = "active"
      <4>1. \A w : w \in Ways <=> w = "timer"
        BY <2>1, <3>1 DEF FpInv, FpOwned
      <4> QED
        BY <4>1
    <3>2. CASE ctx[c].timer = "closing"
      <4>1. \A w : w \in Ways <=> w = "close"
        BY <2>1, <3>2 DEF FpInv, FpOwned
      <4> QED
        BY <4>1
    <3>3. CASE ctx[c].timer = "idle" /\ c = current
      <4>1. \A w : w \in Ways <=> w = "poll_cb"
        BY <2>1, <3>3 DEF FpInv, FpOwned
      <4> QED
        BY <4>1
    <3>4. CASE ctx[c].timer = "idle" /\ c # current
      <4>1. \A w : w \in Ways <=> w = "stat"
        BY <2>1, <3>4 DEF FpInv, FpOwned
      <4> QED
        BY <4>1
    <3> QED
      BY <3>1, <3>2, <3>3, <3>4 DEF FpInv, FpType, FpContext
  <2> HIDE DEF Ways
  <2>4. IF ctx[c].timer = "free" THEN Ways = {} ELSE \E w \in Ways : Ways = {w}
    BY <2>2, <2>3
  <2> QED
    BY <2>4 DEF FpInv, FpOwned, Ways
<1> QED
  BY <1>1, <1>2, FpInit, PTL DEF Spec

-----------------------------------------------------------------------------
(* The instances of a listening pipe, win/pipe.c. *)

LEMMA PipeServerStep ==
  ASSUME [Next]_vars
  PROVE  PS!Next \/ UNCHANGED pipeServerVars
BY DEF Next, vars, OnlyStream, OnlyAsync, OnlySignal, OnlyFsPoll, OnlyLoop, OnlyTimers,
       OnlyHeap, OnlyUnixIo, OnlyWinSignal, OnlyPipe, OnlyPipeServer, OnlyTcp, OnlyTcpServer,
       OnlyPoll, OnlyLogger

BusyStates == {"waiting", "ok", "failed", "aborted"}

PsType ==
  /\ instance \in [Instances -> BusyStates \cup {"none", "pending"}]
  /\ pending_accepts \in Seq(Instances)
  /\ ps_reqs_pending \in Nat /\ announced \in Nat /\ accepted \in Nat
  /\ ps_pc \in {"loop", "connection_cb"}

\* A server listens until it is closed; before, it has no requests.
PsFlags ==
  /\ PS!Has("LISTENING") => ~PS!Has("CLOSING")
  /\ ~PS!Has("LISTENING") /\ ~PS!Has("CLOSING") =>
       /\ \A i \in Instances : instance[i] = "none"
       /\ pending_accepts = <<>> /\ ps_reqs_pending = 0 /\ ps_pc = "loop"

\* Each request is at most once on the list of those connected.
PsPending ==
  \A m, n \in 1..Len(pending_accepts) :
    /\ instance[pending_accepts[n]] = "pending"
    /\ m # n => pending_accepts[m] # pending_accepts[n]

PsOpen == ~PS!Has("CLOSING") =>
            \A i \in Instances : instance[i] \in {"ok", "pending"} => i \in open

PsListening == PS!Has("LISTENING") => \A i \in Instances : instance[i] # "none"

\* The requests that are with the system or at the loop.
Busy == {i \in Instances : instance[i] \in BusyStates}

PsCounts ==
  /\ announced = accepted + Len(pending_accepts)
  /\ ps_reqs_pending = Cardinality(Busy) + (IF ps_pc = "connection_cb" THEN 1 ELSE 0)

PsWhole == PsType /\ PsFlags /\ PsPending /\ PsOpen /\ PsListening /\ PsCounts

\* All this is over when the program has listened twice.
PsInv == ps_pc = "broken" \/ PsWhole

\* Cardinality of the instantiated module.
LEMMA PsCardinality == \A S : PS!Cardinality(S) = Cardinality(S)
BY DEF PS!Cardinality, Cardinality, PS!IsFiniteSet, IsFiniteSet

\* One request becomes busy, or is busy no more, and the others stay as they are.
LEMMA BusyChange ==
  ASSUME PsType, NEW i \in Instances, NEW st, instance' = [instance EXCEPT ![i] = st]
  PROVE  /\ Cardinality(Busy) \in Nat
         /\ st \in BusyStates /\ instance[i] \in BusyStates
              => Cardinality(Busy') = Cardinality(Busy)
         /\ st \in BusyStates /\ instance[i] \notin BusyStates
              => Cardinality(Busy') = Cardinality(Busy) + 1
         /\ st \notin BusyStates /\ instance[i] \in BusyStates
              => Cardinality(Busy') = Cardinality(Busy) - 1
<1>1. IsFiniteSet(Busy)
  BY FS_Subset, ServersAssumption DEF Busy
<1>2. \A j \in Instances : instance'[j] = IF j = i THEN st ELSE instance[j]
  BY DEF PsType
<1>3. ASSUME st \in BusyStates, instance[i] \in BusyStates
      PROVE  Busy' = Busy
  BY <1>2, <1>3 DEF Busy
<1>4. ASSUME st \in BusyStates, instance[i] \notin BusyStates
      PROVE  Busy' = Busy \cup {i} /\ i \notin Busy
  BY <1>2, <1>4 DEF Busy
<1>5. ASSUME st \notin BusyStates, instance[i] \in BusyStates
      PROVE  Busy' = Busy \ {i} /\ i \in Busy
  BY <1>2, <1>5 DEF Busy
<1> QED
  BY <1>1, <1>3, <1>4, <1>5, FS_CardinalityType, FS_AddElement, FS_RemoveElement

LEMMA PsInit == Init => PsInv
<1> SUFFICES ASSUME PS!Init
             PROVE  PsInv
  BY DEF Init
<1>1. Busy = {}
  BY DEF PS!Init, Busy, BusyStates
<1>2. Cardinality(Busy) = 0
  BY <1>1, FS_EmptySet
<1> QED
  BY <1>2 DEF PS!Init, PS!Has, PsInv, PsWhole, PsType, PsFlags, PsPending, PsOpen, PsListening, PsCounts

\* A request that QueueAccept has queued.
LEMMA PsQueued ==
  ASSUME PsWhole, NEW i \in Instances, PS!QueueAccept(i, instance, open \ {i}), PsType'
  PROVE  \E st \in {"waiting", "ok", "failed"} :
           /\ instance' = [instance EXCEPT ![i] = st]
           /\ \A j \in Instances : /\ instance'[j] = IF j = i THEN st ELSE instance[j]
                                   /\ j # i /\ j \in open => j \in open'
           /\ st = "ok" => i \in open'
BY DEF PsWhole, PsType, PS!QueueAccept

LEMMA PsWholeNext ==
  ASSUME PsWhole, PS!Next, ~PS!ListenAgain
  PROVE  PsWhole'
<1> USE DEF PsWhole
<1>1. ASSUME PS!Bind
      PROVE  PsWhole'
  BY <1>1 DEF PS!Bind, PS!Has, PsType, PsFlags, PsPending, PsOpen, PsListening, PsCounts, Busy
<1>2. ASSUME PS!Listen
      PROVE  PsWhole'
  <2> PICK s \in [Instances -> {"waiting", "ok", "failed"}] :
        instance' = s /\ open' = {i \in Instances : s[i] # "failed"}
    BY <1>2 DEF PS!Listen, PS!ProgramRuns
  <2>1. Busy = {} /\ Busy' = Instances
    BY <1>2 DEF PS!Listen, PS!ProgramRuns, PS!Has, PsFlags, Busy, BusyStates
  <2>2. Cardinality(Instances) \in Nat /\ Cardinality(Busy) = 0
    BY <2>1, FS_CardinalityType, FS_EmptySet, ServersAssumption
  <2>5. /\ ps_reqs_pending' = ps_reqs_pending + Cardinality(Instances)
        /\ UNCHANGED <<pending_accepts, announced, accepted, ps_pc>>
        /\ ~PS!Has("LISTENING") /\ ~PS!Has("CLOSING")
    BY <1>2, PsCardinality DEF PS!Listen, PS!ProgramRuns
  <2>6. ps_reqs_pending = 0 /\ ps_pc = "loop"
    BY <2>5 DEF PsFlags
  <2>3. PsType'
    BY <2>2, <2>5, <2>6 DEF PsType, BusyStates
  <2>4. PsCounts'
    <3>1. ps_reqs_pending' = Cardinality(Instances) /\ ps_pc' = "loop"
      BY <2>2, <2>5, <2>6
    <3> QED
      BY <1>2, <2>1, <3>1 DEF PS!Listen, PsCounts
  <2> QED
    BY <1>2, <2>3, <2>4 DEF PS!Listen, PS!ProgramRuns, PS!Has, PsFlags, PsPending, PsOpen, PsListening, PsType
<1>3. ASSUME NEW i \in Instances, PS!AcceptCompletes(i)
      PROVE  PsWhole'
  <2> PICK st \in {"ok", "failed", "aborted"} :
        instance' = [instance EXCEPT ![i] = st] /\ (st = "ok" => i \in open)
    BY <1>3 DEF PS!AcceptCompletes
  <2>1. Cardinality(Busy') = Cardinality(Busy)
    BY <1>3, BusyChange DEF PS!AcceptCompletes, BusyStates
  <2>2. PsType' /\ PsCounts'
    BY <1>3, <2>1 DEF PS!AcceptCompletes, PsType, PsCounts, BusyStates
  <2>3. PsFlags' /\ PsListening' /\ PsOpen'
    BY <1>3 DEF PS!AcceptCompletes, PS!Has, PsFlags, PsType, PsOpen, PsListening
  <2>4. PsPending'
    BY <1>3 DEF PS!AcceptCompletes, PsPending, PsType
  <2> QED
    BY <2>2, <2>3, <2>4
<1>4. ASSUME NEW i \in Instances, PS!ProcessAcceptClosing(i)
      PROVE  PsWhole'
  <2>1. /\ Cardinality(Busy) \in Nat /\ Cardinality(Busy') = Cardinality(Busy) - 1
        /\ Cardinality(Busy') \in Nat
    <3>1. /\ instance' = [instance EXCEPT ![i] = "none"]
          /\ "none" \notin BusyStates /\ instance[i] \in BusyStates
      BY <1>4 DEF PS!ProcessAcceptClosing, BusyStates
    <3>2. IsFiniteSet(Busy')
      BY FS_Subset, ServersAssumption DEF Busy
    <3> QED
      BY <3>1, <3>2, BusyChange, FS_CardinalityType
  <2>2. PsType' /\ PsCounts'
    BY <1>4, <2>1 DEF PS!ProcessAcceptClosing, PS!DecreasePending, PsType, PsCounts
  <2>3. PsFlags' /\ PsListening' /\ PsOpen'
    BY <1>4 DEF PS!ProcessAcceptClosing, PS!DecreasePending, PS!Has, PsFlags, PsOpen, PsListening
  <2>4. PsPending'
    BY <1>4 DEF PS!ProcessAcceptClosing, PsPending, PsType
  <2> QED
    BY <2>2, <2>3, <2>4
<1>5. ASSUME NEW i \in Instances, PS!ProcessAccept(i)
      PROVE  PsWhole'
  <2>1. /\ Cardinality(Busy) \in Nat /\ Cardinality(Busy') = Cardinality(Busy) - 1
    <3>1. /\ instance' = [instance EXCEPT ![i] = "pending"]
          /\ "pending" \notin BusyStates /\ instance[i] \in BusyStates
      BY <1>5 DEF PS!ProcessAccept, BusyStates
    <3> QED
      BY <3>1, BusyChange
  <2>2. pending_accepts' = <<i>> \o pending_accepts /\ pending_accepts \in Seq(Instances)
    BY <1>5 DEF PS!ProcessAccept, PsType
  <2>3. /\ pending_accepts' \in Seq(Instances)
        /\ Len(pending_accepts') = Len(pending_accepts) + 1
        /\ \A n \in 1..Len(pending_accepts') :
             pending_accepts'[n] = IF n = 1 THEN i ELSE pending_accepts[n - 1]
    BY <2>2
  <2>4. PsType' /\ PsCounts'
    BY <1>5, <2>1, <2>3 DEF PS!ProcessAccept, PsType, PsCounts
  <2>5. PsFlags' /\ PsListening' /\ PsOpen'
    BY <1>5 DEF PS!ProcessAccept, PS!Has, PsFlags, PsType, PsOpen, PsListening
  <2>6. PsPending'
    <3>1. \A j \in Instances : instance'[j] = IF j = i THEN "pending" ELSE instance[j]
      BY <1>5 DEF PS!ProcessAccept, PsType
    <3>2. \A n \in 1..Len(pending_accepts) : pending_accepts[n] # i /\ pending_accepts[n] \in Instances
      BY <1>5 DEF PS!ProcessAccept, PsPending, PsType
    <3> SUFFICES ASSUME NEW m \in 1..Len(pending_accepts'), NEW n \in 1..Len(pending_accepts')
                 PROVE  /\ instance'[pending_accepts'[n]] = "pending"
                        /\ m # n => pending_accepts'[m] # pending_accepts'[n]
      BY DEF PsPending
    <3>3. /\ m # 1 => m - 1 \in 1..Len(pending_accepts)
          /\ n # 1 => n - 1 \in 1..Len(pending_accepts)
          /\ m # n => m - 1 # n - 1
      BY <2>2, <2>3
    <3> QED
      BY <2>3, <3>1, <3>2, <3>3 DEF PsPending
  <2> QED
    BY <2>4, <2>5, <2>6
<1>6. ASSUME PS!AfterConnectionCb
      PROVE  PsWhole'
  <2>1. Cardinality(Busy) \in Nat /\ Busy' = Busy
    BY <1>6, FS_Subset, FS_CardinalityType, ServersAssumption DEF PS!AfterConnectionCb, Busy
  <2>2. PsType' /\ PsCounts'
    BY <1>6, <2>1 DEF PS!AfterConnectionCb, PS!DecreasePending, PsType, PsCounts
  <2> QED
    BY <1>6, <2>2 DEF PS!AfterConnectionCb, PS!DecreasePending, PS!Has, PsFlags, PsOpen,
                      PsListening, PsPending
<1>7. ASSUME NEW i \in Instances, PS!ProcessAcceptFailed(i)
      PROVE  PsWhole'
  <2>1. PsType'
    BY <1>7 DEF PS!ProcessAcceptFailed, PS!QueueAccept, PsType, BusyStates
  <2> PICK st \in {"waiting", "ok", "failed"} :
           /\ instance' = [instance EXCEPT ![i] = st]
           /\ \A j \in Instances : /\ instance'[j] = IF j = i THEN st ELSE instance[j]
                                   /\ j # i /\ j \in open => j \in open'
           /\ st = "ok" => i \in open'
    BY <1>7, <2>1, PsQueued DEF PS!ProcessAcceptFailed
  <2>2. Cardinality(Busy') = Cardinality(Busy)
    BY <1>7, BusyChange DEF PS!ProcessAcceptFailed, BusyStates
  <2>3. PsCounts' /\ PsFlags' /\ PsListening' /\ PsOpen'
    BY <1>7, <2>2 DEF PS!ProcessAcceptFailed, PS!Has, PsCounts, PsFlags, PsOpen, PsListening
  <2>4. PsPending'
    BY <1>7 DEF PS!ProcessAcceptFailed, PsPending, PsType
  <2> QED
    BY <2>1, <2>3, <2>4
<1>8. ASSUME PS!Accept
      PROVE  PsWhole'
  <2> DEFINE i == Head(pending_accepts)
  <2>1. /\ i \in Instances /\ instance[i] = "pending" /\ Len(pending_accepts) \in Nat
        /\ Len(pending_accepts') = Len(pending_accepts) - 1
        /\ pending_accepts' \in Seq(Instances)
        /\ \A n \in 1..Len(pending_accepts') :
             /\ pending_accepts'[n] = pending_accepts[n + 1]
             /\ n + 1 \in 1..Len(pending_accepts)
             /\ pending_accepts'[n] # i /\ pending_accepts'[n] \in Instances
    <3>1. /\ pending_accepts # <<>> /\ pending_accepts' = Tail(pending_accepts)
          /\ pending_accepts \in Seq(Instances)
      BY <1>8 DEF PS!Accept, PsType
    <3>2. 1 \in 1..Len(pending_accepts) /\ i = pending_accepts[1]
      BY <3>1
    <3> QED
      BY <3>1, <3>2 DEF PsPending
  <2>2. PsType'
    BY <1>8, <2>1 DEF PS!Accept, PS!QueueAccept, PsType, BusyStates
  <2> HIDE DEF i
  <2> PICK st \in {"waiting", "ok", "failed"} :
           /\ instance' = [instance EXCEPT ![i] = st]
           /\ \A j \in Instances : /\ instance'[j] = IF j = i THEN st ELSE instance[j]
                                   /\ j # i /\ j \in open => j \in open'
           /\ st = "ok" => i \in open'
    BY <1>8, <2>1, <2>2, PsQueued DEF PS!Accept, i
  <2>3. Cardinality(Busy) \in Nat /\ Cardinality(Busy') = Cardinality(Busy) + 1
    BY <2>1, BusyChange DEF BusyStates
  <2>4. PsCounts'
    BY <1>8, <2>1, <2>3 DEF PS!Accept, PsCounts, PsType
  <2>5. PsFlags' /\ PsListening' /\ PsOpen'
    BY <1>8 DEF PS!Accept, PS!ProgramRuns, PS!Has, PsFlags, PsOpen, PsListening
  <2>6. PsPending'
    BY <2>1, SMTT(20) DEF PsPending
  <2> QED
    BY <2>2, <2>4, <2>5, <2>6
<1>9. ASSUME PS!Close \/ PS!Endgame
      PROVE  PsWhole'
  <2>1. /\ UNCHANGED <<instance, pending_accepts, ps_reqs_pending, announced, accepted, ps_pc>>
        /\ PS!Has("CLOSING") => PS!Has("CLOSING")'
        /\ PS!Has("LISTENING")' => PS!Has("LISTENING") /\ ~PS!Has("CLOSING")'
        /\ ~PS!Has("CLOSING")' => ps_flags' \cap {"LISTENING"} = ps_flags \cap {"LISTENING"}
        /\ ~PS!Has("CLOSING")' => open' = open
    BY <1>9 DEF PS!Close, PS!ProgramRuns, PS!Endgame, PS!Has, PsFlags
  <2>2. PsType' /\ PsCounts' /\ PsPending'
    BY <2>1 DEF PsType, PsCounts, PsPending, Busy
  <2> QED
    BY <2>1, <2>2 DEF PS!Has, PsFlags, PsOpen, PsListening
<1> QED
  BY <1>1, <1>2, <1>3, <1>4, <1>5, <1>6, <1>7, <1>8, <1>9 DEF PS!Next, PS!LoopStep

LEMMA PsNext ==
  ASSUME PsInv, PS!Next
  PROVE  PsInv'
<1>1. CASE ps_pc = "broken"
  <2>1. ps_pc' = "broken"
    BY <1>1 DEF PS!Next, PS!Bind, PS!Listen, PS!ListenAgain, PS!Accept, PS!Close, PS!LoopStep,
                PS!ProcessAcceptClosing, PS!ProcessAccept, PS!ProcessAcceptFailed,
                PS!AfterConnectionCb, PS!Endgame, PS!AcceptCompletes
  <2> QED
    BY <2>1 DEF PsInv
<1>2. CASE PS!ListenAgain
  BY <1>2 DEF PS!ListenAgain, PsInv
<1>3. CASE PsWhole /\ ~PS!ListenAgain
  BY <1>3, PsWholeNext DEF PsInv
<1> QED
  BY <1>1, <1>2, <1>3 DEF PsInv

LEMMA PsKept == PsInv => PS!InstancesKept
<1> SUFFICES ASSUME PsWhole
             PROVE  PS!InstancesKept
  BY DEF PsInv, PS!InstancesKept
<1>1. PS!Has("LISTENING") => PS!Count({"none"}) = 0
  BY PsCardinality, FS_EmptySet DEF PsWhole, PsListening, PS!Count
<1>2. PS!Count({"waiting", "ok", "failed", "aborted"}) = Cardinality(Busy)
  BY PsCardinality DEF PS!Count, Busy, BusyStates
<1> QED
  BY <1>1, <1>2 DEF PsWhole, PsOpen, PsCounts, PS!InstancesKept

LEMMA PsKeeps ==
  ASSUME PsInv, [Next]_vars
  PROVE  PsInv'
<1>1. CASE UNCHANGED pipeServerVars
  BY <1>1 DEF pipeServerVars, PsInv, PsWhole, PsType, PsFlags, PsPending, PsOpen, PsListening, PsCounts,
     Busy, PS!Has
<1> QED
  BY <1>1, PipeServerStep, PsNext

\* What a listening pipe is about to free is not in use.
PsSafe ==
  /\ PS!Has("CLOSING") => open = {}
  /\ PS!Has("ENDGAME_QUEUED") => PS!Has("CLOSING")
  /\ ps_pc = "broken" => ~PS!Has("CLOSING")
  /\ PS!Has("CLOSED") => PS!Has("CLOSING") /\ Busy = {} /\ ps_pc = "loop"

LEMMA PsBusyFinite == Cardinality(Busy) \in Nat /\ (Cardinality(Busy) = 0 => Busy = {})
BY ServersAssumption, FS_Subset, FS_CardinalityType, FS_EmptySet DEF Busy

LEMMA PsSafeInit == Init => PsSafe
BY DEF Init, PS!Init, PsSafe, PS!Has

LEMMA PsSafeNext ==
  ASSUME PsInv, PsSafe, PS!Next
  PROVE  PsSafe'
<1>1. ASSUME PS!Bind
      PROVE  PsSafe'
  BY <1>1 DEF PS!Bind, PsSafe, PS!Has
<1>2. ASSUME PS!Listen \/ PS!ListenAgain \/ PS!Accept
      PROVE  PsSafe'
  <2>1. /\ "CLOSING" \notin ps_flags
        /\ ps_flags' \in {ps_flags, ps_flags \cup {"LISTENING"}}
    BY <1>2 DEF PS!Listen, PS!ListenAgain, PS!Accept, PS!ProgramRuns, PS!Has
  <2> QED
    BY <2>1 DEF PsSafe, PS!Has
<1>3. ASSUME PS!Close
      PROVE  PsSafe'
  BY <1>3 DEF PS!Close, PS!ProgramRuns, PsSafe, PS!Has
<1>4. ASSUME PS!Endgame
      PROVE  PsSafe'
  <2>1. /\ "ENDGAME_QUEUED" \in ps_flags /\ UNCHANGED <<instance, open, ps_pc>> /\ ps_pc = "loop"
        /\ \/ ps_flags' = ps_flags \ {"ENDGAME_QUEUED"}
           \/ ps_flags' = (ps_flags \ {"ENDGAME_QUEUED"}) \cup {"CLOSED"} /\ ps_reqs_pending = 0
    BY <1>4 DEF PS!Endgame, PS!Has
  <2>2. ps_reqs_pending = 0 => Busy = {}
    BY <2>1, PsBusyFinite DEF PsInv, PsWhole, PsCounts
  <2>3. Busy' = Busy
    BY <2>1 DEF Busy
  <2> QED
    BY <2>1, <2>2, <2>3 DEF PsSafe, PS!Has
<1>5. ASSUME NEW i \in Instances, PS!AcceptCompletes(i)
      PROVE  PsSafe'
  <2>1. i \in Busy /\ UNCHANGED <<ps_flags, open, ps_pc>>
    BY <1>5 DEF PS!AcceptCompletes, Busy, BusyStates
  <2> QED
    BY <2>1 DEF PsSafe, PS!Has
<1>6. ASSUME NEW i \in Instances, PS!ProcessAcceptClosing(i)
      PROVE  PsSafe'
  <2>1. /\ i \in Busy /\ "CLOSING" \in ps_flags /\ open' = open /\ ps_pc' = ps_pc
        /\ ps_flags' \in {ps_flags, ps_flags \cup {"ENDGAME_QUEUED"}}
    BY <1>6 DEF PS!ProcessAcceptClosing, PS!DecreasePending, PS!Has, Busy, BusyStates
  <2> QED
    BY <2>1 DEF PsSafe, PS!Has
<1>7. ASSUME NEW i \in Instances, PS!ProcessAccept(i) \/ PS!ProcessAcceptFailed(i)
      PROVE  PsSafe'
  <2>1. "CLOSING" \notin ps_flags /\ ps_flags' = ps_flags
    BY <1>7 DEF PS!ProcessAccept, PS!ProcessAcceptFailed, PS!Has
  <2> QED
    BY <2>1 DEF PsSafe, PS!Has
<1>8. ASSUME PS!AfterConnectionCb
      PROVE  PsSafe'
  <2>1. /\ ps_pc = "connection_cb" /\ ps_pc' = "loop" /\ open' = open
        /\ \/ ps_flags' = ps_flags
           \/ "CLOSING" \in ps_flags /\ ps_flags' = ps_flags \cup {"ENDGAME_QUEUED"}
    BY <1>8 DEF PS!AfterConnectionCb, PS!DecreasePending, PS!Has
  <2> QED
    BY <2>1 DEF PsSafe, PS!Has
<1> QED
  BY <1>1, <1>2, <1>3, <1>4, <1>5, <1>6, <1>7, <1>8 DEF PS!Next, PS!LoopStep

LEMMA PsFrees == PsSafe => PS!ServerFreesSafely
<1>1. PS!Count({"waiting", "ok", "failed", "aborted"}) = Cardinality(Busy)
  BY PsCardinality DEF PS!Count, Busy, BusyStates
<1> QED
  BY <1>1, FS_EmptySet DEF PsSafe, PS!ServerFreesSafely

\* PsSafe is inductive together with PsInv.
LEMMA PsSafeKeeps ==
  ASSUME PsInv, PsSafe, [Next]_vars
  PROVE  PsSafe'
<1>1. CASE UNCHANGED pipeServerVars
  BY <1>1 DEF pipeServerVars, PsSafe, Busy, PS!Has
<1> QED
  BY <1>1, PipeServerStep, PsSafeNext

-----------------------------------------------------------------------------
(* The accept requests of a listening socket, win/tcp.c. *)

LEMMA TcpServerStep ==
  ASSUME [Next]_vars
  PROVE  TS!Next \/ UNCHANGED tcpServerVars
BY DEF Next, vars, OnlyStream, OnlyAsync, OnlySignal, OnlyFsPoll, OnlyLoop, OnlyTimers,
       OnlyHeap, OnlyUnixIo, OnlyWinSignal, OnlyPipe, OnlyPipeServer, OnlyTcp, OnlyTcpServer,
       OnlyPoll, OnlyLogger

TsStates == {"idle", "out", "done", "broken", "failed", "held"}
AcceptReqs == 1..Accepts

TsType ==
  /\ areq \in [AcceptReqs -> TsStates] /\ held \in Seq(AcceptReqs)
  /\ processed \in Nat /\ retired \subseteq AcceptReqs

\* Each connection that is held belongs to one request.
TsHeld ==
  \A m, n \in 1..Len(held) :
    areq[held[n]] = "held" /\ (m # n => held[m] # held[n])

\* Before the server listens, none of its requests is in use.
TsFresh ==
  "ALLOCATED" \notin ts_flags =>
    /\ areq = [i \in AcceptReqs |-> "idle"] /\ held = <<>> /\ lost = {}
    /\ "LISTENING" \notin ts_flags

\* The switch to single accepts counts the requests that it retires.
TsSwitch ==
  /\ "ACCEPT_STATE_CHANGING" \in ts_flags =>
       /\ {"SINGLE_ACCEPT", "ALLOCATED"} \subseteq ts_flags
       /\ tstate = "open" => processed = Cardinality(retired)
  /\ tstate = "open" => lost \cap retired = {}
  /\ "SINGLE_ACCEPT" \notin ts_flags => processed = 0 /\ retired = {}
  /\ "ALLOCATED" \notin ts_flags => processed = 0 /\ retired = {}

\* The requests in use, and what TcpAcceptsKept says of them.
TsUsed ==
  IF "SINGLE_ACCEPT" \in ts_flags /\ retired = {} /\ "ACCEPT_STATE_CHANGING" \notin ts_flags
    THEN {1} ELSE AcceptReqs
TsKept ==
  "ALLOCATED" \in ts_flags /\ tstate = "open" =>
    \A i \in TsUsed : areq[i] = "idle" <=> i \in lost \cup retired

TsInv == TsType /\ TsHeld /\ TsFresh /\ TsSwitch /\ TsKept

LEMMA TsInit == Init => TsInv
<1> SUFFICES ASSUME TS!Init
             PROVE  TsInv
  BY DEF Init
<1> QED
  BY DEF TS!Init, TS!Reqs, AcceptReqs, TsInv, TsType, TsStates, TsHeld, TsFresh, TsSwitch, TsKept

LEMMA TsCardinality == \A S : TS!Cardinality(S) = Cardinality(S)
BY DEF TS!Cardinality, Cardinality, TS!IsFiniteSet, IsFiniteSet

\* uv_accept takes the last connection held.
LEMMA TsTake ==
  ASSUME TsInv, held # <<>>, held' = Tail(held)
  PROVE  /\ Head(held) \in AcceptReqs /\ areq[Head(held)] = "held" /\ "ALLOCATED" \in ts_flags
         /\ held' \in Seq(AcceptReqs)
         /\ \A n \in 1..Len(held') : /\ areq[held'[n]] = "held" /\ held'[n] # Head(held)
                                     /\ held'[n] \in AcceptReqs
         /\ \A m, n \in 1..Len(held') : m # n => held'[m] # held'[n]
<1>1. held \in Seq(AcceptReqs)
  BY DEF TsInv, TsType
<1>2. 1 \in 1..Len(held) /\ Head(held) = held[1]
  BY <1>1
<1>3. Len(held') = Len(held) - 1 /\ held' \in Seq(AcceptReqs)
  BY <1>1
<1>4. \A n \in 1..Len(held') : held'[n] = held[n + 1] /\ n + 1 \in 2..Len(held)
  BY <1>1, <1>3
<1>5. \A m, n \in 1..Len(held) : areq[held[n]] = "held" /\ (m # n => held[m] # held[n])
  BY DEF TsInv, TsHeld
<1>6. \A n \in 1..Len(held') : areq[held'[n]] = "held" /\ held'[n] # Head(held)
  BY <1>1, <1>2, <1>4, <1>5
<1>7. \A m, n \in 1..Len(held') : m # n => held'[m] # held'[n]
  BY <1>3, <1>4, <1>5
<1>8. "ALLOCATED" \in ts_flags
  BY DEF TsInv, TsFresh
<1>9. \A n \in 1..Len(held') : held'[n] \in AcceptReqs
  BY <1>3
<1>10. Head(held) \in AcceptReqs /\ areq[Head(held)] = "held"
  BY <1>1, <1>2, <1>5
<1> QED
  BY <1>3, <1>6, <1>7, <1>8, <1>9, <1>10

\* The switch has retired every request but the one of the connection taken.
LEMMA TsSwitchEnds ==
  ASSUME TsInv, tstate = "open", "ACCEPT_STATE_CHANGING" \in ts_flags,
         NEW i \in AcceptReqs, areq[i] = "held"
  PROVE  /\ i \notin retired \cup lost
         /\ processed + 1 = Cardinality(retired \cup {i})
         /\ processed + 1 >= Accepts => retired \cup {i} = AcceptReqs
<1>1. i \notin retired \cup lost
  BY DEF TsInv, TsKept, TsUsed, TsSwitch
<1>2. IsFiniteSet(AcceptReqs) /\ Cardinality(AcceptReqs) = Accepts
  BY FS_Interval, ServersAssumption DEF AcceptReqs
<1>3. IsFiniteSet(retired) /\ retired \cup {i} \in SUBSET AcceptReqs
  BY <1>2, FS_Subset DEF TsInv, TsType
<1>4. processed + 1 = Cardinality(retired \cup {i})
  BY <1>1, <1>3, FS_AddElement DEF TsInv, TsSwitch
<1>5. Cardinality(retired \cup {i}) \in Nat /\ Cardinality(retired \cup {i}) <= Accepts
  BY <1>2, <1>3, FS_Subset, FS_AddElement, FS_CardinalityType
<1>6. processed + 1 >= Accepts => Cardinality(AcceptReqs) = Cardinality(retired \cup {i})
  BY <1>2, <1>4, <1>5, ServersAssumption
<1> QED
  BY <1>1, <1>2, <1>3, <1>4, <1>6, FS_Subset

LEMMA TsAccept ==
  ASSUME TsInv, TS!Accept
  PROVE  TsInv'
<1> DEFINE i == Head(held)
           free == [areq EXCEPT ![i] = "idle"]
<1>1. /\ held # <<>> /\ held' = Tail(held) /\ tstate # "closed"
      /\ UNCHANGED <<tstate, lost>>
  BY DEF TS!Accept
<1>2. /\ i \in AcceptReqs /\ areq[i] = "held" /\ "ALLOCATED" \in ts_flags
      /\ held' \in Seq(AcceptReqs)
      /\ \A n \in 1..Len(held') : /\ areq[held'[n]] = "held" /\ held'[n] # i
                                  /\ held'[n] \in AcceptReqs
      /\ \A m, n \in 1..Len(held') : m # n => held'[m] # held'[n]
  BY <1>1, TsTake
<1>3. /\ free \in [AcceptReqs -> TsStates]
      /\ \A j \in AcceptReqs : free[j] = IF j = i THEN "idle" ELSE areq[j]
  BY <1>2 DEF TsInv, TsType, TsStates
<1>4. 1 \in AcceptReqs
  BY ServersAssumption DEF AcceptReqs
<1>5. CASE tstate # "open"
  <2>1. areq' = free /\ UNCHANGED <<ts_flags, processed, retired>>
    BY <1>5 DEF TS!Accept
  <2>2. TsType' /\ TsHeld'
    BY <1>2, <1>3, <2>1 DEF TsInv, TsType, TsHeld
  <2> QED
    BY <1>1, <1>2, <1>5, <2>1, <2>2 DEF TsInv, TsFresh, TsSwitch, TsKept
<1>6. CASE tstate = "open" /\ "ACCEPT_STATE_CHANGING" \notin ts_flags
  <2>1. PICK F \in SUBSET {i} :
          areq' = [j \in AcceptReqs |-> IF j \in F THEN "failed" ELSE IF j \in {i} THEN "out" ELSE free[j]]
    BY <1>6 DEF TS!Accept, TS!QueueAccepts, TS!Reqs, AcceptReqs
  <2>2. UNCHANGED <<ts_flags, processed, retired>>
    BY <1>6 DEF TS!Accept
  <2> HIDE DEF i, free
  <2>3. \A j \in AcceptReqs : IF j = i THEN areq'[j] \in {"failed", "out"} ELSE areq'[j] = areq[j]
    BY <1>2, <1>3, <2>1
  <2>4. areq' \in [AcceptReqs -> TsStates]
    BY <1>3, <2>1 DEF TsStates
  <2>5. TsType' /\ TsHeld'
    BY <1>2, <2>2, <2>3, <2>4 DEF TsInv, TsType, TsHeld
  <2>6. TsKept'
    BY <1>1, <1>2, <1>4, <1>6, <2>2, <2>3 DEF TsInv, TsKept, TsUsed
  <2> QED
    BY <1>1, <1>2, <2>2, <2>5, <2>6 DEF TsInv, TsFresh, TsSwitch
<1>7. CASE tstate = "open" /\ "ACCEPT_STATE_CHANGING" \in ts_flags /\ processed + 1 >= Accepts
  <2>1. PICK F \in SUBSET {1} :
          areq' = [j \in AcceptReqs |-> IF j \in F THEN "failed" ELSE IF j \in {1} THEN "out" ELSE free[j]]
    BY <1>7 DEF TS!Accept, TS!QueueAccepts, TS!Reqs, AcceptReqs
  <2>2. /\ ts_flags' = ts_flags \ {"ACCEPT_STATE_CHANGING"}
        /\ processed' = 0 /\ retired' = AcceptReqs \ {1}
    BY <1>7 DEF TS!Accept, TS!Reqs, AcceptReqs
  <2> HIDE DEF i, free
  <2>3. i \notin retired \cup lost /\ retired \cup {i} = AcceptReqs
    BY <1>2, <1>7, TsSwitchEnds
  <2>4. \A j \in AcceptReqs : free[j] = "idle" /\ j \notin lost
    BY <1>2, <1>3, <1>7, <2>3 DEF TsInv, TsKept, TsUsed, TsSwitch
  <2>5. \A j \in AcceptReqs : IF j = 1 THEN areq'[j] \in {"failed", "out"} ELSE areq'[j] = "idle"
    BY <1>4, <2>1, <2>4
  <2>6. areq' \in [AcceptReqs -> TsStates]
    BY <1>3, <2>1 DEF TsStates
  <2>7. ~ \E n \in 1..Len(held') : TRUE
    BY <1>2, <1>3, <2>4
  <2>8. TsType' /\ TsHeld'
    BY <1>2, <2>2, <2>6, <2>7 DEF TsInv, TsType, TsHeld
  <2>9. TsKept'
    BY <1>1, <1>4, <2>2, <2>4, <2>5 DEF TsKept, TsUsed
  <2> QED
    BY <1>1, <1>2, <1>7, <2>2, <2>4, <2>8, <2>9 DEF TsInv, TsFresh, TsSwitch
<1>8. CASE tstate = "open" /\ "ACCEPT_STATE_CHANGING" \in ts_flags /\ ~(processed + 1 >= Accepts)
  <2>1. /\ areq' = free /\ processed' = processed + 1 /\ retired' = retired \cup {i}
        /\ UNCHANGED ts_flags
    BY <1>8 DEF TS!Accept
  <2>2. i \notin retired \cup lost /\ processed + 1 = Cardinality(retired \cup {i})
    BY <1>2, <1>8, TsSwitchEnds
  <2> HIDE DEF i, free
  <2>3. TsType' /\ TsHeld'
    BY <1>2, <1>3, <2>1 DEF TsInv, TsType, TsHeld
  <2>4. TsKept'
    BY <1>1, <1>2, <1>3, <1>8, <2>1 DEF TsInv, TsKept, TsUsed
  <2> QED
    BY <1>1, <1>2, <1>8, <2>1, <2>2, <2>3, <2>4 DEF TsInv, TsFresh, TsSwitch
<1> QED
  BY <1>5, <1>6, <1>7, <1>8

LEMMA TsNext ==
  ASSUME TsInv, TS!Next
  PROVE  TsInv'
<1>1. ASSUME TS!Listen
      PROVE  TsInv'
  <2>1. /\ ts_flags' = ts_flags \cup {"LISTENING", "ALLOCATED"} /\ tstate = "open"
        /\ UNCHANGED <<held, processed, tstate, lost, retired>>
    BY <1>1 DEF TS!Listen
  <2>2. CASE "ALLOCATED" \in ts_flags
    <3>1. areq' = areq
      BY <1>1, <2>2 DEF TS!Listen
    <3> QED
      BY <2>1, <2>2, <3>1
         DEF TsInv, TsType, TsHeld, TsFresh, TsSwitch, TsKept, TsUsed
  <2>3. CASE "ALLOCATED" \notin ts_flags
    <3> DEFINE I == IF "SINGLE_ACCEPT" \in ts_flags THEN {1} ELSE AcceptReqs
    <3>1. PICK F \in SUBSET I :
            areq' = [j \in AcceptReqs |-> IF j \in F THEN "failed" ELSE IF j \in I THEN "out" ELSE areq[j]]
      BY <1>1, <2>3 DEF TS!Listen, TS!QueueAccepts, TS!Reqs, AcceptReqs
    <3>2. held = <<>> /\ lost = {} /\ retired = {} /\ areq = [j \in AcceptReqs |-> "idle"]
          /\ "ACCEPT_STATE_CHANGING" \notin ts_flags
      BY <2>3 DEF TsInv, TsFresh, TsSwitch
    <3>3. 1 \in AcceptReqs /\ I \subseteq AcceptReqs
      BY ServersAssumption DEF AcceptReqs
    <3>4. \A j \in I : areq'[j] \in {"failed", "out"}
      BY <3>1, <3>3
    <3>5. areq' \in [AcceptReqs -> TsStates]
      BY <3>1, <3>2 DEF TsStates
    <3>6. TsType' /\ TsHeld'
      BY <2>1, <3>2, <3>5 DEF TsInv, TsType, TsHeld
    <3>7. TsUsed' \subseteq I
      BY <2>1, <3>2 DEF TsUsed
    <3> HIDE DEF I
    <3>8. TsKept'
      BY <2>1, <3>2, <3>4, <3>7 DEF TsKept
    <3> QED
      BY <2>1, <3>2, <3>6, <3>8 DEF TsInv, TsFresh, TsSwitch
  <2> QED
    BY <2>2, <2>3
<1>2. ASSUME TS!SimultaneousAccepts
      PROVE  TsInv'
  <2>1. /\ "SINGLE_ACCEPT" \notin ts_flags /\ "SINGLE_ACCEPT" \in ts_flags'
        /\ "ACCEPT_STATE_CHANGING" \in ts_flags' /\ "ACCEPT_STATE_CHANGING" \notin ts_flags
              => "LISTENING" \in ts_flags
        /\ "ALLOCATED" \in ts_flags' <=> "ALLOCATED" \in ts_flags
        /\ "LISTENING" \in ts_flags' <=> "LISTENING" \in ts_flags
        /\ UNCHANGED <<areq, held, processed, tstate, lost, retired>>
    BY <1>2 DEF TS!SimultaneousAccepts
  <2>2. processed = 0 /\ retired = {} /\ "ACCEPT_STATE_CHANGING" \notin ts_flags
    BY <2>1 DEF TsInv, TsSwitch
  <2>3. TsType' /\ TsHeld' /\ TsFresh'
    BY <2>1 DEF TsInv, TsType, TsHeld, TsFresh
  <2>4. Cardinality(retired') = 0
    BY <2>1, <2>2, FS_EmptySet
  <2>5. TsSwitch'
    BY <2>1, <2>2, <2>4 DEF TsInv, TsSwitch, TsFresh
  <2>6. TsUsed = AcceptReqs /\ TsUsed' \subseteq AcceptReqs
    BY <2>1, ServersAssumption DEF TsUsed, AcceptReqs
  <2>7. TsKept'
    BY <2>1, <2>6 DEF TsInv, TsKept
  <2> QED
    BY <2>3, <2>5, <2>7 DEF TsInv
<1>3. ASSUME TS!Close
      PROVE  TsInv'
  <2>1. /\ areq' \in [AcceptReqs -> TsStates]
        /\ \A j \in AcceptReqs : areq[j] \in {"held", "idle"} => areq'[j] = areq[j]
    BY <1>3 DEF TS!Close, TS!Reqs, AcceptReqs, TsInv, TsType, TsStates
  <2>2. TsType' /\ TsHeld'
    BY <1>3, <2>1 DEF TS!Close, TsInv, TsType, TsHeld
  <2>3. "ALLOCATED" \notin ts_flags => areq' = [j \in AcceptReqs |-> "idle"]
    BY <2>1 DEF TsInv, TsFresh
  <2> QED
    BY <1>3, <2>2, <2>3 DEF TS!Close, TsInv, TsFresh, TsSwitch, TsKept
<1>4. ASSUME NEW i \in AcceptReqs, TS!Completes(i)
      PROVE  TsInv'
  <2> PICK st \in {"done", "broken"} : areq' = [areq EXCEPT ![i] = st]
    BY <1>4 DEF TS!Completes
  <2>1. areq[i] = "out" /\ UNCHANGED <<held, ts_flags, processed, tstate, lost, retired>>
    BY <1>4 DEF TS!Completes
  <2> QED
    BY <2>1 DEF TsInv, TsType, TsStates, TsHeld, TsFresh, TsSwitch, TsKept, TsUsed
<1>5. ASSUME NEW i \in AcceptReqs, TS!ProcessFailed(i)
      PROVE  TsInv'
  <2>1. /\ areq[i] = "failed" /\ areq' = [areq EXCEPT ![i] = "idle"] /\ lost' = lost \cup {i}
        /\ ts_flags' = ts_flags \ {"LISTENING"}
        /\ UNCHANGED <<held, processed, tstate, retired>>
    BY <1>5 DEF TS!ProcessFailed
  <2> QED
    BY <2>1 DEF TsInv, TsType, TsStates, TsHeld, TsFresh, TsSwitch, TsKept, TsUsed
<1>6. ASSUME NEW i \in AcceptReqs, TS!ProcessDone(i)
      PROVE  TsInv'
  <2>1. /\ areq[i] = "done" /\ areq' = [areq EXCEPT ![i] = "held"] /\ held' = <<i>> \o held
        /\ UNCHANGED <<ts_flags, processed, tstate, lost, retired>>
    BY <1>6 DEF TS!ProcessDone
  <2>2. /\ held \in Seq(AcceptReqs) /\ held' \in Seq(AcceptReqs) /\ Len(held') = Len(held) + 1
        /\ \A n \in 1..Len(held') : held'[n] = IF n = 1 THEN i ELSE held[n - 1]
    BY <2>1 DEF TsInv, TsType
  <2>3. \A j \in AcceptReqs : areq'[j] = IF j = i THEN "held" ELSE areq[j]
    BY <2>1 DEF TsInv, TsType
  <2>4. TsHeld'
    <3> SUFFICES ASSUME NEW m \in 1..Len(held'), NEW n \in 1..Len(held')
                 PROVE  areq'[held'[n]] = "held" /\ (m # n => held'[m] # held'[n])
      BY DEF TsHeld
    <3>1. ASSUME NEW k \in 1..Len(held'), k # 1
          PROVE  held'[k] = held[k - 1] /\ k - 1 \in 1..Len(held)
      BY <2>2, <3>1
    <3>2. \A k \in 1..Len(held) : held[k] # i /\ held[k] \in AcceptReqs
      BY <2>1, <2>2 DEF TsInv, TsHeld
    <3>3. \A k, l \in 1..Len(held) :
            areq'[held[k]] = "held" /\ (k # l => held[k] # held[l])
      BY <2>3, <3>2 DEF TsInv, TsHeld
    <3>4. areq'[i] = "held" /\ (m = 1 => held'[m] = i) /\ (n = 1 => held'[n] = i)
      BY <2>2, <2>3
    <3>5. CASE m = 1 /\ n = 1
      BY <3>4, <3>5
    <3>6. CASE m = 1 /\ n # 1
      <4>1. held'[n] = held[n - 1] /\ n - 1 \in 1..Len(held)
        BY <3>1, <3>6
      <4> QED
        BY <3>2, <3>3, <3>4, <3>6, <4>1
    <3>7. CASE m # 1 /\ n = 1
      <4>1. held'[m] = held[m - 1] /\ m - 1 \in 1..Len(held)
        BY <3>1, <3>7
      <4> QED
        BY <3>2, <3>3, <3>4, <3>7, <4>1
    <3>8. CASE m # 1 /\ n # 1
      <4>1. /\ held'[n] = held[n - 1] /\ n - 1 \in 1..Len(held)
            /\ held'[m] = held[m - 1] /\ m - 1 \in 1..Len(held)
        BY <3>1, <3>8
      <4>2. m # n => m - 1 # n - 1
        OBVIOUS
      <4> QED
        BY <3>3, <4>1, <4>2
    <3> QED
      BY <3>5, <3>6, <3>7, <3>8
  <2>5. TsType'
    BY <2>1, <2>2 DEF TsInv, TsType, TsStates
  <2>6. TsKept'
    BY <2>1, <2>3 DEF TsInv, TsKept, TsUsed
  <2>7. "ALLOCATED" \in ts_flags
    BY <2>1 DEF TsInv, TsFresh
  <2> QED
    BY <2>1, <2>4, <2>5, <2>6, <2>7 DEF TsInv, TsFresh, TsSwitch
<1>7. ASSUME NEW i \in AcceptReqs, TS!ProcessBroken(i)
      PROVE  TsInv'
  <2>1. /\ areq[i] = "broken" /\ UNCHANGED <<held, ts_flags, processed, tstate, retired>>
        /\ "ALLOCATED" \in ts_flags
    BY <1>7 DEF TS!ProcessBroken, TsInv, TsFresh
  <2>2. CASE "LISTENING" \in ts_flags
    <3>1. PICK F \in SUBSET {i} :
            areq' = [j \in AcceptReqs |-> IF j \in F THEN "failed" ELSE IF j \in {i} THEN "out" ELSE areq[j]]
      BY <1>7, <2>2 DEF TS!ProcessBroken, TS!QueueAccepts, TS!Reqs, AcceptReqs
    <3>2. \A j \in AcceptReqs : IF j = i THEN areq'[j] \in {"failed", "out"} ELSE areq'[j] = areq[j]
      BY <3>1
    <3>3. areq' \in [AcceptReqs -> TsStates]
      BY <3>1 DEF TsInv, TsType, TsStates
    <3>4. lost' = lost
      BY <1>7, <2>2 DEF TS!ProcessBroken
    <3>5. TsType' /\ TsHeld'
      BY <2>1, <3>2, <3>3 DEF TsInv, TsType, TsHeld
    <3>6. TsKept'
      BY <2>1, <3>2, <3>4, ServersAssumption DEF TsInv, TsKept, TsUsed, AcceptReqs
    <3> QED
      BY <2>1, <3>4, <3>5, <3>6 DEF TsInv, TsFresh, TsSwitch
  <2>3. CASE "LISTENING" \notin ts_flags
    <3>1. areq' = [areq EXCEPT ![i] = "idle"] /\ lost' = lost \cup {i}
      BY <1>7, <2>3 DEF TS!ProcessBroken
    <3>2. \A j \in AcceptReqs : areq'[j] = IF j = i THEN "idle" ELSE areq[j]
      BY <3>1 DEF TsInv, TsType
    <3>3. TsType' /\ TsHeld'
      BY <2>1, <3>1, <3>2 DEF TsInv, TsType, TsStates, TsHeld
    <3>4. TsUsed' = TsUsed /\ TsUsed \subseteq AcceptReqs
      BY <2>1, ServersAssumption DEF TsUsed, AcceptReqs
    <3>5. TsKept'
      BY <2>1, <3>1, <3>2, <3>4 DEF TsInv, TsKept
    <3>6. tstate = "open" => i \notin retired
      BY <2>1 DEF TsInv, TsKept, TsUsed
    <3> QED
      BY <2>1, <3>1, <3>3, <3>5, <3>6 DEF TsInv, TsFresh, TsSwitch
  <2> QED
    BY <2>2, <2>3
<1>8. ASSUME TS!UserReturns \/ TS!ProcessRest \/ TS!Endgame
      PROVE  TsInv'
  <2>1. /\ UNCHANGED <<areq, held, ts_flags, processed, lost, retired>>
        /\ tstate' = "open" => tstate = "open"
    BY <1>8 DEF TS!UserReturns, TS!ProcessRest, TS!Endgame
  <2> QED
    BY <2>1 DEF TsInv, TsType, TsHeld, TsFresh, TsSwitch, TsKept, TsUsed
<1> QED
  BY <1>1, <1>2, <1>3, <1>4, <1>5, <1>6, <1>7, <1>8, TsAccept DEF TS!Next, TS!LoopStep, TS!Reqs, AcceptReqs

LEMMA TsSound == TsInv => TS!TcpAcceptsKept
BY DEF TsInv, TsKept, TsUsed, TS!TcpAcceptsKept, TS!Reqs, AcceptReqs

LEMMA TsKeeps ==
  ASSUME TsInv, [Next]_vars
  PROVE  TsInv'
<1>1. CASE UNCHANGED tcpServerVars
  BY <1>1 DEF tcpServerVars, TsInv, TsType, TsHeld, TsFresh, TsSwitch, TsKept, TsUsed
<1> QED
  BY <1>1, TcpServerStep, TsNext

\* The requests the count stands for.
TsBusy == {i \in AcceptReqs : areq[i] \notin {"idle", "held"}}

TsCounted ==
  /\ tlpc \in {"run", "cb", "rest"}
  /\ accepting = Cardinality(TsBusy) + One(tlpc # "run")
  /\ tstate # "open" => "LISTENING" \notin ts_flags
  /\ tstate \in {"endgame", "closed"} => accepting = 0

LEMMA TsBusyFinite ==
  IsFiniteSet(TsBusy) /\ Cardinality(TsBusy) \in Nat /\ (Cardinality(TsBusy) = 0 => TsBusy = {})
<1>1. IsFiniteSet(AcceptReqs) /\ TsBusy \subseteq AcceptReqs
  BY FS_Interval, ServersAssumption DEF AcceptReqs, TsBusy
<1> QED
  BY <1>1, FS_Subset, FS_CardinalityType, FS_EmptySet

\* A request that changes, the others staying, changes the count as it does.
LEMMA TsBusyChange ==
  ASSUME NEW i \in AcceptReqs, \A j \in AcceptReqs \ {i} : areq'[j] = areq[j]
  PROVE  Cardinality(TsBusy') = Cardinality(TsBusy)
           + One(areq'[i] \notin {"idle", "held"}) - One(areq[i] \notin {"idle", "held"})
<1>1. /\ \A x : x # i => (x \in TsBusy' <=> x \in TsBusy)
      /\ i \in TsBusy' <=> areq'[i] \notin {"idle", "held"}
      /\ i \in TsBusy <=> areq[i] \notin {"idle", "held"}
  BY DEF TsBusy
<1>2. Cardinality(TsBusy') = Cardinality(TsBusy) + One(i \in TsBusy') - One(i \in TsBusy)
  BY <1>1, TsBusyFinite, CountChange
<1> QED
  BY <1>1, <1>2 DEF One

\* The connection taken last ends the switch: no other request is in use.
LEMMA TsSwitchLast ==
  ASSUME TsInv, tstate = "open", "ACCEPT_STATE_CHANGING" \in ts_flags,
         NEW i \in AcceptReqs, areq[i] = "held", processed + 1 >= Accepts
  PROVE  \A j \in AcceptReqs \ {i} : areq[j] = "idle"
<1>1. i \notin retired \cup lost /\ retired \cup {i} = AcceptReqs
  BY TsSwitchEnds
<1> QED
  BY <1>1 DEF TsInv, TsKept, TsUsed, TsSwitch

LEMMA TsCountAccept ==
  ASSUME TsInv, TsCounted, TS!Accept
  PROVE  TsCounted'
<1> DEFINE i == Head(held)
           free == [areq EXCEPT ![i] = "idle"]
<1>1. i \in AcceptReqs /\ areq[i] = "held" /\ UNCHANGED <<tstate, tlpc>>
  BY TsTake DEF TS!Accept
<1>2. free \in [AcceptReqs -> TsStates] /\ \A j \in AcceptReqs : free[j] = IF j = i THEN "idle" ELSE areq[j]
  BY <1>1 DEF TsInv, TsType, TsStates
<1> HIDE DEF i, free
<1>3. "LISTENING" \in ts_flags' <=> "LISTENING" \in ts_flags
  BY DEF TS!Accept
<1>4. CASE areq' = free /\ UNCHANGED accepting
  <2>1. TsBusy' = TsBusy
    BY <1>1, <1>2, <1>4 DEF TsBusy
  <2> QED
    BY <1>1, <1>3, <1>4, <2>1 DEF TsCounted, One
<1>5. CASE tstate = "open" /\ TS!QueueAccepts({i}, free, accepting)
  <2>1. PICK F \in SUBSET {i} :
          areq' = [j \in AcceptReqs |-> IF j \in F THEN "failed" ELSE IF j \in {i} THEN "out" ELSE free[j]]
    BY <1>5 DEF TS!QueueAccepts, TS!Reqs, AcceptReqs
  <2>2. /\ \A j \in AcceptReqs \ {i} : areq'[j] = areq[j]
        /\ areq'[i] \in {"failed", "out"}
    BY <1>1, <1>2, <2>1
  <2>3. accepting' = accepting + 1
    BY <1>5, TsCardinality, FS_Singleton DEF TS!QueueAccepts
  <2>4. Cardinality(TsBusy') = Cardinality(TsBusy) + 1
    BY <1>1, <2>2, TsBusyChange, TsBusyFinite DEF One
  <2> QED
    BY <1>1, <1>3, <1>5, <2>3, <2>4, TsBusyFinite DEF TsCounted, One
<1>6. CASE /\ tstate = "open" /\ TS!QueueAccepts({1}, free, accepting)
           /\ "ACCEPT_STATE_CHANGING" \in ts_flags /\ processed + 1 >= Accepts
  <2>1. PICK F \in SUBSET {1} :
          areq' = [j \in AcceptReqs |-> IF j \in F THEN "failed" ELSE IF j \in {1} THEN "out" ELSE free[j]]
    BY <1>6 DEF TS!QueueAccepts, TS!Reqs, AcceptReqs
  <2>2. \A j \in AcceptReqs \ {i} : areq[j] = "idle"
    BY <1>1, <1>6, TsSwitchLast
  <2>3. 1 \in AcceptReqs
    BY ServersAssumption DEF AcceptReqs
  <2>4. TsBusy = {} /\ TsBusy' = {1}
    BY <1>1, <1>2, <2>1, <2>2, <2>3 DEF TsBusy
  <2>5. accepting' = accepting + 1
    BY <1>6, TsCardinality, FS_Singleton DEF TS!QueueAccepts
  <2>6. Cardinality(TsBusy) = 0 /\ Cardinality(TsBusy') = 1
    BY <2>4, FS_EmptySet, FS_Singleton
  <2> QED
    BY <1>1, <1>3, <1>6, <2>5, <2>6 DEF TsCounted, One
<1> QED
  BY <1>4, <1>5, <1>6 DEF TS!Accept, i, free

LEMMA TsCountNext ==
  ASSUME TsInv, TsCounted, TS!Next
  PROVE  TsCounted'
<1>1. ASSUME TS!Listen
      PROVE  TsCounted'
  <2>1. /\ ts_flags' = ts_flags \cup {"LISTENING", "ALLOCATED"} /\ tstate = "open"
        /\ UNCHANGED <<tstate, tlpc>>
    BY <1>1 DEF TS!Listen
  <2>2. CASE "ALLOCATED" \in ts_flags
    <3>1. UNCHANGED <<areq, accepting>>
      BY <1>1, <2>2 DEF TS!Listen
    <3> QED
      BY <2>1, <3>1 DEF TsCounted, TsBusy
  <2>3. CASE "ALLOCATED" \notin ts_flags
    <3> DEFINE I == IF "SINGLE_ACCEPT" \in ts_flags THEN {1} ELSE AcceptReqs
    <3>1. PICK F \in SUBSET I :
            areq' = [j \in AcceptReqs |-> IF j \in F THEN "failed" ELSE IF j \in I THEN "out" ELSE areq[j]]
      BY <1>1, <2>3 DEF TS!Listen, TS!QueueAccepts, TS!Reqs, AcceptReqs
    <3>2. accepting' = accepting + Cardinality(I)
      BY <1>1, <2>3, TsCardinality DEF TS!Listen, TS!QueueAccepts, TS!Reqs, AcceptReqs
    <3>3. I \subseteq AcceptReqs
      BY ServersAssumption DEF AcceptReqs
    <3> HIDE DEF I
    <3>4. areq = [j \in AcceptReqs |-> "idle"]
      BY <2>3 DEF TsInv, TsFresh
    <3>5. TsBusy = {} /\ TsBusy' = I
      BY <3>1, <3>3, <3>4 DEF TsBusy
    <3>6. Cardinality(TsBusy) = 0
      BY <3>5, FS_EmptySet
    <3>7. Cardinality(I) \in Nat
      <4>1. IsFiniteSet(AcceptReqs)
        BY FS_Interval, ServersAssumption DEF AcceptReqs
      <4> QED
        BY <3>3, <4>1, FS_Subset, FS_CardinalityType
    <3> QED
      BY <2>1, <3>2, <3>5, <3>6, <3>7 DEF TsCounted, One
  <2> QED
    BY <2>2, <2>3
<1>2. ASSUME TS!SimultaneousAccepts
      PROVE  TsCounted'
  <2>1. /\ "LISTENING" \in ts_flags' <=> "LISTENING" \in ts_flags
        /\ UNCHANGED <<areq, accepting, tstate, tlpc>>
    BY <1>2 DEF TS!SimultaneousAccepts
  <2> QED
    BY <2>1 DEF TsCounted, TsBusy
<1>3. ASSUME TS!Close
      PROVE  TsCounted'
  <2>1. TsBusy' = TsBusy
    BY <1>3 DEF TS!Close, TS!Reqs, AcceptReqs, TsBusy
  <2> QED
    BY <1>3, <2>1 DEF TS!Close, TsCounted
<1>4. ASSUME NEW i \in AcceptReqs, TS!Completes(i)
      PROVE  TsCounted'
  <2>1. /\ areq[i] = "out" /\ UNCHANGED <<ts_flags, accepting, tstate, tlpc>>
        /\ \E st \in {"done", "broken"} : areq' = [areq EXCEPT ![i] = st]
    BY <1>4 DEF TS!Completes
  <2>2. TsBusy' = TsBusy
    BY <2>1 DEF TsBusy, TsInv, TsType
  <2> QED
    BY <2>1, <2>2 DEF TsCounted
<1>5. ASSUME NEW i \in AcceptReqs, TS!ProcessFailed(i) \/ TS!ProcessDone(i)
      PROVE  TsCounted'
  <2>1. /\ tlpc = "run" /\ areq[i] \in {"failed", "done"}
        /\ tlpc' \in {"cb", "rest"} /\ UNCHANGED <<accepting, tstate>>
        /\ ts_flags' \in {ts_flags, ts_flags \ {"LISTENING"}}
        /\ \E st \in {"idle", "held"} : areq' = [areq EXCEPT ![i] = st]
    BY <1>5 DEF TS!ProcessFailed, TS!ProcessDone
  <2>2. areq'[i] \in {"idle", "held"} /\ \A j \in AcceptReqs \ {i} : areq'[j] = areq[j]
    BY <2>1 DEF TsInv, TsType
  <2>3. Cardinality(TsBusy') = Cardinality(TsBusy) - 1
    BY <2>1, <2>2, TsBusyChange, TsBusyFinite DEF One
  <2> QED
    BY <2>1, <2>3, TsBusyFinite DEF TsCounted, One
<1>6. ASSUME NEW i \in AcceptReqs, TS!ProcessBroken(i)
      PROVE  TsCounted'
  <2>1. /\ tlpc = "run" /\ areq[i] = "broken" /\ tlpc' = "rest" /\ UNCHANGED <<ts_flags, tstate>>
    BY <1>6 DEF TS!ProcessBroken
  <2>2. CASE "LISTENING" \in ts_flags
    <3>1. PICK F \in SUBSET {i} :
            areq' = [j \in AcceptReqs |-> IF j \in F THEN "failed" ELSE IF j \in {i} THEN "out" ELSE areq[j]]
      BY <1>6, <2>2 DEF TS!ProcessBroken, TS!QueueAccepts, TS!Reqs, AcceptReqs
    <3>2. accepting' = accepting + 1
      BY <1>6, <2>2, TsCardinality, FS_Singleton DEF TS!ProcessBroken, TS!QueueAccepts
    <3>3. TsBusy' = TsBusy
      BY <2>1, <3>1 DEF TsBusy
    <3> QED
      BY <2>1, <2>2, <3>2, <3>3, TsBusyFinite DEF TsCounted, One
  <2>3. CASE "LISTENING" \notin ts_flags
    <3>1. areq' = [areq EXCEPT ![i] = "idle"] /\ accepting' = accepting
      BY <1>6, <2>3 DEF TS!ProcessBroken
    <3>2. areq'[i] = "idle" /\ \A j \in AcceptReqs \ {i} : areq'[j] = areq[j]
      BY <3>1 DEF TsInv, TsType
    <3>3. Cardinality(TsBusy') = Cardinality(TsBusy) - 1
      BY <2>1, <3>2, TsBusyChange, TsBusyFinite DEF One
    <3> QED
      BY <2>1, <2>3, <3>1, <3>3, TsBusyFinite DEF TsCounted, One
  <2> QED
    BY <2>2, <2>3
<1>7. ASSUME TS!UserReturns
      PROVE  TsCounted'
  BY <1>7 DEF TS!UserReturns, TsCounted, TsBusy, One
<1>8. ASSUME TS!ProcessRest
      PROVE  TsCounted'
  <2>1. TsBusy' = TsBusy
    BY <1>8 DEF TS!ProcessRest, TsBusy
  <2> QED
    BY <1>8, <2>1, TsBusyFinite DEF TS!ProcessRest, TsCounted, One
<1>9. ASSUME TS!Endgame
      PROVE  TsCounted'
  BY <1>9 DEF TS!Endgame, TsCounted, TsBusy
<1> QED
  BY <1>1, <1>2, <1>3, <1>4, <1>5, <1>6, <1>7, <1>8, <1>9, TsCountAccept
     DEF TS!Next, TS!LoopStep, TS!Reqs, AcceptReqs

LEMMA TsCountInit == Init => TsCounted
<1> SUFFICES ASSUME TS!Init
             PROVE  TsCounted
  BY DEF Init
<1>1. TsBusy = {}
  BY DEF TS!Init, TS!Reqs, AcceptReqs, TsBusy
<1> QED
  BY <1>1, FS_EmptySet DEF TS!Init, TsCounted, One

LEMMA TsExact == TsCounted => TS!TcpAcceptsCounted
BY TsCardinality DEF TsCounted, TsBusy, TS!TcpAcceptsCounted, TS!Reqs, AcceptReqs, One

LEMMA TsCountKeeps ==
  ASSUME TsInv, TsCounted, [Next]_vars
  PROVE  TsCounted'
<1>1. CASE UNCHANGED tcpServerVars
  BY <1>1 DEF tcpServerVars, TsCounted, TsBusy
<1> QED
  BY <1>1, TcpServerStep, TsCountNext

-----------------------------------------------------------------------------
(* The requests of a connection: one end of a pipe, one of a TCP connection. *)

Requests == {"connect", "shutdown"} \cup Writes

LEMMA RequestsFinite == IsFiniteSet(Requests) /\ IsFiniteSet(Writes)
<1>1. IsFiniteSet(Writes \cup {"connect"})
  BY WritesAssumption, FS_AddElement
<1>2. IsFiniteSet((Writes \cup {"connect"}) \cup {"shutdown"})
  BY <1>1, FS_AddElement
<1>3. Requests = (Writes \cup {"connect"}) \cup {"shutdown"}
  BY DEF Requests
<1> QED
  BY <1>2, <1>3, WritesAssumption

-----------------------------------------------------------------------------
(* One end of a pipe, win/pipe.c. *)

LEMMA PipeStep ==
  ASSUME [Next]_vars
  PROVE  WP!Next \/ UNCHANGED pipeVars
BY DEF Next, vars, OnlyStream, OnlyAsync, OnlySignal, OnlyFsPoll, OnlyLoop, OnlyTimers,
       OnlyHeap, OnlyUnixIo, OnlyWinSignal, OnlyPipe, OnlyPipeServer, OnlyTcp, OnlyTcpServer,
       OnlyPoll, OnlyLogger

LEMMA WpCardinality == \A S : WP!Cardinality(S) = Cardinality(S)
BY DEF WP!Cardinality, Cardinality, WP!IsFiniteSet, IsFiniteSet

\* Registered with the loop; pending also in its callback; answered.
WpReg == {"waiting", "queued", "posted"}
WpOut == WpReg \cup {"cb"}
WpAnswered == {"cb", "done"}
WpStates == {"idle"} \cup WpReg \cup WpAnswered

WpType ==
  /\ req \in [Requests -> WpStates]
  /\ result \in [Requests -> {"none", "ok", "error", "canceled", "flushing"}]
  /\ called \in [Requests -> {0, 1}]
  /\ write_queue \in Seq(Writes)

WpPending == {r \in Requests : req[r] \in WpOut}
WpRegistered == {r \in Requests : req[r] \in WpReg}
WpWrites == {r \in Writes : req[r] \in WpOut}

WpCounts ==
  /\ reqs_pending = Cardinality(WpPending) + One(read # "none")
  /\ activecnt = Cardinality(WpRegistered) + One("READING" \in flags)
  /\ write_reqs_pending = Cardinality(WpWrites)

\* Where a request is; the callback of one is under way exactly inside it.
WpRequests ==
  /\ \A r \in Requests : /\ pc = r <=> req[r] = "cb"
                         /\ called[r] = One(req[r] \in WpAnswered)
  /\ req["connect"] # "queued" /\ req["shutdown"] # "queued"

\* The writes that wait are on the list, once.
WpQueue ==
  \A m, n \in 1..Len(write_queue) :
    req[write_queue[n]] = "queued" /\ (m # n => write_queue[m] # write_queue[n])

\* A shutdown follows the connect and ends the writing, unless it fails.
WpShutdown ==
  /\ "CONNECTION" \in flags => req["connect"] \in WpAnswered
  /\ req["shutdown"] # "idle" => "CONNECTION" \in flags
  /\ shutdown_req => req["shutdown"] = "waiting" /\ result["shutdown"] = "none"
  /\ req["shutdown"] = "idle" => result["shutdown"] = "none"
  /\ req["shutdown"] \in WpReg => "WRITABLE" \notin flags

\* Who may read or write has a handle; it is given up after the shutdown, or by uv_close.
WpHandle ==
  /\ "READING" \in flags => "READABLE" \in flags
  /\ "READABLE" \in flags \/ "WRITABLE" \in flags => handle
  /\ req["connect"] = "posted" /\ result["connect"] = "ok" => handle
  /\ "CONNECTION" \in flags /\ "CLOSING" \notin flags /\ req["shutdown"] \notin WpAnswered
       => handle

\* The timer runs after a shutdown, while a read is out.
WpTimer ==
  /\ eof_timer \in {"null", "stopped", "started"}
  /\ "READ_PENDING" \in flags <=> read # "none"
  /\ eof_timer # "null" => req["shutdown"] \in WpAnswered /\ "WRITABLE" \notin flags
  /\ eof_timer = "started" => "READ_PENDING" \in flags

WpClosing ==
  /\ "CLOSING" \in flags => /\ "READING" \notin flags /\ eof_timer = "null"
                            /\ req["shutdown"] # "idle" => "READABLE" \notin flags
  /\ "CLOSED" \in flags => "CLOSING" \in flags /\ WpPending = {} /\ read = "none"

WpInv ==
  /\ WpType /\ WpCounts /\ WpRequests /\ WpQueue /\ WpShutdown /\ WpHandle /\ WpTimer
  /\ WpClosing

\* The sets stay as they are when no request goes on.
LEMMA WpStill ==
  ASSUME req' = req
  PROVE  WpPending' = WpPending /\ WpRegistered' = WpRegistered /\ WpWrites' = WpWrites
BY DEF WpPending, WpRegistered, WpWrites

LEMMA WpFinite ==
  /\ IsFiniteSet(WpPending) /\ Cardinality(WpPending) \in Nat
  /\ IsFiniteSet(WpRegistered) /\ Cardinality(WpRegistered) \in Nat
  /\ IsFiniteSet(WpWrites) /\ Cardinality(WpWrites) \in Nat
<1>1. WpPending \subseteq Requests /\ WpRegistered \subseteq Requests /\ WpWrites \subseteq Writes
  BY DEF WpPending, WpRegistered, WpWrites
<1> QED
  BY <1>1, RequestsFinite, FS_Subset, FS_CardinalityType

\* What one request that goes on, the others staying in their sets, does to the counts.
WpMoves(r) ==
  /\ Cardinality(WpPending') =
       Cardinality(WpPending) + One(req'[r] \in WpOut) - One(req[r] \in WpOut)
  /\ Cardinality(WpRegistered') =
       Cardinality(WpRegistered) + One(req'[r] \in WpReg) - One(req[r] \in WpReg)
  /\ Cardinality(WpWrites') = Cardinality(WpWrites) + One(r \in Writes /\ req'[r] \in WpOut)
                                                   - One(r \in Writes /\ req[r] \in WpOut)

LEMMA WpMove ==
  ASSUME NEW r \in Requests,
         \A x \in Requests \ {r} : /\ req'[x] \in WpOut <=> req[x] \in WpOut
                                   /\ req'[x] \in WpReg <=> req[x] \in WpReg
  PROVE  WpMoves(r)
<1>1. /\ \A x : x # r => (x \in WpPending' <=> x \in WpPending)
      /\ r \in WpPending' <=> req'[r] \in WpOut
      /\ r \in WpPending <=> req[r] \in WpOut
  BY DEF WpPending
<1>2. /\ \A x : x # r => (x \in WpRegistered' <=> x \in WpRegistered)
      /\ r \in WpRegistered' <=> req'[r] \in WpReg
      /\ r \in WpRegistered <=> req[r] \in WpReg
  BY DEF WpRegistered
<1>3. /\ \A x : x # r => (x \in WpWrites' <=> x \in WpWrites)
      /\ r \in WpWrites' <=> r \in Writes /\ req'[r] \in WpOut
      /\ r \in WpWrites <=> r \in Writes /\ req[r] \in WpOut
  BY DEF WpWrites, Requests
<1>4. /\ Cardinality(WpPending') =
           Cardinality(WpPending) + One(r \in WpPending') - One(r \in WpPending)
      /\ Cardinality(WpRegistered') =
           Cardinality(WpRegistered) + One(r \in WpRegistered') - One(r \in WpRegistered)
      /\ Cardinality(WpWrites') =
           Cardinality(WpWrites) + One(r \in WpWrites') - One(r \in WpWrites)
  <2>1. Cardinality(WpPending') =
           Cardinality(WpPending) + One(r \in WpPending') - One(r \in WpPending)
    BY <1>1, WpFinite, CountChange
  <2>2. Cardinality(WpRegistered') =
           Cardinality(WpRegistered) + One(r \in WpRegistered') - One(r \in WpRegistered)
    BY <1>2, WpFinite, CountChange
  <2>3. Cardinality(WpWrites') =
           Cardinality(WpWrites) + One(r \in WpWrites') - One(r \in WpWrites)
    BY <1>3, WpFinite, CountChange
  <2> QED
    BY <2>1, <2>2, <2>3
<1>5. /\ One(r \in WpPending') = One(req'[r] \in WpOut)
      /\ One(r \in WpPending) = One(req[r] \in WpOut)
      /\ One(r \in WpRegistered') = One(req'[r] \in WpReg)
      /\ One(r \in WpRegistered) = One(req[r] \in WpReg)
      /\ One(r \in WpWrites') = One(r \in Writes /\ req'[r] \in WpOut)
      /\ One(r \in WpWrites) = One(r \in Writes /\ req[r] \in WpOut)
  BY <1>1, <1>2, <1>3 DEF One
<1> QED
  BY <1>4, <1>5 DEF WpMoves

\* What stays when no request goes on and the program is in none of their callbacks,
\* or in the same.
WpSame == /\ WpType' /\ WpRequests' /\ WpQueue'
          /\ UNCHANGED <<WpPending, WpRegistered, WpWrites>>

LEMMA WpStays ==
  ASSUME WpInv, UNCHANGED <<req, result, called, write_queue>>,
         pc' = pc \/ (pc \notin Requests /\ pc' \notin Requests)
  PROVE  WpSame
<1>1. WpType' /\ WpQueue'
  BY DEF WpInv, WpType, WpQueue
<1>2. WpRequests'
  BY DEF WpInv, WpRequests
<1> QED
  BY <1>1, <1>2, WpStill DEF WpSame

\* What happens to the requests when r, which is not on the list of writes, gets to st.
WpGone(r, st) ==
  /\ WpType' /\ WpRequests' /\ WpQueue' /\ WpMoves(r)
  /\ r \in Requests /\ req'[r] = st
  /\ \A x \in Requests \ {r} : req'[x] = req[x] /\ result'[x] = result[x]

LEMMA WpGoes ==
  ASSUME WpInv, NEW r \in Requests, NEW st \in WpStates, st # "queued", req[r] # "queued",
         req' = [req EXCEPT ![r] = st], write_queue' = write_queue,
         \/ called' = called /\ (st \in WpAnswered <=> req[r] \in WpAnswered)
         \/ /\ called' = [called EXCEPT ![r] = @ + 1]
            /\ st \in WpAnswered /\ req[r] \notin WpAnswered,
         \/ result' = result
         \/ \E v \in {"ok", "error", "canceled", "flushing"} : result' = [result EXCEPT ![r] = v],
         st = "cb" => pc = "loop" /\ pc' = r,
         st # "cb" => pc' = IF req[r] = "cb" THEN "loop" ELSE pc
  PROVE  WpGone(r, st)
<1> USE DEF WpInv
<1>1. /\ req' \in [Requests -> WpStates]
      /\ \A x \in Requests : req'[x] = IF x = r THEN st ELSE req[x]
  BY DEF WpType
<1>2. WpMoves(r)
  BY <1>1, WpMove
<1>3. /\ called' \in [Requests -> {0, 1}]
      /\ \A x \in Requests : called'[x] = One(req'[x] \in WpAnswered)
  BY <1>1 DEF WpType, WpRequests, One
<1>4. /\ result' \in [Requests -> {"none", "ok", "error", "canceled", "flushing"}]
      /\ \A x \in Requests \ {r} : result'[x] = result[x]
  BY DEF WpType
<1>5. \A n \in 1..Len(write_queue) : write_queue[n] \in Requests /\ write_queue[n] # r
  BY DEF WpType, WpQueue, Requests
<1>6. \A n \in 1..Len(write_queue) : req'[write_queue[n]] = "queued"
  BY <1>1, <1>5 DEF WpQueue
<1>7. WpQueue'
  BY <1>6 DEF WpQueue
<1>8. \A x \in Requests : pc' = x <=> req'[x] = "cb"
  BY <1>1, WritesAssumption DEF WpRequests, Requests
<1>9. WpRequests'
  BY <1>1, <1>3, <1>8 DEF WpRequests, Requests
<1> QED
  BY <1>1, <1>2, <1>3, <1>4, <1>7, <1>9 DEF WpGone, WpType

LEMMA WpInit == Init => WpInv
<1> SUFFICES ASSUME WP!Init
             PROVE  WpInv
  BY DEF Init
<1>1. WpPending = {} /\ WpRegistered = {} /\ WpWrites = {}
  BY DEF WP!Init, WP!Reqs, Requests, WpPending, WpRegistered, WpWrites, WpOut, WpReg
<1>2. WpCounts
  BY <1>1, FS_EmptySet DEF WP!Init, WpCounts, One
<1>3. WpType /\ WpRequests /\ WpQueue
  BY WritesAssumption DEF WP!Init, WP!Reqs, Requests, WpType, WpRequests, WpQueue, WpStates,
     WpAnswered, One
<1> QED
  BY <1>2, <1>3 DEF WP!Init, WP!Reqs, Requests, WpInv, WpShutdown, WpHandle, WpTimer, WpClosing,
     WpReg

\* What a call of the program may disturb.
LEMMA WpUser ==
  ASSUME WpInv, WP!User
  PROVE  WpInv'
<1> USE DEF WpInv
<1>0. "CLOSING" \notin flags /\ "CLOSED" \notin flags
  BY DEF WP!User, WP!Has, WpClosing
<1>1. ASSUME WP!Connect
      PROVE  WpInv'
  <2>1. /\ req["connect"] = "idle" /\ "connect" \notin Writes
        /\ reqs_pending' = reqs_pending + 1 /\ activecnt' = activecnt + 1
        /\ \/ /\ handle' = TRUE /\ flags' = flags \cup {"READABLE", "WRITABLE"}
              /\ result' = [result EXCEPT !["connect"] = "ok"]
           \/ UNCHANGED <<handle, flags>> /\ result' = [result EXCEPT !["connect"] = "error"]
           \/ UNCHANGED <<handle, flags, result>> /\ req'["connect"] = "waiting"
        /\ UNCHANGED <<write_reqs_pending, shutdown_req, write_queue, called, read, eof_timer, pc>>
    BY <1>0, <1>1, WritesAssumption DEF WP!Connect, WpType, Requests
  <2>2. PICK st \in {"waiting", "posted"} : req' = [req EXCEPT !["connect"] = st]
    BY <1>1 DEF WP!Connect, WpType, Requests
  <2>3. WpGone("connect", st)
    BY <2>1, <2>2, WpGoes, WritesAssumption DEF Requests, WpStates, WpOut, WpReg, WpAnswered
  <2>4. /\ Cardinality(WpPending') = Cardinality(WpPending) + 1
        /\ Cardinality(WpRegistered') = Cardinality(WpRegistered) + 1
        /\ Cardinality(WpWrites') = Cardinality(WpWrites)
    BY <2>1, <2>3, WpFinite DEF WpGone, WpMoves, One, WpStates, WpOut, WpReg, WpAnswered
  <2>5. WpCounts'
    BY <1>0, <2>1, <2>4, WpFinite DEF WpCounts, One
  <2>6. /\ req'["connect"] = st
        /\ req'["shutdown"] = req["shutdown"]
        /\ result'["shutdown"] = result["shutdown"]
    BY <2>3 DEF WpGone, Requests
  <2>7. WpShutdown'
    BY <1>0, <2>1, <2>2, <2>6 DEF WpShutdown, WpTimer, WpClosing, WpStates, WpOut, WpReg, WpAnswered
  <2>8. WpHandle'
    BY <1>0, <2>1, <2>2, <2>6 DEF WpHandle, WpShutdown, WpTimer, WpClosing, WpType, Requests, WpStates, WpOut, WpReg, WpAnswered
  <2>9. WpTimer'
    BY <1>0, <2>1, <2>2, <2>6 DEF WpTimer, WpShutdown, WpClosing, WpStates, WpOut, WpReg, WpAnswered
  <2>10. WpClosing'
    BY <1>0, <2>1, <2>2, <2>6 DEF WpTimer, WpClosing, WpShutdown, WpStates, WpOut, WpReg, WpAnswered
  <2> QED
    BY <2>3, <2>5, <2>7, <2>8, <2>9, <2>10 DEF WpGone
<1>2. ASSUME WP!ReadStart
      PROVE  WpInv'
  <2>1. /\ "READABLE" \in flags /\ "READING" \notin flags
        /\ activecnt' = activecnt + 1
        /\ \/ /\ "READ_PENDING" \in flags /\ flags' = flags \cup {"READING"}
              /\ UNCHANGED <<read, eof_timer, reqs_pending>>
           \/ /\ "READ_PENDING" \notin flags /\ flags' = (flags \cup {"READING"}) \cup {"READ_PENDING"}
              /\ read' \in {"waiting", "error"} /\ reqs_pending' = reqs_pending + 1
              /\ eof_timer' \in {eof_timer, "started"} /\ (eof_timer = "null" => eof_timer' = "null")
        /\ UNCHANGED <<handle, write_reqs_pending, pc>>
    BY <1>0, <1>2, WritesAssumption DEF WP!ReadStart, WP!QueueRead, WP!Has
  <2>2. UNCHANGED <<req, result, called, write_queue, shutdown_req>>
    BY <1>2 DEF WP!ReadStart, WP!QueueRead, WP!Has
  <2>3. WpSame
    BY <2>1, <2>2, WpStays, WritesAssumption DEF Requests
  <2>4. WpCounts'
    BY <1>0, <2>1, <2>3, WpFinite DEF WpSame, WpCounts, WpTimer, One
  <2>5. WpShutdown'
    BY <1>0, <2>1, <2>2 DEF WpShutdown, WpTimer, WpClosing, WpReg, WpAnswered
  <2>6. WpHandle'
    BY <1>0, <2>1, <2>2 DEF WpHandle, WpShutdown, WpTimer, WpClosing, WpReg, WpAnswered
  <2>7. WpTimer'
    BY <1>0, <2>1, <2>2 DEF WpTimer, WpShutdown, WpClosing, WpReg, WpAnswered
  <2>8. WpClosing'
    BY <1>0, <2>1, <2>2, <2>3 DEF WpTimer, WpClosing, WpShutdown, WpSame, WpReg, WpAnswered
  <2> QED
    BY <2>3, <2>4, <2>5, <2>6, <2>7, <2>8 DEF WpSame
<1>3. ASSUME WP!ReadStop
      PROVE  WpInv'
  <2>1. /\ "READING" \in flags /\ activecnt' = activecnt - 1
        /\ flags' \in {flags \ {"READING"}, (flags \ {"READING"}) \cup {"CANCELLATION_PENDING"}}
        /\ UNCHANGED <<handle, reqs_pending, write_reqs_pending, read, eof_timer, pc>>
    BY <1>0, <1>3, WritesAssumption DEF WP!ReadStop, WP!StopReading, WP!Interrupted, WP!Has
  <2>2. UNCHANGED <<req, result, called, write_queue, shutdown_req>>
    BY <1>3 DEF WP!ReadStop, WP!StopReading, WP!Interrupted, WP!Has
  <2>3. WpSame
    BY <2>1, <2>2, WpStays, WritesAssumption DEF Requests
  <2>4. WpCounts'
    BY <1>0, <2>1, <2>3, WpFinite DEF WpSame, WpCounts, WpTimer, One
  <2>5. WpShutdown'
    BY <1>0, <2>1, <2>2 DEF WpShutdown, WpTimer, WpClosing, WpReg, WpAnswered
  <2>6. WpHandle'
    BY <1>0, <2>1, <2>2 DEF WpHandle, WpShutdown, WpTimer, WpClosing, WpReg, WpAnswered
  <2>7. WpTimer'
    BY <1>0, <2>1, <2>2 DEF WpTimer, WpShutdown, WpClosing, WpReg, WpAnswered
  <2>8. WpClosing'
    BY <1>0, <2>1, <2>2, <2>3 DEF WpTimer, WpClosing, WpShutdown, WpSame, WpReg, WpAnswered
  <2> QED
    BY <2>3, <2>4, <2>5, <2>6, <2>7, <2>8 DEF WpSame
<1>4. ASSUME NEW w \in Writes, WP!Write(w)
      PROVE  WpInv'
  <2>1. /\ "WRITABLE" \in flags /\ req[w] = "idle" /\ w \notin {"connect", "shutdown"}
        /\ reqs_pending' = reqs_pending + 1 /\ activecnt' = activecnt + 1
        /\ write_reqs_pending' = write_reqs_pending + 1
        /\ UNCHANGED <<flags, handle, shutdown_req, called, read, eof_timer, pc>>
    BY <1>4, WritesAssumption DEF WP!Write, WP!Has
  <2>2. PICK st \in WpReg :
          /\ req' = [req EXCEPT ![w] = st]
          /\ \/ st = "queued" /\ write_queue' = Append(write_queue, w) /\ result' = result
             \/ st # "queued" /\ write_queue' = write_queue
          /\ result' \in {result, [result EXCEPT ![w] = "ok"]}
    BY <1>4 DEF WP!Write, WpReg
  <2>3. /\ req' \in [Requests -> WpStates] /\ w \in Requests
        /\ \A x \in Requests : req'[x] = IF x = w THEN st ELSE req[x]
    BY <2>1, <2>2 DEF WpType, Requests, WpStates, WpReg
  <2>4. WpMoves(w)
    BY <2>3, WpMove
  <2>5. /\ Cardinality(WpPending') = Cardinality(WpPending) + 1
        /\ Cardinality(WpRegistered') = Cardinality(WpRegistered) + 1
        /\ Cardinality(WpWrites') = Cardinality(WpWrites) + 1
    BY <2>1, <2>3, <2>4, WpFinite DEF WpMoves, One, WpOut, WpReg
  <2>6. /\ result' \in [Requests -> {"none", "ok", "error", "canceled", "flushing"}]
        /\ \A x \in Requests \ {w} : result'[x] = result[x]
    BY <2>2 DEF WpType
  <2>7. WpCounts'
    BY <2>1, <2>5, WpFinite DEF WpCounts, One
  <2>8. write_queue' \in Seq(Writes)
    BY <2>2 DEF WpType
  <2>9. WpType'
    BY <2>1, <2>3, <2>6, <2>8 DEF WpType
  <2>10. WpRequests'
    BY <2>1, <2>3, WritesAssumption DEF WpRequests, Requests, One, WpStates, WpReg, WpAnswered
  <2>11. WpQueue'
    <3>1. \A n \in 1..Len(write_queue) : write_queue[n] \in Requests /\ write_queue[n] # w
      BY <2>1 DEF WpType, WpQueue, Requests
    <3>2. CASE write_queue' = write_queue
      BY <2>3, <3>1, <3>2 DEF WpQueue
    <3>3. CASE write_queue' = Append(write_queue, w) /\ st = "queued"
      <4>1. /\ Len(write_queue') = Len(write_queue) + 1 /\ write_queue'[Len(write_queue) + 1] = w
            /\ \A n \in 1..Len(write_queue) : write_queue'[n] = write_queue[n]
            /\ Len(write_queue) \in Nat
        BY <3>3 DEF WpType
      <4>2. \A n \in 1..Len(write_queue') : n \in 1..Len(write_queue) \/ n = Len(write_queue) + 1
        BY <4>1
      <4> QED
        BY <2>3, <3>1, <3>3, <4>1, <4>2 DEF WpQueue
    <3> QED
      BY <2>2, <3>2, <3>3
  <2>12. WpShutdown' /\ WpHandle' /\ WpTimer' /\ WpClosing'
    BY <1>0, <2>1, <2>3, <2>6 DEF WpShutdown, WpHandle, WpTimer, WpClosing, Requests
  <2> QED
    BY <2>7, <2>9, <2>10, <2>11, <2>12
<1>5. ASSUME WP!Shutdown
      PROVE  WpInv'
  <2>1. /\ "WRITABLE" \in flags /\ "CONNECTION" \in flags /\ req["shutdown"] = "idle"
        /\ flags' = (flags \ {"WRITABLE"}) \cup {"ENDGAME_QUEUED"} /\ shutdown_req' = TRUE
        /\ reqs_pending' = reqs_pending + 1 /\ activecnt' = activecnt + 1 /\ "shutdown" \notin Writes
        /\ UNCHANGED <<handle, write_reqs_pending, write_queue, result, called, read, eof_timer, pc>>
    BY <1>0, <1>5, WritesAssumption DEF WP!Shutdown, WP!Has
  <2>2. req' = [req EXCEPT !["shutdown"] = "waiting"]
    BY <1>5 DEF WP!Shutdown, WP!Has
  <2>3. WpGone("shutdown", "waiting")
    BY <2>1, <2>2, WpGoes, WritesAssumption DEF Requests, WpStates, WpOut, WpReg, WpAnswered
  <2>4. /\ Cardinality(WpPending') = Cardinality(WpPending) + 1
        /\ Cardinality(WpRegistered') = Cardinality(WpRegistered) + 1
        /\ Cardinality(WpWrites') = Cardinality(WpWrites)
    BY <2>1, <2>3, WpFinite DEF WpGone, WpMoves, One, WpStates, WpOut, WpReg, WpAnswered
  <2>5. WpCounts'
    BY <1>0, <2>1, <2>4, WpFinite DEF WpCounts, One
  <2>6. /\ req'["connect"] = req["connect"]
        /\ req'["shutdown"] = "waiting"
        /\ result'["connect"] = result["connect"]
    BY <2>3 DEF WpGone, Requests
  <2>7. WpShutdown'
    BY <1>0, <2>1, <2>6 DEF WpShutdown, WpTimer, WpClosing, WpStates, WpOut, WpReg, WpAnswered
  <2>8. WpHandle'
    BY <1>0, <2>1, <2>6 DEF WpHandle, WpShutdown, WpTimer, WpClosing, WpStates, WpOut, WpReg, WpAnswered
  <2>9. WpTimer'
    BY <1>0, <2>1, <2>6 DEF WpTimer, WpShutdown, WpClosing, WpStates, WpOut, WpReg, WpAnswered
  <2>10. WpClosing'
    BY <1>0, <2>1, <2>6 DEF WpTimer, WpClosing, WpShutdown, WpStates, WpOut, WpReg, WpAnswered
  <2> QED
    BY <2>3, <2>5, <2>7, <2>8, <2>9, <2>10 DEF WpGone
<1>6. ASSUME WP!Close
      PROVE  WpInv'
  <2>1. /\ activecnt' = activecnt - (IF "READING" \in flags THEN 1 ELSE 0)
        /\ "CLOSING" \in flags' /\ flags' \cap {"READING", "READABLE", "WRITABLE"} = {}
        /\ \A f \in {"CONNECTION", "READ_PENDING", "CLOSED"} : f \in flags' <=> f \in flags
        /\ eof_timer' = IF "CONNECTION" \in flags THEN "null" ELSE eof_timer
        /\ "CONNECTION" \notin flags => handle' = handle
        /\ UNCHANGED <<reqs_pending, write_reqs_pending, read, pc>>
    BY <1>0, <1>6, WritesAssumption DEF WP!Close, WP!Interrupted, WP!ReadingCount, WP!Has
  <2>2. UNCHANGED <<req, result, called, write_queue, shutdown_req>>
    BY <1>6 DEF WP!Close, WP!Interrupted, WP!ReadingCount, WP!Has
  <2>3. WpSame
    BY <2>1, <2>2, WpStays, WritesAssumption DEF Requests
  <2>4. WpCounts'
    BY <1>0, <2>1, <2>3, WpFinite DEF WpSame, WpCounts, WpTimer, One
  <2>5. WpShutdown'
    BY <1>0, <2>1, <2>2 DEF WpShutdown, WpTimer, WpClosing, WpReg, WpAnswered
  <2>6. WpHandle'
    BY <1>0, <2>1, <2>2 DEF WpHandle, WpShutdown, WpTimer, WpClosing, WpReg, WpAnswered
  <2>7. WpTimer'
    BY <1>0, <2>1, <2>2 DEF WpTimer, WpShutdown, WpClosing, WpReg, WpAnswered
  <2>8. WpClosing'
    BY <1>0, <2>1, <2>2, <2>3 DEF WpTimer, WpClosing, WpShutdown, WpSame, WpReg, WpAnswered
  <2> QED
    BY <2>3, <2>4, <2>5, <2>6, <2>7, <2>8 DEF WpSame
<1> QED
  BY <1>1, <1>2, <1>3, <1>4, <1>5, <1>6 DEF WP!User

\* What the system and the threads may disturb.
LEMMA WpSystem ==
  ASSUME WpInv, WP!System
  PROVE  WpInv'
<1> USE DEF WpInv
<1>1. ASSUME WP!ConnectThread
      PROVE  WpInv'
  <2>1. /\ req["connect"] = "waiting" /\ "connect" \notin Writes /\ "connect" \in WpPending
        /\ \/ /\ handle' = TRUE /\ flags' = flags \cup {"READABLE", "WRITABLE"}
              /\ result' = [result EXCEPT !["connect"] = "ok"]
           \/ UNCHANGED <<handle, flags>> /\ result' = [result EXCEPT !["connect"] = "error"]
        /\ UNCHANGED <<reqs_pending, activecnt, write_reqs_pending, shutdown_req, write_queue, called, read, eof_timer, pc>>
    BY <1>1, WritesAssumption DEF WP!ConnectThread, WpPending, WpOut, WpReg, Requests
  <2>2. req' = [req EXCEPT !["connect"] = "posted"]
    BY <1>1 DEF WP!ConnectThread, WpPending, WpOut, WpReg, Requests
  <2>3. WpGone("connect", "posted")
    BY <2>1, <2>2, WpGoes, WritesAssumption DEF Requests, WpStates, WpOut, WpReg, WpAnswered
  <2>4. /\ Cardinality(WpPending') = Cardinality(WpPending)
        /\ Cardinality(WpRegistered') = Cardinality(WpRegistered)
        /\ Cardinality(WpWrites') = Cardinality(WpWrites)
    BY <2>1, <2>3, WpFinite DEF WpGone, WpMoves, One, WpStates, WpOut, WpReg, WpAnswered
  <2>5. WpCounts'
    BY <2>1, <2>4, WpFinite DEF WpCounts, One
  <2>6. /\ req'["connect"] = "posted"
        /\ req'["shutdown"] = req["shutdown"]
        /\ result'["shutdown"] = result["shutdown"]
    BY <2>3 DEF WpGone, Requests
  <2>7. WpShutdown'
    BY <2>1, <2>6 DEF WpShutdown, WpTimer, WpClosing, WpStates, WpOut, WpReg, WpAnswered
  <2>8. WpHandle'
    BY <2>1, <2>6 DEF WpHandle, WpShutdown, WpTimer, WpClosing, WpType, Requests, WpStates, WpOut, WpReg, WpAnswered
  <2>9. WpTimer'
    BY <2>1, <2>6 DEF WpTimer, WpShutdown, WpClosing, WpStates, WpOut, WpReg, WpAnswered
  <2>10. WpClosing'
    BY <2>1, <2>6 DEF WpTimer, WpClosing, WpShutdown, WpStates, WpOut, WpReg, WpAnswered
  <2> QED
    BY <2>3, <2>5, <2>7, <2>8, <2>9, <2>10 DEF WpGone
<1>2. ASSUME WP!ReadCompletes
      PROVE  WpInv'
  <2>1. /\ read = "waiting" /\ read' \in {"data", "eof", "error", "aborted"}
        /\ UNCHANGED <<flags, handle, reqs_pending, activecnt, write_reqs_pending, eof_timer, pc>>
    BY <1>2, WritesAssumption DEF WP!ReadCompletes
  <2>2. UNCHANGED <<req, result, called, write_queue, shutdown_req>>
    BY <1>2 DEF WP!ReadCompletes
  <2>3. WpSame
    BY <2>1, <2>2, WpStays, WritesAssumption DEF Requests
  <2>4. WpCounts'
    BY <2>1, <2>3, WpFinite DEF WpSame, WpCounts, WpTimer, One
  <2>5. WpShutdown'
    BY <2>1, <2>2 DEF WpShutdown, WpTimer, WpClosing, WpReg, WpAnswered
  <2>6. WpHandle'
    BY <2>1, <2>2 DEF WpHandle, WpShutdown, WpTimer, WpClosing, WpReg, WpAnswered
  <2>7. WpTimer'
    BY <2>1, <2>2 DEF WpTimer, WpShutdown, WpClosing, WpReg, WpAnswered
  <2>8. WpClosing'
    BY <2>1, <2>2, <2>3 DEF WpTimer, WpClosing, WpShutdown, WpSame, WpReg, WpAnswered
  <2> QED
    BY <2>3, <2>4, <2>5, <2>6, <2>7, <2>8 DEF WpSame
<1>3. ASSUME NEW w \in Writes, WP!WriteCompletes(w)
      PROVE  WpInv'
  <2>1. /\ req[w] = "waiting" /\ w \notin {"connect", "shutdown"} /\ w \in WpPending
        /\ \E v \in {"ok", "error"} : result' = [result EXCEPT ![w] = v]
        /\ UNCHANGED <<flags, handle, reqs_pending, activecnt, write_reqs_pending, shutdown_req, write_queue, called, read, eof_timer, pc>>
    BY <1>3, WritesAssumption DEF WP!WriteCompletes, WpPending, WpOut, WpReg, Requests
  <2>2. req' = [req EXCEPT ![w] = "posted"]
    BY <1>3 DEF WP!WriteCompletes, WpPending, WpOut, WpReg, Requests
  <2>3. WpGone(w, "posted")
    BY <2>1, <2>2, WpGoes, WritesAssumption DEF Requests, WpStates, WpOut, WpReg, WpAnswered
  <2>4. /\ Cardinality(WpPending') = Cardinality(WpPending)
        /\ Cardinality(WpRegistered') = Cardinality(WpRegistered)
        /\ Cardinality(WpWrites') = Cardinality(WpWrites)
    BY <2>1, <2>3, WpFinite DEF WpGone, WpMoves, One, WpStates, WpOut, WpReg, WpAnswered
  <2>5. WpCounts'
    BY <2>1, <2>4, WpFinite DEF WpCounts, One
  <2>6. /\ req'["connect"] = req["connect"]
        /\ req'["shutdown"] = req["shutdown"]
        /\ result'["connect"] = result["connect"]
        /\ result'["shutdown"] = result["shutdown"]
    BY <2>3, <2>1 DEF WpGone, Requests
  <2>7. WpShutdown'
    BY <2>1, <2>6 DEF WpShutdown, WpTimer, WpClosing, WpStates, WpOut, WpReg, WpAnswered
  <2>8. WpHandle'
    BY <2>1, <2>6 DEF WpHandle, WpShutdown, WpTimer, WpClosing, WpStates, WpOut, WpReg, WpAnswered
  <2>9. WpTimer'
    BY <2>1, <2>6 DEF WpTimer, WpShutdown, WpClosing, WpStates, WpOut, WpReg, WpAnswered
  <2>10. WpClosing'
    BY <2>1, <2>6 DEF WpTimer, WpClosing, WpShutdown, WpStates, WpOut, WpReg, WpAnswered
  <2> QED
    BY <2>3, <2>5, <2>7, <2>8, <2>9, <2>10 DEF WpGone
<1>4. ASSUME WP!FlushCompletes
      PROVE  WpInv'
  <2>1. /\ req["shutdown"] = "waiting" /\ ~shutdown_req /\ "shutdown" \notin Writes /\ "shutdown" \in WpPending
        /\ result' = [result EXCEPT !["shutdown"] = "ok"]
        /\ UNCHANGED <<flags, handle, reqs_pending, activecnt, write_reqs_pending, shutdown_req, write_queue, called, read, eof_timer, pc>>
    BY <1>4, WritesAssumption DEF WP!FlushCompletes, WpShutdown, WpPending, WpOut, WpReg, WpType, Requests
  <2>2. req' = [req EXCEPT !["shutdown"] = "posted"]
    BY <1>4 DEF WP!FlushCompletes, WpShutdown, WpPending, WpOut, WpReg, WpType, Requests
  <2>3. WpGone("shutdown", "posted")
    BY <2>1, <2>2, WpGoes, WritesAssumption DEF Requests, WpStates, WpOut, WpReg, WpAnswered
  <2>4. /\ Cardinality(WpPending') = Cardinality(WpPending)
        /\ Cardinality(WpRegistered') = Cardinality(WpRegistered)
        /\ Cardinality(WpWrites') = Cardinality(WpWrites)
    BY <2>1, <2>3, WpFinite DEF WpGone, WpMoves, One, WpStates, WpOut, WpReg, WpAnswered
  <2>5. WpCounts'
    BY <2>1, <2>4, WpFinite DEF WpCounts, One
  <2>6. /\ req'["connect"] = req["connect"]
        /\ req'["shutdown"] = "posted"
        /\ result'["connect"] = result["connect"]
    BY <2>3 DEF WpGone, Requests
  <2>7. WpShutdown'
    BY <2>1, <2>6 DEF WpShutdown, WpTimer, WpClosing, WpStates, WpOut, WpReg, WpAnswered
  <2>8. WpHandle'
    BY <2>1, <2>6 DEF WpHandle, WpShutdown, WpTimer, WpClosing, WpStates, WpOut, WpReg, WpAnswered
  <2>9. WpTimer'
    BY <2>1, <2>6 DEF WpTimer, WpShutdown, WpClosing, WpStates, WpOut, WpReg, WpAnswered
  <2>10. WpClosing'
    BY <2>1, <2>6 DEF WpTimer, WpClosing, WpShutdown, WpStates, WpOut, WpReg, WpAnswered
  <2> QED
    BY <2>3, <2>5, <2>7, <2>8, <2>9, <2>10 DEF WpGone
<1> QED
  BY <1>1, <1>2, <1>3, <1>4 DEF WP!System

\* What the callbacks of the requests, up to and after them, may disturb.
LEMMA WpCallbacks ==
  ASSUME WpInv, 
         \/ WP!ProcessConnect \/ WP!ProcessShutdown
         \/ \E w \in Writes : WP!ProcessWrite(w) \/ WP!AfterWrite(w)
         \/ \E r \in {"connect", "shutdown"} : WP!AfterCallback(r)
  PROVE  WpInv'
<1> USE DEF WpInv
<1>1. ASSUME WP!ProcessConnect
      PROVE  WpInv'
  <2>1. /\ pc = "loop" /\ req["connect"] = "posted" /\ "connect" \notin Writes /\ "connect" \in WpPending
        /\ activecnt' = activecnt - 1 /\ pc' = "connect" /\ called' = [called EXCEPT !["connect"] = @ + 1]
        /\ flags' = IF result["connect"] = "ok" THEN flags \cup {"CONNECTION"} ELSE flags
        /\ UNCHANGED <<handle, reqs_pending, write_reqs_pending, shutdown_req, write_queue, result, read, eof_timer>>
    BY <1>1, WritesAssumption DEF WP!ProcessConnect, WP!Enter, WpPending, WpOut, WpReg, Requests
  <2>2. req' = [req EXCEPT !["connect"] = "cb"]
    BY <1>1 DEF WP!ProcessConnect, WP!Enter, WpPending, WpOut, WpReg, Requests
  <2>3. WpGone("connect", "cb")
    BY <2>1, <2>2, WpGoes, WritesAssumption DEF Requests, WpStates, WpOut, WpReg, WpAnswered
  <2>4. /\ Cardinality(WpPending') = Cardinality(WpPending)
        /\ Cardinality(WpRegistered') = Cardinality(WpRegistered) - 1
        /\ Cardinality(WpWrites') = Cardinality(WpWrites)
    BY <2>1, <2>3, WpFinite DEF WpGone, WpMoves, One, WpStates, WpOut, WpReg, WpAnswered
  <2>5. WpCounts'
    BY <2>1, <2>4, WpFinite DEF WpCounts, One
  <2>6. /\ req'["connect"] = "cb"
        /\ req'["shutdown"] = req["shutdown"]
        /\ result'["shutdown"] = result["shutdown"]
    BY <2>3 DEF WpGone, Requests
  <2>7. WpShutdown'
    BY <2>1, <2>6 DEF WpShutdown, WpTimer, WpClosing, WpStates, WpOut, WpReg, WpAnswered
  <2>8. WpHandle'
    BY <2>1, <2>6 DEF WpHandle, WpShutdown, WpTimer, WpClosing, WpType, Requests, WpStates, WpOut, WpReg, WpAnswered
  <2>9. WpTimer'
    BY <2>1, <2>6 DEF WpTimer, WpShutdown, WpClosing, WpStates, WpOut, WpReg, WpAnswered
  <2>10. WpClosing'
    BY <2>1, <2>6 DEF WpTimer, WpClosing, WpShutdown, WpStates, WpOut, WpReg, WpAnswered
  <2> QED
    BY <2>3, <2>5, <2>7, <2>8, <2>9, <2>10 DEF WpGone
<1>2. ASSUME NEW w \in Writes, WP!ProcessWrite(w)
      PROVE  WpInv'
  <2>1. /\ pc = "loop" /\ req[w] = "posted" /\ w \notin {"connect", "shutdown"} /\ w \in WpPending
        /\ activecnt' = activecnt - 1 /\ pc' = w /\ called' = [called EXCEPT ![w] = @ + 1]
        /\ UNCHANGED <<flags, handle, reqs_pending, write_reqs_pending, shutdown_req, write_queue, result, read, eof_timer>>
    BY <1>2, WritesAssumption DEF WP!ProcessWrite, WP!Enter, WpPending, WpOut, WpReg, Requests
  <2>2. req' = [req EXCEPT ![w] = "cb"]
    BY <1>2 DEF WP!ProcessWrite, WP!Enter, WpPending, WpOut, WpReg, Requests
  <2>3. WpGone(w, "cb")
    BY <2>1, <2>2, WpGoes, WritesAssumption DEF Requests, WpStates, WpOut, WpReg, WpAnswered
  <2>4. /\ Cardinality(WpPending') = Cardinality(WpPending)
        /\ Cardinality(WpRegistered') = Cardinality(WpRegistered) - 1
        /\ Cardinality(WpWrites') = Cardinality(WpWrites)
    BY <2>1, <2>3, WpFinite DEF WpGone, WpMoves, One, WpStates, WpOut, WpReg, WpAnswered
  <2>5. WpCounts'
    BY <2>1, <2>4, WpFinite DEF WpCounts, One
  <2>6. /\ req'["connect"] = req["connect"]
        /\ req'["shutdown"] = req["shutdown"]
        /\ result'["connect"] = result["connect"]
        /\ result'["shutdown"] = result["shutdown"]
    BY <2>3, <2>1 DEF WpGone, Requests
  <2>7. WpShutdown'
    BY <2>1, <2>6 DEF WpShutdown, WpTimer, WpClosing, WpStates, WpOut, WpReg, WpAnswered
  <2>8. WpHandle'
    BY <2>1, <2>6 DEF WpHandle, WpShutdown, WpTimer, WpClosing, WpStates, WpOut, WpReg, WpAnswered
  <2>9. WpTimer'
    BY <2>1, <2>6 DEF WpTimer, WpShutdown, WpClosing, WpStates, WpOut, WpReg, WpAnswered
  <2>10. WpClosing'
    BY <2>1, <2>6 DEF WpTimer, WpClosing, WpShutdown, WpStates, WpOut, WpReg, WpAnswered
  <2> QED
    BY <2>3, <2>5, <2>7, <2>8, <2>9, <2>10 DEF WpGone
<1>3. ASSUME NEW r \in {"connect", "shutdown"}, WP!AfterCallback(r)
      PROVE  WpInv'
  <2>1. /\ pc = r /\ req[r] = "cb" /\ r \in WpPending /\ r \notin Writes
        /\ reqs_pending' = reqs_pending - 1 /\ pc' = "loop"
        /\ flags' \in {flags, flags \cup {"ENDGAME_QUEUED"}}
        /\ UNCHANGED <<handle, activecnt, write_reqs_pending, shutdown_req, write_queue, result, called, read, eof_timer>>
    BY <1>3, WritesAssumption DEF WP!AfterCallback, WP!DecreasePending, WpRequests, WpPending, WpOut, Requests
  <2>2. req' = [req EXCEPT ![r] = "done"]
    BY <1>3 DEF WP!AfterCallback, WP!DecreasePending, WpRequests, WpPending, WpOut, Requests
  <2>3. WpGone(r, "done")
    BY <2>1, <2>2, WpGoes, WritesAssumption DEF Requests, WpStates, WpOut, WpReg, WpAnswered
  <2>4. /\ Cardinality(WpPending') = Cardinality(WpPending) - 1
        /\ Cardinality(WpRegistered') = Cardinality(WpRegistered)
        /\ Cardinality(WpWrites') = Cardinality(WpWrites)
    BY <2>1, <2>3, WpFinite DEF WpGone, WpMoves, One, WpStates, WpOut, WpReg, WpAnswered
  <2>5. WpCounts'
    BY <2>1, <2>4, WpFinite DEF WpCounts, One
  <2>6. /\ req'["connect"] = IF r = "connect" THEN "done" ELSE req["connect"]
        /\ req'["shutdown"] = IF r = "shutdown" THEN "done" ELSE req["shutdown"]
        /\ result'["connect"] = result["connect"]
        /\ result'["shutdown"] = result["shutdown"]
    BY <2>1, <2>3 DEF WpGone, Requests
  <2>7. WpShutdown'
    BY <2>1, <2>6 DEF WpShutdown, WpTimer, WpClosing, WpStates, WpOut, WpReg, WpAnswered
  <2>8. WpHandle'
    BY <2>1, <2>6 DEF WpHandle, WpShutdown, WpTimer, WpClosing, WpStates, WpOut, WpReg, WpAnswered
  <2>9. WpTimer'
    BY <2>1, <2>6 DEF WpTimer, WpShutdown, WpClosing, WpStates, WpOut, WpReg, WpAnswered
  <2>10. WpClosing'
    BY <2>1, <2>6 DEF WpTimer, WpClosing, WpShutdown, WpStates, WpOut, WpReg, WpAnswered
  <2> QED
    BY <2>3, <2>5, <2>7, <2>8, <2>9, <2>10 DEF WpGone
<1>4. ASSUME WP!ProcessShutdown
      PROVE  WpInv'
  <2>1. /\ pc = "loop" /\ req["shutdown"] = "posted" /\ "shutdown" \notin Writes /\ "shutdown" \in WpPending
        /\ activecnt' = activecnt - 1 /\ pc' = "shutdown" /\ called' = [called EXCEPT !["shutdown"] = @ + 1]
        /\ \/ /\ "READABLE" \in flags /\ handle' = handle
              /\ eof_timer' = IF "READ_PENDING" \in flags THEN "started" ELSE "stopped"
           \/ "READABLE" \notin flags /\ handle' = FALSE /\ eof_timer' = eof_timer
        /\ UNCHANGED <<flags, reqs_pending, write_reqs_pending, shutdown_req, write_queue, result, read>>
    BY <1>4, WritesAssumption DEF WP!ProcessShutdown, WP!Enter, WP!Has, WpPending, WpOut, WpReg, Requests
  <2>2. req' = [req EXCEPT !["shutdown"] = "cb"]
    BY <1>4 DEF WP!ProcessShutdown, WP!Enter, WP!Has, WpPending, WpOut, WpReg, Requests
  <2>3. WpGone("shutdown", "cb")
    BY <2>1, <2>2, WpGoes, WritesAssumption DEF Requests, WpStates, WpOut, WpReg, WpAnswered
  <2>4. /\ Cardinality(WpPending') = Cardinality(WpPending)
        /\ Cardinality(WpRegistered') = Cardinality(WpRegistered) - 1
        /\ Cardinality(WpWrites') = Cardinality(WpWrites)
    BY <2>1, <2>3, WpFinite DEF WpGone, WpMoves, One, WpStates, WpOut, WpReg, WpAnswered
  <2>5. WpCounts'
    BY <2>1, <2>4, WpFinite DEF WpCounts, One
  <2>6. /\ req'["connect"] = req["connect"]
        /\ req'["shutdown"] = "cb"
        /\ result'["connect"] = result["connect"]
    BY <2>3 DEF WpGone, Requests
  <2>7. WpShutdown'
    BY <2>1, <2>6 DEF WpShutdown, WpTimer, WpClosing, WpStates, WpOut, WpReg, WpAnswered
  <2>8. WpHandle'
    BY <2>1, <2>6 DEF WpHandle, WpShutdown, WpTimer, WpClosing, WpStates, WpOut, WpReg, WpAnswered
  <2>9. WpTimer'
    BY <2>1, <2>6 DEF WpTimer, WpShutdown, WpClosing, WpStates, WpOut, WpReg, WpAnswered
  <2>10. WpClosing'
    BY <2>1, <2>6 DEF WpTimer, WpClosing, WpShutdown, WpStates, WpOut, WpReg, WpAnswered
  <2> QED
    BY <2>3, <2>5, <2>7, <2>8, <2>9, <2>10 DEF WpGone
<1>5. ASSUME NEW w \in Writes, WP!AfterWrite(w)
      PROVE  WpInv'
  <2>1. /\ pc = w /\ req[w] = "cb" /\ w \in WpPending /\ w \notin {"connect", "shutdown"}
        /\ reqs_pending' = reqs_pending - 1 /\ write_reqs_pending' = write_reqs_pending - 1
        /\ pc' = "loop" /\ flags' \in {flags, flags \cup {"ENDGAME_QUEUED"}}
        /\ UNCHANGED <<handle, activecnt, shutdown_req, result, called, read, eof_timer>>
    BY <1>5, WritesAssumption DEF WP!AfterWrite, WP!DecreasePending, WpRequests, WpPending, WpOut, Requests
  <2>2. \/ write_queue' = write_queue /\ write_queue = <<>> /\ req' = [req EXCEPT ![w] = "done"]
        \/ /\ write_queue # <<>> /\ write_queue' = Tail(write_queue)
           /\ req' = [req EXCEPT ![w] = "done", ![Head(write_queue)] = "waiting"]
    BY <1>5 DEF WP!AfterWrite
  <2>3. write_queue # <<>> =>
          /\ Head(write_queue) = write_queue[1] /\ 1 \in 1..Len(write_queue)
          /\ write_queue[1] \in Writes /\ req[write_queue[1]] = "queued" /\ write_queue[1] # w
    BY <2>1 DEF WpType, WpQueue
  <2>4. /\ req' \in [Requests -> WpStates] /\ w \in Requests /\ req'[w] = "done"
        /\ \A x \in Requests \ {w} :
             req'[x] = IF write_queue # <<>> /\ x = write_queue[1] THEN "waiting" ELSE req[x]
    BY <2>2, <2>3 DEF WpType, Requests, WpStates, WpReg, WpAnswered
  <2>5. WpMoves(w)
    BY <2>3, <2>4, WpMove DEF WpOut, WpReg
  <2>6. /\ Cardinality(WpPending') = Cardinality(WpPending) - 1
        /\ Cardinality(WpRegistered') = Cardinality(WpRegistered)
        /\ Cardinality(WpWrites') = Cardinality(WpWrites) - 1
    BY <2>1, <2>4, <2>5, WpFinite DEF WpMoves, One, WpOut, WpReg
  <2>7. WpCounts'
    BY <2>1, <2>6, WpFinite DEF WpCounts, One
  <2>8. write_queue' \in Seq(Writes)
    <3>1. ASSUME write_queue # <<>>
          PROVE  Tail(write_queue) \in Seq(Writes)
      BY <3>1 DEF WpType
    <3> QED
      BY <2>2, <3>1 DEF WpType
  <2>9. WpType'
    BY <2>1, <2>4, <2>8 DEF WpType
  <2>10. WpRequests'
    BY <2>1, <2>3, <2>4, WritesAssumption DEF WpRequests, Requests, One, WpAnswered
  <2>11. WpQueue'
    <3>1. CASE write_queue = <<>>
      BY <2>2, <3>1 DEF WpQueue
    <3>2. CASE write_queue # <<>>
      <4>1. /\ Len(write_queue') = Len(write_queue) - 1
            /\ \A n \in 1..Len(write_queue') : write_queue'[n] = write_queue[n + 1]
        BY <2>2, <3>2 DEF WpType
      <4>2. \A n \in 1..Len(write_queue') : n + 1 \in 1..Len(write_queue) /\ n + 1 # 1
        BY <4>1 DEF WpType
      <4>3. \A n \in 1..Len(write_queue') :
              /\ req[write_queue'[n]] = "queued" /\ write_queue'[n] \in Requests \ {w}
              /\ write_queue'[n] # write_queue[1]
        BY <2>1, <2>3, <3>2, <4>1, <4>2 DEF WpQueue, WpType, Requests
      <4>4. \A m, n \in 1..Len(write_queue') : m # n => write_queue'[m] # write_queue'[n]
        <5>1. \A m, n \in 1..Len(write_queue') : m # n => m + 1 # n + 1
          OBVIOUS
        <5> QED
          BY <4>1, <4>2, <5>1 DEF WpQueue
      <4>5. \A n \in 1..Len(write_queue') : req'[write_queue'[n]] = "queued"
        BY <2>4, <4>3
      <4> QED
        BY <4>4, <4>5 DEF WpQueue
    <3> QED
      BY <3>1, <3>2
  <2>12. req'["connect"] = req["connect"] /\ req'["shutdown"] = req["shutdown"]
    BY <2>1, <2>3, <2>4, WritesAssumption DEF Requests
  <2>13. WpShutdown' /\ WpHandle' /\ WpTimer' /\ WpClosing'
    BY <2>1, <2>12 DEF WpShutdown, WpHandle, WpTimer, WpClosing
  <2> QED
    BY <2>7, <2>9, <2>10, <2>11, <2>13
<1> QED
  BY <1>1, <1>2, <1>3, <1>4, <1>5

\* What the processing of a read and the timer may disturb.
LEMMA WpReads ==
  ASSUME WpInv, WP!ProcessReadQuietly \/ WP!ProcessReadData \/ WP!ProcessReadEnd \/ WP!ReadOnToEnd
                  \/ WP!AfterRead \/ WP!EofTimer \/ WP!AfterEof
  PROVE  WpInv'
<1> USE DEF WpInv
<1>1. ASSUME WP!ProcessReadQuietly
      PROVE  WpInv'
  <2>1. /\ pc = "loop" /\ read \notin {"none", "waiting"} /\ (eof_timer = "null" => eof_timer' = "null")
        /\ \/ /\ "READING" \in flags /\ reqs_pending' = reqs_pending /\ read' \in {"waiting", "error"}
              /\ flags' = (flags \ {"READ_PENDING", "CANCELLATION_PENDING"}) \cup {"READ_PENDING"}
              /\ eof_timer' \in {"null", "stopped", "started"}
           \/ /\ "READING" \notin flags /\ reqs_pending' = reqs_pending - 1 /\ read' = "none"
              /\ eof_timer' \in {"null", "stopped"}
              /\ \E f \in {{}, {"ENDGAME_QUEUED"}} : flags' = (flags \ {"READ_PENDING", "CANCELLATION_PENDING"}) \cup f
        /\ UNCHANGED <<handle, activecnt, write_reqs_pending, pc>>
    BY <1>1, WritesAssumption DEF WP!ProcessReadQuietly, WP!QueueRead, WP!DecreasePending, WP!ReadDone, WP!TimerStopped, WP!Has
  <2>2. UNCHANGED <<req, result, called, write_queue, shutdown_req>>
    BY <1>1 DEF WP!ProcessReadQuietly, WP!QueueRead, WP!DecreasePending, WP!ReadDone, WP!TimerStopped, WP!Has
  <2>3. WpSame
    BY <2>1, <2>2, WpStays, WritesAssumption DEF Requests
  <2>4. WpCounts'
    BY <2>1, <2>3, WpFinite DEF WpSame, WpCounts, WpTimer, One
  <2>5. WpShutdown'
    BY <2>1, <2>2 DEF WpShutdown, WpTimer, WpClosing, WpReg, WpAnswered
  <2>6. WpHandle'
    BY <2>1, <2>2 DEF WpHandle, WpShutdown, WpTimer, WpClosing, WpReg, WpAnswered
  <2>7. WpTimer'
    BY <2>1, <2>2 DEF WpTimer, WpShutdown, WpClosing, WpReg, WpAnswered
  <2>8. WpClosing'
    BY <2>1, <2>2, <2>3 DEF WpTimer, WpClosing, WpShutdown, WpSame, WpReg, WpAnswered
  <2> QED
    BY <2>3, <2>4, <2>5, <2>6, <2>7, <2>8 DEF WpSame
<1>2. ASSUME WP!ProcessReadData
      PROVE  WpInv'
  <2>1. /\ pc = "loop" /\ read = "data" /\ read' = "none" /\ pc' = "data_cb"
        /\ eof_timer' \in {"null", "stopped"} /\ (eof_timer = "null" => eof_timer' = "null")
        /\ reqs_pending' = reqs_pending - 1
        /\ \E f \in {{}, {"ENDGAME_QUEUED"}} : flags' = (flags \ {"READ_PENDING", "CANCELLATION_PENDING"}) \cup f
        /\ UNCHANGED <<handle, activecnt, write_reqs_pending>>
    BY <1>2, WritesAssumption DEF WP!ProcessReadData, WP!DecreasePending, WP!ReadDone, WP!TimerStopped
  <2>2. UNCHANGED <<req, result, called, write_queue, shutdown_req>>
    BY <1>2 DEF WP!ProcessReadData, WP!DecreasePending, WP!ReadDone, WP!TimerStopped
  <2>3. WpSame
    BY <2>1, <2>2, WpStays, WritesAssumption DEF Requests
  <2>4. WpCounts'
    BY <2>1, <2>3, WpFinite DEF WpSame, WpCounts, WpTimer, One
  <2>5. WpShutdown'
    BY <2>1, <2>2 DEF WpShutdown, WpTimer, WpClosing, WpReg, WpAnswered
  <2>6. WpHandle'
    BY <2>1, <2>2 DEF WpHandle, WpShutdown, WpTimer, WpClosing, WpReg, WpAnswered
  <2>7. WpTimer'
    BY <2>1, <2>2 DEF WpTimer, WpShutdown, WpClosing, WpReg, WpAnswered
  <2>8. WpClosing'
    BY <2>1, <2>2, <2>3 DEF WpTimer, WpClosing, WpShutdown, WpSame, WpReg, WpAnswered
  <2> QED
    BY <2>3, <2>4, <2>5, <2>6, <2>7, <2>8 DEF WpSame
<1>3. ASSUME WP!ProcessReadEnd
      PROVE  WpInv'
  <2>1. /\ pc = "loop" /\ "READING" \in flags /\ read \in {"eof", "error", "data"} /\ read' = "none" /\ pc' = "read_cb"
        /\ eof_timer' = "null" /\ reqs_pending' = reqs_pending - 1 /\ activecnt' = activecnt - 1
        /\ flags' \cap {"READING", "READ_PENDING"} = {} /\ ("READABLE" \in flags' => "READABLE" \in flags)
        /\ \A f \in {"CONNECTION", "WRITABLE", "CLOSING", "CLOSED"} : f \in flags' <=> f \in flags
        /\ UNCHANGED <<handle, write_reqs_pending>>
    BY <1>3, WritesAssumption DEF WP!ProcessReadEnd, WP!DecreasePending, WP!StopReading, WP!Interrupted, WP!ReadDone, WP!Has
  <2>2. UNCHANGED <<req, result, called, write_queue, shutdown_req>>
    BY <1>3 DEF WP!ProcessReadEnd, WP!DecreasePending, WP!StopReading, WP!Interrupted, WP!ReadDone, WP!Has
  <2>3. WpSame
    BY <2>1, <2>2, WpStays, WritesAssumption DEF Requests
  <2>4. WpCounts'
    BY <2>1, <2>3, WpFinite DEF WpSame, WpCounts, WpTimer, One
  <2>5. WpShutdown'
    BY <2>1, <2>2 DEF WpShutdown, WpTimer, WpClosing, WpReg, WpAnswered
  <2>6. WpHandle'
    BY <2>1, <2>2 DEF WpHandle, WpShutdown, WpTimer, WpClosing, WpReg, WpAnswered
  <2>7. WpTimer'
    BY <2>1, <2>2 DEF WpTimer, WpShutdown, WpClosing, WpReg, WpAnswered
  <2>8. WpClosing'
    BY <2>1, <2>2, <2>3 DEF WpTimer, WpClosing, WpShutdown, WpSame, WpReg, WpAnswered
  <2> QED
    BY <2>3, <2>4, <2>5, <2>6, <2>7, <2>8 DEF WpSame
<1>4. ASSUME WP!ReadOnToEnd
      PROVE  WpInv'
  <2>1. /\ pc = "data_cb" /\ "READING" \in flags /\ pc' = "read_cb"
        /\ eof_timer' = "null" /\ activecnt' = activecnt - 1
        /\ "READING" \notin flags' /\ ("READABLE" \in flags' => "READABLE" \in flags)
        /\ \A f \in {"CONNECTION", "WRITABLE", "CLOSING", "CLOSED", "READ_PENDING"} : f \in flags' <=> f \in flags
        /\ UNCHANGED <<handle, reqs_pending, write_reqs_pending, read>>
    BY <1>4, WritesAssumption DEF WP!ReadOnToEnd, WP!StopReading, WP!Interrupted, WP!Has
  <2>2. UNCHANGED <<req, result, called, write_queue, shutdown_req>>
    BY <1>4 DEF WP!ReadOnToEnd, WP!StopReading, WP!Interrupted, WP!Has
  <2>3. WpSame
    BY <2>1, <2>2, WpStays, WritesAssumption DEF Requests
  <2>4. WpCounts'
    BY <2>1, <2>3, WpFinite DEF WpSame, WpCounts, WpTimer, One
  <2>5. WpShutdown'
    BY <2>1, <2>2 DEF WpShutdown, WpTimer, WpClosing, WpReg, WpAnswered
  <2>6. WpHandle'
    BY <2>1, <2>2 DEF WpHandle, WpShutdown, WpTimer, WpClosing, WpReg, WpAnswered
  <2>7. WpTimer'
    BY <2>1, <2>2 DEF WpTimer, WpShutdown, WpClosing, WpReg, WpAnswered
  <2>8. WpClosing'
    BY <2>1, <2>2, <2>3 DEF WpTimer, WpClosing, WpShutdown, WpSame, WpReg, WpAnswered
  <2> QED
    BY <2>3, <2>4, <2>5, <2>6, <2>7, <2>8 DEF WpSame
<1>5. ASSUME WP!AfterRead
      PROVE  WpInv'
  <2>1. /\ pc \in {"read_cb", "data_cb"} /\ pc' = "loop"
        /\ \/ /\ "READING" \in flags /\ "READ_PENDING" \notin flags /\ flags' = flags \cup {"READ_PENDING"}
              /\ reqs_pending' = reqs_pending + 1 /\ read' \in {"waiting", "error"}
              /\ eof_timer' \in {eof_timer, "started"} /\ (eof_timer = "null" => eof_timer' = "null")
           \/ UNCHANGED <<read, flags, eof_timer, reqs_pending>>
        /\ UNCHANGED <<handle, activecnt, write_reqs_pending>>
    BY <1>5, WritesAssumption DEF WP!AfterRead, WP!QueueRead, WP!Has
  <2>2. UNCHANGED <<req, result, called, write_queue, shutdown_req>>
    BY <1>5 DEF WP!AfterRead, WP!QueueRead, WP!Has
  <2>3. WpSame
    BY <2>1, <2>2, WpStays, WritesAssumption DEF Requests
  <2>4. WpCounts'
    BY <2>1, <2>3, WpFinite DEF WpSame, WpCounts, WpTimer, One
  <2>5. WpShutdown'
    BY <2>1, <2>2 DEF WpShutdown, WpTimer, WpClosing, WpReg, WpAnswered
  <2>6. WpHandle'
    BY <2>1, <2>2 DEF WpHandle, WpShutdown, WpTimer, WpClosing, WpReg, WpAnswered
  <2>7. WpTimer'
    BY <2>1, <2>2 DEF WpTimer, WpShutdown, WpClosing, WpReg, WpAnswered
  <2>8. WpClosing'
    BY <2>1, <2>2, <2>3 DEF WpTimer, WpClosing, WpShutdown, WpSame, WpReg, WpAnswered
  <2> QED
    BY <2>3, <2>4, <2>5, <2>6, <2>7, <2>8 DEF WpSame
<1>6. ASSUME WP!EofTimer \/ WP!AfterEof
      PROVE  WpInv'
  <2>1. /\ pc \in {"loop", "eof_cb"} /\ pc' \in {"loop", "eof_cb"}
        /\ \/ /\ eof_timer = "started" /\ eof_timer' = "null" /\ handle' = FALSE
              /\ flags' = flags \ {"READING", "READABLE"}
              /\ activecnt' = activecnt - (IF "READING" \in flags THEN 1 ELSE 0)
           \/ /\ UNCHANGED <<handle, flags, activecnt>>
              /\ eof_timer' = eof_timer \/ (eof_timer # "null" /\ eof_timer' = "stopped")
        /\ UNCHANGED <<reqs_pending, write_reqs_pending, read>>
    BY <1>6, WritesAssumption DEF WP!EofTimer, WP!AfterEof, WP!ReadingCount, WP!Has
  <2>2. UNCHANGED <<req, result, called, write_queue, shutdown_req>>
    BY <1>6 DEF WP!EofTimer, WP!AfterEof, WP!ReadingCount, WP!Has
  <2>3. WpSame
    BY <2>1, <2>2, WpStays, WritesAssumption DEF Requests
  <2>4. WpCounts'
    BY <2>1, <2>3, WpFinite DEF WpSame, WpCounts, WpTimer, One
  <2>5. WpShutdown'
    BY <2>1, <2>2 DEF WpShutdown, WpTimer, WpClosing, WpReg, WpAnswered
  <2>6. WpHandle'
    BY <2>1, <2>2 DEF WpHandle, WpShutdown, WpTimer, WpClosing, WpReg, WpAnswered
  <2>7. WpTimer'
    BY <2>1, <2>2 DEF WpTimer, WpShutdown, WpClosing, WpReg, WpAnswered
  <2>8. WpClosing'
    BY <2>1, <2>2, <2>3 DEF WpTimer, WpClosing, WpShutdown, WpSame, WpReg, WpAnswered
  <2> QED
    BY <2>3, <2>4, <2>5, <2>6, <2>7, <2>8 DEF WpSame
<1> QED
  BY <1>1, <1>2, <1>3, <1>4, <1>5, <1>6

\* What the endgame may disturb.
LEMMA WpEndgame ==
  ASSUME WpInv, WP!EndgameShutdown \/ WP!EndgameClose
  PROVE  WpInv'
<1> USE DEF WpInv
<1>1. ASSUME WP!EndgameShutdown, pc' = "shutdown"
      PROVE  WpInv'
  <2>1. /\ pc = "loop" /\ req["shutdown"] = "waiting" /\ "shutdown" \notin Writes /\ "shutdown" \in WpPending
        /\ "CONNECTION" \in flags
        /\ shutdown_req' = FALSE /\ activecnt' = activecnt - 1 /\ pc' = "shutdown"
        /\ called' = [called EXCEPT !["shutdown"] = @ + 1]
        /\ \E v \in {"canceled", "error"} : result' = [result EXCEPT !["shutdown"] = v]
        /\ \/ flags' = flags \ {"ENDGAME_QUEUED"}
           \/ "CLOSING" \notin flags /\ flags' = (flags \ {"ENDGAME_QUEUED"}) \cup {"WRITABLE"}
        /\ UNCHANGED <<handle, reqs_pending, write_reqs_pending, write_queue, read, eof_timer>>
    BY <1>1, WritesAssumption DEF WP!EndgameShutdown, WP!ShutdownReady, WP!Enter, WP!Has, WpShutdown, WpPending, WpOut, WpReg, Requests
  <2>2. req' = [req EXCEPT !["shutdown"] = "cb"]
    BY <1>1 DEF WP!EndgameShutdown, WP!ShutdownReady, WP!Enter, WP!Has, WpShutdown, WpPending, WpOut, WpReg, Requests
  <2>3. WpGone("shutdown", "cb")
    BY <2>1, <2>2, WpGoes, WritesAssumption DEF Requests, WpStates, WpOut, WpReg, WpAnswered
  <2>4. /\ Cardinality(WpPending') = Cardinality(WpPending)
        /\ Cardinality(WpRegistered') = Cardinality(WpRegistered) - 1
        /\ Cardinality(WpWrites') = Cardinality(WpWrites)
    BY <2>1, <2>3, WpFinite DEF WpGone, WpMoves, One, WpStates, WpOut, WpReg, WpAnswered
  <2>5. WpCounts'
    BY <2>1, <2>4, WpFinite DEF WpCounts, One
  <2>6. /\ req'["connect"] = req["connect"]
        /\ req'["shutdown"] = "cb"
        /\ result'["connect"] = result["connect"]
    BY <2>3 DEF WpGone, Requests
  <2>7. WpShutdown'
    BY <2>1, <2>6 DEF WpShutdown, WpTimer, WpClosing, WpStates, WpOut, WpReg, WpAnswered
  <2>8. WpHandle'
    BY <2>1, <2>6 DEF WpHandle, WpShutdown, WpTimer, WpClosing, WpStates, WpOut, WpReg, WpAnswered
  <2>9. WpTimer'
    BY <2>1, <2>6 DEF WpTimer, WpShutdown, WpClosing, WpStates, WpOut, WpReg, WpAnswered
  <2>10. WpClosing'
    BY <2>1, <2>6 DEF WpTimer, WpClosing, WpShutdown, WpStates, WpOut, WpReg, WpAnswered
  <2> QED
    BY <2>3, <2>5, <2>7, <2>8, <2>9, <2>10 DEF WpGone
<1>2. ASSUME WP!EndgameShutdown, pc' = pc
      PROVE  WpInv'
  <2>1. /\ pc = "loop" /\ req["shutdown"] = "waiting" /\ "shutdown" \notin Writes /\ "shutdown" \in WpPending
        /\ shutdown_req' = FALSE
        /\ \E v \in {"ok", "flushing"} : result' = [result EXCEPT !["shutdown"] = v]
        /\ flags' = flags \ {"ENDGAME_QUEUED"}
        /\ UNCHANGED <<called, activecnt, handle, reqs_pending, write_reqs_pending, write_queue, read, eof_timer, pc>>
    BY <1>2, WritesAssumption DEF WP!EndgameShutdown, WP!ShutdownReady, WP!Enter, WP!Has, WpShutdown, WpPending, WpOut, WpReg, WpType, Requests
  <2>2. PICK st \in {"waiting", "posted"} : req' = [req EXCEPT !["shutdown"] = st]
    BY <1>2 DEF WP!EndgameShutdown, WP!ShutdownReady, WP!Enter, WP!Has, WpShutdown, WpPending, WpOut, WpReg, WpType, Requests
  <2>3. WpGone("shutdown", st)
    BY <2>1, <2>2, WpGoes, WritesAssumption DEF Requests, WpStates, WpOut, WpReg, WpAnswered
  <2>4. /\ Cardinality(WpPending') = Cardinality(WpPending)
        /\ Cardinality(WpRegistered') = Cardinality(WpRegistered)
        /\ Cardinality(WpWrites') = Cardinality(WpWrites)
    BY <2>1, <2>3, WpFinite DEF WpGone, WpMoves, One, WpStates, WpOut, WpReg, WpAnswered
  <2>5. WpCounts'
    BY <2>1, <2>4, WpFinite DEF WpCounts, One
  <2>6. /\ req'["connect"] = req["connect"]
        /\ req'["shutdown"] = st
        /\ result'["connect"] = result["connect"]
    BY <2>3 DEF WpGone, Requests
  <2>7. WpShutdown'
    BY <2>1, <2>2, <2>6 DEF WpShutdown, WpTimer, WpClosing, WpStates, WpOut, WpReg, WpAnswered
  <2>8. WpHandle'
    BY <2>1, <2>2, <2>6 DEF WpHandle, WpShutdown, WpTimer, WpClosing, WpStates, WpOut, WpReg, WpAnswered
  <2>9. WpTimer'
    BY <2>1, <2>2, <2>6 DEF WpTimer, WpShutdown, WpClosing, WpStates, WpOut, WpReg, WpAnswered
  <2>10. WpClosing'
    BY <2>1, <2>2, <2>6 DEF WpTimer, WpClosing, WpShutdown, WpStates, WpOut, WpReg, WpAnswered
  <2> QED
    BY <2>3, <2>5, <2>7, <2>8, <2>9, <2>10 DEF WpGone
<1>3. ASSUME WP!EndgameClose
      PROVE  WpInv'
  <2>1. /\ UNCHANGED <<handle, reqs_pending, activecnt, write_reqs_pending, read, eof_timer, pc>>
        /\ \/ flags' = flags \ {"ENDGAME_QUEUED"}
           \/ /\ flags' = (flags \ {"ENDGAME_QUEUED"}) \cup {"CLOSED"}
              /\ "CLOSING" \in flags /\ reqs_pending = 0
    BY <1>3, WritesAssumption DEF WP!EndgameClose, WP!Has
  <2>2. UNCHANGED <<req, result, called, write_queue, shutdown_req>>
    BY <1>3 DEF WP!EndgameClose, WP!Has
  <2>3. WpSame
    BY <2>1, <2>2, WpStays, WritesAssumption DEF Requests
  <2>4. WpCounts'
    BY <2>1, <2>3, WpFinite DEF WpSame, WpCounts, WpTimer, One
  <2>5. reqs_pending = 0 => WpPending = {} /\ read = "none"
    BY WpFinite, FS_EmptySet DEF WpCounts, One
  <2>6. WpShutdown'
    BY <2>1, <2>2, <2>5 DEF WpShutdown, WpTimer, WpClosing, WpReg, WpAnswered
  <2>7. WpHandle'
    BY <2>1, <2>2, <2>5 DEF WpHandle, WpShutdown, WpTimer, WpClosing, WpReg, WpAnswered
  <2>8. WpTimer'
    BY <2>1, <2>2, <2>5 DEF WpTimer, WpShutdown, WpClosing, WpReg, WpAnswered
  <2>9. WpClosing'
    BY <2>1, <2>2, <2>5, <2>3 DEF WpTimer, WpClosing, WpShutdown, WpSame, WpReg, WpAnswered
  <2> QED
    BY <2>3, <2>4, <2>6, <2>7, <2>8, <2>9 DEF WpSame
<1> QED
  BY <1>1, <1>2, <1>3 DEF WP!EndgameShutdown, WP!Enter

LEMMA WpNext ==
  ASSUME WpInv, [Next]_vars
  PROVE  WpInv'
<1>1. CASE WP!Next
  BY <1>1, WpUser, WpSystem, WpCallbacks, WpReads, WpEndgame DEF WP!Next, WP!LoopStep
<1>2. CASE UNCHANGED pipeVars
  BY <1>2 DEF pipeVars, WpInv, WpType, WpCounts, WpPending, WpRegistered, WpWrites, WpRequests,
     WpQueue, WpShutdown, WpHandle, WpTimer, WpClosing
<1> QED
  BY <1>1, <1>2, PipeStep

LEMMA WpExact ==
  ASSUME WpInv
  PROVE  WP!CountsExact /\ WP!CallbackOnceBeforeClose /\ WP!PipeAsserts
<1>1. /\ WP!Pending = WpPending /\ WP!Registered = WpRegistered
      /\ WP!Pending \cap Writes = WpWrites
  BY DEF WP!Pending, WP!Registered, WP!Reqs, WpPending, WpRegistered, WpWrites, Requests, WpOut, WpReg
<1>2. \A b \in BOOLEAN : WP!B2N(b) = One(b)
  BY DEF WP!B2N, One
<1>3. WP!CountsExact
  BY <1>1, WpCardinality DEF WP!CountsExact, WpInv, WpCounts, WpTimer, WP!Has, WP!B2N, One
<1>4. WP!CallbackOnceBeforeClose
  BY <1>1 DEF WP!CallbackOnceBeforeClose, WpInv, WpRequests, WpClosing, WP!Has, WP!Reqs, Requests,
     WP!B2N, One, WpAnswered
<1>5. WP!PipeAsserts
  <2>1. ("READING" \in flags \/ ("CONNECTION" \in flags /\ "WRITABLE" \in flags)) => handle
    BY DEF WpInv, WpHandle
  <2>2. eof_timer = "started" => "READ_PENDING" \in flags
    BY DEF WpInv, WpTimer
  <2>3. "CLOSED" \in flags => eof_timer = "null"
    BY DEF WpInv, WpClosing
  <2> QED
    BY <2>1, <2>2, <2>3 DEF WP!PipeAsserts, WP!Has
<1> QED
  BY <1>3, <1>4, <1>5

-----------------------------------------------------------------------------
(* A TCP connection, win/tcp.c. *)

LEMMA TcpStep ==
  ASSUME [Next]_vars
  PROVE  WT!Next \/ UNCHANGED tcpVars
BY DEF Next, vars, OnlyStream, OnlyAsync, OnlySignal, OnlyFsPoll, OnlyLoop, OnlyTimers,
       OnlyHeap, OnlyUnixIo, OnlyWinSignal, OnlyPipe, OnlyPipeServer, OnlyTcp, OnlyTcpServer,
       OnlyPoll, OnlyLogger

LEMMA WtCardinality == \A S : WT!Cardinality(S) = Cardinality(S)
BY DEF WT!Cardinality, Cardinality, WT!IsFiniteSet, IsFiniteSet

ReadCbs == {"data_cb", "end_cb", "error_cb"}

WtType ==
  /\ wt_req \in [Requests -> {"idle", "system", "posted", "cb", "done", "lost"}]
  /\ wt_read \in {"none", "system", "ready", "failed", "circling"}
  /\ wt_pc \in {"loop", "circle"} \cup Requests \cup ReadCbs
  /\ wt_shutdown \in BOOLEAN /\ twice \in Nat

\* The requests under way, those whose callback is still to be made, the writes.
WtPending == {r \in Requests : wt_req[r] \in {"system", "posted", "cb", "lost"}}
WtActive == {r \in Requests : wt_req[r] \in {"system", "posted", "lost"}}
WtWrites == {r \in Writes : wt_req[r] \in {"system", "posted", "cb", "lost"}}

WtCounts ==
  /\ wt_reqs = Cardinality(WtPending) + One(wt_read # "none") + One(wt_pc \in ReadCbs) + twice
  /\ wt_active = Cardinality(WtActive) + One(WT!Has("READING"))
  /\ wt_writes = Cardinality(WtWrites)

\* The callback of a request is under way exactly inside it.
WtInCallback == \A r \in Requests : wt_pc = r <=> wt_req[r] = "cb"

\* A zero-read without READ_PENDING is one that failed on the spot.
WtRead == wt_read \in {"system", "ready"} => WT!Has("READ_PENDING")

\* A shutdown follows the connect, and ends the writing.
WtShutdown ==
  /\ wt_shutdown <=> wt_req["shutdown"] = "system"
  /\ wt_req["shutdown"] # "posted"
  /\ WT!Has("WRITABLE") \/ wt_req["shutdown"] # "idle" => wt_req["connect"] \in {"cb", "done"}
  /\ wt_req["shutdown"] # "idle" => ~WT!Has("WRITABLE")
  /\ socket = "sent" => wt_req["shutdown"] \in {"cb", "done"}

WtClosed ==
  WT!Has("CLOSED") => /\ WT!Has("CLOSING") /\ WtPending = {} /\ wt_read = "none"
                      /\ wt_pc = "loop" /\ twice = 0

WtInv ==
  /\ WtType /\ WtCounts /\ WtInCallback /\ WtRead /\ WtShutdown /\ WtClosed
  /\ WT!ShutdownAfterWrites

LEMMA WtFinite ==
  /\ IsFiniteSet(Requests) /\ IsFiniteSet(Writes)
  /\ IsFiniteSet(WtPending) /\ Cardinality(WtPending) \in Nat
  /\ IsFiniteSet(WtActive) /\ Cardinality(WtActive) \in Nat
  /\ IsFiniteSet(WtWrites) /\ Cardinality(WtWrites) \in Nat
<1>1. IsFiniteSet(Requests)
  <2>1. IsFiniteSet(Writes \cup {"connect"})
    BY WritesAssumption, FS_AddElement
  <2>2. IsFiniteSet((Writes \cup {"connect"}) \cup {"shutdown"})
    BY <2>1, FS_AddElement
  <2>3. Requests = (Writes \cup {"connect"}) \cup {"shutdown"}
    BY DEF Requests
  <2> QED
    BY <2>2, <2>3
<1>2. WtPending \subseteq Requests /\ WtActive \subseteq Requests /\ WtWrites \subseteq Writes
  BY DEF WtPending, WtActive, WtWrites
<1> QED
  BY <1>1, <1>2, WritesAssumption, FS_Subset, FS_CardinalityType

WtStates == {"idle", "system", "posted", "cb", "done", "lost"}

\* What one request that goes on to st, the others staying, does to the counts.
WtMoves(r, st) ==
  /\ Cardinality(WtPending') = Cardinality(WtPending)
       + One(st \in {"system", "posted", "cb", "lost"}) - One(wt_req[r] \in {"system", "posted", "cb", "lost"})
  /\ Cardinality(WtActive') = Cardinality(WtActive)
       + One(st \in {"system", "posted", "lost"}) - One(wt_req[r] \in {"system", "posted", "lost"})
  /\ Cardinality(WtWrites') = Cardinality(WtWrites)
       + One(r \in Writes /\ st \in {"system", "posted", "cb", "lost"})
       - One(r \in Writes /\ wt_req[r] \in {"system", "posted", "cb", "lost"})

LEMMA WtMove ==
  ASSUME WtType, NEW r \in Requests, NEW st \in WtStates, wt_req' = [wt_req EXCEPT ![r] = st]
  PROVE  /\ wt_req' \in [Requests -> WtStates]
         /\ \A x \in Requests : wt_req'[x] = IF x = r THEN st ELSE wt_req[x]
         /\ WtMoves(r, st)
<1>1. /\ wt_req' \in [Requests -> WtStates]
      /\ \A x \in Requests : wt_req'[x] = IF x = r THEN st ELSE wt_req[x]
  BY DEF WtType, WtStates
<1>2. /\ \A x : x # r => (x \in WtPending' <=> x \in WtPending)
      /\ r \in WtPending' <=> st \in {"system", "posted", "cb", "lost"}
      /\ r \in WtPending <=> wt_req[r] \in {"system", "posted", "cb", "lost"}
  BY <1>1 DEF WtPending
<1>3. /\ \A x : x # r => (x \in WtActive' <=> x \in WtActive)
      /\ r \in WtActive' <=> st \in {"system", "posted", "lost"}
      /\ r \in WtActive <=> wt_req[r] \in {"system", "posted", "lost"}
  BY <1>1 DEF WtActive
<1>4. /\ \A x : x # r => (x \in WtWrites' <=> x \in WtWrites)
      /\ r \in WtWrites' <=> r \in Writes /\ st \in {"system", "posted", "cb", "lost"}
      /\ r \in WtWrites <=> r \in Writes /\ wt_req[r] \in {"system", "posted", "cb", "lost"}
  BY <1>1 DEF WtWrites, Requests
<1>5. Cardinality(WtPending') = Cardinality(WtPending) + One(r \in WtPending') - One(r \in WtPending)
  BY <1>2, WtFinite, CountChange
<1>6. Cardinality(WtActive') = Cardinality(WtActive) + One(r \in WtActive') - One(r \in WtActive)
  BY <1>3, WtFinite, CountChange
<1>7. Cardinality(WtWrites') = Cardinality(WtWrites) + One(r \in WtWrites') - One(r \in WtWrites)
  BY <1>4, WtFinite, CountChange
<1>8. /\ One(r \in WtPending') = One(st \in {"system", "posted", "cb", "lost"})
      /\ One(r \in WtPending) = One(wt_req[r] \in {"system", "posted", "cb", "lost"})
      /\ One(r \in WtActive') = One(st \in {"system", "posted", "lost"})
      /\ One(r \in WtActive) = One(wt_req[r] \in {"system", "posted", "lost"})
      /\ One(r \in WtWrites') = One(r \in Writes /\ st \in {"system", "posted", "cb", "lost"})
      /\ One(r \in WtWrites) = One(r \in Writes /\ wt_req[r] \in {"system", "posted", "cb", "lost"})
  BY <1>2, <1>3, <1>4 DEF One
<1> QED
  BY <1>1, <1>5, <1>6, <1>7, <1>8 DEF WtMoves

LEMMA WtInit == Init => WtInv
<1> SUFFICES ASSUME WT!Init
             PROVE  WtInv
  BY DEF Init
<1>1. WtPending = {} /\ WtActive = {} /\ WtWrites = {}
  BY DEF WT!Init, WT!Reqs, Requests, WtPending, WtActive, WtWrites
<1>2. Cardinality({}) = 0
  BY FS_EmptySet
<1>3. WtCounts
  BY <1>1, <1>2 DEF WT!Init, WtCounts, One, WT!Has, ReadCbs
<1>4. WtType /\ WtInCallback
  BY WritesAssumption DEF WT!Init, WT!Reqs, Requests, WtType, WtInCallback
<1> QED
  BY <1>3, <1>4 DEF WT!Init, WT!Reqs, WT!Has, Requests, WtInv, WtRead, WtShutdown, WtClosed,
     WT!ShutdownAfterWrites

\* They stay as they are when no request goes on.
LEMMA WtStill ==
  ASSUME wt_req' = wt_req
  PROVE  WtPending' = WtPending /\ WtActive' = WtActive /\ WtWrites' = WtWrites
BY DEF WtPending, WtActive, WtWrites

\* Queueing the read a second time: requests that fall out of the loop's list stay
\* pending, and their callbacks to be made.
LEMMA WtTwice ==
  ASSUME WtType, WT!QueuedTwice
  PROVE  /\ wt_read' \in {"failed", "circling"} /\ twice' = twice + 1
         /\ WtPending' = WtPending /\ WtActive' = WtActive /\ WtWrites' = WtWrites
         /\ wt_req' \in [Requests -> WtStates]
         /\ \A x \in Requests : \/ wt_req'[x] = wt_req[x]
                                \/ wt_req[x] = "posted" /\ wt_req'[x] = "lost"
<1>1. wt_read' \in {"failed", "circling"} /\ twice' = twice + 1
  BY DEF WT!QueuedTwice
<1>2. PICK out \in SUBSET {r \in Requests : wt_req[r] = "posted"} :
        wt_req' = [r \in Requests |-> IF r \in out THEN "lost" ELSE wt_req[r]]
  BY DEF WT!QueuedTwice, WT!Reqs, Requests
<1>3. \A x \in Requests : \/ wt_req'[x] = wt_req[x]
                          \/ wt_req[x] = "posted" /\ wt_req'[x] = "lost"
  BY <1>2
<1>4. wt_req' \in [Requests -> WtStates]
  BY <1>2 DEF WtType, WtStates
<1>5. WtPending' = WtPending /\ WtActive' = WtActive
  BY <1>3 DEF WtPending, WtActive
<1>6. WtWrites' = WtWrites
  BY <1>3 DEF WtWrites, Requests
<1> QED
  BY <1>1, <1>3, <1>4, <1>5, <1>6

\* What a call of the program may disturb.
LEMMA WtUser ==
  ASSUME WtInv, WT!User
  PROVE  WtInv'
<1> USE DEF WtInv
<1>t. twice \in Nat
  BY DEF WtType
<1> USE <1>t
<1>0. ~WT!Has("CLOSING") /\ ~WT!Has("CLOSED")
  BY DEF WT!User, WtClosed
<1>1. ASSUME WT!Connect
      PROVE  WtInv'
  <2>1. /\ wt_req["connect"] = "idle" /\ "connect" \notin Writes
        /\ UNCHANGED <<wt_flags, socket, wt_writes, wt_shutdown, wt_read, wt_pc, twice>>
        /\ wt_reqs' = wt_reqs + 1 /\ wt_active' = wt_active + 1
    BY <1>0, <1>1, WritesAssumption DEF WT!Connect, WT!Register
  <2>2. PICK st \in {"system", "posted"} : wt_req' = [wt_req EXCEPT !["connect"] = st]
    BY <1>1 DEF WT!Connect, WT!Register
  <2>3. st \in WtStates /\ "connect" \in Requests
    BY <2>1 DEF WtStates, Requests
  <2>4. /\ wt_req' \in [Requests -> WtStates]
        /\ \A x \in Requests : wt_req'[x] = IF x = "connect" THEN st ELSE wt_req[x]
    BY <2>2, <2>3, WtMove
  <2>5. WtMoves("connect", st)
    BY <2>2, <2>3, WtMove
  <2>6. /\ Cardinality(WtPending') = Cardinality(WtPending) + 1
        /\ Cardinality(WtActive') = Cardinality(WtActive) + 1
        /\ Cardinality(WtWrites') = Cardinality(WtWrites)
    BY <2>1, <2>5, WtFinite DEF WtMoves, One
  <2>7. WtCounts'
    BY <2>1, <2>6, WtFinite DEF WtCounts, One, WT!Has, ReadCbs
  <2>8. WtType'
    BY <2>1, <2>4 DEF WtType, WtStates, Requests, ReadCbs
  <2>9. WtInCallback' /\ WtRead' /\ WtShutdown' /\ WtClosed' /\ WT!ShutdownAfterWrites'
    BY <1>0, <2>1, <2>4, WtStill, WritesAssumption DEF WtInCallback, WtRead, WtShutdown, WtClosed, WT!ShutdownAfterWrites, WT!Has, ReadCbs, Requests
  <2> QED
    BY <2>7, <2>8, <2>9
<1>2. ASSUME WT!ReadStart
      PROVE  WtInv'
  <2>1. /\ "READABLE" \in wt_flags /\ "READING" \notin wt_flags
        /\ wt_active' = wt_active + 1 /\ "READING" \in wt_flags'
        /\ UNCHANGED <<socket, wt_writes, wt_shutdown, wt_pc>>
        /\ wt_flags' \in {wt_flags \cup {"READING"}, wt_flags \cup {"READING", "READ_PENDING"}}
    BY <1>2 DEF WT!ReadStart, WT!QueueRead, WT!Has
  <2>2. CASE wt_reqs' = wt_reqs /\ UNCHANGED <<wt_read, wt_req, twice>>
    <3>1. WtCounts'
      BY <2>1, <2>2, WtStill, WtFinite DEF WtCounts, One, WT!Has, ReadCbs
    <3>2. WtType'
      BY <2>1, <2>2 DEF WtType, WtStates, Requests, ReadCbs
    <3>3. WtInCallback' /\ WtRead' /\ WtShutdown' /\ WtClosed' /\ WT!ShutdownAfterWrites'
      BY <1>0, <2>1, <2>2, WtStill, WritesAssumption DEF WtInCallback, WtRead, WtShutdown, WtClosed, WT!ShutdownAfterWrites, WT!Has, ReadCbs, Requests
    <3> QED
      BY <3>1, <3>2, <3>3
  <2>3. CASE /\ wt_reqs' = wt_reqs + 1 /\ wt_read = "none" /\ UNCHANGED <<wt_req, twice>>
             /\ wt_read' \in {"system", "ready", "failed"}
             /\ wt_read' # "failed" => "READ_PENDING" \in wt_flags'
    <3>1. WtCounts'
      BY <2>1, <2>3, WtStill, WtFinite DEF WtCounts, One, WT!Has, ReadCbs
    <3>2. WtType'
      BY <2>1, <2>3 DEF WtType, WtStates, Requests, ReadCbs
    <3>3. WtInCallback' /\ WtRead' /\ WtShutdown' /\ WtClosed' /\ WT!ShutdownAfterWrites'
      BY <1>0, <2>1, <2>3, WtStill, WritesAssumption DEF WtInCallback, WtRead, WtShutdown, WtClosed, WT!ShutdownAfterWrites, WT!Has, ReadCbs, Requests
    <3> QED
      BY <3>1, <3>2, <3>3
  <2>4. CASE WT!QueuedTwice /\ wt_reqs' = wt_reqs + 1 /\ wt_read # "none"
    <3>1. /\ wt_read' \in {"failed", "circling"} /\ twice' = twice + 1
          /\ WtPending' = WtPending /\ WtActive' = WtActive /\ WtWrites' = WtWrites
          /\ wt_req' \in [Requests -> WtStates]
          /\ \A x \in Requests : \/ wt_req'[x] = wt_req[x]
                                 \/ wt_req[x] = "posted" /\ wt_req'[x] = "lost"
      BY <2>4, WtTwice
    <3>2. WtCounts'
      BY <2>1, <2>4, <3>1, WtFinite DEF WtCounts, WtType, One, WT!Has, ReadCbs
    <3>3. WtType'
      BY <2>1, <3>1 DEF WtType, WtStates, Requests, ReadCbs
    <3>4. WtInCallback'
      BY <2>1, <3>1 DEF WtInCallback
    <3>5. WtRead' /\ WtShutdown' /\ WtClosed'
      BY <1>0, <2>1, <3>1 DEF WtRead, WtShutdown, WtClosed, WT!Has, Requests
    <3>6. WT!ShutdownAfterWrites'
      BY <2>1, <3>1 DEF WT!ShutdownAfterWrites, Requests
    <3> QED
      BY <3>2, <3>3, <3>4, <3>5, <3>6
  <2> QED
    <3>1. CASE WT!Has("READ_PENDING")
      BY <1>2, <2>2, <3>1 DEF WT!ReadStart
    <3>2. CASE ~WT!Has("READ_PENDING") /\ WT!InList
      BY <1>2, <2>4, <3>2 DEF WT!ReadStart, WT!QueueRead, WT!InList
    <3>3. CASE ~WT!Has("READ_PENDING") /\ ~WT!InList
      <4>1. wt_read = "none"
        BY <3>3 DEF WT!InList, WtRead, WtType
      <4>2. /\ wt_reqs' = wt_reqs + 1 /\ UNCHANGED <<wt_req, twice>>
            /\ wt_read' \in {"system", "ready", "failed"}
            /\ wt_read' # "failed" => "READ_PENDING" \in wt_flags'
        BY <1>2, <3>3 DEF WT!ReadStart, WT!QueueRead
      <4> QED
        BY <2>3, <4>1, <4>2
    <3> QED
      BY <3>1, <3>2, <3>3
<1>3. ASSUME WT!ReadStop
      PROVE  WtInv'
  <2>1. /\ "READING" \in wt_flags /\ wt_flags' = wt_flags \ {"READING"}
        /\ wt_active' = wt_active - 1
        /\ UNCHANGED <<socket, wt_reqs, wt_writes, wt_shutdown, wt_req, wt_read, wt_pc, twice>>
    BY <1>0, <1>3, WritesAssumption DEF WT!ReadStop, WT!Has
  <2>2. wt_req' = wt_req
    BY <1>3 DEF WT!ReadStop, WT!Has
  <2>3. WtCounts'
    BY <1>0, <2>1, <2>2, WtStill, WtFinite DEF WtCounts, One, WT!Has, ReadCbs
  <2>4. WtType'
    BY <2>1, <2>2 DEF WtType, WtStates, Requests, ReadCbs
  <2>5. WtInCallback' /\ WtRead' /\ WtShutdown' /\ WtClosed' /\ WT!ShutdownAfterWrites'
    BY <1>0, <2>1, <2>2, WtStill, WritesAssumption DEF WtInCallback, WtRead, WtShutdown, WtClosed, WT!ShutdownAfterWrites, WT!Has, ReadCbs, Requests
  <2> QED
    BY <2>3, <2>4, <2>5
<1>4. ASSUME NEW w \in Writes, WT!Write(w)
      PROVE  WtInv'
  <2>1. /\ "WRITABLE" \in wt_flags /\ wt_req[w] = "idle" /\ w \notin {"connect", "shutdown"}
        /\ wt_reqs' = wt_reqs + 1 /\ wt_active' = wt_active + 1 /\ wt_writes' = wt_writes + 1
        /\ UNCHANGED <<wt_flags, socket, wt_shutdown, wt_read, wt_pc, twice>>
    BY <1>0, <1>4, WritesAssumption DEF WT!Write, WT!Register, WT!Has
  <2>2. PICK st \in {"system", "posted"} : wt_req' = [wt_req EXCEPT ![w] = st]
    BY <1>4 DEF WT!Write, WT!Register, WT!Has
  <2>3. st \in WtStates /\ w \in Requests
    BY <2>1 DEF WtStates, Requests
  <2>4. /\ wt_req' \in [Requests -> WtStates]
        /\ \A x \in Requests : wt_req'[x] = IF x = w THEN st ELSE wt_req[x]
    BY <2>2, <2>3, WtMove
  <2>5. WtMoves(w, st)
    BY <2>2, <2>3, WtMove
  <2>6. /\ Cardinality(WtPending') = Cardinality(WtPending) + 1
        /\ Cardinality(WtActive') = Cardinality(WtActive) + 1
        /\ Cardinality(WtWrites') = Cardinality(WtWrites) + 1
    BY <2>1, <2>5, WtFinite DEF WtMoves, One
  <2>7. WtCounts'
    BY <2>1, <2>6, WtFinite DEF WtCounts, One, WT!Has, ReadCbs
  <2>8. WtType'
    BY <2>1, <2>4 DEF WtType, WtStates, Requests, ReadCbs
  <2>9. WtInCallback' /\ WtRead' /\ WtShutdown' /\ WtClosed' /\ WT!ShutdownAfterWrites'
    BY <1>0, <2>1, <2>4, WtStill, WritesAssumption DEF WtInCallback, WtRead, WtShutdown, WtClosed, WT!ShutdownAfterWrites, WT!Has, ReadCbs, Requests
  <2> QED
    BY <2>7, <2>8, <2>9
<1>5. ASSUME WT!Shutdown
      PROVE  WtInv'
  <2>1. /\ "WRITABLE" \in wt_flags /\ wt_req["shutdown"] = "idle" /\ "shutdown" \notin Writes
        /\ wt_flags' = (wt_flags \ {"WRITABLE"}) \cup {"ENDGAME_QUEUED"} /\ wt_shutdown' = TRUE
        /\ wt_reqs' = wt_reqs + 1 /\ wt_active' = wt_active + 1
        /\ UNCHANGED <<socket, wt_writes, wt_read, wt_pc, twice>>
    BY <1>0, <1>5, WritesAssumption DEF WT!Shutdown, WT!WantEndgame, WT!Has
  <2>2. wt_req' = [wt_req EXCEPT !["shutdown"] = "system"]
    BY <1>5 DEF WT!Shutdown, WT!WantEndgame, WT!Has
  <2>3. "system" \in WtStates /\ "shutdown" \in Requests
    BY <2>1 DEF WtStates, Requests
  <2>4. /\ wt_req' \in [Requests -> WtStates]
        /\ \A x \in Requests : wt_req'[x] = IF x = "shutdown" THEN "system" ELSE wt_req[x]
    BY <2>2, <2>3, WtMove
  <2>5. WtMoves("shutdown", "system")
    BY <2>2, <2>3, WtMove
  <2>6. /\ Cardinality(WtPending') = Cardinality(WtPending) + 1
        /\ Cardinality(WtActive') = Cardinality(WtActive) + 1
        /\ Cardinality(WtWrites') = Cardinality(WtWrites)
    BY <2>1, <2>5, WtFinite DEF WtMoves, One
  <2>7. WtCounts'
    BY <2>1, <2>6, WtFinite DEF WtCounts, One, WT!Has, ReadCbs
  <2>8. WtType'
    BY <2>1, <2>4 DEF WtType, WtStates, Requests, ReadCbs
  <2>9. WtInCallback' /\ WtRead' /\ WtShutdown' /\ WtClosed' /\ WT!ShutdownAfterWrites'
    BY <1>0, <2>1, <2>4, WtStill, WritesAssumption DEF WtInCallback, WtRead, WtShutdown, WtClosed, WT!ShutdownAfterWrites, WT!Has, ReadCbs, Requests
  <2> QED
    BY <2>7, <2>8, <2>9
<1>6. ASSUME WT!Close
      PROVE  WtInv'
  <2>1. /\ socket' = "closed" /\ UNCHANGED <<wt_reqs, wt_writes, wt_shutdown, wt_req, wt_read, wt_pc, twice>>
        /\ wt_active' = IF "READING" \in wt_flags THEN wt_active - 1 ELSE wt_active
        /\ wt_flags' = ((wt_flags \ {"READING", "READABLE", "WRITABLE"}) \cup {"CLOSING"})
                        \cup (IF wt_reqs = 0 THEN {"ENDGAME_QUEUED"} ELSE {})
    BY <1>0, <1>6, WritesAssumption DEF WT!Close, WT!WantEndgame, WT!Has
  <2>2. wt_req' = wt_req
    BY <1>6 DEF WT!Close, WT!WantEndgame, WT!Has
  <2>3. WtCounts'
    BY <1>0, <2>1, <2>2, WtStill, WtFinite DEF WtCounts, One, WT!Has, ReadCbs
  <2>4. WtType'
    BY <2>1, <2>2 DEF WtType, WtStates, Requests, ReadCbs
  <2>5. WtInCallback' /\ WtRead' /\ WtShutdown' /\ WtClosed' /\ WT!ShutdownAfterWrites'
    BY <1>0, <2>1, <2>2, WtStill, WritesAssumption DEF WtInCallback, WtRead, WtShutdown, WtClosed, WT!ShutdownAfterWrites, WT!Has, ReadCbs, Requests
  <2> QED
    BY <2>3, <2>4, <2>5
<1> QED
  BY <1>1, <1>2, <1>3, <1>4, <1>5, <1>6 DEF WT!User

\* What the system may disturb.
LEMMA WtSystem ==
  ASSUME WtInv, WT!System
  PROVE  WtInv'
<1> USE DEF WtInv
<1>t. twice \in Nat
  BY DEF WtType
<1> USE <1>t
<1>1. ASSUME NEW r \in Requests, WT!Completes(r)
      PROVE  WtInv'
  <2>1. /\ wt_req[r] = "system" /\ r # "shutdown"
        /\ UNCHANGED <<wt_flags, socket, wt_reqs, wt_active, wt_writes, wt_shutdown, wt_read, wt_pc, twice>>
    BY <1>1, WritesAssumption DEF WT!Completes
  <2>2. wt_req' = [wt_req EXCEPT ![r] = "posted"]
    BY <1>1 DEF WT!Completes
  <2>3. "posted" \in WtStates /\ r \in Requests
    BY <2>1 DEF WtStates, Requests
  <2>4. /\ wt_req' \in [Requests -> WtStates]
        /\ \A x \in Requests : wt_req'[x] = IF x = r THEN "posted" ELSE wt_req[x]
    BY <2>2, <2>3, WtMove
  <2>5. WtMoves(r, "posted")
    BY <2>2, <2>3, WtMove
  <2>6. /\ Cardinality(WtPending') = Cardinality(WtPending)
        /\ Cardinality(WtActive') = Cardinality(WtActive)
        /\ Cardinality(WtWrites') = Cardinality(WtWrites)
    BY <2>1, <2>5, WtFinite DEF WtMoves, One
  <2>7. WtCounts'
    BY <2>1, <2>6, WtFinite DEF WtCounts, One, WT!Has, ReadCbs
  <2>8. "CLOSED" \notin wt_flags
    BY <2>1, <2>3 DEF WtClosed, WtPending, WT!Has
  <2>9. WtType'
    BY <2>1, <2>4 DEF WtType, WtStates, Requests, ReadCbs
  <2>10. WtInCallback' /\ WtRead' /\ WtShutdown' /\ WtClosed' /\ WT!ShutdownAfterWrites'
    BY <2>1, <2>4, <2>8, WritesAssumption DEF WtInCallback, WtRead, WtShutdown, WtClosed, WT!ShutdownAfterWrites, WT!Has, ReadCbs, Requests
  <2> QED
    BY <2>7, <2>9, <2>10
<1>2. ASSUME WT!ReadCompletes
      PROVE  WtInv'
  <2>1. /\ wt_read = "system" /\ wt_read' \in {"ready", "failed"}
        /\ UNCHANGED <<wt_flags, socket, wt_reqs, wt_active, wt_writes, wt_shutdown, wt_req, wt_pc, twice>>
    BY <1>2, WritesAssumption DEF WT!ReadCompletes
  <2>2. wt_req' = wt_req
    BY <1>2 DEF WT!ReadCompletes
  <2>3. WtCounts'
    BY <2>1, <2>2, WtStill, WtFinite DEF WtCounts, One, WT!Has, ReadCbs
  <2>4. WtType'
    BY <2>1, <2>2 DEF WtType, WtStates, Requests, ReadCbs
  <2>5. WtInCallback' /\ WtRead' /\ WtShutdown' /\ WtClosed' /\ WT!ShutdownAfterWrites'
    BY <2>1, <2>2, WtStill, WritesAssumption DEF WtInCallback, WtRead, WtShutdown, WtClosed, WT!ShutdownAfterWrites, WT!Has, ReadCbs, Requests
  <2> QED
    BY <2>3, <2>4, <2>5
<1> QED
  BY <1>1, <1>2 DEF WT!System, WT!Reqs, Requests

\* What the callbacks of the requests, up to and after them, may disturb.
LEMMA WtRequests ==
  ASSUME WtInv,
         WT!ProcessConnect \/ (\E w \in Writes : WT!ProcessWrite(w))
           \/ (\E r \in Requests : WT!AfterCallback(r))
  PROVE  WtInv'
<1> USE DEF WtInv
<1>t. twice \in Nat
  BY DEF WtType
<1> USE <1>t
<1>1. ASSUME WT!ProcessConnect
      PROVE  WtInv'
  <2>1. /\ wt_pc = "loop" /\ wt_req["connect"] = "posted" /\ "connect" \notin Writes
        /\ wt_active' = wt_active - 1 /\ wt_pc' = "connect"
        /\ wt_flags' \in {wt_flags, wt_flags \cup {"CONNECTION", "READABLE", "WRITABLE"}}
        /\ UNCHANGED <<socket, wt_reqs, wt_writes, wt_shutdown, wt_read, twice>>
    BY <1>1, WritesAssumption DEF WT!ProcessConnect, WT!Callback
  <2>2. wt_req' = [wt_req EXCEPT !["connect"] = "cb"]
    BY <1>1 DEF WT!ProcessConnect, WT!Callback
  <2>3. "cb" \in WtStates /\ "connect" \in Requests
    BY <2>1 DEF WtStates, Requests
  <2>4. /\ wt_req' \in [Requests -> WtStates]
        /\ \A x \in Requests : wt_req'[x] = IF x = "connect" THEN "cb" ELSE wt_req[x]
    BY <2>2, <2>3, WtMove
  <2>5. WtMoves("connect", "cb")
    BY <2>2, <2>3, WtMove
  <2>6. /\ Cardinality(WtPending') = Cardinality(WtPending)
        /\ Cardinality(WtActive') = Cardinality(WtActive) - 1
        /\ Cardinality(WtWrites') = Cardinality(WtWrites)
    BY <2>1, <2>5, WtFinite DEF WtMoves, One
  <2>7. WtCounts'
    BY <2>1, <2>6, WtFinite DEF WtCounts, One, WT!Has, ReadCbs
  <2>8. "CLOSED" \notin wt_flags
    BY <2>1, <2>3 DEF WtClosed, WtPending, WT!Has
  <2>9. WtType'
    BY <2>1, <2>4 DEF WtType, WtStates, Requests, ReadCbs
  <2>10. WtInCallback' /\ WtRead' /\ WtShutdown' /\ WtClosed' /\ WT!ShutdownAfterWrites'
    BY <2>1, <2>4, <2>8, WritesAssumption DEF WtInCallback, WtRead, WtShutdown, WtClosed, WT!ShutdownAfterWrites, WT!Has, ReadCbs, Requests
  <2> QED
    BY <2>7, <2>9, <2>10
<1>2. ASSUME NEW w \in Writes, WT!ProcessWrite(w)
      PROVE  WtInv'
  <2>1. /\ wt_pc = "loop" /\ wt_req[w] = "posted"  /\ w \notin {"connect", "shutdown"} \cup ReadCbs
        /\ wt_active' = wt_active - 1 /\ wt_pc' = w
        /\ UNCHANGED <<wt_flags, socket, wt_reqs, wt_writes, wt_shutdown, wt_read, twice>>
    BY <1>2, WritesAssumption DEF WT!ProcessWrite, WT!Callback, ReadCbs
  <2>2. wt_req' = [wt_req EXCEPT ![w] = "cb"]
    BY <1>2 DEF WT!ProcessWrite, WT!Callback, ReadCbs
  <2>3. "cb" \in WtStates /\ w \in Requests
    BY <2>1 DEF WtStates, Requests
  <2>4. /\ wt_req' \in [Requests -> WtStates]
        /\ \A x \in Requests : wt_req'[x] = IF x = w THEN "cb" ELSE wt_req[x]
    BY <2>2, <2>3, WtMove
  <2>5. WtMoves(w, "cb")
    BY <2>2, <2>3, WtMove
  <2>6. /\ Cardinality(WtPending') = Cardinality(WtPending)
        /\ Cardinality(WtActive') = Cardinality(WtActive) - 1
        /\ Cardinality(WtWrites') = Cardinality(WtWrites)
    BY <2>1, <2>5, WtFinite DEF WtMoves, One
  <2>7. WtCounts'
    BY <2>1, <2>6, WtFinite DEF WtCounts, One, WT!Has, ReadCbs
  <2>8. "CLOSED" \notin wt_flags
    BY <2>1, <2>3 DEF WtClosed, WtPending, WT!Has
  <2>9. WtType'
    BY <2>1, <2>4 DEF WtType, WtStates, Requests, ReadCbs
  <2>10. WtInCallback' /\ WtRead' /\ WtShutdown' /\ WtClosed' /\ WT!ShutdownAfterWrites'
    BY <2>1, <2>4, <2>8, WritesAssumption DEF WtInCallback, WtRead, WtShutdown, WtClosed, WT!ShutdownAfterWrites, WT!Has, ReadCbs, Requests
  <2> QED
    BY <2>7, <2>9, <2>10
<1>3. ASSUME NEW r \in Requests, WT!AfterCallback(r)
      PROVE  WtInv'
  <2>1. /\ wt_pc = r /\ wt_req[r] = "cb" /\ r \notin ReadCbs \cup {"loop"}
        /\ wt_pc' = "loop" /\ wt_reqs' = wt_reqs - 1
        /\ wt_writes' = IF r \in Writes THEN wt_writes - 1 ELSE wt_writes
        /\ wt_flags' \in {wt_flags, wt_flags \cup {"ENDGAME_QUEUED"}}
        /\ UNCHANGED <<socket, wt_active, wt_shutdown, wt_read, twice>>
    BY <1>3, WritesAssumption DEF WT!AfterCallback, WT!DecreasePending, WT!WantEndgame, WtInCallback, ReadCbs, Requests
  <2>2. wt_req' = [wt_req EXCEPT ![r] = "done"]
    BY <1>3 DEF WT!AfterCallback, WT!DecreasePending, WT!WantEndgame, WtInCallback, ReadCbs, Requests
  <2>3. "done" \in WtStates /\ r \in Requests
    BY <2>1 DEF WtStates, Requests
  <2>4. /\ wt_req' \in [Requests -> WtStates]
        /\ \A x \in Requests : wt_req'[x] = IF x = r THEN "done" ELSE wt_req[x]
    BY <2>2, <2>3, WtMove
  <2>5. WtMoves(r, "done")
    BY <2>2, <2>3, WtMove
  <2>6. /\ Cardinality(WtPending') = Cardinality(WtPending) - 1
        /\ Cardinality(WtActive') = Cardinality(WtActive)
        /\ Cardinality(WtWrites') = IF r \in Writes THEN Cardinality(WtWrites) - 1 ELSE Cardinality(WtWrites)
    BY <2>1, <2>5, WtFinite DEF WtMoves, One
  <2>7. WtCounts'
    BY <2>1, <2>6, WtFinite DEF WtCounts, One, WT!Has, ReadCbs
  <2>8. "CLOSED" \notin wt_flags
    BY <2>1, <2>3 DEF WtClosed, WtPending, WT!Has
  <2>9. WtType'
    BY <2>1, <2>4 DEF WtType, WtStates, Requests, ReadCbs
  <2>10. WtInCallback' /\ WtRead' /\ WtShutdown' /\ WtClosed' /\ WT!ShutdownAfterWrites'
    BY <2>1, <2>4, <2>8, WritesAssumption DEF WtInCallback, WtRead, WtShutdown, WtClosed, WT!ShutdownAfterWrites, WT!Has, ReadCbs, Requests
  <2> QED
    BY <2>7, <2>9, <2>10
<1> QED
  BY <1>1, <1>2, <1>3

\* What the processing of a read may disturb.
LEMMA WtReads ==
  ASSUME WtInv, WT!ProcessReadQuietly \/ WT!ProcessReadFailed \/ WT!ReadPiece \/ WT!AfterRead
           \/ WT!Circle
  PROVE  WtInv'
<1> USE DEF WtInv
<1>t. twice \in Nat
  BY DEF WtType
<1> USE <1>t
<1>1. ASSUME WT!ProcessReadQuietly
      PROVE  WtInv'
  <2>1. /\ wt_pc = "loop" /\ wt_read \in {"ready", "failed"} /\ "READING" \notin wt_flags
        /\ wt_read' = "none" /\ wt_reqs' = wt_reqs - 1
        /\ wt_flags' \in {wt_flags \ {"READ_PENDING"}, (wt_flags \ {"READ_PENDING"}) \cup {"ENDGAME_QUEUED"}}
        /\ UNCHANGED <<socket, wt_active, wt_writes, wt_shutdown, wt_pc, twice>>
    BY <1>1, WritesAssumption DEF WT!ProcessReadQuietly, WT!DecreasePending, WT!WantEndgame, WT!Has
  <2>2. wt_req' = wt_req
    BY <1>1 DEF WT!ProcessReadQuietly, WT!DecreasePending, WT!WantEndgame, WT!Has
  <2>3. WtCounts'
    BY <2>1, <2>2, WtStill, WtFinite DEF WtCounts, One, WT!Has, ReadCbs
  <2>4. WtType'
    BY <2>1, <2>2 DEF WtType, WtStates, Requests, ReadCbs
  <2>5. WtInCallback' /\ WtRead' /\ WtShutdown' /\ WtClosed' /\ WT!ShutdownAfterWrites'
    BY <2>1, <2>2, WtStill, WritesAssumption DEF WtInCallback, WtRead, WtShutdown, WtClosed, WT!ShutdownAfterWrites, WT!Has, ReadCbs, Requests
  <2> QED
    BY <2>3, <2>4, <2>5
<1>2. ASSUME WT!ProcessReadFailed
      PROVE  WtInv'
  <2>1. /\ wt_pc = "loop" /\ wt_read = "failed" /\ "READING" \in wt_flags
        /\ wt_read' = "none" /\ wt_active' = wt_active - 1 /\ wt_pc' = "error_cb"
        /\ wt_flags' = wt_flags \ {"READ_PENDING", "READING"}
        /\ UNCHANGED <<socket, wt_reqs, wt_writes, wt_shutdown, twice>>
    BY <1>2, WritesAssumption DEF WT!ProcessReadFailed, WT!Has
  <2>2. wt_req' = wt_req
    BY <1>2 DEF WT!ProcessReadFailed, WT!Has
  <2>3. WtCounts'
    BY <2>1, <2>2, WtStill, WtFinite DEF WtCounts, One, WT!Has, ReadCbs
  <2>4. WtType'
    BY <2>1, <2>2 DEF WtType, WtStates, Requests, ReadCbs
  <2>5. WtInCallback' /\ WtRead' /\ WtShutdown' /\ WtClosed' /\ WT!ShutdownAfterWrites'
    BY <2>1, <2>2, WtStill, WritesAssumption DEF WtInCallback, WtRead, WtShutdown, WtClosed, WT!ShutdownAfterWrites, WT!Has, ReadCbs, Requests
  <2> QED
    BY <2>3, <2>4, <2>5
<1>3. ASSUME WT!ReadPiece
      PROVE  WtInv'
  <2>1. /\ UNCHANGED <<socket, wt_reqs, wt_writes, wt_shutdown, twice>> /\ "READING" \in wt_flags
        /\ \/ /\ wt_pc = "loop" /\ wt_read = "ready" /\ wt_read' = "none"
              /\ \E gone \in SUBSET {"READING", "READABLE"} : wt_flags' = wt_flags \ (gone \cup {"READ_PENDING"})
           \/ /\ wt_pc = "data_cb" /\ wt_read' = wt_read
              /\ \E gone \in SUBSET {"READING", "READABLE"} : wt_flags' = wt_flags \ gone
        /\ \/ wt_pc' = "data_cb" /\ "READING" \in wt_flags' /\ wt_active' = wt_active
           \/ wt_pc' = "end_cb" /\ "READING" \notin wt_flags' /\ wt_active' = wt_active - 1
    BY <1>3, WritesAssumption DEF WT!ReadPiece, WT!Has
  <2>2. wt_req' = wt_req
    BY <1>3 DEF WT!ReadPiece, WT!Has
  <2>3. WtCounts'
    BY <2>1, <2>2, WtStill, WtFinite DEF WtCounts, One, WT!Has, ReadCbs
  <2>4. WtType'
    BY <2>1, <2>2 DEF WtType, WtStates, Requests, ReadCbs
  <2>5. WtInCallback' /\ WtRead' /\ WtShutdown' /\ WtClosed' /\ WT!ShutdownAfterWrites'
    BY <2>1, <2>2, WtStill, WritesAssumption DEF WtInCallback, WtRead, WtShutdown, WtClosed, WT!ShutdownAfterWrites, WT!Has, ReadCbs, Requests
  <2> QED
    BY <2>3, <2>4, <2>5
<1>4. ASSUME WT!AfterRead
      PROVE  WtInv'
  <2>1. /\ wt_pc \in ReadCbs /\ wt_pc' = "loop" /\ "CLOSED" \notin wt_flags
        /\ UNCHANGED <<socket, wt_active, wt_writes, wt_shutdown>>
        /\ wt_flags' \in {wt_flags, wt_flags \cup {"READ_PENDING"}, wt_flags \cup {"ENDGAME_QUEUED"}}
    BY <1>4 DEF WT!AfterRead, WT!QueueRead, WT!DecreasePending, WT!WantEndgame, WT!Has, ReadCbs, WtClosed
  <2>2. CASE wt_reqs' = wt_reqs - 1 /\ UNCHANGED <<wt_read, wt_req, twice>>
    <3>1. WtCounts'
      BY <2>1, <2>2, WtStill, WtFinite DEF WtCounts, One, WT!Has, ReadCbs
    <3>2. WtType'
      BY <2>1, <2>2 DEF WtType, WtStates, Requests, ReadCbs
    <3>3. WtInCallback' /\ WtRead' /\ WtShutdown' /\ WtClosed' /\ WT!ShutdownAfterWrites'
      BY <2>1, <2>2, WtStill, WritesAssumption DEF WtInCallback, WtRead, WtShutdown, WtClosed, WT!ShutdownAfterWrites, WT!Has, ReadCbs, Requests
    <3> QED
      BY <3>1, <3>2, <3>3
  <2>3. CASE /\ wt_reqs' = wt_reqs /\ wt_read = "none" /\ UNCHANGED <<wt_req, twice>>
             /\ wt_read' \in {"system", "ready", "failed"}
             /\ wt_read' # "failed" => "READ_PENDING" \in wt_flags'
    <3>1. WtCounts'
      BY <2>1, <2>3, WtStill, WtFinite DEF WtCounts, One, WT!Has, ReadCbs
    <3>2. WtType'
      BY <2>1, <2>3 DEF WtType, WtStates, Requests, ReadCbs
    <3>3. WtInCallback' /\ WtRead' /\ WtShutdown' /\ WtClosed' /\ WT!ShutdownAfterWrites'
      BY <2>1, <2>3, WtStill, WritesAssumption DEF WtInCallback, WtRead, WtShutdown, WtClosed, WT!ShutdownAfterWrites, WT!Has, ReadCbs, Requests
    <3> QED
      BY <3>1, <3>2, <3>3
  <2>4. CASE WT!QueuedTwice /\ wt_reqs' = wt_reqs /\ wt_read # "none"
    <3>1. /\ wt_read' \in {"failed", "circling"} /\ twice' = twice + 1
          /\ WtPending' = WtPending /\ WtActive' = WtActive /\ WtWrites' = WtWrites
          /\ wt_req' \in [Requests -> WtStates]
          /\ \A x \in Requests : \/ wt_req'[x] = wt_req[x]
                                 \/ wt_req[x] = "posted" /\ wt_req'[x] = "lost"
      BY <2>4, WtTwice
    <3>2. WtCounts'
      BY <2>1, <2>4, <3>1, WtFinite DEF WtCounts, WtType, One, WT!Has, ReadCbs
    <3>3. WtType'
      BY <2>1, <3>1 DEF WtType, WtStates, Requests, ReadCbs
    <3>4. WtInCallback'
      BY <2>1, <3>1, WritesAssumption DEF WtInCallback, ReadCbs, Requests
    <3>5. WtRead' /\ WtShutdown' /\ WtClosed'
      BY <2>1, <3>1 DEF WtRead, WtShutdown, WtClosed, WT!Has, Requests
    <3>6. WT!ShutdownAfterWrites'
      BY <2>1, <3>1 DEF WT!ShutdownAfterWrites, Requests
    <3> QED
      BY <3>2, <3>3, <3>4, <3>5, <3>6
  <2> QED
    <3>1. CASE wt_reqs' = wt_reqs - 1 /\ UNCHANGED <<wt_read, wt_req, twice>>
      BY <2>2, <3>1
    <3>2. CASE WT!InList /\ WT!QueuedTwice /\ wt_reqs' = wt_reqs
      BY <2>4, <3>2 DEF WT!InList
    <3>3. CASE ~WT!InList /\ ~WT!Has("READ_PENDING") /\ WT!QueueRead(wt_flags) /\ wt_reqs' = wt_reqs
      <4>1. wt_read = "none"
        BY <3>3 DEF WT!InList, WtRead, WtType
      <4>2. /\ UNCHANGED <<wt_req, twice>> /\ wt_read' \in {"system", "ready", "failed"}
            /\ wt_read' # "failed" => "READ_PENDING" \in wt_flags'
        BY <3>3 DEF WT!QueueRead
      <4> QED
        BY <2>3, <3>3, <4>1, <4>2
    <3> QED
      BY <1>4, <3>1, <3>2, <3>3 DEF WT!AfterRead, WT!QueueRead, WT!DecreasePending
<1>5. ASSUME WT!Circle
      PROVE  WtInv'
  <2>1. /\ wt_pc = "loop" /\ wt_pc' = "circle" /\ wt_read = "circling" /\ wt_req' = wt_req
        /\ UNCHANGED <<socket, wt_flags, wt_reqs, wt_active, wt_writes, wt_shutdown, wt_read, twice>>
    BY <1>5 DEF WT!Circle
  <2>2. WtCounts'
    BY <2>1, WtStill DEF WtCounts, One, WT!Has, ReadCbs
  <2>3. WtType'
    BY <2>1 DEF WtType
  <2>4. WtInCallback'
    BY <2>1, WritesAssumption DEF WtInCallback, Requests
  <2>5. WtRead' /\ WtShutdown' /\ WtClosed' /\ WT!ShutdownAfterWrites'
    BY <2>1 DEF WtRead, WtShutdown, WtClosed, WT!ShutdownAfterWrites, WT!Has
  <2> QED
    BY <2>2, <2>3, <2>4, <2>5
<1> QED
  BY <1>1, <1>2, <1>3, <1>4, <1>5

\* What the endgame may disturb.
LEMMA WtEndgame ==
  ASSUME WtInv, WT!EndgameShutdown \/ WT!EndgameClose
  PROVE  WtInv'
<1> USE DEF WtInv
<1>t. twice \in Nat
  BY DEF WtType
<1> USE <1>t
<1>1. ASSUME WT!EndgameShutdown
      PROVE  WtInv'
  <2>1. /\ wt_pc = "loop" /\ wt_shutdown /\ wt_writes = 0 /\ wt_req["shutdown"] = "system"
        /\ wt_active' = wt_active - 1 /\ wt_shutdown' = FALSE /\ wt_pc' = "shutdown" /\ "shutdown" \notin Writes
        /\ wt_flags' = wt_flags \ {"ENDGAME_QUEUED"} /\ socket' \in {socket, "sent"}
        /\ UNCHANGED <<wt_reqs, wt_writes, wt_read, twice>>
    BY <1>1, WritesAssumption DEF WT!EndgameShutdown, WT!ShutdownReady, WT!Callback, WtShutdown
  <2>2. wt_req' = [wt_req EXCEPT !["shutdown"] = "cb"]
    BY <1>1 DEF WT!EndgameShutdown, WT!ShutdownReady, WT!Callback, WtShutdown
  <2>3. "cb" \in WtStates /\ "shutdown" \in Requests
    BY <2>1 DEF WtStates, Requests
  <2>4. /\ wt_req' \in [Requests -> WtStates]
        /\ \A x \in Requests : wt_req'[x] = IF x = "shutdown" THEN "cb" ELSE wt_req[x]
    BY <2>2, <2>3, WtMove
  <2>5. WtMoves("shutdown", "cb")
    BY <2>2, <2>3, WtMove
  <2>6. /\ Cardinality(WtPending') = Cardinality(WtPending)
        /\ Cardinality(WtActive') = Cardinality(WtActive) - 1
        /\ Cardinality(WtWrites') = Cardinality(WtWrites)
    BY <2>1, <2>5, WtFinite DEF WtMoves, One
  <2>7. WtCounts'
    <3>1. /\ "READING" \in wt_flags' <=> "READING" \in wt_flags
          /\ wt_pc \notin ReadCbs /\ wt_pc' \notin ReadCbs
      BY <2>1 DEF ReadCbs
    <3>2. wt_reqs' = Cardinality(WtPending') + One(wt_read' # "none") + One(wt_pc' \in ReadCbs) + twice'
      BY <2>1, <2>6, <3>1 DEF WtCounts, One
    <3>3. wt_active' = Cardinality(WtActive') + One("READING" \in wt_flags')
      BY <2>1, <2>6, <3>1, WtFinite DEF WtCounts, One, WT!Has
    <3>4. wt_writes' = Cardinality(WtWrites')
      BY <2>1, <2>6 DEF WtCounts
    <3> QED
      BY <3>2, <3>3, <3>4 DEF WtCounts, WT!Has
  <2>8. \A w \in Writes : wt_req[w] \in {"idle", "done"}
    <3>1. WtWrites = {}
      BY <2>1, WtFinite, FS_EmptySet DEF WtCounts
    <3> QED
      BY <3>1 DEF WtWrites, WtType, Requests
  <2>9. "CLOSED" \notin wt_flags
    BY <2>1, <2>3 DEF WtClosed, WtPending, WT!Has
  <2>10. WtType'
    BY <2>1, <2>4 DEF WtType, WtStates, Requests, ReadCbs
  <2>11. WtInCallback' /\ WtRead' /\ WtShutdown' /\ WtClosed' /\ WT!ShutdownAfterWrites'
    BY <2>1, <2>4, <2>9, WritesAssumption, <2>8 DEF WtInCallback, WtRead, WtShutdown, WtClosed, WT!ShutdownAfterWrites, WT!Has, ReadCbs, Requests
  <2> QED
    BY <2>7, <2>10, <2>11
<1>2. ASSUME WT!EndgameClose
      PROVE  WtInv'
  <2>1. /\ wt_pc = "loop" /\ UNCHANGED <<socket, wt_reqs, wt_active, wt_writes, wt_shutdown, wt_read, wt_pc, twice>>
        /\ \/ wt_flags' = wt_flags \ {"ENDGAME_QUEUED"}
           \/ /\ wt_flags' = (wt_flags \ {"ENDGAME_QUEUED"}) \cup {"CLOSED"}
              /\ "CLOSING" \in wt_flags /\ wt_reqs = 0
    BY <1>2, WritesAssumption DEF WT!EndgameClose, WT!Has
  <2>2. wt_req' = wt_req
    BY <1>2 DEF WT!EndgameClose, WT!Has
  <2>3. WtCounts'
    BY <2>1, <2>2, WtStill, WtFinite DEF WtCounts, One, WT!Has, ReadCbs
  <2>4. wt_reqs = 0 => WtPending = {} /\ wt_read = "none" /\ twice = 0
    BY WtFinite, FS_EmptySet DEF WtCounts, WtType, One
  <2>5. WtType'
    BY <2>1, <2>2 DEF WtType, WtStates, Requests, ReadCbs
  <2>6. WtInCallback' /\ WtRead' /\ WtShutdown' /\ WtClosed' /\ WT!ShutdownAfterWrites'
    BY <2>1, <2>2, WtStill, WritesAssumption, <2>4 DEF WtInCallback, WtRead, WtShutdown, WtClosed, WT!ShutdownAfterWrites, WT!Has, ReadCbs, Requests
  <2> QED
    BY <2>3, <2>5, <2>6
<1> QED
  BY <1>1, <1>2

LEMMA WtNext ==
  ASSUME WtInv, [Next]_vars
  PROVE  WtInv'
<1>1. CASE WT!Next
  BY <1>1, WtUser, WtSystem, WtRequests, WtReads, WtEndgame
     DEF WT!Next, WT!LoopStep, WT!Reqs, Requests
<1>2. CASE UNCHANGED tcpVars
  BY <1>2 DEF tcpVars, WtInv, WtType, WtCounts, WtPending, WtActive, WtWrites, WtInCallback,
     WtRead, WtShutdown, WtClosed, WT!Has, WT!ShutdownAfterWrites
<1> QED
  BY <1>1, <1>2, TcpStep

LEMMA WtExact == ASSUME WtInv PROVE WT!TcpCountsExact /\ WT!ShutdownAfterWrites
<1>1. WT!Pending = WtPending /\ {r \in WT!Pending : wt_req[r] # "cb"} = WtActive
  BY DEF WT!Pending, WT!Reqs, WtPending, WtActive, Requests
<1>2. WT!B2N(wt_read # "none") = One(wt_read # "none")
      /\ WT!B2N(wt_pc \in {"data_cb", "end_cb", "error_cb"}) = One(wt_pc \in ReadCbs)
      /\ WT!B2N(WT!Has("READING")) = One(WT!Has("READING"))
  BY DEF WT!B2N, One, ReadCbs
<1> QED
  BY <1>1, <1>2, WtCardinality DEF WT!TcpCountsExact, WtInv, WtCounts, WtClosed

-----------------------------------------------------------------------------
(* A poll handle, win/poll.c. *)

LEMMA PollStep ==
  ASSUME [Next]_vars
  PROVE  PO!Next \/ UNCHANGED pollVars
BY DEF Next, vars, OnlyStream, OnlyAsync, OnlySignal, OnlyFsPoll, OnlyLoop, OnlyTimers,
       OnlyHeap, OnlyUnixIo, OnlyWinSignal, OnlyPipe, OnlyPipeServer, OnlyTcp, OnlyTcpServer,
       OnlyPoll, OnlyLogger

PollReqs == {1, 2}
PoStates == {"idle", "out", "superseded", "done", "failed"}

PoType ==
  /\ events \subseteq UNION Watches
  /\ submitted \in [PollReqs -> SUBSET UNION Watches]
  /\ mask \in [PollReqs -> SUBSET UNION Watches]
  /\ preq \in [PollReqs -> PoStates]

\* A request has submitted something exactly as long as it is not idle.
PoSubmitted == \A i \in PollReqs : submitted[i] = {} <=> preq[i] = "idle"

\* A handle that is closing watches nothing, so that it submits nothing.
PoClosing == events # {} => pstate = "open"

\* msafd polls for one request only: the newer one makes the older one return.
PoExclusive == preq[1] # "out" \/ preq[2] # "out"

PoInv ==
  PoType /\ PoSubmitted /\ PoClosing /\ PoExclusive /\ PO!PollClosesIdle /\ PO!PollReportsOnce

LEMMA PoInit == Init => PoInv
<1> SUFFICES ASSUME PO!Init
             PROVE  PoInv
  BY DEF Init
<1> QED
  BY DEF PO!Init, PO!Reqs, PollReqs, PoStates, PoInv, PoType, PoSubmitted, PoClosing, PoExclusive,
     PO!PollClosesIdle, PO!PollReportsOnce

\* A poll that is submitted for an open handle leaves the requests in order.
LEMMA PoSubmit ==
  ASSUME PoInv, NEW W \in SUBSET UNION Watches, W \ PO!Outstanding # {},
         PO!SubmitReq(W, submitted), pstate = "open", pstate' = "open",
         events' \subseteq UNION Watches
  PROVE  PoInv'
<1>1. CASE \A i \in PollReqs : submitted[i] # {}
  <2>1. submitted' = submitted /\ UNCHANGED <<mask, preq>>
    BY <1>1 DEF PO!SubmitReq, PO!Reqs, PollReqs
  <2> QED
    BY <2>1 DEF PoInv, PoType, PoSubmitted, PoClosing, PoExclusive, PO!PollClosesIdle,
       PO!PollReportsOnce, PO!Reqs, PO!Other
<1>2. CASE \E i \in PollReqs : submitted[i] = {}
  <2>1. PICK i \in PollReqs, st \in {"out", "failed"} :
          /\ submitted[i] = {}
          /\ submitted' = [submitted EXCEPT ![i] = W]
          /\ mask' = [j \in PollReqs |-> IF j = i THEN {} ELSE W]
          /\ preq' = [preq EXCEPT ![i] = st,
                        ![PO!Other(i)] = IF @ = "out" /\ st = "out" THEN "superseded" ELSE @]
    <3>1. LET Free == {i \in PO!Reqs : submitted[i] = {}}
              i    == IF 1 \in Free THEN 1 ELSE 2
          IN  i \in PollReqs /\ submitted[i] = {} /\ Free # {}
      BY <1>2 DEF PO!Reqs, PollReqs
    <3> QED
      BY <3>1 DEF PO!SubmitReq, PO!Reqs, PollReqs
  <2>2. W # {} /\ preq[i] = "idle"
    BY <2>1 DEF PoInv, PoSubmitted
  <2> DEFINE o == PO!Other(i)
  <2>3. o \in PollReqs /\ o # i /\ PO!Other(o) = i /\ PollReqs = {i, o}
    BY DEF PO!Other, PollReqs
  <2> HIDE DEF o
  <2>4. /\ preq'[i] = st /\ preq' \in [PollReqs -> PoStates]
        /\ preq'[o] = IF preq[o] = "out" /\ st = "out" THEN "superseded" ELSE preq[o]
    BY <2>1, <2>3 DEF PoInv, PoType, PoStates, o
  <2>5. /\ submitted' \in [PollReqs -> SUBSET UNION Watches]
        /\ submitted'[i] = W /\ submitted'[o] = submitted[o]
    BY <2>1, <2>3 DEF PoInv, PoType
  <2>6. mask' \in [PollReqs -> SUBSET UNION Watches] /\ mask'[o] = W
    BY <2>1, <2>3 DEF PoInv, PoType
  <2>7. PoType' /\ PoClosing' /\ PO!PollClosesIdle'
    BY <2>4, <2>5, <2>6 DEF PoType, PoClosing, PO!PollClosesIdle
  <2>8. PoSubmitted'
    BY <2>2, <2>3, <2>4, <2>5 DEF PoInv, PoSubmitted
  <2>9. PoExclusive'
    BY <2>3, <2>4 DEF PoExclusive, PollReqs
  <2>10. PO!PollReportsOnce'
    <3>1. preq'[o] = "out" => preq'[i] \notin {"superseded", "done"}
      BY <2>1, <2>4
    <3> QED
      BY <2>3, <2>5, <2>6, <3>1 DEF PO!PollReportsOnce, PO!Reqs, PollReqs, o
  <2> QED
    BY <2>7, <2>8, <2>9, <2>10 DEF PoInv
<1> QED
  BY <1>1, <1>2

LEMMA PoNext ==
  ASSUME PoInv, PO!Next
  PROVE  PoInv'
<1> USE DEF PoInv
<1>1. ASSUME NEW W \in Watches, PO!Set(W)
      PROVE  PoInv'
  <2>1. pstate = "open" /\ pstate' = "open" /\ events' = W /\ W \in SUBSET UNION Watches
    BY <1>1 DEF PO!Set
  <2>2. CASE W \ PO!Outstanding # {}
    BY <1>1, <2>1, <2>2, PoSubmit DEF PO!Set
  <2>3. CASE W \ PO!Outstanding = {}
    <3>1. UNCHANGED <<submitted, mask, preq>>
      BY <1>1, <2>3 DEF PO!Set, PO!reqVars
    <3> QED
      BY <2>1, <3>1 DEF PoType, PoSubmitted, PoClosing, PoExclusive, PO!PollClosesIdle,
         PO!PollReportsOnce, PO!Reqs, PO!Other
  <2> QED
    BY <2>2, <2>3
<1>2. ASSUME PO!Close
      PROVE  PoInv'
  <2>1. /\ events' = {} /\ UNCHANGED <<submitted, mask>>
        /\ \/ preq' = [i \in PollReqs |-> IF preq[i] = "out" THEN "superseded" ELSE preq[i]]
           \/ UNCHANGED preq
        /\ \/ submitted[1] \cup submitted[2] = {} /\ pstate' = "endgame"
           \/ pstate' \in {"uncancelled", "closing"}
    BY <1>2 DEF PO!Close, PO!Outstanding, PO!Reqs, PollReqs
  <2>2. /\ preq' \in [PollReqs -> PoStates]
        /\ \A i \in PollReqs : preq'[i] = preq[i] \/ (preq[i] = "out" /\ preq'[i] = "superseded")
    BY <2>1 DEF PoType, PoStates
  <2>3. preq'[1] # "out" \/ preq'[2] # "out"
    BY <2>2 DEF PoExclusive, PollReqs
  <2>4. PoType' /\ PoSubmitted' /\ PoClosing' /\ PoExclusive' /\ PO!PollClosesIdle'
    BY <2>1, <2>2, <2>3 DEF PoType, PoSubmitted, PoClosing, PoExclusive, PO!PollClosesIdle,
       PO!Reqs, PollReqs
  <2>5. PO!PollReportsOnce'
    BY <2>1, <2>2, <2>3 DEF PO!PollReportsOnce, PO!Reqs, PO!Other, PollReqs
  <2> QED
    BY <2>4, <2>5
<1>3. ASSUME PO!SocketChanges \/ PO!UserReturns
      PROVE  PoInv'
  <2>1. UNCHANGED <<events, submitted, mask, preq, pstate>>
    BY <1>3 DEF PO!SocketChanges, PO!UserReturns, PO!handleVars, PO!reqVars
  <2> QED
    BY <2>1 DEF PoType, PoSubmitted, PoClosing, PoExclusive, PO!PollClosesIdle,
       PO!PollReportsOnce, PO!Reqs, PO!Other
<1>4. ASSUME NEW i \in PollReqs,
             PO!Returns(i) \/ PO!LocalClose(i) \/ PO!Interrupted(i) \/ PO!Fails(i)
      PROVE  PoInv'
  <2>1. PICK st \in {"done", "failed"} :
          /\ preq[i] \in {"out", "superseded"} /\ preq' = [preq EXCEPT ![i] = st]
          /\ UNCHANGED <<events, submitted, mask, pstate>>
    BY <1>4 DEF PO!Returns, PO!LocalClose, PO!Interrupted, PO!Fails, PO!handleVars
  <2>2. preq' \in [PollReqs -> PoStates] /\ \A j \in PollReqs : preq'[j] = IF j = i THEN st ELSE preq[j]
    BY <2>1 DEF PoType, PoStates
  <2>3. PoType' /\ PoSubmitted' /\ PoClosing' /\ PoExclusive' /\ PO!PollClosesIdle'
    BY <2>1, <2>2 DEF PoType, PoSubmitted, PoClosing, PoExclusive, PO!PollClosesIdle, PO!Reqs,
       PollReqs
  <2>4. PO!PollReportsOnce'
    BY <2>1, <2>2 DEF PoExclusive, PO!PollReportsOnce, PO!Reqs, PO!Other, PollReqs
  <2> QED
    BY <2>3, <2>4
<1>5. ASSUME NEW i \in PollReqs, PO!Process(i)
      PROVE  PoInv'
  <2>1. /\ preq' = [preq EXCEPT ![i] = "idle"] /\ submitted' = [submitted EXCEPT ![i] = {}]
        /\ events' \in {{}, events} /\ UNCHANGED <<mask, pstate>>
    BY <1>5 DEF PO!Process
  <2>2. /\ preq' \in [PollReqs -> PoStates]
        /\ \A j \in PollReqs : preq'[j] = IF j = i THEN "idle" ELSE preq[j]
    BY <2>1 DEF PoType, PoStates
  <2>3. /\ submitted' \in [PollReqs -> SUBSET UNION Watches]
        /\ \A j \in PollReqs : submitted'[j] = IF j = i THEN {} ELSE submitted[j]
    BY <2>1 DEF PoType
  <2>4. PoType' /\ PoSubmitted' /\ PoClosing' /\ PoExclusive' /\ PO!PollClosesIdle'
    BY <2>1, <2>2, <2>3 DEF PoType, PoSubmitted, PoClosing, PoExclusive, PO!PollClosesIdle,
       PO!Reqs, PollReqs
  <2>5. PO!PollReportsOnce'
    BY <2>1, <2>2, <2>3 DEF PO!PollReportsOnce, PO!Reqs, PO!Other, PollReqs
  <2> QED
    BY <2>4, <2>5
<1>6. ASSUME PO!ProcessRest
      PROVE  PoInv'
  <2>1. CASE events \ PO!Outstanding # {}
    <3>1. pstate = "open" /\ pstate' = "open" /\ events' = events /\ PO!SubmitReq(events, submitted)
      BY <1>6, <2>1 DEF PO!ProcessRest, PoClosing
    <3> QED
      BY <2>1, <3>1, PoSubmit DEF PoType
  <2>2. CASE events \ PO!Outstanding = {}
    <3>1. /\ UNCHANGED <<events, submitted, mask, preq>>
          /\ \/ pstate' = pstate
             \/ pstate' = "endgame" /\ submitted[1] \cup submitted[2] = {}
      BY <1>6, <2>2 DEF PO!ProcessRest, PO!reqVars, PO!Outstanding
    <3>2. pstate' = pstate \/ \A i \in PollReqs : preq[i] = "idle"
      <4>1. submitted[1] \cup submitted[2] = {} => submitted[1] = {} /\ submitted[2] = {}
        OBVIOUS
      <4> QED
        BY <3>1, <4>1 DEF PoSubmitted, PollReqs
    <3>3. PO!PollClosesIdle'
      BY <3>1, <3>2 DEF PO!PollClosesIdle, PO!Reqs, PollReqs
    <3>4. PoClosing'
      BY <2>2, <3>1 DEF PoClosing, PO!Outstanding
    <3> QED
      BY <3>1, <3>3, <3>4 DEF PoType, PoSubmitted, PoExclusive, PO!PollReportsOnce, PO!Reqs,
         PO!Other
  <2> QED
    BY <2>1, <2>2
<1>7. ASSUME PO!Endgame
      PROVE  PoInv'
  <2>1. /\ UNCHANGED <<events, submitted, mask, preq>>
        /\ pstate = "endgame" /\ pstate' = "closed"
    BY <1>7 DEF PO!Endgame, PO!reqVars
  <2> QED
    BY <2>1 DEF PoType, PoSubmitted, PoClosing, PoExclusive, PO!PollClosesIdle,
       PO!PollReportsOnce, PO!Reqs, PO!Other
<1> QED
  BY <1>1, <1>2, <1>3, <1>4, <1>5, <1>6, <1>7 DEF PO!Next, PO!System, PO!LoopStep, PO!Reqs, PollReqs

LEMMA PoKeeps ==
  ASSUME PoInv, [Next]_vars
  PROVE  PoInv'
<1>1. CASE UNCHANGED pollVars
  BY <1>1 DEF pollVars, PoInv, PoType, PoSubmitted, PoClosing, PoExclusive, PO!PollClosesIdle,
     PO!PollReportsOnce, PO!Reqs, PO!Other
<1> QED
  BY <1>1, PollStep, PoNext

-----------------------------------------------------------------------------
(* Signals on Windows, win/signal.c. *)

LEMMA WinSignalStep ==
  ASSUME [Next]_vars
  PROVE  WS!Next \/ UNCHANGED winSignalVars
BY DEF Next, vars, OnlyStream, OnlyAsync, OnlySignal, OnlyFsPoll, OnlyLoop, OnlyTimers,
       OnlyHeap, OnlyUnixIo, OnlyWinSignal, OnlyPipe, OnlyPipeServer, OnlyTcp, OnlyTcpServer,
       OnlyPoll, OnlyLogger

WsFlags == {"ACTIVE", "CLOSING", "CLOSED", "ENDGAME_QUEUED", "ONE_SHOT", "DISPATCHED"}

WsType ==
  /\ ws_signum \in [SigHandles -> SigNums \cup {NoSig}]
  /\ pending_signum \in [SigHandles -> SigNums \cup {NoSig}]
  /\ wflags \in [SigHandles -> SUBSET WsFlags]
  /\ posted \in [SigHandles -> {0, 1}]
  /\ ws_owed \in [SigHandles -> BOOLEAN]
  /\ raising \in [sig : SigNums \cup {NoSig}, todo : SUBSET SigHandles,
                  h : SigHandles \cup {NoSig}, flags : SUBSET WsFlags]
  /\ ls_pc \in {"run", "insert", "activate", "store", "after"}
  /\ ls_handle \in SigHandles \cup {NoSig} /\ (ls_pc # "run" => ls_handle \in SigHandles)
  /\ ls_pc = "insert" => ls_signum \in SigNums
  /\ ls_flags \in SUBSET WsFlags
  /\ in_callback \in SigHandles \cup {NoSig}

\* The walk is under the lock, and those it still visits watch the signal.
WsWalk ==
  /\ raising.sig = NoSig => raising.todo = {} /\ raising.h = NoSig
  /\ \A h \in raising.todo : ws_signum[h] = raising.sig

\* Whom a signal is on its way to.
WsMarked ==
  \A h \in SigHandles :
    /\ posted[h] = 1 => pending_signum[h] # NoSig
    /\ ws_owed[h] => posted[h] = 1 /\ pending_signum[h] = ws_signum[h]
    /\ pending_signum[h] # NoSig => posted[h] = 1 \/ "DISPATCHED" \in wflags[h]

\* A watcher that is being started is out of the tree until it is inserted; then its
\* flags are stored without a mark only while its request is posted.
WsStarting ==
  /\ ls_pc = "insert" => ws_signum[ls_handle] = NoSig /\ ~ws_owed[ls_handle]
  /\ ls_pc \in {"activate", "store"} /\ raising.h = ls_handle => posted[ls_handle] = 1
  /\ ls_pc = "store" /\ "DISPATCHED" \in wflags[ls_handle] /\ "DISPATCHED" \notin ls_flags
       => posted[ls_handle] = 1

WsInv == WsType /\ WsWalk /\ WsMarked /\ WsStarting

LEMMA WsInit == Init => WsInv
<1> SUFFICES ASSUME WS!Init
             PROVE  WsInv
  BY DEF Init
<1> QED
  BY SignalsAssumption DEF WS!Init, WS!Still, WsInv, WsType, WsWalk, WsMarked, WsStarting

\* The system's thread.
LEMMA WsDispatch ==
  ASSUME WsInv,
         \/ WS!Raise \/ WS!MarkDispatched \/ WS!DispatchEnds
         \/ \E h \in SigHandles : WS!Mark(h)
  PROVE  WsInv'
<1> USE DEF WsInv
<1>1. ASSUME WS!Raise
      PROVE  WsInv'
  <2>1. PICK s \in SigNums :
          raising' = [sig |-> s, todo |-> {h \in SigHandles : ws_signum[h] = s}, h |-> NoSig, flags |-> {}]
    BY <1>1 DEF WS!Raise, WS!Still
  <2>2. /\ UNCHANGED <<ws_signum, pending_signum, wflags, posted, ls_pc, ls_handle, ls_signum,
                       ls_flags, in_callback, ws_owed>>
    BY <1>1 DEF WS!Raise, WS!loopAt
  <2>3. WsType'
    BY <2>1, <2>2 DEF WsType
  <2>4. WsWalk'
    BY <2>1, <2>2, SignalsAssumption DEF WsWalk
  <2>5. WsMarked'
    BY <2>2 DEF WsMarked
  <2>6. WsStarting'
    BY <2>1, <2>2, SignalsAssumption DEF WsStarting, WsType
  <2> QED
    BY <2>3, <2>4, <2>5, <2>6
<1>2. ASSUME NEW h \in SigHandles, WS!Mark(h)
      PROVE  WsInv'
  <2>1. /\ h \in raising.todo /\ raising.h = NoSig /\ raising.sig \in SigNums
        /\ raising.sig = ws_signum[h]
        /\ pending_signum' = [pending_signum EXCEPT ![h] = raising.sig]
        /\ UNCHANGED <<ws_signum, wflags, ls_pc, ls_handle, ls_signum, ls_flags, in_callback>>
    BY <1>2, SignalsAssumption DEF WS!Mark, WS!loopAt, WsWalk, WsType
  <2>2. /\ pending_signum' \in [SigHandles -> SigNums \cup {NoSig}]
        /\ \A x \in SigHandles :
             pending_signum'[x] = IF x = h THEN raising.sig ELSE pending_signum[x]
    BY <2>1 DEF WsType
  <2>3. h # ls_handle \/ ls_pc # "insert"
    BY <2>1, SignalsAssumption DEF WsStarting
  <2>4. CASE "DISPATCHED" \in wflags[h]
    <3>1. /\ raising' = [raising EXCEPT !.todo = @ \ {h}]
          /\ UNCHANGED <<posted, ws_owed>>
      BY <1>2, <2>4 DEF WS!Mark
    <3>2. /\ raising' \in [sig : SigNums \cup {NoSig}, todo : SUBSET SigHandles,
                           h : SigHandles \cup {NoSig}, flags : SUBSET WsFlags]
          /\ raising'.sig = raising.sig /\ raising'.todo = raising.todo \ {h}
          /\ raising'.h = raising.h
      BY <3>1 DEF WsType
    <3>3. WsType'
      BY <2>1, <2>2, <3>1, <3>2 DEF WsType
    <3>4. WsWalk'
      BY <2>1, <3>2 DEF WsWalk
    <3>5. WsMarked'
      BY <2>1, <2>2, <2>4, <3>1, SignalsAssumption DEF WsMarked
    <3>6. WsStarting'
      BY <2>1, <3>1, <3>2 DEF WsStarting
    <3> QED
      BY <3>3, <3>4, <3>5, <3>6
  <2>5. CASE "DISPATCHED" \notin wflags[h]
    <3>1. /\ raising' = [raising EXCEPT !.todo = @ \ {h}, !.flags = wflags[h],
                                        !.h = IF "ONE_SHOT" \in wflags[h] THEN h ELSE NoSig]
          /\ posted' = [posted EXCEPT ![h] = IF pending_signum[h] = NoSig THEN @ + 1 ELSE @]
          /\ ws_owed' = [ws_owed EXCEPT ![h] = TRUE]
      BY <1>2, <2>5 DEF WS!Mark
    <3>2. /\ raising' \in [sig : SigNums \cup {NoSig}, todo : SUBSET SigHandles,
                           h : SigHandles \cup {NoSig}, flags : SUBSET WsFlags]
          /\ raising'.sig = raising.sig /\ raising'.todo = raising.todo \ {h}
          /\ raising'.h \in {h, NoSig}
      BY <3>1 DEF WsType
    <3>3. IF pending_signum[h] = NoSig THEN posted[h] = 0 ELSE posted[h] = 1
      BY <2>5 DEF WsMarked, WsType
    <3>4. /\ posted' \in [SigHandles -> {0, 1}]
          /\ \A x \in SigHandles : posted'[x] = IF x = h THEN 1 ELSE posted[x]
      BY <3>1, <3>3 DEF WsType
    <3>5. /\ ws_owed' \in [SigHandles -> BOOLEAN]
          /\ \A x \in SigHandles \ {h} : ws_owed'[x] = ws_owed[x]
      BY <3>1 DEF WsType
    <3>6. WsType'
      BY <2>1, <2>2, <3>2, <3>4, <3>5 DEF WsType
    <3>7. WsWalk'
      BY <2>1, <3>2, SignalsAssumption DEF WsWalk
    <3>8. WsMarked'
      BY <2>1, <2>2, <3>4, <3>5, SignalsAssumption DEF WsMarked
    <3>9. WsStarting'
      BY <2>1, <2>3, <3>2, <3>4, <3>5, SignalsAssumption DEF WsStarting, WsType
    <3> QED
      BY <3>6, <3>7, <3>8, <3>9
  <2> QED
    BY <2>4, <2>5
<1>3. ASSUME WS!MarkDispatched
      PROVE  WsInv'
  <2>1. /\ raising.h \in SigHandles
        /\ wflags' = [wflags EXCEPT ![raising.h] = raising.flags \cup {"DISPATCHED"}]
        /\ raising' = [raising EXCEPT !.h = NoSig]
        /\ UNCHANGED <<ws_signum, pending_signum, posted, ls_pc, ls_handle, ls_signum,
                       ls_flags, in_callback, ws_owed>>
    BY <1>3 DEF WS!MarkDispatched, WS!loopAt, WsType
  <2>2. /\ raising' \in [sig : SigNums \cup {NoSig}, todo : SUBSET SigHandles,
                         h : SigHandles \cup {NoSig}, flags : SUBSET WsFlags]
        /\ raising'.sig = raising.sig /\ raising'.todo = raising.todo /\ raising'.h = NoSig
    BY <2>1 DEF WsType
  <2>3. /\ wflags' \in [SigHandles -> SUBSET WsFlags]
        /\ \A x \in SigHandles : "DISPATCHED" \in wflags'[x]
                                   <=> x = raising.h \/ "DISPATCHED" \in wflags[x]
    BY <2>1 DEF WsType, WsFlags
  <2>4. WsType'
    BY <2>1, <2>2, <2>3 DEF WsType
  <2>5. WsWalk'
    BY <2>1, <2>2 DEF WsWalk
  <2>6. WsMarked'
    BY <2>1, <2>3 DEF WsMarked
  <2>7. WsStarting'
    BY <2>1, <2>2, <2>3, SignalsAssumption DEF WsStarting, WsType
  <2> QED
    BY <2>4, <2>5, <2>6, <2>7
<1>4. ASSUME WS!DispatchEnds
      PROVE  WsInv'
  <2>1. /\ raising' = [sig |-> NoSig, todo |-> {}, h |-> NoSig, flags |-> {}]
        /\ UNCHANGED <<ws_signum, pending_signum, wflags, posted, ls_pc, ls_handle, ls_signum,
                       ls_flags, in_callback, ws_owed>>
    BY <1>4 DEF WS!DispatchEnds, WS!Still, WS!loopAt
  <2> QED
    BY <2>1, SignalsAssumption DEF WsType, WsWalk, WsMarked, WsStarting
<1> QED
  BY <1>1, <1>2, <1>3, <1>4

\* uv_signal_stop of a handle: nobody visits it any more.
LEMMA WsStops ==
  ASSUME WsInv, NEW h \in SigHandles, WS!Stopped(h)
  PROVE  /\ ws_signum' \in [SigHandles -> SigNums \cup {NoSig}]
         /\ ws_signum'[h] = NoSig /\ \A x \in SigHandles \ {h} : ws_signum'[x] = ws_signum[x]
         /\ ws_owed' \in [SigHandles -> BOOLEAN]
         /\ ~ws_owed'[h] /\ \A x \in SigHandles \ {h} : ws_owed'[x] = ws_owed[x]
         /\ h \notin raising.todo
<1>1. PICK f : f = FALSE
  OBVIOUS
<1>2. /\ ws_signum[h] # NoSig => raising.sig = NoSig
      /\ ws_signum' = [ws_signum EXCEPT ![h] = NoSig] /\ ws_owed' = [ws_owed EXCEPT ![h] = f]
  BY <1>1 DEF WS!Stopped, WS!LockFree
<1>3. h \notin raising.todo
  BY <1>2, SignalsAssumption DEF WsInv, WsWalk
<1>4. /\ ws_signum' \in [SigHandles -> SigNums \cup {NoSig}]
      /\ ws_signum'[h] = NoSig /\ \A x \in SigHandles \ {h} : ws_signum'[x] = ws_signum[x]
  BY <1>2 DEF WsInv, WsType
<1>5. f \in BOOLEAN
  BY <1>1
<1>6. /\ ws_owed' \in [SigHandles -> BOOLEAN]
      /\ ws_owed'[h] = f /\ \A x \in SigHandles \ {h} : ws_owed'[x] = ws_owed[x]
  BY <1>2, <1>5 DEF WsInv, WsType
<1> QED
  BY <1>1, <1>3, <1>4, <1>6

\* The flags change, but not who was dispatched.
WsFlagsStay ==
  /\ wflags' \in [SigHandles -> SUBSET WsFlags]
  /\ \A x \in SigHandles : "DISPATCHED" \in wflags'[x] <=> "DISPATCHED" \in wflags[x]

LEMMA WsFlagsChange ==
  ASSUME WsInv, NEW h \in SigHandles, NEW F \in SUBSET WsFlags,
         wflags' = [wflags EXCEPT ![h] = F], "DISPATCHED" \in F <=> "DISPATCHED" \in wflags[h]
  PROVE  WsFlagsStay
BY DEF WsFlagsStay, WsInv, WsType

\* The program's calls.
LEMMA WsUser ==
  ASSUME WsInv, NEW h \in SigHandles,
         WS!Stop(h) \/ WS!Close(h) \/ \E s \in SigNums : WS!Start(h, s)
  PROVE  WsInv'
<1>1. WS!Stopped(h) /\ ls_pc = "run"
  BY DEF WS!Stop, WS!Close, WS!Start, WS!UserRuns
<1>2. /\ UNCHANGED <<pending_signum, posted, raising, ls_flags, in_callback>>
      /\ \/ UNCHANGED <<ls_pc, ls_handle, ls_signum>>
         \/ ls_pc' = "insert" /\ ls_handle' = h /\ ls_signum' \in SigNums
  BY DEF WS!Stop, WS!Close, WS!Start, WS!loopAt, WS!walk
<1>3. WsFlagsStay
  <2>1. CASE WS!Stop(h)
    <3>1. PICK F : F = wflags[h] \ {"ACTIVE"}
      OBVIOUS
    <3>2. /\ wflags' = [wflags EXCEPT ![h] = F]
          /\ F \in SUBSET WsFlags /\ ("DISPATCHED" \in F <=> "DISPATCHED" \in wflags[h])
      BY <2>1, <3>1 DEF WS!Stop, WsInv, WsType
    <3> QED
      BY <3>2, WsFlagsChange
  <2>2. CASE WS!Close(h)
    <3>1. PICK F : F = (wflags[h] \ {"ACTIVE"}) \cup {"CLOSING"} \cup
                         (IF pending_signum[h] = NoSig THEN {"ENDGAME_QUEUED"} ELSE {})
      OBVIOUS
    <3>2. /\ wflags' = [wflags EXCEPT ![h] = F]
          /\ F \in SUBSET WsFlags /\ ("DISPATCHED" \in F <=> "DISPATCHED" \in wflags[h])
      BY <2>2, <3>1 DEF WS!Close, WsInv, WsType, WsFlags
    <3> QED
      BY <3>2, WsFlagsChange
  <2>3. CASE \E s \in SigNums : WS!Start(h, s)
    <3>1. PICK F : F = IF ws_signum[h] = NoSig THEN wflags[h] ELSE wflags[h] \ {"ACTIVE"}
      OBVIOUS
    <3>2. /\ wflags' = [wflags EXCEPT ![h] = F]
          /\ F \in SUBSET WsFlags /\ ("DISPATCHED" \in F <=> "DISPATCHED" \in wflags[h])
      BY <2>3, <3>1 DEF WS!Start, WsInv, WsType
    <3> QED
      BY <3>2, WsFlagsChange
  <2> QED
    BY <2>1, <2>2, <2>3
<1>4. WsType'
  BY <1>1, <1>2, <1>3, WsStops DEF WsInv, WsType, WsFlagsStay
<1>5. WsWalk'
  BY <1>1, <1>2, WsStops DEF WsInv, WsType, WsWalk
<1>6. WsMarked'
  BY <1>1, <1>2, <1>3, WsStops DEF WsInv, WsMarked, WsFlagsStay
<1>7. WsStarting'
  BY <1>1, <1>2, WsStops DEF WsInv, WsStarting
<1> QED
  BY <1>4, <1>5, <1>6, <1>7 DEF WsInv

\* Starting, after the old start was undone.
LEMMA WsStarts ==
  ASSUME WsInv, WS!Insert \/ WS!Activate \/ WS!ActivateStore
  PROVE  WsInv'
<1> USE DEF WsInv
<1>0. /\ ls_pc \in {"insert", "activate", "store"} /\ ls_handle \in SigHandles
      /\ UNCHANGED <<pending_signum, posted, raising, in_callback, ws_owed>>
  BY DEF WS!Insert, WS!Activate, WS!ActivateStore, WS!walk, WsType
<1>1. CASE WS!Insert
  <2>1. /\ raising.sig = NoSig /\ ls_pc = "insert" /\ ls_pc' = "activate"
        /\ ls_signum \in SigNums
        /\ ws_signum' = [ws_signum EXCEPT ![ls_handle] = ls_signum]
        /\ UNCHANGED <<ls_handle, ls_signum, ls_flags>>
    BY <1>1 DEF WS!Insert, WS!LockFree, WsType
  <2>2. WsFlagsStay
    BY <1>0, <1>1 DEF WS!Insert, WsFlagsStay, WsType, WsFlags
  <2>3. /\ ws_signum' \in [SigHandles -> SigNums \cup {NoSig}]
        /\ \A x \in SigHandles \ {ls_handle} : ws_signum'[x] = ws_signum[x]
    BY <1>0, <2>1 DEF WsType
  <2>4. raising.todo = {} /\ raising.h = NoSig /\ ~ws_owed[ls_handle]
    BY <2>1 DEF WsWalk, WsStarting
  <2>5. WsType'
    BY <1>0, <2>1, <2>2, <2>3 DEF WsType, WsFlagsStay
  <2>6. WsWalk'
    BY <1>0, <2>4 DEF WsWalk
  <2>7. WsMarked'
    BY <1>0, <2>2, <2>3, <2>4 DEF WsMarked, WsFlagsStay
  <2>8. WsStarting'
    BY <1>0, <2>1, <2>4, SignalsAssumption DEF WsStarting
  <2> QED
    BY <2>5, <2>6, <2>7, <2>8
<1>2. CASE WS!Activate
  <2>1. /\ ls_pc = "activate" /\ ls_pc' = "store" /\ ls_flags' = wflags[ls_handle]
        /\ UNCHANGED <<ws_signum, wflags, ls_handle, ls_signum>>
    BY <1>2 DEF WS!Activate
  <2>2. WsType'
    BY <1>0, <2>1 DEF WsType
  <2> QED
    BY <1>0, <2>1, <2>2 DEF WsWalk, WsMarked, WsStarting
<1>3. CASE WS!ActivateStore
  <2>1. /\ ls_pc = "store" /\ ls_pc' = "run" /\ ls_handle' = NoSig /\ ls_signum' = NoSig
        /\ ls_flags' = {} /\ UNCHANGED ws_signum
        /\ wflags' = [wflags EXCEPT ![ls_handle] = ls_flags \cup {"ACTIVE"}]
    BY <1>3 DEF WS!ActivateStore
  <2>2. /\ wflags' \in [SigHandles -> SUBSET WsFlags]
        /\ \A x \in SigHandles \ {ls_handle} : wflags'[x] = wflags[x]
        /\ "DISPATCHED" \in wflags'[ls_handle] <=> "DISPATCHED" \in ls_flags
    BY <1>0, <2>1 DEF WsType, WsFlags
  <2>3. WsType'
    BY <1>0, <2>1, <2>2 DEF WsType
  <2>4. WsMarked'
    BY <1>0, <2>1, <2>2 DEF WsMarked, WsStarting
  <2> QED
    BY <1>0, <2>1, <2>3, <2>4 DEF WsWalk, WsStarting
<1> QED
  BY <1>1, <1>2, <1>3

\* The loop takes a request, calls back and finishes handles.
LEMMA WsLoop ==
  ASSUME WsInv,
         \/ WS!CallbackReturns \/ WS!After
         \/ \E h \in SigHandles : WS!ProcessReq(h) \/ WS!Endgame(h)
  PROVE  WsInv'
<1> USE DEF WsInv
<1>1. ASSUME NEW h \in SigHandles, WS!ProcessReq(h)
      PROVE  WsInv'
  <2>6. /\ posted[h] # 0 /\ posted' = [posted EXCEPT ![h] = @ - 1]
        /\ posted \in [SigHandles -> {0, 1}]
    BY <1>1 DEF WS!ProcessReq, WsType
  <2>7. posted[h] = 1 /\ posted' = [posted EXCEPT ![h] = 0]
    <3>1. posted[h] = 1
      BY <2>6
    <3>2. 1 - 1 = 0
      OBVIOUS
    <3> QED
      BY <2>6, <3>1, <3>2, Zenon
  <2>1. /\ ls_pc = "run" /\ posted[h] = 1
        /\ posted' = [posted EXCEPT ![h] = 0]
        /\ pending_signum' = [pending_signum EXCEPT ![h] = NoSig]
        /\ UNCHANGED <<ws_signum, wflags, raising, ls_signum, ls_flags>>
        /\ \/ UNCHANGED <<ls_pc, ls_handle>> /\ in_callback' = h
           \/ ls_pc' = "after" /\ ls_handle' = h /\ UNCHANGED in_callback
    BY <1>1, <2>7 DEF WS!ProcessReq, WS!walk, WS!loopAt
  <2>2. /\ posted' \in [SigHandles -> {0, 1}] /\ posted'[h] = 0
        /\ pending_signum' \in [SigHandles -> SigNums \cup {NoSig}] /\ pending_signum'[h] = NoSig
        /\ \A x \in SigHandles \ {h} : posted'[x] = posted[x] /\ pending_signum'[x] = pending_signum[x]
    BY <2>1 DEF WsType
  <2>3. /\ ws_owed' \in [SigHandles -> BOOLEAN] /\ ~ws_owed'[h]
        /\ \A x \in SigHandles \ {h} : ws_owed'[x] = ws_owed[x]
    <3>1. CASE pending_signum[h] = ws_signum[h] /\ ws_signum[h] # NoSig
      <4>1. PICK f : f = FALSE
        OBVIOUS
      <4>2. f \in BOOLEAN /\ ws_owed' = [ws_owed EXCEPT ![h] = f]
        BY <1>1, <3>1, <4>1 DEF WS!ProcessReq
      <4>3. /\ ws_owed' \in [SigHandles -> BOOLEAN] /\ ws_owed'[h] = f
            /\ \A x \in SigHandles \ {h} : ws_owed'[x] = ws_owed[x]
        BY <4>2 DEF WsType
      <4> QED
        BY <4>1, <4>3
    <3>2. CASE ~(pending_signum[h] = ws_signum[h] /\ ws_signum[h] # NoSig)
      <4>1. UNCHANGED ws_owed
        BY <1>1, <3>2 DEF WS!ProcessReq
      <4>2. ~ws_owed[h]
        BY <2>1, <3>2 DEF WsMarked
      <4> QED
        BY <4>1, <4>2 DEF WsType
    <3> QED
      BY <3>1, <3>2
  <2>4. WsType'
    BY <2>1, <2>2, <2>3 DEF WsType
  <2>5. WsMarked'
    BY <2>1, <2>2, <2>3 DEF WsMarked
  <2> QED
    BY <2>1, <2>4, <2>5 DEF WsWalk, WsStarting
<1>2. CASE WS!CallbackReturns
  <2>1. /\ ls_pc' = "after" /\ ls_handle' \in SigHandles /\ in_callback' = NoSig
        /\ UNCHANGED <<ws_signum, pending_signum, wflags, posted, raising, ls_signum, ls_flags, ws_owed>>
    BY <1>2 DEF WS!CallbackReturns, WS!walk, WsType
  <2> QED
    BY <2>1 DEF WsType, WsWalk, WsMarked, WsStarting
<1>3. CASE WS!After
  <2>1. /\ ls_handle \in SigHandles /\ ls_pc = "after" /\ ls_pc' = "run" /\ ls_handle' = NoSig
        /\ WS!Stopped(ls_handle) \/ UNCHANGED <<ws_signum, ws_owed>>
        /\ UNCHANGED <<pending_signum, posted, raising, ls_signum, ls_flags, in_callback>>
    BY <1>3 DEF WS!After, WS!walk, WsType
  <2>2. WsFlagsStay
    BY <1>3, <2>1 DEF WS!After, WsFlagsStay, WsType, WsFlags
  <2>3. /\ ws_signum' \in [SigHandles -> SigNums \cup {NoSig}]
        /\ ws_owed' \in [SigHandles -> BOOLEAN]
        /\ \A x \in SigHandles : \/ ws_signum'[x] = ws_signum[x] /\ ws_owed'[x] = ws_owed[x]
                                 \/ ~ws_owed'[x] /\ x \notin raising.todo
    BY <2>1, WsStops DEF WsType
  <2>4. WsType'
    BY <2>1, <2>2, <2>3 DEF WsType, WsFlagsStay
  <2>5. WsWalk'
    BY <2>1, <2>3 DEF WsWalk, WsType
  <2>6. WsMarked'
    BY <2>1, <2>2, <2>3 DEF WsMarked, WsFlagsStay
  <2> QED
    BY <2>1, <2>4, <2>5, <2>6 DEF WsStarting
<1>4. ASSUME NEW h \in SigHandles, WS!Endgame(h)
      PROVE  WsInv'
  <2>1. /\ ls_pc = "run"
        /\ UNCHANGED <<ws_signum, pending_signum, posted, raising, ls_pc, ls_handle, ls_signum, ls_flags,
                       in_callback, ws_owed>>
    BY <1>4 DEF WS!Endgame, WS!walk, WS!loopAt
  <2>2. WsFlagsStay
    BY <1>4 DEF WS!Endgame, WsFlagsStay, WsType, WsFlags
  <2>3. WsType'
    BY <2>1, <2>2 DEF WsType, WsFlagsStay
  <2>4. WsMarked'
    BY <2>1, <2>2 DEF WsMarked, WsFlagsStay
  <2> QED
    BY <2>1, <2>3, <2>4 DEF WsWalk, WsStarting
<1> QED
  BY <1>1, <1>2, <1>3, <1>4

LEMMA WsKeeps ==
  ASSUME WsInv, [Next]_vars
  PROVE  WsInv'
<1>1. CASE UNCHANGED winSignalVars
  BY <1>1 DEF winSignalVars, WsInv, WsType, WsWalk, WsMarked, WsStarting
<1>2. CASE WS!Next
  BY <1>2, WsDispatch, WsUser, WsStarts, WsLoop DEF WS!Next
<1> QED
  BY <1>1, <1>2, WinSignalStep

LEMMA WsSound == WsInv => WS!WinSignalCarried /\ WS!WinSignalEndsWaited
BY DEF WsInv, WsType, WsMarked, WS!WinSignalCarried, WS!WinSignalEndsWaited

-----------------------------------------------------------------------------
(* Wakeups on Unix, unix/async.c. *)

LEMMA AsyncStep ==
  ASSUME [Next]_vars
  PROVE  UA!Next \/ UNCHANGED asyncVars
BY DEF Next, vars, OnlyStream, OnlyAsync, OnlySignal, OnlyFsPoll, OnlyLoop, OnlyTimers,
       OnlyHeap, OnlyUnixIo, OnlyWinSignal, OnlyPipe, OnlyPipeServer, OnlyTcp, OnlyTcpServer,
       OnlyPoll, OnlyLogger

UaType ==
  /\ ast \in [Asyncs -> {"open", "closing", "closed"}] /\ pending \in [Asyncs -> {0, 1}]
  /\ async_handles \in Seq(Asyncs) /\ moved \in Seq(Asyncs)
  /\ alpc \in {"poll", "io", "taken", "called"} /\ (alpc = "poll" => moved = <<>>)
  /\ spc \in [Senders -> {"idle", "read", "cas", "write"}] /\ shandle \in [Senders -> Asyncs \cup {Null}]
  /\ \A t \in Senders : spc[t] # "idle" => shandle[t] \in Asyncs
  /\ unseen \in [Asyncs -> BOOLEAN] /\ efd \in BOOLEAN

\* An open handle is in one of the two queues, once, and no other is in any.
UaQueued == \A h \in Asyncs : Times(async_handles, h) + Times(moved, h) = One(ast[h] = "open")

\* The handle taken is open: it is not closed before its callback runs.
UaTaken == alpc = "taken" => taken \in Asyncs /\ ast[taken] = "open"

\* A marked handle is visited in this round, or the loop is woken for the next.
UaWoken ==
  \A h \in Asyncs : pending[h] = 1 /\ ast[h] = "open" =>
    efd \/ Times(moved, h) # 0 \/ \E t \in Senders : spc[t] = "write"

\* What no callback has seen has a thread that is about to mark the handle, a callback
\* that is about to begin, or the mark.
UaUnseen ==
  \A h \in Asyncs \ Silent : unseen[h] /\ ast[h] = "open" =>
    \/ \E t \in Senders : spc[t] \in {"read", "cas"} /\ shandle[t] = h
    \/ alpc = "taken" /\ taken = h
    \/ pending[h] = 1

UaInv == UaType /\ UaQueued /\ UaTaken /\ UaWoken /\ UaUnseen

LEMMA UaCardinality == UA!Cardinality(Asyncs) = Cardinality(Asyncs)
BY DEF UA!Cardinality, Cardinality, UA!IsFiniteSet, IsFiniteSet

LEMMA UaInit == Init => UaInv
<1> SUFFICES ASSUME UA!Init
             PROVE  UaInv
  BY DEF Init
<1>1. PICK n : n = Cardinality(Asyncs)
  OBVIOUS
<1>2. n \in Nat
  BY <1>1, SignalsAssumption, FS_CardinalityType
<1>3. /\ ast = [h \in Asyncs |-> "open"] /\ pending = [h \in Asyncs |-> 0] /\ efd = FALSE
      /\ moved = <<>> /\ alpc = "poll"
      /\ spc = [t \in Senders |-> "idle"] /\ shandle = [t \in Senders |-> Null]
      /\ unseen = [h \in Asyncs |-> FALSE]
  BY DEF UA!Init
<1>4. async_handles \in UA!Bijection(1..n, Asyncs)
  BY <1>1, UaCardinality DEF UA!Init
<1>5. /\ async_handles \in [1..n -> Asyncs]
      /\ \A i, j \in 1..n : async_handles[i] = async_handles[j] => i = j
      /\ \A h \in Asyncs : \E i \in 1..n : async_handles[i] = h
  BY <1>4 DEF UA!Bijection, UA!Injection, UA!Surjection, UA!IsInjective
<1>6. async_handles \in Seq(Asyncs) /\ Len(async_handles) = n
  BY <1>2, <1>5
<1>7. \A h \in Asyncs : Times(async_handles, h) = 1
  <2>1. SUFFICES ASSUME NEW h \in Asyncs
                 PROVE  Times(async_handles, h) = 1
    OBVIOUS
  <2>2. PICK i \in 1..n : async_handles[i] = h
    BY <1>5
  <2>3. Places(async_handles, h) = {i}
    BY <1>5, <1>6, <2>2 DEF Places
  <2> QED
    BY <2>3, FS_Singleton DEF Times
<1>8. <<>> \in Seq(Asyncs)
  OBVIOUS
<1>9. UaType
  BY <1>3, <1>6, <1>8 DEF UaType
<1>10. UaQueued
  BY <1>3, <1>7, TimesEmpty DEF UaQueued, One
<1>11. UaTaken /\ UaWoken /\ UaUnseen
  BY <1>3 DEF UaTaken, UaWoken, UaUnseen
<1> QED
  BY <1>9, <1>10, <1>11 DEF UaInv

\* Taking a handle out of a queue it is in once.
LEMMA UaRemoved ==
  ASSUME NEW q \in Seq(Asyncs), NEW h, Times(q, h) \in {0, 1}
  PROVE  /\ UA!Removed(q, h) \in Seq(Asyncs)
         /\ \A g : Times(UA!Removed(q, h), g) = IF g = h THEN 0 ELSE Times(q, g)
<1>1. DOMAIN q = 1..Len(q)
  OBVIOUS
<1>2. CASE \A i \in 1..Len(q) : q[i] # h
  <2>1. UA!Removed(q, h) = q
    BY <1>1, <1>2 DEF UA!Removed
  <2>2. Times(q, h) = 0
    BY <1>2, TimesFinite
  <2>3. ASSUME NEW g
        PROVE  Times(q, g) = IF g = h THEN 0 ELSE Times(q, g)
    BY <2>2, SMTT(30)
  <2> QED
    BY <2>1, <2>3, ZenonT(40)
<1>3. CASE \E i \in 1..Len(q) : q[i] = h
  <2> DEFINE k == CHOOSE i \in DOMAIN q : q[i] = h
  <2>1. k \in 1..Len(q) /\ q[k] = h
    BY <1>1, <1>3
  <2>2. UA!Removed(q, h) = Cut(q, k)
    BY <1>1, <1>3 DEF UA!Removed, Cut
  <2> HIDE DEF k
  <2>3. Times(q, h) = 1
    BY <1>3, TimesFinite
  <2>4. \A g : Times(Cut(q, k), g) = Times(q, g) - One(h = g) /\ Times(q, g) \in Nat
    <3>1. \A g : Times(Cut(q, k), g) = Times(q, g) - One(q[k] = g)
      BY <2>1, TimesCut, ZenonT(40)
    <3>2. \A g : Times(q, g) \in Nat
      BY TimesFinite
    <3> QED
      BY <2>1, <3>1, <3>2, Zenon
  <2>5. \A g : Times(Cut(q, k), g) = IF g = h THEN 0 ELSE Times(q, g)
    BY <2>3, <2>4 DEF One
  <2> QED
    BY <2>1, <2>2, <2>5, TimesCut
<1> QED
  BY <1>2, <1>3

\* The threads that send.
LEMMA UaSends ==
  ASSUME UaInv, NEW t \in Senders,
         \/ UA!SendReads(t) \/ UA!SendSwaps(t) \/ UA!SendWrites(t)
         \/ \E h \in Asyncs : UA!SendBegins(t, h)
  PROVE  UaInv'
<1> USE DEF UaInv
<1>1. UNCHANGED <<ast, async_handles, moved, alpc, taken>>
  BY DEF UA!SendReads, UA!SendSwaps, UA!SendWrites, UA!SendBegins
<1>2. UaQueued' /\ UaTaken'
  BY <1>1 DEF UaQueued, UaTaken
<1>3. ASSUME NEW h \in Asyncs, UA!SendBegins(t, h)
      PROVE  UaInv'
  <2>0. PICK f \in BOOLEAN : f = TRUE
    OBVIOUS
  <2>1. /\ spc[t] = "idle" /\ spc' = [spc EXCEPT ![t] = "read"]
        /\ shandle' = [shandle EXCEPT ![t] = h]
        /\ unseen' = [unseen EXCEPT ![h] = f] /\ UNCHANGED <<pending, efd>>
    BY <1>3, <2>0 DEF UA!SendBegins
  <2>2. /\ spc' \in [Senders -> {"idle", "read", "cas", "write"}] /\ spc'[t] = "read"
        /\ shandle' \in [Senders -> Asyncs \cup {Null}] /\ shandle'[t] = h
        /\ \A u \in Senders \ {t} : spc'[u] = spc[u] /\ shandle'[u] = shandle[u]
    BY <2>1 DEF UaType
  <2>3. /\ unseen' \in [Asyncs -> BOOLEAN]
        /\ \A g \in Asyncs \ {h} : unseen'[g] = unseen[g]
    BY <2>1 DEF UaType
  <2>4. UaType'
    BY <1>1, <2>1, <2>2, <2>3 DEF UaType
  <2>5. UaWoken'
    BY <1>1, <2>1, <2>2 DEF UaWoken
  <2>6. UaUnseen'
    BY <1>1, <2>1, <2>2, <2>3 DEF UaUnseen
  <2> QED
    BY <1>2, <2>4, <2>5, <2>6
<1>4. CASE UA!SendReads(t)
  <2>1. /\ spc[t] = "read"
        /\ spc' = [spc EXCEPT ![t] = IF pending[shandle[t]] # 0 THEN "idle" ELSE "cas"]
        /\ UNCHANGED <<shandle, unseen, pending, efd>>
    BY <1>4 DEF UA!SendReads
  <2>2. /\ spc' \in [Senders -> {"idle", "read", "cas", "write"}]
        /\ spc'[t] = "cas" \/ (spc'[t] = "idle" /\ pending[shandle[t]] = 1)
        /\ \A u \in Senders \ {t} : spc'[u] = spc[u]
    BY <2>1 DEF UaType
  <2>3. UaType'
    BY <1>1, <2>1, <2>2 DEF UaType
  <2>4. UaWoken'
    BY <1>1, <2>1, <2>2 DEF UaWoken
  <2>5. UaUnseen'
    BY <1>1, <2>1, <2>2 DEF UaUnseen
  <2> QED
    BY <1>2, <2>3, <2>4, <2>5
<1>5. CASE UA!SendSwaps(t)
  <2>1. /\ spc[t] = "cas" /\ shandle[t] \in Asyncs
        /\ pending' = [pending EXCEPT ![shandle[t]] = 1]
        /\ spc' = [spc EXCEPT ![t] = IF pending[shandle[t]] = 0 THEN "write" ELSE "idle"]
        /\ UNCHANGED <<shandle, unseen, efd>>
    BY <1>5 DEF UA!SendSwaps, UaType
  <2>2. /\ spc' \in [Senders -> {"idle", "read", "cas", "write"}]
        /\ spc'[t] = "write" \/ (spc'[t] = "idle" /\ pending[shandle[t]] = 1)
        /\ \A u \in Senders \ {t} : spc'[u] = spc[u]
    BY <2>1 DEF UaType
  <2>3. /\ pending' \in [Asyncs -> {0, 1}] /\ pending'[shandle[t]] = 1
        /\ \A g \in Asyncs : g # shandle[t] => pending'[g] = pending[g]
    BY <2>1 DEF UaType
  <2>4. UaType'
    BY <1>1, <2>1, <2>2, <2>3 DEF UaType
  <2>5. UaWoken'
    BY <1>1, <2>1, <2>2, <2>3 DEF UaWoken
  <2>6. UaUnseen'
    BY <1>1, <2>1, <2>2, <2>3 DEF UaUnseen
  <2> QED
    BY <1>2, <2>4, <2>5, <2>6
<1>6. CASE UA!SendWrites(t)
  <2>1. /\ spc[t] = "write" /\ efd' /\ efd' \in BOOLEAN /\ spc' = [spc EXCEPT ![t] = "idle"]
        /\ UNCHANGED <<shandle, unseen, pending>>
    BY <1>6 DEF UA!SendWrites
  <2>2. /\ spc' \in [Senders -> {"idle", "read", "cas", "write"}] /\ spc'[t] = "idle"
        /\ \A u \in Senders \ {t} : spc'[u] = spc[u]
    BY <2>1 DEF UaType
  <2>3. UaType'
    BY <1>1, <2>1, <2>2 DEF UaType
  <2>4. UaWoken'
    BY <2>1 DEF UaWoken
  <2>5. UaUnseen'
    BY <1>1, <2>1, <2>2 DEF UaUnseen
  <2> QED
    BY <1>2, <2>3, <2>4, <2>5
<1> QED
  BY <1>3, <1>4, <1>5, <1>6

\* The loop.
LEMMA UaLoop ==
  ASSUME UaInv,
         UA!IoBegins \/ UA!TakeHandle \/ UA!CallbackBegins \/ UA!CallbackReturns \/ UA!IoEnds
  PROVE  UaInv'
<1> USE DEF UaInv
<1>1. UNCHANGED <<ast, spc, shandle>>
  BY DEF UA!IoBegins, UA!TakeHandle, UA!CallbackBegins, UA!CallbackReturns, UA!IoEnds, UA!senderVars
<1>2. CASE UA!IoBegins
  <2>1. /\ alpc = "poll" /\ efd' \in BOOLEAN /\ moved' = async_handles /\ async_handles' = <<>>
        /\ alpc' = "io" /\ UNCHANGED <<pending, taken, unseen>>
    BY <1>2 DEF UA!IoBegins
  <2>2. moved = <<>> /\ <<>> \in Seq(Asyncs)
    BY <2>1 DEF UaType
  <2>3. UaType'
    BY <1>1, <2>1, <2>2 DEF UaType
  <2>4. UaQueued'
    <3>1. SUFFICES ASSUME NEW h \in Asyncs
                   PROVE  Times(<<>>, h) + Times(async_handles, h) = One(ast[h] = "open")
      BY <1>1, <2>1 DEF UaQueued
    <3>2. Times(async_handles, h) + Times(<<>>, h) = One(ast[h] = "open")
      BY <2>2 DEF UaQueued
    <3>3. Times(<<>>, h) = 0 /\ Times(async_handles, h) \in Nat
      BY TimesEmpty, TimesFinite DEF UaType
    <3> QED
      BY <3>2, <3>3
  <2>5. UaWoken'
    <3>1. ASSUME NEW h \in Asyncs, ast[h] = "open"
          PROVE  Times(async_handles, h) # 0
      <4>1. Times(async_handles, h) + Times(<<>>, h) = 1
        BY <2>2, <3>1 DEF UaQueued, One
      <4>2. Times(<<>>, h) = 0
        BY TimesEmpty
      <4> QED
        BY <4>1, <4>2
    <3> QED
      BY <1>1, <2>1, <3>1 DEF UaWoken
  <2>6. UaTaken' /\ UaUnseen'
    BY <1>1, <2>1 DEF UaTaken, UaUnseen
  <2> QED
    BY <2>3, <2>4, <2>5, <2>6
<1>3. CASE UA!TakeHandle
  <2>1. PICK h : h = Head(moved)
    OBVIOUS
  <2>2. /\ alpc = "io" /\ moved # <<>>
        /\ moved' = Tail(moved) /\ async_handles' = Append(async_handles, h)
        /\ pending' = [pending EXCEPT ![h] = 0]
        /\ \/ (pending[h] = 0 \/ h \in Silent) /\ UNCHANGED <<alpc, taken>>
           \/ pending[h] # 0 /\ h \notin Silent /\ alpc' = "taken" /\ taken' = h
        /\ UNCHANGED <<efd, unseen>>
    BY <1>3, <2>1 DEF UA!TakeHandle
  <2>3. /\ moved' \in Seq(Asyncs) /\ h \in Asyncs
        /\ \A g : Times(moved', g) = Times(moved, g) - One(h = g) /\ Times(moved, g) \in Nat
    BY <2>1, <2>2, TimesTail, TimesFinite DEF UaType
  <2>4. /\ async_handles' \in Seq(Asyncs)
        /\ \A g : /\ Times(async_handles', g) = Times(async_handles, g) + One(h = g)
                  /\ Times(async_handles, g) \in Nat
    BY <2>2, <2>3, TimesAppend, TimesFinite DEF UaType
  <2>5. /\ pending' \in [Asyncs -> {0, 1}] /\ pending'[h] = 0
        /\ \A g \in Asyncs \ {h} : pending'[g] = pending[g]
    BY <2>2, <2>3 DEF UaType
  <2>6. \A b : One(b) \in Nat
    BY DEF One
  <2>7. UaQueued'
    <3>1. SUFFICES ASSUME NEW g \in Asyncs
                   PROVE  Times(async_handles', g) + Times(moved', g) = One(ast[g] = "open")
      BY <1>1 DEF UaQueued
    <3>2. PICK x, y, z \in Nat : x = Times(async_handles, g) /\ y = Times(moved, g) /\ z = One(h = g)
      BY <2>3, <2>4, <2>6
    <3>3. Times(async_handles', g) = x + z /\ Times(moved', g) = y - z
      BY <2>3, <2>4, <3>2
    <3>4. (x + z) + (y - z) = x + y
      OBVIOUS
    <3> QED
      BY <3>2, <3>3, <3>4 DEF UaQueued
  <2>8. ast[h] = "open"
    <3>1. Times(moved, h) # 0
      <4>1. 1 \in 1..Len(moved) /\ moved[1] = h
        BY <2>1, <2>2 DEF UaType
      <4> QED
        BY <4>1, TimesFinite DEF UaType
    <3>2. Times(async_handles, h) + Times(moved, h) # 0
      BY <2>3, <2>4, <3>1
    <3> QED
      BY <2>3, <3>2 DEF UaQueued, One
  <2>9. UaTaken'
    BY <1>1, <2>2, <2>3, <2>8 DEF UaTaken
  <2>10. UaType'
    BY <1>1, <2>2, <2>3, <2>4, <2>5 DEF UaType
  <2>11. UaWoken'
    <3>1. ASSUME NEW g \in Asyncs, g # h
          PROVE  Times(moved', g) = Times(moved, g)
      BY <2>3, <3>1 DEF One
    <3> QED
      BY <1>1, <2>2, <2>5, <3>1 DEF UaWoken
  <2>12. UaUnseen'
    BY <1>1, <2>2, <2>3, <2>5 DEF UaUnseen, UaType
  <2> QED
    BY <2>7, <2>9, <2>10, <2>11, <2>12
<1>4. CASE UA!CallbackBegins
  <2>0. PICK f \in BOOLEAN : f = FALSE
    OBVIOUS
  <2>1. /\ alpc = "taken" /\ alpc' = "called" /\ unseen' = [unseen EXCEPT ![taken] = f]
        /\ UNCHANGED <<pending, efd, async_handles, moved, taken>>
    BY <1>4, <2>0 DEF UA!CallbackBegins
  <2>2. taken \in Asyncs
    BY <2>1 DEF UaTaken
  <2>3. /\ unseen' \in [Asyncs -> BOOLEAN] /\ unseen'[taken] = f
        /\ \A g \in Asyncs \ {taken} : unseen'[g] = unseen[g]
    BY <2>1, <2>2 DEF UaType
  <2>4. UaType'
    BY <1>1, <2>1, <2>3 DEF UaType
  <2>5. UaUnseen'
    BY <1>1, <2>0, <2>1, <2>3 DEF UaUnseen
  <2> QED
    BY <1>1, <2>1, <2>4, <2>5 DEF UaQueued, UaTaken, UaWoken
<1>5. CASE UA!CallbackReturns \/ UA!IoEnds
  <2>1. /\ alpc \in {"called", "io"} /\ alpc' \in {"io", "poll"} /\ (alpc' = "poll" => moved = <<>>)
        /\ UNCHANGED <<pending, efd, async_handles, moved, unseen>>
    BY <1>5 DEF UA!CallbackReturns, UA!IoEnds, UA!senderVars
  <2> QED
    BY <1>1, <2>1 DEF UaType, UaQueued, UaTaken, UaWoken, UaUnseen
<1> QED
  BY <1>2, <1>3, <1>4, <1>5

LEMMA UaCloses ==
  ASSUME UaInv, NEW h \in Asyncs, UA!Close(h) \/ UA!CloseCb(h)
  PROVE  UaInv'
<1> USE DEF UaInv
<1>1. UNCHANGED <<pending, efd, alpc, taken, spc, shandle, unseen>>
  BY DEF UA!Close, UA!CloseCb, UA!senderVars
<1>2. \A g \in Asyncs : /\ Times(async_handles, g) \in Nat /\ Times(moved, g) \in Nat
                        /\ Times(async_handles, g) \in {0, 1} /\ Times(moved, g) \in {0, 1}
  <2>1. SUFFICES ASSUME NEW g \in Asyncs
                 PROVE  /\ Times(async_handles, g) \in Nat /\ Times(moved, g) \in Nat
                        /\ Times(async_handles, g) \in {0, 1} /\ Times(moved, g) \in {0, 1}
    OBVIOUS
  <2>2. Times(async_handles, g) \in Nat /\ Times(moved, g) \in Nat
    BY TimesFinite DEF UaType
  <2>3. Times(async_handles, g) + Times(moved, g) \in {0, 1}
    BY DEF UaQueued, One
  <2> QED
    BY <2>2, <2>3
<1>3. CASE UA!Close(h)
  <2>1. /\ alpc \in {"poll", "called"} /\ ast[h] = "open" /\ ast' = [ast EXCEPT ![h] = "closing"]
        /\ async_handles' = UA!Removed(async_handles, h) /\ moved' = UA!Removed(moved, h)
    BY <1>3 DEF UA!Close
  <2>2. /\ ast' \in [Asyncs -> {"open", "closing", "closed"}] /\ ast'[h] = "closing"
        /\ \A g \in Asyncs \ {h} : ast'[g] = ast[g]
    BY <2>1 DEF UaType
  <2>3. /\ async_handles' \in Seq(Asyncs) /\ moved' \in Seq(Asyncs)
        /\ \A g : /\ Times(async_handles', g) = IF g = h THEN 0 ELSE Times(async_handles, g)
                  /\ Times(moved', g) = IF g = h THEN 0 ELSE Times(moved, g)
    <3>1. /\ async_handles \in Seq(Asyncs) /\ Times(async_handles, h) \in {0, 1}
          /\ moved \in Seq(Asyncs) /\ Times(moved, h) \in {0, 1}
      BY <1>2 DEF UaType
    <3>2. /\ UA!Removed(async_handles, h) \in Seq(Asyncs)
          /\ \A g : Times(UA!Removed(async_handles, h), g) = IF g = h THEN 0 ELSE Times(async_handles, g)
      BY <3>1, UaRemoved, SMTT(15)
    <3>3. /\ UA!Removed(moved, h) \in Seq(Asyncs)
          /\ \A g : Times(UA!Removed(moved, h), g) = IF g = h THEN 0 ELSE Times(moved, g)
      BY <3>1, UaRemoved, SMTT(15)
    <3> QED
      BY <2>1, <3>2, <3>3, Zenon
  <2>4. alpc = "poll" => moved' = <<>>
    <3>1. moved = <<>> => UA!Removed(moved, h) = moved
      BY DEF UA!Removed
    <3> QED
      BY <2>1, <3>1 DEF UaType
  <2>5. UaType'
    BY <1>1, <2>2, <2>3, <2>4 DEF UaType
  <2>6. UaQueued'
    <3>1. SUFFICES ASSUME NEW g \in Asyncs
                   PROVE  Times(async_handles', g) + Times(moved', g) = One(ast'[g] = "open")
      BY DEF UaQueued
    <3>2. CASE g = h
      BY <2>2, <2>3, <3>2 DEF One
    <3>3. CASE g # h
      <4>1. /\ Times(async_handles', g) = Times(async_handles, g) /\ Times(moved', g) = Times(moved, g)
            /\ ast'[g] = ast[g]
        BY <2>2, <2>3, <3>3
      <4> QED
        BY <4>1 DEF UaQueued, One
    <3> QED
      BY <3>2, <3>3
  <2>7. UaTaken' /\ UaWoken' /\ UaUnseen'
    BY <1>1, <2>1, <2>2, <2>3 DEF UaTaken, UaWoken, UaUnseen
  <2> QED
    BY <2>5, <2>6, <2>7
<1>4. CASE UA!CloseCb(h)
  <2>1. /\ alpc = "poll" /\ ast[h] = "closing" /\ ast' = [ast EXCEPT ![h] = "closed"]
        /\ UNCHANGED <<async_handles, moved>>
    BY <1>4 DEF UA!CloseCb
  <2>2. /\ ast' \in [Asyncs -> {"open", "closing", "closed"}] /\ ast'[h] = "closed"
        /\ \A g \in Asyncs \ {h} : ast'[g] = ast[g]
    BY <2>1 DEF UaType
  <2>3. UaType'
    BY <1>1, <2>1, <2>2 DEF UaType
  <2>4. UaQueued'
    BY <2>1, <2>2 DEF UaQueued, One
  <2>5. UaTaken' /\ UaWoken' /\ UaUnseen'
    BY <1>1, <2>1, <2>2 DEF UaTaken, UaWoken, UaUnseen
  <2> QED
    BY <2>3, <2>4, <2>5
<1> QED
  BY <1>3, <1>4

LEMMA UaKeeps ==
  ASSUME UaInv, [Next]_vars
  PROVE  UaInv'
<1>1. CASE UNCHANGED asyncVars
  BY <1>1 DEF asyncVars, UaInv, UaType, UaQueued, UaTaken, UaWoken, UaUnseen
<1>2. CASE UA!Next
  BY <1>2, UaSends, UaLoop, UaCloses DEF UA!Next
<1> QED
  BY <1>1, <1>2, AsyncStep

LEMMA UaSound == UaInv => UA!AsyncSendCarried /\ UA!AsyncCallsOpenOnly
<1> SUFFICES ASSUME UaInv
             PROVE  UA!AsyncSendCarried /\ UA!AsyncCallsOpenOnly
  OBVIOUS
<1> USE DEF UaInv
<1>1. ASSUME NEW q \in Seq(Asyncs), NEW h, Times(q, h) # 0
      PROVE  h \in {q[i] : i \in 1..Len(q)}
  BY <1>1, TimesFinite
<1>2. UA!AsyncSendCarried
  <2>1. \A h \in Asyncs : Times(moved, h) # 0 => h \in {moved[i] : i \in 1..Len(moved)}
    BY <1>1 DEF UaType
  <2> QED
    BY <2>1 DEF UaWoken, UaUnseen, UA!AsyncSendCarried
<1>3. ASSUME NEW q \in {async_handles, moved}, NEW i \in 1..Len(q)
      PROVE  ast[q[i]] = "open"
  <2>1. q \in Seq(Asyncs) /\ q[i] \in Asyncs
    BY DEF UaType
  <2>2. Times(q, q[i]) # 0
    BY <2>1, TimesFinite
  <2>3. Times(async_handles, q[i]) \in Nat /\ Times(moved, q[i]) \in Nat
    BY TimesFinite DEF UaType
  <2>4. Times(async_handles, q[i]) + Times(moved, q[i]) # 0
    BY <2>2, <2>3
  <2> QED
    BY <2>1, <2>4 DEF UaQueued, One
<1> QED
  BY <1>2, <1>3 DEF UA!AsyncCallsOpenOnly, UaTaken

-----------------------------------------------------------------------------
(* Signals on Unix, unix/signal.c. *)

LEMMA SignalStep ==
  ASSUME [Next]_vars
  PROVE  US!Next \/ UNCHANGED signalVars
BY DEF Next, vars, OnlyStream, OnlyAsync, OnlySignal, OnlyFsPoll, OnlyLoop, OnlyTimers,
       OnlyHeap, OnlyUnixIo, OnlyWinSignal, OnlyPipe, OnlyPipeServer, OnlyTcp, OnlyTcpServer,
       OnlyPoll, OnlyLogger

\* The watchers that messages name.
Message == [sig : Signums, handle : Signals]
Named(q) == [i \in 1..Len(q) |-> q[i].handle]

UsType ==
  /\ sst \in [Signals -> {"open", "closing", "pending", "closed"}]
  /\ signum \in [Signals -> Signums \cup {0}]
  /\ caught \in [Signals -> Nat] /\ dispatched \in [Signals -> Nat]
  /\ hpc \in {"idle", "locking", "walking", "written"} /\ (hpc # "idle" => hsig \in Signums)
  /\ todo \in Seq(Signals) /\ (hpc = "written" => todo # <<>>)
  /\ sigpipe \in Seq(Message) /\ buf \in Seq(Message)
  /\ us_lpc \in {"run", "event", "cb", "after"}
  /\ (us_lpc = "run" => buf = <<>>) /\ (us_lpc \in {"cb", "after"} => buf # <<>>)

\* The handler walks under the lock, over watchers of its signal.
UsWalk ==
  /\ hpc \in {"idle", "locking"} => todo = <<>>
  /\ \A i \in 1..Len(todo) : signum[todo[i]] = hsig

UsOpen == \A h \in Signals : signum[h] # 0 => sst[h] = "open"

\* A message is counted as caught after it is written, and as dispatched when it is taken.
UsWritten(h) == One(hpc = "written" /\ Head(todo) = h)
UsCounted ==
  \A h \in Signals :
    caught[h] + UsWritten(h) = dispatched[h] + Times(Named(sigpipe), h) + Times(Named(buf), h)

\* Whose close is due has seen all it caught; who is closing has not.
UsClosing ==
  \A h \in Signals :
    /\ sst[h] \in {"pending", "closed"} => caught[h] = dispatched[h]
    /\ sst[h] = "closing" => caught[h] # dispatched[h]

UsInv == UsType /\ UsWalk /\ UsOpen /\ UsCounted /\ UsClosing

LEMMA NamedFacts ==
  ASSUME NEW q \in Seq(Message)
  PROVE  /\ Named(q) \in Seq(Signals) /\ Len(Named(q)) = Len(q)
         /\ \A i \in 1..Len(q) : Named(q)[i] = q[i].handle
<1>1. Len(q) \in Nat /\ \A i \in 1..Len(q) : q[i].handle \in Signals
  <2>1. Len(q) \in Nat /\ \A i \in 1..Len(q) : q[i] \in Message
    OBVIOUS
  <2>2. \A m \in Message : m.handle \in Signals
    BY DEF Message
  <2> QED
    BY <2>1, <2>2, Zenon
<1>2. Named(q) \in [1..Len(q) -> Signals]
  BY <1>1 DEF Named
<1> QED
  BY <1>1, <1>2 DEF Named

LEMMA NamedAppend ==
  ASSUME NEW q \in Seq(Message), NEW m \in Message
  PROVE  /\ Append(q, m) \in Seq(Message)
         /\ \A h : /\ Times(Named(Append(q, m)), h) = Times(Named(q), h) + One(m.handle = h)
                   /\ Times(Named(q), h) \in Nat
<1>1. /\ Append(q, m) \in Seq(Message) /\ Len(Append(q, m)) = Len(q) + 1 /\ Len(q) \in Nat
      /\ \A i \in 1..Len(q) : Append(q, m)[i] = q[i]
      /\ Append(q, m)[Len(q) + 1] = m
  OBVIOUS
<1>2. PICK n : n = Named(q)
  OBVIOUS
<1>3. PICK a : a = Named(Append(q, m))
  OBVIOUS
<1>4. PICK e : e = m.handle
  OBVIOUS
<1>5. e \in Signals
  BY <1>4 DEF Message
<1>6. n \in Seq(Signals) /\ Len(n) = Len(q) /\ \A i \in 1..Len(q) : n[i] = q[i].handle
  BY <1>2, NamedFacts
<1>7. /\ a \in Seq(Signals) /\ Len(a) = Len(q) + 1
      /\ \A i \in 1..(Len(q) + 1) : a[i] = Append(q, m)[i].handle
  BY <1>1, <1>3, NamedFacts
<1>8. /\ Append(n, e) \in Seq(Signals) /\ Len(Append(n, e)) = Len(q) + 1
      /\ \A i \in 1..Len(q) : Append(n, e)[i] = n[i]
      /\ Append(n, e)[Len(q) + 1] = e
  BY <1>5, <1>6
<1>9. \A i \in 1..Len(a) : a[i] = Append(n, e)[i]
  <2>1. SUFFICES ASSUME NEW i \in 1..(Len(q) + 1)
                 PROVE  a[i] = Append(n, e)[i]
    BY <1>7
  <2>2. CASE i \in 1..Len(q)
    BY <1>1, <1>6, <1>7, <1>8, <2>2
  <2>3. CASE i = Len(q) + 1
    <3>1. a[i] = Append(q, m)[i].handle
      BY <1>7, Zenon
    <3>2. Append(q, m)[i] = m /\ Append(n, e)[i] = e
      BY <1>1, <1>8, <2>3, Zenon
    <3> QED
      BY <1>4, <3>1, <3>2, Zenon
  <2>4. i \in 1..Len(q) \/ i = Len(q) + 1
    <3>1. Len(q) \in Nat
      BY <1>1
    <3> QED
      BY <3>1
  <2> QED
    BY <2>2, <2>3, <2>4, Zenon
<1>10. a = Append(n, e)
  BY <1>7, <1>8, <1>9, SeqEqual
<1>11. \A h : Times(Append(n, e), h) = Times(n, h) + One(e = h) /\ Times(n, h) \in Nat
  BY <1>5, <1>6, TimesAppend, TimesFinite
<1>12. \A h : Times(a, h) = Times(n, h) + One(e = h) /\ Times(n, h) \in Nat
  BY <1>10, <1>11, Zenon
<1>13. ASSUME NEW h
       PROVE  /\ Times(Named(Append(q, m)), h) = Times(Named(q), h) + One(m.handle = h)
              /\ Times(Named(q), h) \in Nat
  <2>1. Times(a, h) = Times(n, h) + One(e = h) /\ Times(n, h) \in Nat
    BY <1>12, Zenon
  <2> QED
    BY <1>2, <1>3, <1>4, <2>1
<1> QED
  BY <1>1, <1>13

LEMMA NamedTail ==
  ASSUME NEW q \in Seq(Message), q # <<>>
  PROVE  /\ Tail(q) \in Seq(Message) /\ Head(q) \in Message
         /\ \A h : /\ Times(Named(Tail(q)), h) = Times(Named(q), h) - One(Head(q).handle = h)
                   /\ Times(Named(q), h) \in Nat
<1>1. /\ Tail(q) \in Seq(Message) /\ Len(Tail(q)) = Len(q) - 1 /\ Len(q) \in Nat \ {0}
      /\ \A i \in 1..(Len(q) - 1) : Tail(q)[i] = q[i + 1]
      /\ Head(q) = q[1] /\ q[1] \in Message
  OBVIOUS
<1>2. PICK n : n = Named(q)
  OBVIOUS
<1>3. PICK a : a = Named(Tail(q))
  OBVIOUS
<1>4. n \in Seq(Signals) /\ Len(n) = Len(q) /\ \A i \in 1..Len(q) : n[i] = q[i].handle
  BY <1>2, NamedFacts, Zenon
<1>5. /\ a \in Seq(Signals) /\ Len(a) = Len(q) - 1
      /\ \A i \in 1..(Len(q) - 1) : a[i] = Tail(q)[i].handle
  BY <1>1, <1>3, NamedFacts, Zenon
<1>6. /\ n # <<>> /\ Tail(n) \in Seq(Signals) /\ Len(Tail(n)) = Len(q) - 1 /\ Head(n) = n[1]
      /\ \A i \in 1..(Len(q) - 1) : Tail(n)[i] = n[i + 1]
  BY <1>1, <1>4
<1>7. \A i \in 1..Len(a) : a[i] = Tail(n)[i]
  <2>1. SUFFICES ASSUME NEW i \in 1..(Len(q) - 1)
                 PROVE  a[i] = Tail(n)[i]
    BY <1>5
  <2>2. i + 1 \in 1..Len(q)
    BY <1>1
  <2>3. a[i] = q[i + 1].handle /\ Tail(n)[i] = n[i + 1] /\ n[i + 1] = q[i + 1].handle
    BY <1>1, <1>4, <1>5, <1>6, <2>2
  <2> QED
    BY <2>3
<1>8. a = Tail(n)
  BY <1>5, <1>6, <1>7, SeqEqual
<1>9. \A h : Times(Tail(n), h) = Times(n, h) - One(Head(n) = h) /\ Times(n, h) \in Nat
  BY <1>4, <1>6, TimesTail, TimesFinite
<1>10. Head(n) = Head(q).handle
  BY <1>1, <1>4, <1>6
<1>11. ASSUME NEW h
       PROVE  /\ Times(Named(Tail(q)), h) = Times(Named(q), h) - One(Head(q).handle = h)
              /\ Times(Named(q), h) \in Nat
  <2>1. Times(Tail(n), h) = Times(n, h) - One(Head(n) = h) /\ Times(n, h) \in Nat
    BY <1>9, Zenon
  <2>2. Times(a, h) = Times(n, h) - One(Head(q).handle = h)
    BY <1>8, <1>10, <2>1, Zenon
  <2> QED
    BY <1>2, <1>3, <2>1, <2>2, Zenon
<1> QED
  BY <1>1, <1>11, Zenon

LEMMA NamedEmpty == Named(<<>>) = <<>> /\ <<>> \in Seq(Message) /\ \A h : Times(Named(<<>>), h) = 0
<1>1. <<>> \in Seq(Message) /\ <<>> \in Seq(Signals) /\ Len(<<>>) = 0
  OBVIOUS
<1>2. Named(<<>>) \in Seq(Signals) /\ Len(Named(<<>>)) = 0
  BY <1>1, NamedFacts
<1>3. Named(<<>>) = <<>>
  BY <1>2
<1> QED
  BY <1>1, <1>3, TimesEmpty

LEMMA UsInit == Init => UsInv
<1> SUFFICES ASSUME US!Init
             PROVE  UsInv
  BY DEF Init
<1>1. /\ sst = [h \in Signals |-> "open"] /\ signum = [h \in Signals |-> 0]
      /\ caught = [h \in Signals |-> 0] /\ dispatched = [h \in Signals |-> 0]
      /\ hpc = "idle" /\ todo = <<>> /\ sigpipe = <<>> /\ buf = <<>> /\ us_lpc = "run"
  BY DEF US!Init
<1>2. UsType
  BY <1>1, NamedEmpty DEF UsType
<1>3. UsWalk /\ UsOpen /\ UsClosing
  BY <1>1 DEF UsWalk, UsOpen, UsClosing
<1>4. UsCounted
  BY <1>1, NamedEmpty DEF UsCounted, UsWritten, One
<1> QED
  BY <1>2, <1>3, <1>4 DEF UsInv

\* The handler is at no watcher that watches nothing, and none while the lock is free.
LEMMA UsAway ==
  ASSUME UsInv, NEW h \in Signals, signum[h] = 0 \/ US!LockFree
  PROVE  (\A i \in 1..Len(todo) : todo[i] # h) /\ UsWritten(h) = 0
<1>1. CASE signum[h] = 0
  <2>1. \A i \in 1..Len(todo) : todo[i] # h
    <3>1. SUFFICES ASSUME NEW i \in 1..Len(todo), todo[i] = h
                   PROVE  FALSE
      OBVIOUS
    <3>2. signum[h] = hsig
      BY <3>1 DEF UsInv, UsWalk
    <3>3. hpc # "idle"
      BY DEF UsInv, UsWalk
    <3> QED
      BY <1>1, <3>2, <3>3, SignalsAssumption DEF UsInv, UsType
  <2>2. hpc = "written" => Head(todo) = todo[1] /\ 1 \in 1..Len(todo)
    BY DEF UsInv, UsType
  <2> QED
    BY <2>1, <2>2 DEF UsWritten, One
<1>2. CASE US!LockFree
  <2>1. todo = <<>> /\ hpc # "written"
    BY <1>2 DEF UsInv, UsType, UsWalk, US!LockFree
  <2> QED
    BY <2>1 DEF UsWritten, One
<1> QED
  BY <1>1, <1>2

\* uv__signal_stop.
LEMMA UsStops ==
  ASSUME UsInv, NEW h \in Signals, US!StopWatcher(h)
  PROVE  /\ signum' \in [Signals -> Signums \cup {0}] /\ signum'[h] = 0
         /\ \A x \in Signals \ {h} : signum'[x] = signum[x]
         /\ \A i \in 1..Len(todo) : todo[i] # h
         /\ UsWritten(h) = 0
<1>1. CASE signum[h] = 0
  <2>1. UNCHANGED signum
    BY <1>1 DEF US!StopWatcher
  <2> QED
    BY <1>1, <2>1, UsAway DEF UsInv, UsType
<1>2. CASE signum[h] # 0
  <2>1. US!LockFree /\ signum' = [signum EXCEPT ![h] = 0]
    BY <1>2 DEF US!StopWatcher
  <2>2. /\ signum' \in [Signals -> Signums \cup {0}] /\ signum'[h] = 0
        /\ \A x \in Signals \ {h} : signum'[x] = signum[x]
    BY <2>1 DEF UsInv, UsType
  <2> QED
    BY <2>1, <2>2, UsAway
<1> QED
  BY <1>1, <1>2

\* The handler.
LEMMA UsHandles ==
  ASSUME UsInv,
         \/ \E s \in Signums : US!Deliver(s)
         \/ US!HandlerLocks \/ US!HandlerWrites \/ US!HandlerCounts \/ US!HandlerUnlocks
  PROVE  UsInv'
<1> USE DEF UsInv
<1>0. UNCHANGED <<sst, signum, dispatched, buf, us_lpc>>
  BY DEF US!Deliver, US!HandlerLocks, US!HandlerWrites, US!HandlerCounts, US!HandlerUnlocks, US!loopVars
<1>1. ASSUME NEW s \in Signums, US!Deliver(s)
      PROVE  UsInv'
  <2>1. /\ hpc = "idle" /\ hpc' = "locking" /\ hsig' = s
        /\ UNCHANGED <<caught, todo, sigpipe>>
    BY <1>1 DEF US!Deliver
  <2>2. todo = <<>>
    BY <2>1 DEF UsWalk
  <2>3. UsType'
    BY <1>0, <2>1 DEF UsType
  <2>4. UsWalk'
    BY <1>0, <2>1, <2>2 DEF UsWalk
  <2>5. UsCounted'
    BY <1>0, <2>1 DEF UsCounted, UsWritten, One
  <2> QED
    BY <1>0, <2>1, <2>3, <2>4, <2>5 DEF UsOpen, UsClosing
<1>2. CASE US!HandlerLocks
  <2>1. PICK W : W = US!Watching(hsig)
    OBVIOUS
  <2>2. PICK n : n = US!Cardinality(W)
    OBVIOUS
  <2>3. /\ hpc = "locking" /\ hpc' = "walking" /\ todo' \in US!Bijection(1..n, W)
        /\ UNCHANGED <<caught, hsig, sigpipe>>
    BY <1>2, <2>1, <2>2 DEF US!HandlerLocks
  <2>4. W \in SUBSET Signals /\ \A h \in W : signum[h] = hsig
    BY <2>1 DEF US!Watching
  <2>5. n \in Nat
    <3>1. n = Cardinality(W)
      BY <2>2 DEF US!Cardinality, Cardinality, US!IsFiniteSet, IsFiniteSet
    <3>2. IsFiniteSet(W)
      BY <2>4, SignalsAssumption, FS_Subset
    <3> QED
      BY <3>1, <3>2, FS_CardinalityType
  <2>6. todo' \in [1..n -> W]
    BY <2>3 DEF US!Bijection, US!Injection
  <2>7. todo' \in Seq(Signals) /\ Len(todo') = n /\ \A i \in 1..n : todo'[i] \in W
    BY <2>4, <2>5, <2>6
  <2>8. UsType'
    BY <1>0, <2>3, <2>7 DEF UsType
  <2>9. UsWalk'
    BY <1>0, <2>3, <2>4, <2>7 DEF UsWalk
  <2>10. UsCounted'
    BY <1>0, <2>3 DEF UsCounted, UsWritten, One
  <2> QED
    BY <1>0, <2>3, <2>8, <2>9, <2>10 DEF UsOpen, UsClosing
<1>3. CASE US!HandlerWrites
  <2>1. /\ hpc = "walking" /\ todo # <<>> /\ hsig \in Signums
        /\ UNCHANGED <<caught, hsig>>
    BY <1>3 DEF US!HandlerWrites, UsType
  <2>2. CASE Len(sigpipe) < PipeCap
    <3>1. PICK m : m = [sig |-> hsig, handle |-> Head(todo)]
      OBVIOUS
    <3>2. sigpipe' = Append(sigpipe, m) /\ hpc' = "written" /\ UNCHANGED todo
      BY <1>3, <2>2, <3>1 DEF US!HandlerWrites
    <3>3. Head(todo) \in Signals
      BY <2>1 DEF UsType
    <3>4. m \in Message /\ m.handle = Head(todo)
      BY <2>1, <3>1, <3>3 DEF Message
    <3>5. /\ sigpipe' \in Seq(Message)
          /\ \A h : /\ Times(Named(sigpipe'), h) = Times(Named(sigpipe), h) + One(m.handle = h)
                    /\ Times(Named(sigpipe), h) \in Nat
      BY <3>2, <3>4, NamedAppend DEF UsType
    <3>6. UsType'
      BY <1>0, <2>1, <3>2, <3>5 DEF UsType
    <3>7. UsWalk'
      BY <1>0, <2>1, <3>2 DEF UsWalk
    <3>8. UsCounted'
      <4>1. SUFFICES ASSUME NEW h \in Signals
                     PROVE  caught[h] + UsWritten(h)'
                              = dispatched[h] + Times(Named(sigpipe'), h) + Times(Named(buf), h)
        BY <1>0, <2>1 DEF UsCounted
      <4>2. caught[h] + UsWritten(h)
              = dispatched[h] + Times(Named(sigpipe), h) + Times(Named(buf), h)
        BY DEF UsCounted
      <4>3. UsWritten(h) = 0 /\ (UsWritten(h)' = One(m.handle = h))
        BY <2>1, <3>2, <3>4 DEF UsWritten, One
      <4>4. PICK x, y, z, d, e \in Nat :
              /\ x = Times(Named(sigpipe), h) /\ y = Times(Named(buf), h) /\ z = One(m.handle = h)
              /\ d = dispatched[h] /\ e = caught[h]
        <5>1. One(m.handle = h) \in Nat
          BY DEF One
        <5>2. Times(Named(buf), h) \in Nat
          BY NamedFacts, TimesFinite DEF UsType
        <5>3. dispatched[h] \in Nat /\ caught[h] \in Nat
          BY DEF UsType
        <5> QED
          BY <3>5, <5>1, <5>2, <5>3
      <4>5. Times(Named(sigpipe'), h) = x + z
        BY <3>5, <4>4, Zenon
      <4>6. e + 0 = d + x + y
        BY <4>2, <4>3, <4>4, Zenon
      <4>7. e + z = d + (x + z) + y
        BY <4>6
      <4> QED
        BY <4>3, <4>4, <4>5, <4>7, Zenon
    <3> QED
      BY <1>0, <2>1, <3>6, <3>7, <3>8 DEF UsOpen, UsClosing
  <2>3. CASE ~(Len(sigpipe) < PipeCap)
    <3>1. todo' = Tail(todo) /\ UNCHANGED <<sigpipe, hpc>>
      BY <1>3, <2>3 DEF US!HandlerWrites
    <3>2. /\ todo' \in Seq(Signals)
          /\ \A i \in 1..Len(todo') : i + 1 \in 1..Len(todo) /\ todo'[i] = todo[i + 1]
      BY <2>1, <3>1 DEF UsType
    <3>3. UsType'
      BY <1>0, <2>1, <3>1, <3>2 DEF UsType
    <3>4. UsWalk'
      BY <1>0, <2>1, <3>1, <3>2 DEF UsWalk
    <3>5. UsCounted'
      BY <1>0, <2>1, <3>1 DEF UsCounted, UsWritten, One
    <3> QED
      BY <1>0, <2>1, <3>3, <3>4, <3>5 DEF UsOpen, UsClosing
  <2> QED
    BY <2>2, <2>3
<1>4. CASE US!HandlerCounts
  <2>1. PICK h : h = Head(todo)
    OBVIOUS
  <2>2. /\ hpc = "written" /\ hpc' = "walking" /\ caught' = [caught EXCEPT ![h] = @ + 1]
        /\ todo' = Tail(todo) /\ UNCHANGED <<hsig, sigpipe>>
    BY <1>4, <2>1 DEF US!HandlerCounts
  <2>3. /\ todo # <<>> /\ h \in Signals /\ h = todo[1] /\ 1 \in 1..Len(todo)
        /\ todo' \in Seq(Signals)
        /\ \A i \in 1..Len(todo') : i + 1 \in 1..Len(todo) /\ todo'[i] = todo[i + 1]
    BY <2>1, <2>2 DEF UsType
  <2>4. /\ caught' \in [Signals -> Nat] /\ caught'[h] = caught[h] + 1
        /\ \A g \in Signals \ {h} : caught'[g] = caught[g]
    BY <2>2, <2>3 DEF UsType
  <2>5. sst[h] = "open"
    BY <2>2, <2>3, SignalsAssumption DEF UsWalk, UsType, UsOpen
  <2>6. UsType'
    BY <1>0, <2>2, <2>3, <2>4 DEF UsType
  <2>7. UsWalk'
    BY <1>0, <2>2, <2>3 DEF UsWalk
  <2>8. UsClosing'
    BY <1>0, <2>4, <2>5 DEF UsClosing
  <2>9. UsCounted'
    <3>1. \A g \in Signals : caught'[g] + UsWritten(g)' = caught[g] + UsWritten(g)
      <4>1. ASSUME NEW g \in Signals, g = h
            PROVE  caught'[g] + UsWritten(g)' = caught[g] + UsWritten(g)
        BY <2>1, <2>2, <2>3, <2>4, <4>1 DEF UsWritten, One, UsType
      <4>2. ASSUME NEW g \in Signals, g # h
            PROVE  caught'[g] + UsWritten(g)' = caught[g] + UsWritten(g)
        BY <2>1, <2>2, <2>4, <4>2 DEF UsWritten, One
      <4> QED
        BY <4>1, <4>2
    <3> QED
      BY <1>0, <2>2, <3>1 DEF UsCounted
  <2> QED
    BY <1>0, <2>6, <2>7, <2>8, <2>9 DEF UsOpen
<1>5. CASE US!HandlerUnlocks
  <2>1. /\ hpc = "walking" /\ todo = <<>> /\ hpc' = "idle"
        /\ UNCHANGED <<caught, hsig, todo, sigpipe>>
    BY <1>5 DEF US!HandlerUnlocks
  <2>2. UsType'
    BY <1>0, <2>1 DEF UsType
  <2>3. UsWalk'
    BY <1>0, <2>1 DEF UsWalk
  <2>4. UsCounted'
    BY <1>0, <2>1 DEF UsCounted, UsWritten, One
  <2> QED
    BY <1>0, <2>1, <2>2, <2>3, <2>4 DEF UsOpen, UsClosing
<1> QED
  BY <1>1, <1>2, <1>3, <1>4, <1>5

\* The user's calls.
LEMMA UsUser ==
  ASSUME UsInv, NEW h \in Signals,
         \/ US!Stop(h) \/ US!Close(h) \/ US!CloseCb(h)
         \/ \E s \in Signums, once \in BOOLEAN : US!Start(h, s, once)
  PROVE  UsInv'
<1> USE DEF UsInv
<1>0. UNCHANGED <<caught, dispatched, hpc, hsig, todo, sigpipe, buf, us_lpc>>
  BY DEF US!Stop, US!Close, US!CloseCb, US!Start, US!handlerVars, US!loopVars
<1>1. UsCounted'
  BY <1>0 DEF UsCounted, UsWritten
<1>2. ASSUME NEW s \in Signums, NEW once \in BOOLEAN, US!Start(h, s, once)
      PROVE  UsInv'
  <2>1. /\ US!LockFree /\ sst[h] = "open" /\ signum' = [signum EXCEPT ![h] = s] /\ UNCHANGED sst
    BY <1>2 DEF US!Start
  <2>2. /\ signum' \in [Signals -> Signums \cup {0}]
        /\ \A x \in Signals \ {h} : signum'[x] = signum[x]
    BY <2>1 DEF UsType
  <2>3. \A i \in 1..Len(todo) : todo[i] # h /\ todo[i] \in Signals
    BY <2>1, UsAway DEF UsType
  <2>4. UsType'
    BY <1>0, <2>1, <2>2 DEF UsType
  <2>5. UsWalk'
    BY <1>0, <2>2, <2>3 DEF UsWalk
  <2>6. UsOpen' /\ UsClosing'
    BY <1>0, <2>1, <2>2 DEF UsOpen, UsClosing
  <2> QED
    BY <1>1, <2>4, <2>5, <2>6
<1>3. CASE US!Stop(h) \/ US!Close(h)
  <2>1. /\ US!StopWatcher(h) /\ sst[h] = "open"
        /\ \/ UNCHANGED sst
           \/ sst' = [sst EXCEPT ![h] = IF caught[h] = dispatched[h] THEN "pending" ELSE "closing"]
    BY <1>3 DEF US!Stop, US!Close
  <2>2. /\ signum' \in [Signals -> Signums \cup {0}] /\ signum'[h] = 0
        /\ \A x \in Signals \ {h} : signum'[x] = signum[x]
        /\ \A i \in 1..Len(todo) : todo[i] # h /\ todo[i] \in Signals
    BY <2>1, UsStops DEF UsType
  <2>3. /\ sst' \in [Signals -> {"open", "closing", "pending", "closed"}]
        /\ sst'[h] \in {"open", IF caught[h] = dispatched[h] THEN "pending" ELSE "closing"}
        /\ \A x \in Signals \ {h} : sst'[x] = sst[x]
    BY <2>1 DEF UsType
  <2>4. UsType'
    BY <1>0, <2>2, <2>3 DEF UsType
  <2>5. UsWalk'
    BY <1>0, <2>2 DEF UsWalk
  <2>6. UsOpen' /\ UsClosing'
    BY <1>0, <2>2, <2>3 DEF UsOpen, UsClosing
  <2> QED
    BY <1>1, <2>4, <2>5, <2>6
<1>4. CASE US!CloseCb(h)
  <2>1. sst[h] = "pending" /\ sst' = [sst EXCEPT ![h] = "closed"] /\ UNCHANGED signum
    BY <1>4 DEF US!CloseCb
  <2>2. /\ sst' \in [Signals -> {"open", "closing", "pending", "closed"}] /\ sst'[h] = "closed"
        /\ \A x \in Signals \ {h} : sst'[x] = sst[x]
    BY <2>1 DEF UsType
  <2>3. UsType'
    BY <1>0, <2>1, <2>2 DEF UsType
  <2>4. UsWalk' /\ UsOpen' /\ UsClosing'
    BY <1>0, <2>1, <2>2 DEF UsWalk, UsOpen, UsClosing
  <2> QED
    BY <1>1, <2>3, <2>4
<1> QED
  BY <1>2, <1>3, <1>4

\* uv__signal_event.
LEMMA UsEvent ==
  ASSUME UsInv,
         US!ReadPipe \/ US!Dispatch \/ US!UserReturns \/ US!Dispatched \/ US!EventDone
  PROVE  UsInv'
<1> USE DEF UsInv
<1>0. UNCHANGED <<caught, hpc, hsig, todo>>
  BY DEF US!ReadPipe, US!Dispatch, US!UserReturns, US!Dispatched, US!EventDone, US!handlerVars
<1>1. CASE US!ReadPipe
  <2>1. /\ us_lpc = "run" /\ us_lpc' = "event" /\ buf' = sigpipe /\ sigpipe' = <<>>
        /\ UNCHANGED <<sst, signum, dispatched>>
    BY <1>1 DEF US!ReadPipe
  <2>2. buf = <<>> /\ <<>> \in Seq(Message)
    BY <2>1 DEF UsType
  <2>3. UsType'
    BY <1>0, <2>1, <2>2 DEF UsType
  <2>4. UsCounted'
    <3>1. SUFFICES ASSUME NEW h \in Signals
                   PROVE  caught[h] + UsWritten(h)
                            = dispatched[h] + Times(Named(<<>>), h) + Times(Named(sigpipe), h)
      BY <1>0, <2>1 DEF UsCounted, UsWritten
    <3>2. caught[h] + UsWritten(h)
            = dispatched[h] + Times(Named(sigpipe), h) + Times(Named(<<>>), h)
      BY <2>2 DEF UsCounted
    <3>3. Times(Named(<<>>), h) = 0 /\ Times(Named(sigpipe), h) \in Nat /\ dispatched[h] \in Nat
      BY NamedEmpty, NamedFacts, TimesFinite DEF UsType
    <3> QED
      BY <3>2, <3>3
  <2> QED
    BY <1>0, <2>1, <2>3, <2>4 DEF UsWalk, UsOpen, UsClosing
<1>2. CASE US!Dispatch \/ US!UserReturns \/ US!EventDone
  <2>1. UNCHANGED <<sst, signum, dispatched, sigpipe, buf>>
    BY <1>2 DEF US!Dispatch, US!UserReturns, US!EventDone
  <2>2. /\ us_lpc' \in {"run", "event", "cb", "after"}
        /\ (us_lpc' = "run" => buf = <<>>) /\ (us_lpc' \in {"cb", "after"} => buf # <<>>)
    BY <1>2 DEF US!Dispatch, US!UserReturns, US!EventDone, UsType
  <2>3. UsType'
    BY <1>0, <2>1, <2>2 DEF UsType
  <2> QED
    BY <1>0, <2>1, <2>3 DEF UsWalk, UsOpen, UsClosing, UsCounted, UsWritten
<1>3. CASE US!Dispatched
  <2>1. PICK h : h = Head(buf).handle
    OBVIOUS
  <2>2. /\ us_lpc = "after" /\ us_lpc' = "event" /\ buf' = Tail(buf)
        /\ dispatched' = [dispatched EXCEPT ![h] = @ + 1]
        /\ US!StopWatcher(h) \/ UNCHANGED signum
        /\ sst' = IF sst[h] = "closing" /\ caught[h] = dispatched[h] + 1
                    THEN [sst EXCEPT ![h] = "pending"] ELSE sst
        /\ UNCHANGED sigpipe
    BY <1>3, <2>1 DEF US!Dispatched
  <2>3. buf # <<>>
    BY <2>2 DEF UsType
  <2>4. /\ buf' \in Seq(Message) /\ h \in Signals
        /\ \A g : /\ Times(Named(buf'), g) = Times(Named(buf), g) - One(h = g)
                  /\ Times(Named(buf), g) \in Nat
    <3>1. buf \in Seq(Message)
      BY DEF UsType
    <3>2. /\ Tail(buf) \in Seq(Message) /\ Head(buf) \in Message
          /\ \A g : /\ Times(Named(Tail(buf)), g) = Times(Named(buf), g) - One(Head(buf).handle = g)
                    /\ Times(Named(buf), g) \in Nat
      BY <2>3, <3>1, NamedTail
    <3>3. Head(buf).handle \in Signals
      BY <3>2 DEF Message
    <3> QED
      BY <2>1, <2>2, <3>2, <3>3, Zenon
  <2>5. /\ dispatched' \in [Signals -> Nat] /\ dispatched'[h] = dispatched[h] + 1
        /\ \A g \in Signals \ {h} : dispatched'[g] = dispatched[g]
    BY <2>2, <2>4 DEF UsType
  <2>6. /\ signum' \in [Signals -> Signums \cup {0}]
        /\ \A g \in Signals : signum'[g] = signum[g] \/ (g = h /\ signum'[g] = 0)
        /\ \A i \in 1..Len(todo) : signum'[todo[i]] = signum[todo[i]]
    <3>1. CASE UNCHANGED signum
      BY <3>1 DEF UsType
    <3>2. CASE US!StopWatcher(h)
      <4>1. \A i \in 1..Len(todo) : todo[i] \in Signals
        BY DEF UsType
      <4> QED
        BY <2>4, <3>2, <4>1, UsStops
    <3> QED
      BY <2>2, <3>1, <3>2
  <2>7. /\ sst' \in [Signals -> {"open", "closing", "pending", "closed"}]
        /\ \A g \in Signals : \/ sst'[g] = sst[g] /\ ~(g = h /\ sst[h] = "closing" /\ caught[h] = dispatched[h] + 1)
                              \/ /\ g = h /\ sst[h] = "closing" /\ caught[h] = dispatched[h] + 1
                                 /\ sst'[g] = "pending"
    BY <2>2, <2>4 DEF UsType
  <2>8. Times(Named(buf), h) # 0
    <3>1. PICK n : n = Named(buf)
      OBVIOUS
    <3>2. n \in Seq(Signals) /\ Len(n) = Len(buf) /\ \A i \in 1..Len(buf) : n[i] = buf[i].handle
      BY <3>1, NamedFacts DEF UsType
    <3>3. 1 \in 1..Len(n) /\ n[1] = h
      BY <2>1, <2>3, <3>2 DEF UsType
    <3> QED
      BY <3>1, <3>2, <3>3, TimesFinite
  <2>9. sst[h] \notin {"pending", "closed"}
    <3>1. SUFFICES ASSUME sst[h] \in {"pending", "closed"}
                   PROVE  FALSE
      OBVIOUS
    <3>2. signum[h] = 0 /\ caught[h] = dispatched[h]
      BY <2>4, <3>1 DEF UsOpen, UsClosing
    <3>3. UsWritten(h) = 0
      BY <2>4, <3>2, UsAway
    <3>4. caught[h] + 0 = dispatched[h] + Times(Named(sigpipe), h) + Times(Named(buf), h)
      BY <2>4, <3>3 DEF UsCounted
    <3>5. Times(Named(sigpipe), h) \in Nat /\ Times(Named(buf), h) \in Nat /\ dispatched[h] \in Nat
      BY <2>4, NamedFacts, TimesFinite DEF UsType
    <3> QED
      BY <2>8, <3>2, <3>4, <3>5
  <2>10. UsType'
    BY <1>0, <2>2, <2>4, <2>5, <2>6, <2>7 DEF UsType
  <2>11. UsWalk'
    BY <1>0, <2>6 DEF UsWalk
  <2>12. UsOpen'
    BY <2>6, <2>7 DEF UsOpen
  <2>13. UsClosing'
    <3>1. ASSUME NEW g \in Signals, g # h
          PROVE  sst'[g] = sst[g] /\ dispatched'[g] = dispatched[g]
      BY <2>5, <2>7, <3>1
    <3>2. /\ sst'[h] \in {"pending", "closed"} => caught[h] = dispatched'[h]
          /\ sst'[h] = "closing" => caught[h] # dispatched'[h]
      BY <2>4, <2>5, <2>7, <2>9
    <3> QED
      BY <1>0, <3>1, <3>2 DEF UsClosing
  <2>14. UsCounted'
    <3>1. SUFFICES ASSUME NEW g \in Signals
                   PROVE  caught[g] + UsWritten(g)
                            = dispatched'[g] + Times(Named(sigpipe), g) + Times(Named(buf'), g)
      BY <1>0, <2>2 DEF UsCounted, UsWritten
    <3>2. caught[g] + UsWritten(g)
            = dispatched[g] + Times(Named(sigpipe), g) + Times(Named(buf), g)
      BY DEF UsCounted
    <3>3. PICK x, y, z, d \in Nat :
            /\ x = Times(Named(sigpipe), g) /\ y = Times(Named(buf), g) /\ z = One(h = g)
            /\ d = dispatched[g]
      <4>1. One(h = g) \in Nat
        BY DEF One
      <4>2. Times(Named(sigpipe), g) \in Nat
        BY NamedFacts, TimesFinite DEF UsType
      <4>3. dispatched[g] \in Nat
        BY DEF UsType
      <4> QED
        BY <2>4, <4>1, <4>2, <4>3
    <3>4. Times(Named(buf'), g) = y - z
      BY <2>4, <3>3, Zenon
    <3>5. dispatched'[g] = d + z
      <4>1. CASE g = h
        BY <2>5, <3>3, <4>1 DEF One
      <4>2. CASE g # h
        BY <2>5, <3>3, <4>2 DEF One
      <4> QED
        BY <4>1, <4>2
    <3>6. d + x + y = (d + z) + x + (y - z)
      OBVIOUS
    <3> QED
      BY <3>2, <3>3, <3>4, <3>5, <3>6, Zenon
  <2> QED
    BY <2>10, <2>11, <2>12, <2>13, <2>14
<1> QED
  BY <1>1, <1>2, <1>3

LEMMA UsKeeps ==
  ASSUME UsInv, [Next]_vars
  PROVE  UsInv'
<1>1. CASE UNCHANGED signalVars
  BY <1>1 DEF signalVars, UsInv, UsType, UsWalk, UsOpen, UsCounted, UsWritten, UsClosing
<1>2. CASE US!Next
  BY <1>2, UsHandles, UsUser, UsEvent DEF US!Next
<1> QED
  BY <1>1, <1>2, SignalStep

LEMMA UsMessages ==
  ASSUME UsInv, NEW h \in Signals
  PROVE  US!Messages(h) <=> Times(Named(sigpipe), h) + Times(Named(buf), h) # 0
<1>1. sigpipe \in Seq(Message) /\ buf \in Seq(Message)
  BY DEF UsInv, UsType
<1>2. /\ Len(sigpipe \o buf) = Len(sigpipe) + Len(buf) /\ Len(sigpipe) \in Nat /\ Len(buf) \in Nat
      /\ \A i \in 1..Len(sigpipe) : (sigpipe \o buf)[i] = sigpipe[i]
      /\ \A i \in 1..Len(buf) : (sigpipe \o buf)[Len(sigpipe) + i] = buf[i]
  BY <1>1
<1>3. \A q \in Seq(Message) :
        Times(Named(q), h) \in Nat /\ (Times(Named(q), h) # 0 <=> \E i \in 1..Len(q) : q[i].handle = h)
  <2>1. SUFFICES ASSUME NEW q \in Seq(Message)
                 PROVE  /\ Times(Named(q), h) \in Nat
                        /\ Times(Named(q), h) # 0 <=> \E i \in 1..Len(q) : q[i].handle = h
    OBVIOUS
  <2>2. PICK n : n = Named(q)
    OBVIOUS
  <2>3. n \in Seq(Signals) /\ Len(n) = Len(q) /\ \A i \in 1..Len(q) : n[i] = q[i].handle
    BY <2>2, NamedFacts
  <2>4. Times(n, h) \in Nat /\ (Times(n, h) # 0 <=> \E i \in 1..Len(n) : n[i] = h)
    BY <2>3, TimesFinite
  <2> QED
    BY <2>2, <2>3, <2>4
<1>4. US!Messages(h) <=> \/ \E i \in 1..Len(sigpipe) : sigpipe[i].handle = h
                         \/ \E i \in 1..Len(buf) : buf[i].handle = h
  <2>1. ASSUME US!Messages(h)
        PROVE  \/ \E i \in 1..Len(sigpipe) : sigpipe[i].handle = h
               \/ \E i \in 1..Len(buf) : buf[i].handle = h
    <3>1. PICK i \in 1..(Len(sigpipe) + Len(buf)) : (sigpipe \o buf)[i].handle = h
      BY <1>2, <2>1 DEF US!Messages
    <3>2. CASE i \in 1..Len(sigpipe)
      BY <1>2, <3>1, <3>2
    <3>3. CASE i \notin 1..Len(sigpipe)
      <4>1. PICK j : j = i - Len(sigpipe)
        OBVIOUS
      <4>2. j \in 1..Len(buf) /\ i = Len(sigpipe) + j
        BY <1>2, <3>3, <4>1
      <4> QED
        BY <1>2, <3>1, <4>2
    <3> QED
      BY <3>2, <3>3
  <2>2. ASSUME NEW i \in 1..Len(sigpipe), sigpipe[i].handle = h
        PROVE  US!Messages(h)
    <3>1. i \in 1..Len(sigpipe \o buf) /\ (sigpipe \o buf)[i].handle = h
      BY <1>2, <2>2
    <3> QED
      BY <3>1 DEF US!Messages
  <2>3. ASSUME NEW i \in 1..Len(buf), buf[i].handle = h
        PROVE  US!Messages(h)
    <3>1. Len(sigpipe) + i \in 1..Len(sigpipe \o buf) /\ (sigpipe \o buf)[Len(sigpipe) + i].handle = h
      BY <1>2, <2>3
    <3> QED
      BY <3>1 DEF US!Messages
  <2> QED
    BY <2>1, <2>2, <2>3
<1> QED
  BY <1>1, <1>3, <1>4

LEMMA UsSound == UsInv => US!SignalCloseExact
<1> SUFFICES ASSUME UsInv, NEW h \in Signals
             PROVE  /\ sst[h] \in {"pending", "closed"}
                         => ~US!Messages(h) /\ signum[h] = 0 /\ h \notin {todo[i] : i \in 1..Len(todo)}
                    /\ sst[h] = "closing" => US!Messages(h)
  BY DEF US!SignalCloseExact
<1>1. CASE sst[h] = "open"
  BY <1>1
<1>2. CASE sst[h] # "open"
  <2>1. signum[h] = 0
    BY <1>2 DEF UsInv, UsOpen
  <2>2. (\A i \in 1..Len(todo) : todo[i] # h) /\ UsWritten(h) = 0
    BY <2>1, UsAway
  <2>3. /\ caught[h] + 0 = dispatched[h] + Times(Named(sigpipe), h) + Times(Named(buf), h)
        /\ caught[h] \in Nat /\ dispatched[h] \in Nat
        /\ Times(Named(sigpipe), h) \in Nat /\ Times(Named(buf), h) \in Nat
    BY <2>2, NamedFacts, TimesFinite DEF UsInv, UsCounted, UsType
  <2>4. caught[h] = dispatched[h] <=> Times(Named(sigpipe), h) + Times(Named(buf), h) = 0
    BY <2>3
  <2> QED
    BY <2>1, <2>2, <2>4, UsMessages DEF UsInv, UsClosing
<1> QED
  BY <1>1, <1>2

\* Where a signal is on its way to the watcher's callback.
UsToWrite(h) == \E i \in 1..Len(todo) : todo[i] = h /\ (hpc = "written" => i # 1)
UsInPipe(h) == \E i \in 1..Len(sigpipe) : sigpipe[i] = [sig |-> signum[h], handle |-> h]
UsRead(h) ==
  \E i \in 1..Len(buf) : /\ buf[i] = [sig |-> signum[h], handle |-> h]
                         /\ us_lpc \in {"cb", "after"} => i # 1

\* Whose signal is awaited watches one, and the signal is on its way.
UsAwaited ==
  /\ awaited \in [Signals -> BOOLEAN]
  /\ \A h \in Signals : awaited[h] => signum[h] # 0 /\ (UsToWrite(h) \/ UsInPipe(h) \/ UsRead(h))

LEMMA UsAwaitedInit == Init => UsAwaited
<1> SUFFICES ASSUME US!Init
             PROVE  UsAwaited
  BY DEF Init
<1>1. PICK f \in BOOLEAN : f = FALSE
  OBVIOUS
<1>2. awaited = [h \in Signals |-> f]
  BY <1>1 DEF US!Init
<1> QED
  BY <1>1, <1>2 DEF UsAwaited

\* uv__signal_stop ends what is awaited.
LEMMA UsStopsAwaiting ==
  ASSUME UsInv, UsAwaited, NEW h \in Signals, US!StopWatcher(h)
  PROVE  /\ awaited' \in [Signals -> BOOLEAN] /\ ~awaited'[h]
         /\ \A g \in Signals : awaited'[g] => awaited[g] /\ g # h /\ signum'[g] = signum[g]
<1>1. CASE signum[h] = 0
  <2>1. UNCHANGED <<signum, awaited>>
    BY <1>1 DEF US!StopWatcher
  <2> QED
    BY <1>1, <2>1 DEF UsAwaited
<1>2. CASE signum[h] # 0
  <2>1. PICK f \in BOOLEAN : f = FALSE
    OBVIOUS
  <2>2. awaited' = [awaited EXCEPT ![h] = f]
    BY <1>2, <2>1 DEF US!StopWatcher
  <2>3. /\ awaited' \in [Signals -> BOOLEAN] /\ awaited'[h] = f
        /\ \A g \in Signals : g # h => awaited'[g] = awaited[g]
    BY <2>2 DEF UsAwaited
  <2>4. \A g \in Signals : g # h => signum'[g] = signum[g]
    BY UsStops
  <2> QED
    BY <2>1, <2>3, <2>4
<1> QED
  BY <1>1, <1>2

\* The handler writes a message for every watcher of its signal, if there is room.
LEMMA UsHandlerAwaits ==
  ASSUME UsInv, UsAwaited,
         \/ \E s \in Signums : US!Deliver(s)
         \/ US!HandlerLocks \/ US!HandlerWrites \/ US!HandlerCounts \/ US!HandlerUnlocks
  PROVE  UsAwaited'
<1>0. /\ UNCHANGED <<signum, buf, us_lpc>>
      /\ \A h \in Signals : UsRead(h) => UsRead(h)'
  BY DEF US!Deliver, US!HandlerLocks, US!HandlerWrites, US!HandlerCounts, US!HandlerUnlocks,
         US!loopVars, UsRead
<1>1. ASSUME NEW s \in Signums, US!Deliver(s)
      PROVE  UsAwaited'
  <2>1. hpc = "idle" /\ hpc' = "locking" /\ UNCHANGED <<todo, sigpipe, awaited>>
    BY <1>1 DEF US!Deliver
  <2>2. \A h \in Signals : (UsToWrite(h) => UsToWrite(h)') /\ (UsInPipe(h) => UsInPipe(h)')
    BY <1>0, <2>1 DEF UsToWrite, UsInPipe
  <2> QED
    BY <1>0, <2>1, <2>2 DEF UsAwaited
<1>2. CASE US!HandlerLocks
  <2>1. PICK W : W = US!Watching(hsig)
    OBVIOUS
  <2>2. PICK n : n = US!Cardinality(W)
    OBVIOUS
  <2>3. /\ hpc = "locking" /\ hpc' = "walking" /\ todo' \in US!Bijection(1..n, W)
        /\ UNCHANGED sigpipe
        /\ awaited' = [h \in Signals |-> awaited[h] \/ signum[h] = hsig]
    BY <1>2, <2>1, <2>2 DEF US!HandlerLocks
  <2>4. todo = <<>> /\ hsig # 0
    BY <2>3, SignalsAssumption DEF UsInv, UsWalk, UsType
  <2>5. awaited' \in [Signals -> BOOLEAN]
    BY <2>3
  <2>6. \A h \in Signals : UsInPipe(h) => UsInPipe(h)'
    BY <1>0, <2>3 DEF UsInPipe
  <2>7. \A h \in Signals : signum[h] = hsig => UsToWrite(h)'
    <3>1. SUFFICES ASSUME NEW h \in Signals, signum[h] = hsig
                   PROVE  \E i \in 1..Len(todo') : todo'[i] = h
      BY <2>3 DEF UsToWrite
    <3>2. h \in W
      BY <2>1, <3>1 DEF US!Watching
    <3>3. n \in Nat
      <4>1. n = Cardinality(W)
        BY <2>2 DEF US!Cardinality, Cardinality, US!IsFiniteSet, IsFiniteSet
      <4>2. IsFiniteSet(W)
        <5>1. W \subseteq Signals
          BY <2>1 DEF US!Watching
        <5> QED
          BY <5>1, SignalsAssumption, FS_Subset
      <4> QED
        BY <4>1, <4>2, FS_CardinalityType
    <3>4. todo' \in [1..n -> W] /\ \E i \in 1..n : todo'[i] = h
      BY <2>3, <3>2 DEF US!Bijection, US!Injection, US!Surjection
    <3>5. Len(todo') = n
      BY <3>3, <3>4
    <3> QED
      BY <3>4, <3>5
  <2>8. \A h \in Signals : ~UsToWrite(h)
    BY <2>4 DEF UsToWrite
  <2>9. \A h \in Signals : awaited'[h] => awaited[h] \/ signum[h] = hsig
    BY <2>3
  <2> QED
    BY <1>0, <2>4, <2>5, <2>6, <2>7, <2>8, <2>9 DEF UsAwaited
<1>3. CASE US!HandlerWrites
  <2>1. /\ hpc = "walking" /\ todo # <<>> /\ todo \in Seq(Signals) /\ sigpipe \in Seq(Message)
        /\ UNCHANGED hsig
    BY <1>3 DEF US!HandlerWrites, UsInv, UsType
  <2>2. PICK g \in Signals : g = Head(todo) /\ g = todo[1] /\ signum[g] = hsig
    BY <2>1 DEF UsInv, UsWalk
  <2>3. CASE Len(sigpipe) < PipeCap
    <3>1. PICK m : m = [sig |-> hsig, handle |-> g]
      OBVIOUS
    <3>2. sigpipe' = Append(sigpipe, m) /\ hpc' = "written" /\ UNCHANGED <<todo, awaited>>
      BY <1>3, <2>2, <2>3, <3>1 DEF US!HandlerWrites
    <3>3. /\ Len(sigpipe') = Len(sigpipe) + 1 /\ Len(sigpipe) \in Nat
          /\ sigpipe'[Len(sigpipe) + 1] = m
          /\ \A i \in 1..Len(sigpipe) : sigpipe'[i] = sigpipe[i]
      BY <2>1, <3>2
    <3>4. \A h \in Signals : UsInPipe(h) => UsInPipe(h)'
      BY <1>0, <3>3 DEF UsInPipe
    <3>5. UsInPipe(g)'
      <4>1. m = [sig |-> signum'[g], handle |-> g]
        BY <1>0, <2>2, <3>1
      <4>2. Len(sigpipe) + 1 \in 1..Len(sigpipe')
        BY <3>3
      <4> QED
        BY <3>3, <4>1, <4>2 DEF UsInPipe
    <3>6. \A h \in Signals \ {g} : UsToWrite(h) => UsToWrite(h)'
      BY <2>2, <3>2 DEF UsToWrite
    <3> QED
      BY <1>0, <3>2, <3>4, <3>5, <3>6 DEF UsAwaited
  <2>4. CASE ~(Len(sigpipe) < PipeCap)
    <3>1. PICK f \in BOOLEAN : f = US!InPipe(g)
      BY DEF US!InPipe
    <3>2. todo' = Tail(todo) /\ UNCHANGED <<sigpipe, hpc>> /\ awaited' = [awaited EXCEPT ![g] = f]
      BY <1>3, <2>2, <2>4, <3>1 DEF US!HandlerWrites
    <3>3. /\ awaited' \in [Signals -> BOOLEAN] /\ awaited'[g] = f
          /\ \A h \in Signals \ {g} : awaited'[h] = awaited[h]
      BY <3>2 DEF UsAwaited
    <3>4. \A h \in Signals : UsInPipe(h) => UsInPipe(h)'
      BY <1>0, <3>2 DEF UsInPipe
    <3>5. \A h \in Signals \ {g} : UsToWrite(h) => UsToWrite(h)'
      <4>1. SUFFICES ASSUME NEW h \in Signals \ {g}, NEW i \in 1..Len(todo), todo[i] = h
                     PROVE  \E j \in 1..Len(todo') : todo'[j] = h
        BY <2>1, <3>2 DEF UsToWrite
      <4>2. i - 1 \in 1..Len(todo') /\ todo'[i - 1] = todo[i]
        BY <2>1, <2>2, <3>2, <4>1
      <4> QED
        BY <4>1, <4>2
    <3>6. f => UsInPipe(g)
      BY <3>1 DEF US!InPipe, UsInPipe
    <3>7. signum[g] # 0
      BY <2>1, <2>2, SignalsAssumption DEF UsInv, UsType
    <3> QED
      BY <1>0, <3>3, <3>4, <3>5, <3>6, <3>7 DEF UsAwaited
  <2> QED
    BY <2>3, <2>4
<1>4. CASE US!HandlerCounts
  <2>1. /\ hpc = "written" /\ hpc' = "walking" /\ todo' = Tail(todo)
        /\ UNCHANGED <<sigpipe, awaited>>
    BY <1>4 DEF US!HandlerCounts
  <2>2. todo \in Seq(Signals) /\ todo # <<>>
    BY <2>1 DEF UsInv, UsType
  <2>3. \A h \in Signals : UsToWrite(h) => UsToWrite(h)'
    <3>1. SUFFICES ASSUME NEW h \in Signals, NEW i \in 1..Len(todo), todo[i] = h, i # 1
                   PROVE  \E j \in 1..Len(todo') : todo'[j] = h
      BY <2>1 DEF UsToWrite
    <3>2. i - 1 \in 1..Len(todo') /\ todo'[i - 1] = todo[i]
      BY <2>1, <2>2, <3>1
    <3> QED
      BY <3>1, <3>2
  <2>4. \A h \in Signals : UsInPipe(h) => UsInPipe(h)'
    BY <1>0, <2>1 DEF UsInPipe
  <2> QED
    BY <1>0, <2>1, <2>3, <2>4 DEF UsAwaited
<1>5. CASE US!HandlerUnlocks
  <2>1. hpc = "walking" /\ todo = <<>> /\ UNCHANGED <<todo, sigpipe, awaited>>
    BY <1>5 DEF US!HandlerUnlocks
  <2>2. \A h \in Signals : ~UsToWrite(h) /\ (UsInPipe(h) => UsInPipe(h)')
    BY <1>0, <2>1 DEF UsToWrite, UsInPipe
  <2> QED
    BY <1>0, <2>1, <2>2 DEF UsAwaited
<1> QED
  BY <1>1, <1>2, <1>3, <1>4, <1>5

\* What is not stopped stays on its way.
LEMMA UsUserAwaits ==
  ASSUME UsInv, UsAwaited, NEW h \in Signals,
         \/ US!Stop(h) \/ US!Close(h) \/ US!CloseCb(h)
         \/ \E s \in Signums, once \in BOOLEAN : US!Start(h, s, once)
  PROVE  UsAwaited'
<1>1. UNCHANGED <<hpc, todo, sigpipe, buf, us_lpc>>
  BY DEF US!Stop, US!Close, US!CloseCb, US!Start, US!handlerVars, US!loopVars
<1>2. /\ awaited' \in [Signals -> BOOLEAN]
      /\ \A g \in Signals : awaited'[g] => awaited[g] /\ signum'[g] = signum[g]
  <2>1. ASSUME NEW s \in Signums, NEW once \in BOOLEAN, US!Start(h, s, once)
        PROVE  /\ awaited' \in [Signals -> BOOLEAN]
               /\ \A g \in Signals : awaited'[g] => awaited[g] /\ signum'[g] = signum[g]
    <3>1. signum[h] = 0 /\ signum' = [signum EXCEPT ![h] = s] /\ UNCHANGED awaited
      BY <2>1 DEF US!Start
    <3>2. \A g \in Signals \ {h} : signum'[g] = signum[g]
      BY <3>1 DEF UsInv, UsType
    <3>3. ~awaited[h]
      BY <3>1 DEF UsAwaited
    <3> QED
      BY <3>1, <3>2, <3>3 DEF UsAwaited
  <2>2. CASE US!Stop(h) \/ US!Close(h)
    BY <2>2, UsStopsAwaiting DEF US!Stop, US!Close
  <2>3. CASE US!CloseCb(h)
    BY <2>3 DEF US!CloseCb, UsAwaited
  <2> QED
    BY <2>1, <2>2, <2>3
<1>3. \A g \in Signals :
        signum'[g] = signum[g] /\ (UsToWrite(g) \/ UsInPipe(g) \/ UsRead(g))
          => (UsToWrite(g) \/ UsInPipe(g) \/ UsRead(g))'
  BY <1>1 DEF UsToWrite, UsInPipe, UsRead
<1> QED
  BY <1>2, <1>3 DEF UsAwaited

\* A message that is read is dispatched, and the watcher's callback runs.
LEMMA UsEventAwaits ==
  ASSUME UsInv, UsAwaited,
         US!ReadPipe \/ US!Dispatch \/ US!UserReturns \/ US!Dispatched \/ US!EventDone
  PROVE  UsAwaited'
<1>0. UNCHANGED <<hpc, todo>> /\ \A h \in Signals : UsToWrite(h) => UsToWrite(h)'
  BY DEF US!ReadPipe, US!Dispatch, US!UserReturns, US!Dispatched, US!EventDone, US!handlerVars,
         UsToWrite
<1>1. CASE US!ReadPipe
  <2>1. /\ us_lpc = "run" /\ us_lpc' = "event" /\ buf' = sigpipe /\ UNCHANGED <<signum, awaited>>
    BY <1>1 DEF US!ReadPipe
  <2>2. buf = <<>>
    BY <2>1 DEF UsInv, UsType
  <2>3. \A h \in Signals : ~UsRead(h)
    BY <2>2 DEF UsRead
  <2>4. \A h \in Signals : UsInPipe(h) => UsRead(h)'
    BY <2>1 DEF UsInPipe, UsRead
  <2> QED
    BY <1>0, <2>1, <2>3, <2>4 DEF UsAwaited
<1>2. CASE US!Dispatch
  <2>1. PICK m : m = Head(buf)
    OBVIOUS
  <2>2. /\ buf # <<>> /\ us_lpc = "event" /\ UNCHANGED <<signum, sigpipe, buf>>
        /\ buf \in Seq(Message) /\ m = buf[1] /\ m \in Message /\ m.handle \in Signals
    <3>1. buf # <<>> /\ us_lpc = "event" /\ UNCHANGED <<signum, sigpipe, buf>>
      BY <1>2 DEF US!Dispatch
    <3>2. buf \in Seq(Message)
      BY DEF UsInv, UsType
    <3>3. m = buf[1] /\ m \in Message
      BY <2>1, <3>1, <3>2
    <3> QED
      BY <3>1, <3>2, <3>3 DEF Message
  <2>3. \A h \in Signals : UsInPipe(h) => UsInPipe(h)'
    BY <2>2 DEF UsInPipe
  <2>4. \A h \in Signals : UsRead(h) /\ m # [sig |-> signum[h], handle |-> h] => UsRead(h)'
    BY <2>2 DEF UsRead
  <2>5. CASE signum[m.handle] = m.sig
    <3>1. PICK f \in BOOLEAN : f = FALSE
      OBVIOUS
    <3>2. awaited' = [awaited EXCEPT ![m.handle] = f]
      BY <1>2, <2>1, <2>5, <3>1 DEF US!Dispatch
    <3>3. /\ awaited' \in [Signals -> BOOLEAN] /\ awaited'[m.handle] = f
          /\ \A h \in Signals : h # m.handle => awaited'[h] = awaited[h]
      BY <2>2, <3>2 DEF UsAwaited
    <3>4. \A h \in Signals : h # m.handle => m # [sig |-> signum[h], handle |-> h]
      OBVIOUS
    <3> QED
      BY <1>0, <2>2, <2>3, <2>4, <3>1, <3>3, <3>4 DEF UsAwaited
  <2>6. CASE signum[m.handle] # m.sig
    <3>1. UNCHANGED awaited
      BY <1>2, <2>1, <2>6 DEF US!Dispatch
    <3>2. \A h \in Signals : m # [sig |-> signum[h], handle |-> h]
      BY <2>6
    <3> QED
      BY <1>0, <2>2, <2>3, <2>4, <3>1, <3>2 DEF UsAwaited
  <2> QED
    BY <2>5, <2>6
<1>3. CASE US!UserReturns
  <2>1. /\ us_lpc = "cb" /\ us_lpc' = "after" /\ UNCHANGED <<signum, sigpipe, buf, awaited>>
    BY <1>3 DEF US!UserReturns
  <2>2. \A h \in Signals : (UsInPipe(h) => UsInPipe(h)') /\ (UsRead(h) => UsRead(h)')
    BY <2>1 DEF UsInPipe, UsRead
  <2> QED
    BY <1>0, <2>1, <2>2 DEF UsAwaited
<1>4. CASE US!Dispatched
  <2>1. PICK g : g = Head(buf).handle
    OBVIOUS
  <2>2. /\ us_lpc = "after" /\ us_lpc' = "event" /\ buf' = Tail(buf) /\ UNCHANGED sigpipe
        /\ US!StopWatcher(g) \/ UNCHANGED <<signum, awaited>>
    BY <1>4, <2>1 DEF US!Dispatched
  <2>3. buf # <<>> /\ buf \in Seq(Message)
    BY <2>2 DEF UsInv, UsType
  <2>4. g \in Signals
    <3>1. Head(buf) \in Message
      BY <2>3
    <3> QED
      BY <2>1, <3>1 DEF Message
  <2>5. /\ awaited' \in [Signals -> BOOLEAN]
        /\ \A h \in Signals : awaited'[h] => awaited[h] /\ signum'[h] = signum[h]
    BY <2>2, <2>4, UsStopsAwaiting DEF UsAwaited
  <2>6. \A h \in Signals : signum'[h] = signum[h] /\ UsInPipe(h) => UsInPipe(h)'
    BY <2>2 DEF UsInPipe
  <2>7. \A h \in Signals : signum'[h] = signum[h] /\ UsRead(h) => UsRead(h)'
    <3>1. SUFFICES ASSUME NEW h \in Signals, signum'[h] = signum[h], NEW i \in 1..Len(buf), i # 1,
                          buf[i] = [sig |-> signum[h], handle |-> h]
                   PROVE  \E j \in 1..Len(buf') : buf'[j] = [sig |-> signum'[h], handle |-> h]
      BY <2>2 DEF UsRead
    <3>2. i - 1 \in 1..Len(buf') /\ buf'[i - 1] = buf[i]
      BY <2>2, <2>3, <3>1
    <3> QED
      BY <3>1, <3>2
  <2> QED
    BY <1>0, <2>5, <2>6, <2>7 DEF UsAwaited
<1>5. CASE US!EventDone
  <2>1. us_lpc = "event" /\ us_lpc' = "run" /\ UNCHANGED <<signum, sigpipe, buf, awaited>>
    BY <1>5 DEF US!EventDone
  <2>2. \A h \in Signals : (UsInPipe(h) => UsInPipe(h)') /\ (UsRead(h) => UsRead(h)')
    BY <2>1 DEF UsInPipe, UsRead
  <2> QED
    BY <1>0, <2>1, <2>2 DEF UsAwaited
<1> QED
  BY <1>1, <1>2, <1>3, <1>4, <1>5

LEMMA UsAwaitedKeeps ==
  ASSUME UsInv, UsAwaited, [Next]_vars
  PROVE  UsAwaited'
<1>1. CASE UNCHANGED signalVars
  BY <1>1 DEF signalVars, UsAwaited, UsToWrite, UsInPipe, UsRead
<1>2. CASE US!Next
  BY <1>2, UsHandlerAwaits, UsUserAwaits, UsEventAwaits DEF US!Next
<1> QED
  BY <1>1, <1>2, SignalStep

LEMMA UsDelivers == UsAwaited => US!SignalDelivered
  BY DEF UsAwaited, UsToWrite, UsInPipe, UsRead, US!SignalDelivered, US!InPipe

-----------------------------------------------------------------------------
(* The properties of the composition. *)

\* ServersKeepListening: no accept request of a listening pipe or socket goes missing,
\* unless the program calls uv_listen twice on a pipe, which queues them all again.
THEOREM ServersKeepListeningHolds == Spec => []ServersKeepListening
<1>1. PsInv /\ TsInv => ServersKeepListening
  BY PsKept, TsSound DEF ServersKeepListening
<1> QED
  BY <1>1, PsInit, PsKeeps, TsInit, TsKeeps, PTL DEF Spec

\* CountsExact: the counters by which a pipe, a TCP connection and a listening socket
\* live (reqs_pending, activecnt, write_reqs_pending) are exact in every state, whatever
\* the program does in the callbacks, but for one: each time a connection's read is
\* queued while it is queued (stopped and started after it failed on the spot) leaves
\* reqs_pending one too high for good.  So neither endgame runs early, and a connection's
\* endgame closes it only if that never happened.
THEOREM CountsExactHolds == Spec => []CountsExact
<1>1. WpInv /\ WtInv /\ TsCounted => CountsExact
  BY WpExact, WtExact, TsExact DEF CountsExact
<1> QED
  BY <1>1, WpInit, WpNext, WtInit, WtNext, TsInit, TsKeeps, TsCountInit, TsCountKeeps, PTL
     DEF Spec

\* CallbacksBeforeClose: when the close callback of a pipe, a listening pipe or a poll
\* handle is made, each of its requests has had its callback exactly once and nothing
\* of it is under way; a TCP connection is shut down for sending only when what was
\* written before is sent.
THEOREM CallbacksBeforeCloseHolds == Spec => []CallbacksBeforeClose
<1>1. WpInv /\ PsSafe /\ WtInv /\ PoInv => CallbacksBeforeClose
  BY WpExact, PsFrees, WtExact DEF CallbacksBeforeClose, PoInv
<1> QED
  BY <1>1, WpInit, WpNext, PsInit, PsKeeps, PsSafeInit, PsSafeKeeps, WtInit, WtNext, PoInit,
     PoKeeps, PTL DEF Spec

\* WakeupsCarried: what a thread sent to an async handle (one made without a callback
\* excepted, unix/async.c:115) and the signals that the system delivered are on their
\* way to the loop until the handle is called, on both platforms; only open handles are
\* called, and a close is due exactly when nothing is on its way to the handle any more.
\* On Unix the pipe may be full when a signal comes: that one message is dropped, and the
\* handle is on its way to be called only if an earlier message for it is still there.
THEOREM WakeupsCarriedHolds == Spec => []WakeupsCarried
<1>1. UaInv /\ UsInv /\ UsAwaited /\ WsInv => WakeupsCarried
  BY UaSound, UsSound, UsDelivers, WsSound DEF WakeupsCarried
<1> QED
  BY <1>1, UaInit, UaKeeps, UsInit, UsKeeps, UsAwaitedInit, UsAwaitedKeeps, WsInit, WsKeeps, PTL
     DEF Spec
=============================================================================
