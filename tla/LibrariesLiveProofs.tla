------------------------- MODULE LibrariesLiveProofs -------------------------
(***************************************************************************)
(* Theorems about the parts of MCLibrariesLive that share memory between   *)
(* threads: the thread pool, the read-write lock, uv_once, the barriers,   *)
(* the cancel of a pipe's read and of a console's; and about the prepare,  *)
(* check and idle handles: for every value of their constants.             *)
(***************************************************************************)
EXTENDS MCLibrariesLive, FiniteSetTheorems, NaturalsInduction, WellFoundedInduction, TLAPS

-----------------------------------------------------------------------------
(* What the proofs share. *)

One(b) == IF b THEN 1 ELSE 0

\* What one element more or less does to a count.
LEMMA CountChange ==
  ASSUME NEW S, NEW T, NEW r, IsFiniteSet(S), \A x : x # r => (x \in T <=> x \in S)
  PROVE  /\ IsFiniteSet(T) /\ Cardinality(S) \in Nat /\ Cardinality(T) \in Nat
         /\ Cardinality(T) = Cardinality(S) + One(r \in T) - One(r \in S)
<1>1. Cardinality(S) \in Nat
  BY FS_CardinalityType
<1>2. CASE (r \in S /\ r \in T) \/ (r \notin S /\ r \notin T)
  <2>1. T = S
    BY <1>2
  <2> QED
    BY <1>1, <1>2, <2>1 DEF One
<1>3. CASE r \notin S /\ r \in T
  <2>1. T = S \cup {r}
    BY <1>3
  <2> QED
    BY <1>1, <1>3, <2>1, FS_AddElement DEF One
<1>4. CASE r \in S /\ r \notin T
  <2>1. T = S \ {r}
    BY <1>4
  <2>2. IsFiniteSet(T) /\ Cardinality(T) = Cardinality(S) - 1
    BY <1>4, <2>1, FS_RemoveElement
  <2>3. Cardinality(T) \in Nat
    BY <2>2, FS_CardinalityType
  <2> QED
    BY <1>1, <1>4, <2>2, <2>3 DEF One
<1> QED
  BY <1>2, <1>3, <1>4

-----------------------------------------------------------------------------
(* Queues: what is in one, and that nothing is in it twice. *)

Elems(q) == {q[i] : i \in 1..Len(q)}
Once(q) == \A i, j \in 1..Len(q) : q[i] = q[j] => i = j

LEMMA ElemsAppend ==
  ASSUME NEW S, NEW q \in Seq(S), NEW e \in S
  PROVE  /\ Append(q, e) \in Seq(S) /\ Elems(Append(q, e)) = Elems(q) \cup {e}
         /\ Once(q) /\ e \notin Elems(q) => Once(Append(q, e))
<1>1. /\ Append(q, e) \in Seq(S) /\ Len(Append(q, e)) = Len(q) + 1
      /\ \A i \in 1..Len(q) : Append(q, e)[i] = q[i]
      /\ Append(q, e)[Len(q) + 1] = e /\ Len(q) \in Nat
  OBVIOUS
<1>2. Elems(Append(q, e)) \subseteq Elems(q) \cup {e}
  BY <1>1 DEF Elems
<1>3. Elems(q) \cup {e} \subseteq Elems(Append(q, e))
  <2>1. ASSUME NEW x \in Elems(q)
        PROVE  x \in Elems(Append(q, e))
    <3>1. PICK i \in 1..Len(q) : x = q[i]
      BY DEF Elems
    <3>2. i \in 1..(Len(q) + 1) /\ x = Append(q, e)[i]
      BY <1>1, <3>1
    <3> QED
      BY <1>1, <3>2 DEF Elems
  <2>2. e \in Elems(Append(q, e))
    <3>1. Len(q) + 1 \in 1..(Len(q) + 1)
      BY <1>1
    <3> QED
      BY <1>1, <3>1 DEF Elems
  <2> QED
    BY <2>1, <2>2
<1>4. ASSUME Once(q), e \notin Elems(q)
      PROVE  Once(Append(q, e))
  BY <1>1, <1>4 DEF Once, Elems
<1> QED
  BY <1>1, <1>2, <1>3, <1>4

LEMMA ElemsEmpty ==
  /\ Elems(<<>>) = {} /\ Once(<<>>)
  /\ \A e : Elems(<<e>>) = {e} /\ Once(<<e>>)
<1>1. ASSUME NEW q, Len(q) = 0
      PROVE  Elems(q) = {} /\ Once(q)
  BY <1>1 DEF Elems, Once
<1>2. Len(<<>>) = 0
  OBVIOUS
<1>3. ASSUME NEW e
      PROVE  Elems(<<e>>) = {e} /\ Once(<<e>>)
  <2>1. Len(<<e>>) = 1 /\ <<e>>[1] = e
    OBVIOUS
  <2>2. 1..Len(<<e>>) = {1}
    BY <2>1
  <2>3. ASSUME NEW q, 1..Len(q) = {1}
        PROVE  Elems(q) = {q[1]} /\ Once(q)
    BY <2>3 DEF Elems, Once
  <2> QED
    BY <2>1, <2>2, <2>3
<1> QED
  BY <1>1, <1>2, <1>3

LEMMA ElemsTail ==
  ASSUME NEW S, NEW q \in Seq(S), q # <<>>, Once(q)
  PROVE  /\ Tail(q) \in Seq(S) /\ Head(q) \in S /\ Head(q) \in Elems(q)
         /\ Elems(Tail(q)) = Elems(q) \ {Head(q)} /\ Once(Tail(q))
<1>1. /\ Tail(q) \in Seq(S) /\ Len(Tail(q)) = Len(q) - 1 /\ Len(q) \in Nat \ {0}
      /\ \A i \in 1..(Len(q) - 1) : Tail(q)[i] = q[i + 1]
      /\ Head(q) = q[1] /\ q[1] \in S
  OBVIOUS
<1>2. Head(q) \in Elems(q)
  BY <1>1 DEF Elems
<1>3. Elems(Tail(q)) \subseteq Elems(q) \ {Head(q)}
  <2>1. ASSUME NEW x \in Elems(Tail(q))
        PROVE  x \in Elems(q) /\ x # Head(q)
    <3>1. PICK i \in 1..(Len(q) - 1) : x = q[i + 1]
      BY <1>1 DEF Elems
    <3>2. i + 1 \in 1..Len(q) /\ i + 1 # 1 /\ 1 \in 1..Len(q)
      BY <1>1
    <3> QED
      BY <1>1, <3>1, <3>2 DEF Elems, Once
  <2> QED
    BY <2>1
<1>4. Elems(q) \ {Head(q)} \subseteq Elems(Tail(q))
  <2>1. ASSUME NEW x \in Elems(q), x # Head(q)
        PROVE  x \in Elems(Tail(q))
    <3>1. PICK i \in 1..Len(q) : x = q[i]
      BY DEF Elems
    <3>2. i - 1 \in 1..(Len(q) - 1) /\ x = q[(i - 1) + 1]
      BY <1>1, <2>1, <3>1
    <3> QED
      BY <1>1, <3>2 DEF Elems
  <2> QED
    BY <2>1
<1>5. Once(Tail(q))
  BY <1>1 DEF Once
<1> QED
  BY <1>1, <1>2, <1>3, <1>4, <1>5

\* q without its k-th element.
Cut(q, k) == [i \in 1..(Len(q) - 1) |-> IF i < k THEN q[i] ELSE q[i + 1]]

LEMMA CutAt ==
  ASSUME NEW S, NEW q \in Seq(S), NEW k \in 1..Len(q)
  PROVE  /\ Cut(q, k) \in Seq(S) /\ Len(Cut(q, k)) = Len(q) - 1
         /\ \A i \in 1..(Len(q) - 1) : Cut(q, k)[i] = IF i < k THEN q[i] ELSE q[i + 1]
<1>1. DOMAIN q = 1..Len(q) /\ Len(q) \in Nat /\ \A i \in 1..Len(q) : q[i] \in S
  OBVIOUS
<1>2. Len(q) - 1 \in Nat /\ \A i \in 1..(Len(q) - 1) : (IF i < k THEN q[i] ELSE q[i + 1]) \in S
  BY <1>1
<1>3. Cut(q, k) \in [1..(Len(q) - 1) -> S]
  BY <1>2 DEF Cut
<1> QED
  BY <1>2, <1>3 DEF Cut

LEMMA ElemsCut ==
  ASSUME NEW S, NEW q \in Seq(S), Once(q), NEW k \in 1..Len(q)
  PROVE  /\ Elems(Cut(q, k)) = Elems(q) \ {q[k]} /\ Once(Cut(q, k))
<1> DEFINE p == [i \in 1..(Len(q) - 1) |-> IF i < k THEN q[i] ELSE q[i + 1]]
           r == q[k]
<1>1. DOMAIN q = 1..Len(q) /\ Len(q) \in Nat /\ \A i \in 1..Len(q) : q[i] \in S
  OBVIOUS
<1>2. k \in 1..Len(q) /\ q[k] = r
  OBVIOUS
<1>3. /\ p \in Seq(S) /\ Len(p) = Len(q) - 1
      /\ \A i \in 1..(Len(q) - 1) : p[i] = IF i < k THEN q[i] ELSE q[i + 1]
  BY CutAt DEF Cut
<1> HIDE DEF p
<1>4. Elems(p) \subseteq Elems(q) \ {r}
  <2>1. ASSUME NEW x \in Elems(p)
        PROVE  x \in Elems(q) /\ x # r
    <3>1. PICK i \in 1..(Len(q) - 1) : x = p[i]
      BY <1>3, <2>1 DEF Elems
    <3>2. PICK j \in 1..Len(q) : x = q[j] /\ j # k
      <4>1. CASE i < k
        BY <1>1, <1>2, <1>3, <3>1, <4>1
      <4>2. CASE ~(i < k)
        <5>1. i + 1 \in 1..Len(q) /\ i + 1 # k /\ x = q[i + 1]
          BY <1>1, <1>2, <1>3, <3>1, <4>2
        <5> QED
          BY <5>1
      <4> QED
        BY <4>1, <4>2
    <3> QED
      BY <1>2, <3>2 DEF Elems, Once
  <2> QED
    BY <2>1
<1>5. Elems(q) \ {r} \subseteq Elems(p)
  <2>1. ASSUME NEW x \in Elems(q), x # r
        PROVE  x \in Elems(p)
    <3>1. PICK j \in 1..Len(q) : x = q[j]
      BY DEF Elems
    <3>2. PICK i \in 1..(Len(q) - 1) : p[i] = x
      <4>1. CASE j < k
        <5>1. j \in 1..(Len(q) - 1) /\ p[j] = x
          BY <1>1, <1>2, <1>3, <3>1, <4>1
        <5> QED
          BY <5>1
      <4>2. CASE ~(j < k)
        <5>1. j # k
          BY <1>2, <2>1, <3>1
        <5>2. j - 1 \in 1..(Len(q) - 1) /\ ~(j - 1 < k) /\ (j - 1) + 1 = j
          BY <1>1, <1>2, <4>2, <5>1
        <5>3. p[j - 1] = x
          BY <1>3, <3>1, <5>2
        <5> QED
          BY <5>2, <5>3
      <4> QED
        BY <4>1, <4>2
    <3> QED
      BY <1>3, <3>2 DEF Elems
  <2> QED
    BY <2>1
<1>6. Once(p)
  <2>1. SUFFICES ASSUME NEW i \in 1..(Len(q) - 1), NEW j \in 1..(Len(q) - 1), p[i] = p[j]
                 PROVE  i = j
    BY <1>3 DEF Once
  <2> DEFINE at(n) == IF n < k THEN n ELSE n + 1
  <2>2. at(i) \in 1..Len(q) /\ at(j) \in 1..Len(q) /\ p[i] = q[at(i)] /\ p[j] = q[at(j)]
    BY <1>1, <1>2, <1>3
  <2>3. at(i) = at(j)
    BY <2>1, <2>2 DEF Once
  <2> QED
    BY <1>1, <1>2, <2>3
<1> QED
  BY <1>3, <1>4, <1>5, <1>6 DEF Cut, p

LEMMA ElemsWithout ==
  ASSUME NEW S, NEW q \in Seq(S), Once(q), NEW r
  PROVE  /\ TP!Without(q, r) \in Seq(S) /\ Elems(TP!Without(q, r)) = Elems(q) \ {r}
         /\ Once(TP!Without(q, r))
<1>1. DOMAIN q = 1..Len(q)
  OBVIOUS
<1>2. CASE \A i \in DOMAIN q : q[i] # r
  <2>1. TP!Without(q, r) = q
    BY <1>2 DEF TP!Without
  <2>2. r \notin Elems(q)
    BY <1>1, <1>2 DEF Elems
  <2> QED
    BY <2>1, <2>2
<1>3. CASE \E i \in DOMAIN q : q[i] = r
  <2> DEFINE k == CHOOSE i \in DOMAIN q : q[i] = r
  <2>1. k \in 1..Len(q) /\ q[k] = r
    BY <1>1, <1>3
  <2>2. TP!Without(q, r) = Cut(q, k)
    BY <1>3 DEF TP!Without, Cut
  <2> HIDE DEF k
  <2> QED
    BY <2>1, <2>2, CutAt, ElemsCut
<1> QED
  BY <1>2, <1>3

\* What joining two queues does.
LEMMA Joined ==
  ASSUME NEW S, NEW q \in Seq(S), NEW r \in Seq(S)
  PROVE  /\ q \o r \in Seq(S) /\ Len(q \o r) = Len(q) + Len(r)
         /\ \A i \in 1..Len(q) : (q \o r)[i] = q[i]
         /\ \A i \in 1..Len(r) : (q \o r)[Len(q) + i] = r[i]
         /\ \A i \in 1..(Len(q) + Len(r)) : (q \o r)[i] = IF i <= Len(q) THEN q[i] ELSE r[i - Len(q)]
OBVIOUS

LEMMA SeqEqual ==
  ASSUME NEW S, NEW q \in Seq(S), NEW r \in Seq(S), Len(q) = Len(r),
         \A i \in 1..Len(q) : q[i] = r[i]
  PROVE  q = r
OBVIOUS

LEMMA JoinedEmpty ==
  ASSUME NEW S, NEW q \in Seq(S)
  PROVE  <<>> \o q = q /\ q \o <<>> = q
<1>1. <<>> \in Seq(S) /\ Len(<<>>) = 0
  OBVIOUS
<1>2. <<>> \o q = q
  <2>1. /\ <<>> \o q \in Seq(S) /\ Len(<<>> \o q) = Len(q)
        /\ \A i \in 1..Len(q) : (<<>> \o q)[i] = q[i]
    BY <1>1, Joined
  <2> QED
    BY <2>1, SeqEqual
<1>3. q \o <<>> = q
  <2>1. /\ q \o <<>> \in Seq(S) /\ Len(q \o <<>>) = Len(q)
        /\ \A i \in 1..Len(q) : (q \o <<>>)[i] = q[i]
    BY <1>1, Joined
  <2> QED
    BY <2>1, SeqEqual
<1> QED
  BY <1>2, <1>3

LEMMA OnceAt ==
  ASSUME NEW q, Once(q), NEW i \in 1..Len(q), NEW j \in 1..Len(q), q[i] = q[j]
  PROVE  i = j
BY DEF Once

LEMMA ElemsJoined ==
  ASSUME NEW S, NEW q \in Seq(S), NEW r \in Seq(S)
  PROVE  /\ Elems(q \o r) = Elems(q) \cup Elems(r)
         /\ Once(q \o r) <=> Once(q) /\ Once(r) /\ Elems(q) \cap Elems(r) = {}
<1> DEFINE s == q \o r
<1>1. /\ s \in Seq(S) /\ Len(s) = Len(q) + Len(r) /\ Len(q) \in Nat /\ Len(r) \in Nat
      /\ \A i \in 1..Len(q) : s[i] = q[i]
      /\ \A i \in 1..Len(r) : s[Len(q) + i] = r[i]
      /\ \A i \in 1..(Len(q) + Len(r)) : s[i] = IF i <= Len(q) THEN q[i] ELSE r[i - Len(q)]
  BY Joined
<1> HIDE DEF s
<1>2. \A i \in 1..Len(q) : i \in 1..Len(s)
  BY <1>1
<1>3. \A i \in 1..Len(r) : Len(q) + i \in 1..Len(s)
  BY <1>1
<1>4. \A i \in 1..Len(s) : i \in 1..Len(q) \/ \E j \in 1..Len(r) : i = Len(q) + j
  <2>1. ASSUME NEW i \in 1..Len(s), i \notin 1..Len(q)
        PROVE  i - Len(q) \in 1..Len(r) /\ i = Len(q) + (i - Len(q))
    BY <1>1, <2>1
  <2> QED
    BY <2>1
<1>5. Elems(s) = Elems(q) \cup Elems(r)
  <2>1. ASSUME NEW x \in Elems(s)
        PROVE  x \in Elems(q) \cup Elems(r)
    <3>1. PICK i \in 1..Len(s) : x = s[i]
      BY DEF Elems
    <3>2. CASE i \in 1..Len(q)
      BY <1>1, <3>1, <3>2 DEF Elems
    <3>3. ASSUME NEW j \in 1..Len(r), i = Len(q) + j
          PROVE  x \in Elems(r)
      BY <1>1, <3>1, <3>3 DEF Elems
    <3> QED
      BY <1>4, <3>2, <3>3
  <2>2. ASSUME NEW x \in Elems(q) \cup Elems(r)
        PROVE  x \in Elems(s)
    BY <1>1, <1>2, <1>3 DEF Elems
  <2> QED
    BY <2>1, <2>2
<1>6. ASSUME Once(s)
      PROVE  Once(q) /\ Once(r) /\ Elems(q) \cap Elems(r) = {}
  <2>1. Once(q)
    BY <1>1, <1>2, <1>6 DEF Once
  <2>2. Once(r)
    <3>1. SUFFICES ASSUME NEW i \in 1..Len(r), NEW j \in 1..Len(r), r[i] = r[j]
                   PROVE  i = j
      BY DEF Once
    <3>2. Len(q) + i = Len(q) + j
      BY <1>1, <1>3, <1>6, <3>1 DEF Once
    <3> QED
      BY <1>1, <3>2
  <2>3. ASSUME NEW x, x \in Elems(q), x \in Elems(r)
        PROVE  FALSE
    <3>1. PICK i \in 1..Len(q), j \in 1..Len(r) : x = q[i] /\ x = r[j]
      BY <2>3 DEF Elems
    <3>2. s[i] = s[Len(q) + j] /\ i \in 1..Len(s) /\ Len(q) + j \in 1..Len(s) /\ i # Len(q) + j
      <4>1. s[i] = x
        BY <1>1, <3>1, Zenon
      <4>2. s[Len(q) + j] = x
        BY <1>1, <3>1, Zenon
      <4>3. i \in 1..Len(s)
        BY <1>2, Zenon
      <4>4. Len(q) + j \in 1..Len(s)
        BY <1>3, Zenon
      <4>5. i # Len(q) + j
        BY <1>1
      <4> QED
        BY <4>1, <4>2, <4>3, <4>4, <4>5
    <3> QED
      BY <1>6, <3>2, OnceAt, Zenon
  <2> QED
    BY <2>1, <2>2, <2>3
<1>7. ASSUME Once(q), Once(r), Elems(q) \cap Elems(r) = {}
      PROVE  Once(s)
  <2>1. SUFFICES ASSUME NEW i \in 1..Len(s), NEW j \in 1..Len(s), s[i] = s[j]
                 PROVE  i = j
    BY DEF Once
  <2>2. CASE i \in 1..Len(q) /\ j \in 1..Len(q)
    BY <1>1, <1>7, <2>1, <2>2 DEF Once
  <2>3. CASE i \notin 1..Len(q) /\ j \notin 1..Len(q)
    <3>1. PICK m \in 1..Len(r), n \in 1..Len(r) : i = Len(q) + m /\ j = Len(q) + n
      BY <1>4, <2>3
    <3>2. m = n
      BY <1>1, <1>7, <2>1, <3>1 DEF Once
    <3> QED
      BY <3>1, <3>2
  <2>4. CASE (i \in 1..Len(q) /\ j \notin 1..Len(q)) \/ (i \notin 1..Len(q) /\ j \in 1..Len(q))
    <3>1. \A m, n \in 1..Len(s) : m \in 1..Len(q) /\ n \notin 1..Len(q) => s[m] # s[n]
      <4>1. SUFFICES ASSUME NEW m \in 1..Len(q), NEW n \in 1..Len(r)
                     PROVE  s[m] # s[Len(q) + n]
        BY <1>4
      <4>2. s[m] \in Elems(q) /\ s[Len(q) + n] \in Elems(r)
        BY <1>1 DEF Elems
      <4> QED
        BY <1>7, <4>2
    <3> QED
      BY <2>1, <2>4, <3>1
  <2> QED
    BY <2>2, <2>3, <2>4
<1> QED
  BY <1>5, <1>6, <1>7 DEF s

\* Taking out of two joined queues is taking out of the one that has it.
LEMMA CutJoined ==
  ASSUME NEW S, NEW q \in Seq(S), NEW r \in Seq(S)
  PROVE  /\ \A k \in 1..Len(q) : Cut(q \o r, k) = Cut(q, k) \o r
         /\ \A k \in 1..Len(r) : Cut(q \o r, Len(q) + k) = q \o Cut(r, k)
<1>1. /\ q \in Seq(S) /\ r \in Seq(S)
      /\ q \o r \in Seq(S) /\ Len(q \o r) = Len(q) + Len(r) /\ Len(q) \in Nat /\ Len(r) \in Nat
      /\ \A i \in 1..(Len(q) + Len(r)) : (q \o r)[i] = IF i <= Len(q) THEN q[i] ELSE r[i - Len(q)]
  BY Joined
<1> DEFINE s == q \o r
<1>2. ASSUME NEW k \in 1..Len(q)
      PROVE  Cut(s, k) = Cut(q, k) \o r
  <2>1. /\ Cut(q, k) \in Seq(S) /\ Len(Cut(q, k)) = Len(q) - 1
        /\ \A i \in 1..(Len(q) - 1) : Cut(q, k)[i] = IF i < k THEN q[i] ELSE q[i + 1]
    BY CutAt
  <2>2. k \in 1..Len(s) /\ s \in Seq(S)
    BY <1>1
  <2>3. /\ Cut(s, k) \in Seq(S) /\ Len(Cut(s, k)) = Len(s) - 1
        /\ \A i \in 1..(Len(s) - 1) : Cut(s, k)[i] = IF i < k THEN s[i] ELSE s[i + 1]
    BY <2>2, CutAt
  <2>4. /\ Cut(q, k) \o r \in Seq(S) /\ Len(Cut(q, k) \o r) = Len(q) - 1 + Len(r)
        /\ \A i \in 1..(Len(q) - 1 + Len(r)) :
             (Cut(q, k) \o r)[i] = IF i <= Len(q) - 1 THEN Cut(q, k)[i] ELSE r[i - (Len(q) - 1)]
    <3> DEFINE c == Cut(q, k)
    <3>1. c \in Seq(S) /\ Len(c) = Len(q) - 1
      BY <2>1
    <3> HIDE DEF c
    <3>2. /\ c \o r \in Seq(S) /\ Len(c \o r) = Len(c) + Len(r)
          /\ \A i \in 1..(Len(c) + Len(r)) : (c \o r)[i] = IF i <= Len(c) THEN c[i] ELSE r[i - Len(c)]
      BY <3>1, SMTT(20)
    <3> QED
      BY <3>1, <3>2 DEF c
  <2> HIDE DEF s
  <2>5. ASSUME NEW i \in 1..(Len(q) - 1 + Len(r))
        PROVE  Cut(s, k)[i] = (Cut(q, k) \o r)[i]
    <3>1. i + 1 \in 1..(Len(q) + Len(r)) /\ i \in 1..(Len(q) + Len(r)) /\ i \in 1..(Len(s) - 1)
      BY <1>1 DEF s
    <3>2. CASE i < k
      BY <1>1, <2>1, <2>3, <2>4, <3>1, <3>2 DEF s
    <3>3. CASE ~(i < k) /\ i <= Len(q) - 1
      BY <1>1, <2>1, <2>3, <2>4, <3>1, <3>3 DEF s
    <3>4. CASE ~(i < k) /\ ~(i <= Len(q) - 1)
      <4>1. (i + 1) - Len(q) = i - (Len(q) - 1) /\ ~(i + 1 <= Len(q))
        BY <1>1, <3>4
      <4> QED
        BY <1>1, <2>3, <2>4, <3>1, <3>4, <4>1 DEF s
    <3> QED
      BY <3>2, <3>3, <3>4
  <2>6. Len(Cut(s, k)) = Len(q) - 1 + Len(r)
    BY <1>1, <2>3 DEF s
  <2> QED
    BY <1>1, <2>3, <2>4, <2>5, <2>6, SeqEqual
<1>3. ASSUME NEW k \in 1..Len(r)
      PROVE  Cut(s, Len(q) + k) = q \o Cut(r, k)
  <2>1. /\ Cut(r, k) \in Seq(S) /\ Len(Cut(r, k)) = Len(r) - 1
        /\ \A i \in 1..(Len(r) - 1) : Cut(r, k)[i] = IF i < k THEN r[i] ELSE r[i + 1]
    BY CutAt
  <2>2. Len(q) + k \in 1..Len(s) /\ s \in Seq(S)
    BY <1>1
  <2>3. /\ Cut(s, Len(q) + k) \in Seq(S) /\ Len(Cut(s, Len(q) + k)) = Len(s) - 1
        /\ \A i \in 1..(Len(s) - 1) :
             Cut(s, Len(q) + k)[i] = IF i < Len(q) + k THEN s[i] ELSE s[i + 1]
    BY <2>2, CutAt
  <2>4. /\ q \o Cut(r, k) \in Seq(S) /\ Len(q \o Cut(r, k)) = Len(q) + (Len(r) - 1)
        /\ \A i \in 1..(Len(q) + (Len(r) - 1)) :
             (q \o Cut(r, k))[i] = IF i <= Len(q) THEN q[i] ELSE Cut(r, k)[i - Len(q)]
    <3> DEFINE c == Cut(r, k)
    <3>1. c \in Seq(S) /\ Len(c) = Len(r) - 1
      BY <2>1
    <3> HIDE DEF c
    <3>2. /\ q \o c \in Seq(S) /\ Len(q \o c) = Len(q) + Len(c)
          /\ \A i \in 1..(Len(q) + Len(c)) : (q \o c)[i] = IF i <= Len(q) THEN q[i] ELSE c[i - Len(q)]
      BY <3>1
    <3> QED
      BY <3>1, <3>2 DEF c
  <2> HIDE DEF s
  <2>5. ASSUME NEW i \in 1..(Len(q) + (Len(r) - 1))
        PROVE  Cut(s, Len(q) + k)[i] = (q \o Cut(r, k))[i]
    <3>1. i + 1 \in 1..(Len(q) + Len(r)) /\ i \in 1..(Len(q) + Len(r)) /\ i \in 1..(Len(s) - 1)
      BY <1>1 DEF s
    <3>2. CASE i <= Len(q)
      BY <1>1, <2>1, <2>3, <2>4, <3>1, <3>2 DEF s
    <3>3. CASE ~(i <= Len(q)) /\ i < Len(q) + k
      <4>1. i - Len(q) \in 1..(Len(r) - 1) /\ i - Len(q) < k
        BY <1>1, <3>3
      <4> QED
        BY <1>1, <2>1, <2>3, <2>4, <3>1, <3>3, <4>1 DEF s
    <3>4. CASE ~(i <= Len(q)) /\ ~(i < Len(q) + k)
      <4>1. /\ i - Len(q) \in 1..(Len(r) - 1) /\ ~(i - Len(q) < k)
            /\ (i + 1) - Len(q) = (i - Len(q)) + 1 /\ ~(i + 1 <= Len(q))
        BY <1>1, <3>4
      <4> QED
        BY <1>1, <2>1, <2>3, <2>4, <3>1, <3>4, <4>1 DEF s
    <3> QED
      BY <3>2, <3>3, <3>4
  <2>6. Len(Cut(s, Len(q) + k)) = Len(q) + (Len(r) - 1)
    BY <1>1, <2>3 DEF s
  <2> QED
    BY <1>1, <2>3, <2>4, <2>5, <2>6, SeqEqual
<1> QED
  BY <1>2, <1>3

LEMMA CutBehindJoined ==
  ASSUME NEW S, NEW q \in Seq(S), NEW r \in Seq(S), NEW k \in 1..Len(r)
  PROVE  Cut(q \o r, Len(q) + k) = q \o Cut(r, k)
BY CutJoined, SMTT(20)

-----------------------------------------------------------------------------
(* The read-write lock of win/thread.c. *)

RwPlaces ==
  {"none", "rdlock", "tryrdlock", "wrlock", "trywrlock", "first", "reading", "writing"}

RwType ==
  /\ rw_pc \in [Threads -> RwPlaces]
  /\ num_readers_ \in Nat /\ write_semaphore_ \in {0, 1}

\* Who is counted in num_readers_: the readers, and a first one that waits.
Counted == {t \in Threads : rw_pc[t] \in {"first", "reading"}}
RwCounted == IsFiniteSet(Counted) /\ num_readers_ = Cardinality(Counted)

\* The critical section is held by the first reader while it waits, and only then:
\* no other reader is counted meanwhile.
RwFirst ==
  \A t \in Threads :
    /\ rw_pc[t] = "first" <=> num_readers_lock_ = t
    /\ rw_pc[t] = "first" => Counted = {t}
RwLocked == num_readers_lock_ # "free" => num_readers_lock_ \in Threads

\* The semaphore is taken while somebody reads or writes, and then only.
RwHeld == write_semaphore_ = 0 <=> \E t \in Threads : rw_pc[t] \in {"reading", "writing"}

RwInv == RwType /\ RwCounted /\ RwFirst /\ RwLocked /\ RwHeld /\ RW!RwExclusion

LEMMA RwInit == RW!Init => RwInv
<1> SUFFICES ASSUME RW!Init
             PROVE  RwInv
  OBVIOUS
<1>1. Counted = {}
  BY DEF RW!Init, Counted
<1>2. RwCounted
  BY <1>1, FS_EmptySet DEF RW!Init, RwCounted
<1> QED
  BY <1>1, <1>2, ThreadsAssumption DEF RW!Init, RW!Free, RwInv, RwType, RwPlaces, RwFirst, RwLocked, RwHeld,
     RW!RwExclusion

\* What moving one thread does to the count.
LEMMA RwMove ==
  ASSUME RwInv, NEW t \in Threads, NEW p \in RwPlaces, rw_pc' = [rw_pc EXCEPT ![t] = p],
         num_readers_' = num_readers_ + One(p \in {"first", "reading"})
                                      - One(rw_pc[t] \in {"first", "reading"})
  PROVE  /\ rw_pc' \in [Threads -> RwPlaces] /\ num_readers_' \in Nat /\ RwCounted'
         /\ \A u \in Threads : rw_pc'[u] = IF u = t THEN p ELSE rw_pc[u]
<1>1. rw_pc' \in [Threads -> RwPlaces] /\ \A u \in Threads : rw_pc'[u] = IF u = t THEN p ELSE rw_pc[u]
  BY DEF RwInv, RwType
<1>2. \A x : x # t => (x \in Counted' <=> x \in Counted)
  BY <1>1 DEF Counted
<1>3. (t \in Counted <=> rw_pc[t] \in {"first", "reading"}) /\ (t \in Counted' <=> p \in {"first", "reading"})
  BY <1>1 DEF Counted
<1>4. IsFiniteSet(Counted)
  BY DEF RwInv, RwCounted
<1>5. /\ IsFiniteSet(Counted') /\ Cardinality(Counted) \in Nat /\ Cardinality(Counted') \in Nat
      /\ Cardinality(Counted') = Cardinality(Counted) + One(t \in Counted') - One(t \in Counted)
  BY <1>2, <1>4, CountChange
<1>6. One(t \in Counted') = One(p \in {"first", "reading"})
      /\ One(t \in Counted) = One(rw_pc[t] \in {"first", "reading"})
  BY <1>3 DEF One
<1> QED
  BY <1>1, <1>5, <1>6 DEF RwInv, RwCounted

\* What the count says of who is counted.
LEMMA RwCount ==
  ASSUME RwInv
  PROVE  /\ num_readers_ = 0 <=> Counted = {}
         /\ \A t \in Counted : num_readers_ = 1 <=> Counted = {t}
<1>1. IsFiniteSet(Counted) /\ num_readers_ = Cardinality(Counted)
  BY DEF RwInv, RwCounted
<1>2. num_readers_ = 0 <=> Counted = {}
  BY <1>1, FS_EmptySet
<1>3. ASSUME NEW t \in Counted
      PROVE  num_readers_ = 1 <=> Counted = {t}
  <2>1. num_readers_ = 1 => Counted = {t}
    <3>1. SUFFICES ASSUME num_readers_ = 1
                   PROVE  Counted = {t}
      OBVIOUS
    <3>2. PICK x : Counted = {x}
      BY <1>1, <3>1, FS_Singleton
    <3> QED
      BY <1>3, <3>2
  <2>2. Counted = {t} => num_readers_ = 1
    BY <1>1, FS_Singleton
  <2> QED
    BY <2>1, <2>2
<1> QED
  BY <1>2, <1>3

LEMMA RwNext ==
  ASSUME RwInv, RW!Next
  PROVE  RwInv'
<1> USE ThreadsAssumption DEF RW!Goto, RW!Free
<1>1. PICK t \in Threads : RW!Call(t) \/ RW!LockStep(t) \/ RW!Unlock(t)
  BY DEF RW!Next
<1>2. CASE RW!Call(t) \/ RW!TryWrLockBusy(t)
  <2>1. PICK p \in RwPlaces \ {"first", "reading", "writing"} :
          /\ rw_pc' = [rw_pc EXCEPT ![t] = p]
          /\ rw_pc[t] \notin {"first", "reading", "writing"}
          /\ UNCHANGED <<num_readers_, num_readers_lock_, write_semaphore_>>
    BY <1>2 DEF RW!Call, RW!TryWrLockBusy, RwPlaces
  <2>2. num_readers_' = num_readers_ + One(p \in {"first", "reading"}) - One(rw_pc[t] \in {"first", "reading"})
    BY <2>1 DEF One, RwInv, RwType
  <2>3. /\ rw_pc' \in [Threads -> RwPlaces] /\ num_readers_' \in Nat /\ RwCounted'
        /\ \A u \in Threads : rw_pc'[u] = IF u = t THEN p ELSE rw_pc[u]
    BY <2>1, <2>2, RwMove
  <2>4. Counted' = Counted
    BY <2>1, <2>3 DEF Counted
  <2> QED
    BY <2>1, <2>3, <2>4 DEF RwInv, RwType, RwFirst, RwLocked, RwHeld, RW!RwExclusion
<1>3. CASE RW!RdLock(t)
  <2>1. PICK p \in {"first", "reading"} :
          /\ rw_pc' = [rw_pc EXCEPT ![t] = p] /\ rw_pc[t] = "rdlock" /\ num_readers_lock_ = "free"
          /\ num_readers_' = num_readers_ + 1 /\ UNCHANGED write_semaphore_
          /\ num_readers_ = 0 => p = "first" /\ num_readers_lock_' = t
          /\ num_readers_ # 0 => p = "reading" /\ num_readers_lock_' = num_readers_lock_
    BY <1>3 DEF RW!RdLock
  <2>2. num_readers_' = num_readers_ + One(p \in {"first", "reading"}) - One(rw_pc[t] \in {"first", "reading"})
    BY <2>1 DEF One, RwInv, RwType
  <2>3. /\ rw_pc' \in [Threads -> RwPlaces] /\ num_readers_' \in Nat /\ RwCounted'
        /\ \A u \in Threads : rw_pc'[u] = IF u = t THEN p ELSE rw_pc[u]
    BY <2>1, <2>2, RwMove DEF RwPlaces
  <2>4. Counted' = Counted \cup {t}
    BY <2>1, <2>3 DEF Counted
  <2>5. \A u \in Threads : rw_pc[u] # "first"
    BY <2>1 DEF RwInv, RwFirst
  <2>6. CASE num_readers_ = 0
    <3>1. Counted = {}
      BY <2>6, RwCount
    <3>2. RwHeld' /\ RW!RwExclusion'
      BY <2>1, <2>3, <2>6 DEF RwInv, RwHeld, RW!RwExclusion
    <3>3. RwFirst'
      BY <2>1, <2>3, <2>4, <2>5, <2>6, <3>1 DEF RwFirst
    <3> QED
      BY <2>1, <2>3, <2>6, <3>2, <3>3 DEF RwInv, RwType, RwLocked
  <2>7. CASE num_readers_ # 0
    <3>1. PICK u \in Threads : rw_pc[u] = "reading"
      BY <2>5, <2>7, RwCount DEF Counted
    <3>2. RwFirst'
      BY <2>1, <2>3, <2>5, <2>7 DEF RwFirst
    <3>3. RwHeld' /\ RW!RwExclusion'
      BY <2>1, <2>3, <2>7, <3>1 DEF RwInv, RwHeld, RW!RwExclusion, RwType
    <3> QED
      BY <2>1, <2>3, <2>7, <3>2, <3>3 DEF RwInv, RwType, RwLocked
  <2> QED
    BY <2>6, <2>7
<1>4. CASE RW!RdFirst(t)
  <2>1. /\ rw_pc' = [rw_pc EXCEPT ![t] = "reading"] /\ rw_pc[t] = "first"
        /\ write_semaphore_ = 1 /\ write_semaphore_' = 0
        /\ num_readers_lock_' = "free" /\ UNCHANGED num_readers_
    BY <1>4 DEF RW!RdFirst, RwInv, RwType
  <2>2. num_readers_' = num_readers_ + One("reading" \in {"first", "reading"})
                                     - One(rw_pc[t] \in {"first", "reading"})
    BY <2>1 DEF One, RwInv, RwType
  <2>3. /\ rw_pc' \in [Threads -> RwPlaces] /\ num_readers_' \in Nat /\ RwCounted'
        /\ \A u \in Threads : rw_pc'[u] = IF u = t THEN "reading" ELSE rw_pc[u]
    BY <2>1, <2>2, RwMove DEF RwPlaces
  <2>4. \A u \in Threads : rw_pc[u] \notin {"reading", "writing"} /\ (rw_pc[u] = "first" => u = t)
    BY <2>1 DEF RwInv, RwHeld, RwFirst
  <2> QED
    BY <2>1, <2>3, <2>4 DEF RwInv, RwType, RwFirst, RwLocked, RwHeld, RW!RwExclusion
<1>5. CASE RW!TryRdLock(t)
  <2>1. CASE rw_pc' = [rw_pc EXCEPT ![t] = "none"] /\ UNCHANGED <<num_readers_, write_semaphore_>>
    <3>1. rw_pc[t] = "tryrdlock" /\ UNCHANGED num_readers_lock_
      BY <1>5 DEF RW!TryRdLock
    <3>2. num_readers_' = num_readers_ + One("none" \in {"first", "reading"})
                                       - One(rw_pc[t] \in {"first", "reading"})
      BY <2>1, <3>1 DEF One, RwInv, RwType
    <3>3. /\ rw_pc' \in [Threads -> RwPlaces] /\ num_readers_' \in Nat /\ RwCounted'
          /\ \A u \in Threads : rw_pc'[u] = IF u = t THEN "none" ELSE rw_pc[u]
      BY <2>1, <3>2, RwMove DEF RwPlaces
    <3>4. Counted' = Counted
      BY <3>1, <3>3 DEF Counted
    <3> QED
      BY <2>1, <3>1, <3>3, <3>4 DEF RwInv, RwType, RwFirst, RwLocked, RwHeld, RW!RwExclusion
  <2>2. CASE /\ num_readers_lock_ = "free" /\ ~(num_readers_ = 0 /\ write_semaphore_ = 0)
             /\ num_readers_' = num_readers_ + 1
             /\ write_semaphore_' = IF num_readers_ = 0 THEN 0 ELSE write_semaphore_
             /\ rw_pc' = [rw_pc EXCEPT ![t] = "reading"]
    <3>1. rw_pc[t] = "tryrdlock" /\ UNCHANGED num_readers_lock_
      BY <1>5 DEF RW!TryRdLock
    <3>2. num_readers_' = num_readers_ + One("reading" \in {"first", "reading"})
                                       - One(rw_pc[t] \in {"first", "reading"})
      BY <2>2, <3>1 DEF One, RwInv, RwType
    <3>3. /\ rw_pc' \in [Threads -> RwPlaces] /\ num_readers_' \in Nat /\ RwCounted'
          /\ \A u \in Threads : rw_pc'[u] = IF u = t THEN "reading" ELSE rw_pc[u]
      BY <2>2, <3>2, RwMove DEF RwPlaces
    <3>4. \A u \in Threads : rw_pc[u] # "first"
      BY <2>2 DEF RwInv, RwFirst
    <3>5. RwFirst'
      BY <2>2, <3>1, <3>3, <3>4 DEF RwFirst
    <3>6. \A u \in Threads : rw_pc[u] # "writing"
      <4>1. CASE num_readers_ = 0
        BY <2>2, <4>1 DEF RwInv, RwType, RwHeld
      <4>2. CASE num_readers_ # 0
        <5>1. PICK u \in Threads : rw_pc[u] = "reading"
          BY <3>4, <4>2, RwCount DEF Counted
        <5> QED
          BY <5>1 DEF RwInv, RW!RwExclusion
      <4> QED
        BY <4>1, <4>2
    <3>7. write_semaphore_' = 0
      <4>1. CASE num_readers_ # 0
        <5>1. PICK u \in Threads : rw_pc[u] = "reading"
          BY <3>4, <4>1, RwCount DEF Counted
        <5> QED
          BY <2>2, <4>1, <5>1 DEF RwInv, RwHeld
      <4> QED
        BY <2>2, <4>1
    <3> QED
      BY <3>1, <3>3, <3>5, <3>6, <3>7 DEF RwInv, RwType, RwLocked, RwHeld, RW!RwExclusion
  <2> QED
    BY <1>5, <2>1, <2>2 DEF RW!TryRdLock
<1>6. CASE RW!RdUnlock(t)
  <2>1. /\ rw_pc' = [rw_pc EXCEPT ![t] = "none"] /\ rw_pc[t] = "reading" /\ num_readers_lock_ = "free"
        /\ num_readers_' = num_readers_ - 1 /\ UNCHANGED num_readers_lock_
        /\ write_semaphore_' = IF num_readers_ = 1 THEN write_semaphore_ + 1 ELSE write_semaphore_
    BY <1>6 DEF RW!RdUnlock
  <2>2. num_readers_' = num_readers_ + One("none" \in {"first", "reading"})
                                     - One(rw_pc[t] \in {"first", "reading"})
    BY <2>1 DEF One, RwInv, RwType
  <2>3. /\ rw_pc' \in [Threads -> RwPlaces] /\ num_readers_' \in Nat /\ RwCounted'
        /\ \A u \in Threads : rw_pc'[u] = IF u = t THEN "none" ELSE rw_pc[u]
    BY <2>1, <2>2, RwMove DEF RwPlaces
  <2>4. \A u \in Threads : rw_pc[u] # "first" /\ rw_pc[u] # "writing"
    BY <2>1 DEF RwInv, RwFirst, RW!RwExclusion
  <2>5. write_semaphore_ = 0
    BY <2>1 DEF RwInv, RwHeld
  <2>6. (num_readers_ = 1) <=> \A u \in Threads : u # t => rw_pc[u] # "reading"
    BY <2>1, <2>4, RwCount DEF Counted
  <2> QED
    BY <2>1, <2>3, <2>4, <2>5, <2>6
       DEF RwInv, RwType, RwFirst, RwLocked, RwHeld, RW!RwExclusion
<1>7. CASE RW!WrLock(t) \/ RW!WrUnlock(t)
  <2>1. PICK p \in {"writing", "none"} :
          /\ rw_pc' = [rw_pc EXCEPT ![t] = p] /\ rw_pc[t] \in {"wrlock", "trywrlock", "writing"}
          /\ p = "writing" => write_semaphore_ > 0 /\ write_semaphore_' = write_semaphore_ - 1
          /\ p = "none" => rw_pc[t] = "writing" /\ write_semaphore_' = write_semaphore_ + 1
          /\ UNCHANGED <<num_readers_, num_readers_lock_>>
    BY <1>7 DEF RW!WrLock, RW!WrUnlock
  <2>2. num_readers_' = num_readers_ + One(p \in {"first", "reading"}) - One(rw_pc[t] \in {"first", "reading"})
    BY <2>1 DEF One, RwInv, RwType
  <2>3. /\ rw_pc' \in [Threads -> RwPlaces] /\ num_readers_' \in Nat /\ RwCounted'
        /\ \A u \in Threads : rw_pc'[u] = IF u = t THEN p ELSE rw_pc[u]
    BY <2>1, <2>2, RwMove DEF RwPlaces
  <2>4. Counted' = Counted
    BY <2>1, <2>3 DEF Counted
  <2>5. RwFirst' /\ RwLocked'
    BY <2>1, <2>3, <2>4 DEF RwInv, RwFirst, RwLocked
  <2>6. CASE p = "writing"
    BY <2>1, <2>3, <2>5, <2>6 DEF RwInv, RwType, RwHeld, RW!RwExclusion
  <2>7. CASE p = "none"
    <3>1. write_semaphore_ = 0
      BY <2>1, <2>7 DEF RwInv, RwHeld
    <3> QED
      BY <2>1, <2>3, <2>5, <2>7, <3>1 DEF RwInv, RwType, RwHeld, RW!RwExclusion
  <2> QED
    BY <2>6, <2>7
<1> QED
  BY <1>1, <1>2, <1>3, <1>4, <1>5, <1>6, <1>7 DEF RW!LockStep, RW!Unlock

-----------------------------------------------------------------------------
(* uv_once of win/thread.c. *)

OnType ==
  /\ event \in Threads \cup {"null"} /\ callbacks \in Nat
  /\ signalled \in BOOLEAN /\ once_ran \in BOOLEAN
  /\ on_pc \in [Threads -> {"before", "created", "callback", "set", "waiting", "after"}]

\* Until the race for the event is won nobody is past it; then one thread runs the
\* callback, and nobody is past uv_once before the event is set.
OnRace ==
  /\ event = "null" => /\ callbacks = 0 /\ ~signalled
                       /\ \A t \in Threads : on_pc[t] \in {"before", "created"}
  /\ event # "null" => callbacks = 1
  /\ once_ran => signalled
  /\ \A t \in Threads : /\ on_pc[t] \in {"callback", "set"} => event = t
                        /\ on_pc[t] \in {"set", "after"} => signalled
                        /\ on_pc[t] = "callback" => ~signalled

OnInv == OnType /\ OnRace

LEMMA OnInit == ON!Init => OnInv
<1>1. ON!Init => OnType
  <2>1. ON!Init => signalled \in BOOLEAN /\ once_ran \in BOOLEAN
    BY Zenon DEF ON!Init
  <2> QED
    BY <2>1 DEF ON!Init, OnType
<1>2. ON!Init => OnRace
  BY DEF ON!Init, OnRace
<1> QED
  BY <1>1, <1>2 DEF OnInv

LEMMA OnNext ==
  ASSUME OnInv, ON!Next
  PROVE  OnInv'
<1> USE ThreadsAssumption DEF OnInv, OnType, OnRace, ON!Goto
<1>1. PICK t \in Threads : ON!ThreadStep(t)
  BY DEF ON!Next
<1>2. CASE ON!FastReturn(t)
  BY <1>2 DEF ON!FastReturn
<1>3. CASE ON!CreateEvent(t)
  BY <1>3 DEF ON!CreateEvent
<1>4. CASE ON!Exchange(t)
  BY <1>4 DEF ON!Exchange
<1>5. CASE ON!SetEvent(t)
  BY <1>5 DEF ON!SetEvent
<1>6. CASE ON!SetRan(t)
  BY <1>6 DEF ON!SetRan
<1>7. CASE ON!WaitDone(t)
  BY <1>7 DEF ON!WaitDone
<1> QED
  BY <1>1, <1>2, <1>3, <1>4, <1>5, <1>6, <1>7 DEF ON!ThreadStep

LEMMA OnSound == OnInv => ON!OnceBeforeReturn
BY DEF OnInv, OnType, OnRace, ON!OnceBeforeReturn

-----------------------------------------------------------------------------
(* Interrupting a read of win/pipe.c. *)

RcType ==
  /\ thread_ptr \in {"null", "thread", "invalid"} /\ lock \in {"free", "main"}
  /\ main_pc \in {"out", "lock", "spin", "yield", "unlock"}
  /\ worker_pc \in {"none", "start", "before", "blocked", "after", "fence", "post", "posted"}

\* The loop's thread holds the lock while it cancels, and a read is pending then; the
\* handle of the worker is shown only while it may block.
RcLocked ==
  /\ lock = "main" <=> main_pc \in {"spin", "yield", "unlock"}
  /\ main_pc # "out" => read_pending
  /\ worker_pc = "none" <=> ~read_pending
  /\ thread_ptr = "thread" => worker_pc \in {"before", "blocked", "after"}

RcInv == RcType /\ RcLocked /\ RC!CancelHitsOwnRead

LEMMA RcInit == RC!Init => RcInv
BY DEF RC!Init, RcInv, RcType, RcLocked, RC!CancelHitsOwnRead

LEMMA RcNext ==
  ASSUME RcInv, RC!Next
  PROVE  RcInv'
<1> USE DEF RcInv, RcType, RcLocked, RC!CancelHitsOwnRead
<1>1. CASE RC!QueueRead
  BY <1>1 DEF RC!QueueRead
<1>2. CASE RC!ProcessRead
  BY <1>2 DEF RC!ProcessRead
<1>3. CASE RC!Reader
  BY <1>3 DEF RC!Reader, RC!Announce, RC!Block, RC!Acknowledge, RC!Fence, RC!PostRead
<1>4. CASE RC!ReadReturns \/ RC!Interrupt \/ RC!Peer
  BY <1>4 DEF RC!ReadReturns, RC!Interrupt, RC!Peer
<1>5. CASE RC!Main
  BY <1>5 DEF RC!Main, RC!InterruptLock, RC!Spin, RC!Recheck, RC!InterruptDone
<1> QED
  BY <1>1, <1>2, <1>3, <1>4, <1>5 DEF RC!Next

-----------------------------------------------------------------------------
(* Reading the console, win/tty.c. *)

TtFlags == {"reading", "read_pending", "raw", "cancellation_pending", "closing", "closed"}
TtReads == {"enter", "blocked", "after"}
\* Where the loop's thread is in a call that stops a read, and in any call.
TtCancels == {"lock", "trap", "write"}
TtCalls == TtCancels \cup {"switch", "close", "output"}

TtType ==
  /\ tflags \subseteq TtFlags /\ console \in {"open", "closed"}
  /\ rpc \in {"none", "start"} \cup TtReads
  /\ read_console_status \in {"not_started", "in_progress", "trap_requested", "completed"}
  /\ ttpc \in {"loop", "callback", "line", "rest"} \cup TtCalls
  /\ call \in {"none", "stop", "mode", "close"} /\ base \in {"loop", "callback", "line"}

TtBools ==
  /\ line_buffer \in BOOLEAN /\ half_key \in BOOLEAN
  /\ posted_read \in BOOLEAN /\ raw_wait \in BOOLEAN /\ mistaken \in BOOLEAN

\* A read that is pending is under way in one place; the buffer tells its kind.
TtPlace ==
  /\ raw_wait => ~posted_read /\ ~line_buffer
  /\ rpc # "none" => ~raw_wait /\ ~posted_read /\ line_buffer
  /\ "read_pending" \in tflags <=> rpc # "none" \/ raw_wait \/ posted_read
  /\ line_buffer => "read_pending" \in tflags

\* The call the loop's thread is in.
TtCalling ==
  /\ ttpc \in TtCancels => /\ {"reading", "closing"} \cap tflags = {} /\ call # "none"
                           /\ call = "close" <=> console = "closed"
  /\ ttpc = "switch" => /\ {"reading", "closing"} \cap tflags = {} /\ console = "open"
                        /\ call \in {"none", "mode"}
  /\ ttpc = "close" => console = "closed" /\ "reading" \notin tflags
  /\ console = "closed" => \/ "closing" \in tflags \/ ttpc = "close"
                           \/ ttpc \in TtCancels /\ call = "close"
  /\ "closing" \in tflags => console = "closed" /\ "reading" \notin tflags

\* While no read of keys was cancelled as a line's: what is being cancelled is a line,
\* and one that is out although the handle is raw, or reads no more, is marked.
TtMarked ==
  /\ ttpc \in TtCancels => line_buffer /\ {"raw", "cancellation_pending"} \cap tflags = {}
  /\ "cancellation_pending" \in tflags => line_buffer
  /\ line_buffer /\ "raw" \in tflags => "cancellation_pending" \in tflags
  /\ line_buffer /\ "reading" \notin tflags /\ ttpc \notin TtCancels /\ console = "open"
       => "cancellation_pending" \in tflags

\* The status tells the truth of the thread, unless a cancel is known to be pending; a
\* thread that was trapped is known to be, or its handle is closing.
TtStatus ==
  /\ rpc = "start" => \/ read_console_status = "not_started"
                      \/ read_console_status = "trap_requested" /\ "cancellation_pending" \in tflags
  /\ rpc \in TtReads => \/ read_console_status = "in_progress"
                        \/ /\ read_console_status = "trap_requested"
                           /\ \/ "cancellation_pending" \in tflags \/ ttpc = "write" \/ ttpc = "close"
                              \/ "closing" \in tflags
  /\ rpc = "none" /\ posted_read /\ line_buffer /\ read_console_status = "in_progress"
       => "cancellation_pending" \in tflags
  /\ ttpc = "write" => /\ read_console_status # "in_progress"
                       /\ rpc # "start"

TtTrapped == read_console_status = "trap_requested" /\ rpc \in TtReads
TtLocked == output_lock \in {0, 1} /\ output_lock + One(ttpc = "trap") + One(TtTrapped) = 1
TtApart == ~(ttpc = "trap" /\ TtTrapped)

\* Counters: the read that is pending and the one whose callback runs.
TtProcessing ==
  ttpc \in {"callback", "line", "rest"} \/ (ttpc \in TtCalls /\ base \in {"callback", "line"})
TtCounts ==
  /\ tactive = One("reading" \in tflags)
  /\ treqs = One("read_pending" \in tflags) + One(TtProcessing)
  /\ "closed" \in tflags => "closing" \in tflags /\ treqs = 0

TtUntilMistaken == TtMarked /\ TtStatus /\ TtLocked /\ TtApart
TtInv ==
  /\ TtType /\ TtBools /\ TtPlace /\ TtCalling /\ TtCounts
  /\ mistaken \/ TtUntilMistaken

LEMMA TtInit == TT!Init => TtInv
<1>1. TT!Init => TtBools
  BY Zenon DEF TT!Init, TtBools
<1> QED
  BY <1>1 DEF TT!Init, TtInv, TtUntilMistaken, TtMarked, TtType, TtBools, TtFlags, TtReads, TtCancels, TtCalls, TtPlace, TtCalling, TtStatus, TtTrapped, TtLocked,
   TtApart, TtProcessing, TtCounts, One

LEMMA TtNext ==
  ASSUME TtInv, TT!Next
  PROVE  TtInv'
<1> USE DEF TtInv, TtReads, TtCancels, TtCalls, TT!InProgram, TT!Reading, TT!QueueRead, TT!ReadStartFrom, TT!After, TT!StopFrom, TT!readVars, TT!handleVars, TT!threadVars, TT!loopVars, TT!boundVars
<1>1. CASE TT!ReadStart
  <2>1. TtType'
    BY <1>1 DEF TT!ReadStart, TtType, TtBools, TtFlags, TtCalling
  <2>2. TtBools'
    BY <1>1 DEF TT!ReadStart, TtBools
  <2>3. TtPlace'
    BY <1>1 DEF TT!ReadStart, TtType, TtBools, TtFlags, TtPlace, TtCalling
  <2>4. TtCalling'
    BY <1>1 DEF TT!ReadStart, TtType, TtBools, TtFlags, TtPlace, TtCalling
  <2>5. TtCounts'
    BY <1>1 DEF TT!ReadStart, TtType, TtBools, TtFlags, TtPlace, TtCalling, TtCounts, TtProcessing, One
  <2>6. ASSUME ~mistaken'
        PROVE  TtUntilMistaken'
    <3>1. ~mistaken /\ TtUntilMistaken
      BY <1>1, <2>6 DEF TT!ReadStart, TtBools
    <3>2. TtMarked'
      BY <1>1, <2>6, <3>1 DEF TT!ReadStart, TtUntilMistaken, TtType, TtBools, TtFlags, TtPlace, TtCalling, TtMarked
    <3>3. TtStatus'
      BY <1>1, <2>6, <3>1 DEF TT!ReadStart, TtUntilMistaken, TtType, TtBools, TtFlags, TtPlace, TtCalling, TtMarked, TtStatus
    <3>4. TtLocked' /\ TtApart'
      BY <1>1, <2>6, <3>1 DEF TT!ReadStart, TtUntilMistaken, TtType, TtBools, TtFlags, TtPlace, TtCalling, TtMarked, TtStatus, TtLocked, TtApart, TtTrapped, One
    <3> QED
      BY <3>2, <3>3, <3>4 DEF TtUntilMistaken
  <2> QED
    BY <2>1, <2>2, <2>3, <2>4, <2>5, <2>6
<1>2. CASE TT!ReadStop
  <2>1. TtType'
    BY <1>2 DEF TT!ReadStop, TtType, TtBools, TtFlags, TtCalling
  <2>2. TtBools'
    BY <1>2 DEF TT!ReadStop, TtBools
  <2>3. TtPlace'
    BY <1>2 DEF TT!ReadStop, TtType, TtBools, TtFlags, TtPlace, TtCalling
  <2>4. TtCalling'
    BY <1>2 DEF TT!ReadStop, TtType, TtBools, TtFlags, TtPlace, TtCalling
  <2>5. TtCounts'
    BY <1>2 DEF TT!ReadStop, TtType, TtBools, TtFlags, TtPlace, TtCalling, TtCounts, TtProcessing, One
  <2>6. ASSUME ~mistaken'
        PROVE  TtUntilMistaken'
    <3>1. ~mistaken /\ TtUntilMistaken
      BY <1>2, <2>6 DEF TT!ReadStop, TtBools
    <3>2. TtMarked'
      BY <1>2, <2>6, <3>1 DEF TT!ReadStop, TtUntilMistaken, TtType, TtBools, TtFlags, TtPlace, TtCalling, TtMarked
    <3>3. TtStatus'
      BY <1>2, <2>6, <3>1 DEF TT!ReadStop, TtUntilMistaken, TtType, TtBools, TtFlags, TtPlace, TtCalling, TtMarked, TtStatus
    <3>4. TtLocked' /\ TtApart'
      BY <1>2, <2>6, <3>1 DEF TT!ReadStop, TtUntilMistaken, TtType, TtBools, TtFlags, TtPlace, TtCalling, TtMarked, TtStatus, TtLocked, TtApart, TtTrapped, One
    <3> QED
      BY <3>2, <3>3, <3>4 DEF TtUntilMistaken
  <2> QED
    BY <2>1, <2>2, <2>3, <2>4, <2>5, <2>6
<1>3. CASE TT!SetMode
  <2>1. TtType'
    BY <1>3 DEF TT!SetMode, TtType, TtBools, TtFlags, TtCalling
  <2>2. TtBools'
    BY <1>3 DEF TT!SetMode, TtBools
  <2>3. TtPlace'
    BY <1>3 DEF TT!SetMode, TtType, TtBools, TtFlags, TtPlace, TtCalling
  <2>4. TtCalling'
    BY <1>3 DEF TT!SetMode, TtType, TtBools, TtFlags, TtPlace, TtCalling
  <2>5. TtCounts'
    BY <1>3 DEF TT!SetMode, TtType, TtBools, TtFlags, TtPlace, TtCalling, TtCounts, TtProcessing, One
  <2>6. ASSUME ~mistaken'
        PROVE  TtUntilMistaken'
    <3>1. ~mistaken /\ TtUntilMistaken
      BY <1>3, <2>6 DEF TT!SetMode, TtBools
    <3>2. TtMarked'
      BY <1>3, <2>6, <3>1 DEF TT!SetMode, TtUntilMistaken, TtType, TtBools, TtFlags, TtPlace, TtCalling, TtMarked
    <3>3. TtStatus'
      BY <1>3, <2>6, <3>1 DEF TT!SetMode, TtUntilMistaken, TtType, TtBools, TtFlags, TtPlace, TtCalling, TtMarked, TtStatus
    <3>4. TtLocked' /\ TtApart'
      BY <1>3, <2>6, <3>1 DEF TT!SetMode, TtUntilMistaken, TtType, TtBools, TtFlags, TtPlace, TtCalling, TtMarked, TtStatus, TtLocked, TtApart, TtTrapped, One
    <3> QED
      BY <3>2, <3>3, <3>4 DEF TtUntilMistaken
  <2> QED
    BY <2>1, <2>2, <2>3, <2>4, <2>5, <2>6
<1>4. CASE TT!Write
  <2>1. TtType'
    BY <1>4 DEF TT!Write, TtType, TtBools, TtFlags, TtCalling
  <2>2. TtBools'
    BY <1>4 DEF TT!Write, TtBools
  <2>3. TtPlace'
    BY <1>4 DEF TT!Write, TtType, TtBools, TtFlags, TtPlace, TtCalling
  <2>4. TtCalling'
    BY <1>4 DEF TT!Write, TtType, TtBools, TtFlags, TtPlace, TtCalling
  <2>5. TtCounts'
    BY <1>4 DEF TT!Write, TtType, TtBools, TtFlags, TtPlace, TtCalling, TtCounts, TtProcessing, One
  <2>6. ASSUME ~mistaken'
        PROVE  TtUntilMistaken'
    <3>1. ~mistaken /\ TtUntilMistaken
      BY <1>4, <2>6 DEF TT!Write, TtBools
    <3>2. TtMarked'
      BY <1>4, <2>6, <3>1 DEF TT!Write, TtUntilMistaken, TtType, TtBools, TtFlags, TtPlace, TtCalling, TtMarked
    <3>3. TtStatus'
      BY <1>4, <2>6, <3>1 DEF TT!Write, TtUntilMistaken, TtType, TtBools, TtFlags, TtPlace, TtCalling, TtMarked, TtStatus
    <3>4. TtLocked' /\ TtApart'
      BY <1>4, <2>6, <3>1 DEF TT!Write, TtUntilMistaken, TtType, TtBools, TtFlags, TtPlace, TtCalling, TtMarked, TtStatus, TtLocked, TtApart, TtTrapped, One
    <3> QED
      BY <3>2, <3>3, <3>4 DEF TtUntilMistaken
  <2> QED
    BY <2>1, <2>2, <2>3, <2>4, <2>5, <2>6
<1>5. CASE TT!Close
  <2>1. TtType'
    BY <1>5 DEF TT!Close, TtType, TtBools, TtFlags, TtCalling
  <2>2. TtBools'
    BY <1>5 DEF TT!Close, TtBools
  <2>3. TtPlace'
    BY <1>5 DEF TT!Close, TtType, TtBools, TtFlags, TtPlace, TtCalling
  <2>4. TtCalling'
    BY <1>5 DEF TT!Close, TtType, TtBools, TtFlags, TtPlace, TtCalling
  <2>5. TtCounts'
    BY <1>5 DEF TT!Close, TtType, TtBools, TtFlags, TtPlace, TtCalling, TtCounts, TtProcessing, One
  <2>6. ASSUME ~mistaken'
        PROVE  TtUntilMistaken'
    <3>1. ~mistaken /\ TtUntilMistaken
      BY <1>5, <2>6 DEF TT!Close, TtBools
    <3>2. TtMarked'
      BY <1>5, <2>6, <3>1 DEF TT!Close, TtUntilMistaken, TtType, TtBools, TtFlags, TtPlace, TtCalling, TtMarked
    <3>3. TtStatus'
      BY <1>5, <2>6, <3>1 DEF TT!Close, TtUntilMistaken, TtType, TtBools, TtFlags, TtPlace, TtCalling, TtMarked, TtStatus
    <3>4. TtLocked' /\ TtApart'
      BY <1>5, <2>6, <3>1 DEF TT!Close, TtUntilMistaken, TtType, TtBools, TtFlags, TtPlace, TtCalling, TtMarked, TtStatus, TtLocked, TtApart, TtTrapped, One
    <3> QED
      BY <3>2, <3>3, <3>4 DEF TtUntilMistaken
  <2> QED
    BY <2>1, <2>2, <2>3, <2>4, <2>5, <2>6
<1>6. CASE TT!CancelLock
  <2>1. TtType'
    BY <1>6 DEF TT!CancelLock, TtType, TtBools, TtFlags, TtCalling
  <2>2. TtBools'
    BY <1>6 DEF TT!CancelLock, TtBools
  <2>3. TtPlace'
    BY <1>6 DEF TT!CancelLock, TtType, TtBools, TtFlags, TtPlace, TtCalling
  <2>4. TtCalling'
    BY <1>6 DEF TT!CancelLock, TtType, TtBools, TtFlags, TtPlace, TtCalling
  <2>5. TtCounts'
    BY <1>6 DEF TT!CancelLock, TtType, TtBools, TtFlags, TtPlace, TtCalling, TtCounts, TtProcessing, One
  <2>6. ASSUME ~mistaken'
        PROVE  TtUntilMistaken'
    <3>1. ~mistaken /\ TtUntilMistaken
      BY <1>6, <2>6 DEF TT!CancelLock, TtBools
    <3>2. TtMarked'
      BY <1>6, <2>6, <3>1 DEF TT!CancelLock, TtUntilMistaken, TtType, TtBools, TtFlags, TtPlace, TtCalling, TtMarked
    <3>3. TtStatus'
      BY <1>6, <2>6, <3>1 DEF TT!CancelLock, TtUntilMistaken, TtType, TtBools, TtFlags, TtPlace, TtCalling, TtMarked, TtStatus
    <3>4. TtLocked' /\ TtApart'
      BY <1>6, <2>6, <3>1 DEF TT!CancelLock, TtUntilMistaken, TtType, TtBools, TtFlags, TtPlace, TtCalling, TtMarked, TtStatus, TtLocked, TtApart, TtTrapped, One
    <3> QED
      BY <3>2, <3>3, <3>4 DEF TtUntilMistaken
  <2> QED
    BY <2>1, <2>2, <2>3, <2>4, <2>5, <2>6
<1>7. CASE TT!CancelTrap
  <2>1. TtType'
    BY <1>7 DEF TT!CancelTrap, TtType, TtBools, TtFlags, TtCalling
  <2>2. TtBools'
    BY <1>7 DEF TT!CancelTrap, TtBools
  <2>3. TtPlace'
    BY <1>7 DEF TT!CancelTrap, TtType, TtBools, TtFlags, TtPlace, TtCalling
  <2>4. TtCalling'
    BY <1>7 DEF TT!CancelTrap, TtType, TtBools, TtFlags, TtPlace, TtCalling
  <2>5. TtCounts'
    BY <1>7 DEF TT!CancelTrap, TtType, TtBools, TtFlags, TtPlace, TtCalling, TtCounts, TtProcessing, One
  <2>6. ASSUME ~mistaken'
        PROVE  TtUntilMistaken'
    <3>1. ~mistaken /\ TtUntilMistaken
      BY <1>7, <2>6 DEF TT!CancelTrap, TtBools
    <3>2. TtMarked'
      BY <1>7, <2>6, <3>1 DEF TT!CancelTrap, TtUntilMistaken, TtType, TtBools, TtFlags, TtPlace, TtCalling, TtMarked
    <3>3. TtStatus'
      BY <1>7, <2>6, <3>1 DEF TT!CancelTrap, TtUntilMistaken, TtType, TtBools, TtFlags, TtPlace, TtCalling, TtMarked, TtStatus
    <3>4. TtLocked' /\ TtApart'
      BY <1>7, <2>6, <3>1 DEF TT!CancelTrap, TtUntilMistaken, TtType, TtBools, TtFlags, TtPlace, TtCalling, TtMarked, TtStatus, TtLocked, TtApart, TtTrapped, One
    <3> QED
      BY <3>2, <3>3, <3>4 DEF TtUntilMistaken
  <2> QED
    BY <2>1, <2>2, <2>3, <2>4, <2>5, <2>6
<1>8. CASE TT!CancelWrite
  <2>1. TtType'
    BY <1>8 DEF TT!CancelWrite, TtType, TtBools, TtFlags, TtCalling
  <2>2. TtBools'
    BY <1>8 DEF TT!CancelWrite, TtBools
  <2>3. TtPlace'
    BY <1>8 DEF TT!CancelWrite, TtType, TtBools, TtFlags, TtPlace, TtCalling
  <2>4. TtCalling'
    BY <1>8 DEF TT!CancelWrite, TtType, TtBools, TtFlags, TtPlace, TtCalling
  <2>5. TtCounts'
    BY <1>8 DEF TT!CancelWrite, TtType, TtBools, TtFlags, TtPlace, TtCalling, TtCounts, TtProcessing, One
  <2>6. ASSUME ~mistaken'
        PROVE  TtUntilMistaken'
    <3>1. ~mistaken /\ TtUntilMistaken
      BY <1>8, <2>6 DEF TT!CancelWrite, TtBools
    <3>2. TtMarked'
      BY <1>8, <2>6, <3>1 DEF TT!CancelWrite, TtUntilMistaken, TtType, TtBools, TtFlags, TtPlace, TtCalling, TtMarked
    <3>3. TtStatus'
      BY <1>8, <2>6, <3>1 DEF TT!CancelWrite, TtUntilMistaken, TtType, TtBools, TtFlags, TtPlace, TtCalling, TtMarked, TtStatus
    <3>4. TtLocked' /\ TtApart'
      BY <1>8, <2>6, <3>1 DEF TT!CancelWrite, TtUntilMistaken, TtType, TtBools, TtFlags, TtPlace, TtCalling, TtMarked, TtStatus, TtLocked, TtApart, TtTrapped, One
    <3> QED
      BY <3>2, <3>3, <3>4 DEF TtUntilMistaken
  <2> QED
    BY <2>1, <2>2, <2>3, <2>4, <2>5, <2>6
<1>9. CASE TT!SwitchMode
  <2>1. TtType'
    BY <1>9 DEF TT!SwitchMode, TtType, TtBools, TtFlags, TtCalling
  <2>2. TtBools'
    BY <1>9 DEF TT!SwitchMode, TtBools
  <2>3. TtPlace'
    BY <1>9 DEF TT!SwitchMode, TtType, TtBools, TtFlags, TtPlace, TtCalling
  <2>4. TtCalling'
    BY <1>9 DEF TT!SwitchMode, TtType, TtBools, TtFlags, TtPlace, TtCalling
  <2>5. TtCounts'
    BY <1>9 DEF TT!SwitchMode, TtType, TtBools, TtFlags, TtPlace, TtCalling, TtCounts, TtProcessing, One
  <2>6. ASSUME ~mistaken'
        PROVE  TtUntilMistaken'
    <3>1. ~mistaken /\ TtUntilMistaken
      BY <1>9, <2>6 DEF TT!SwitchMode, TtBools
    <3>2. TtMarked'
      BY <1>9, <2>6, <3>1 DEF TT!SwitchMode, TtUntilMistaken, TtType, TtBools, TtFlags, TtPlace, TtCalling, TtMarked
    <3>3. TtStatus'
      BY <1>9, <2>6, <3>1 DEF TT!SwitchMode, TtUntilMistaken, TtType, TtBools, TtFlags, TtPlace, TtCalling, TtMarked, TtStatus
    <3>4. TtLocked' /\ TtApart'
      BY <1>9, <2>6, <3>1 DEF TT!SwitchMode, TtUntilMistaken, TtType, TtBools, TtFlags, TtPlace, TtCalling, TtMarked, TtStatus, TtLocked, TtApart, TtTrapped, One
    <3> QED
      BY <3>2, <3>3, <3>4 DEF TtUntilMistaken
  <2> QED
    BY <2>1, <2>2, <2>3, <2>4, <2>5, <2>6
<1>10. CASE TT!WriteGoesOn
  <2>1. TtType'
    BY <1>10 DEF TT!WriteGoesOn, TtType, TtBools, TtFlags, TtCalling
  <2>2. TtBools'
    BY <1>10 DEF TT!WriteGoesOn, TtBools
  <2>3. TtPlace'
    BY <1>10 DEF TT!WriteGoesOn, TtType, TtBools, TtFlags, TtPlace, TtCalling
  <2>4. TtCalling'
    BY <1>10 DEF TT!WriteGoesOn, TtType, TtBools, TtFlags, TtPlace, TtCalling
  <2>5. TtCounts'
    BY <1>10 DEF TT!WriteGoesOn, TtType, TtBools, TtFlags, TtPlace, TtCalling, TtCounts, TtProcessing, One
  <2>6. ASSUME ~mistaken'
        PROVE  TtUntilMistaken'
    <3>1. ~mistaken /\ TtUntilMistaken
      BY <1>10, <2>6 DEF TT!WriteGoesOn, TtBools
    <3>2. TtMarked'
      BY <1>10, <2>6, <3>1 DEF TT!WriteGoesOn, TtUntilMistaken, TtType, TtBools, TtFlags, TtPlace, TtCalling, TtMarked
    <3>3. TtStatus'
      BY <1>10, <2>6, <3>1 DEF TT!WriteGoesOn, TtUntilMistaken, TtType, TtBools, TtFlags, TtPlace, TtCalling, TtMarked, TtStatus
    <3>4. TtLocked' /\ TtApart'
      BY <1>10, <2>6, <3>1 DEF TT!WriteGoesOn, TtUntilMistaken, TtType, TtBools, TtFlags, TtPlace, TtCalling, TtMarked, TtStatus, TtLocked, TtApart, TtTrapped, One
    <3> QED
      BY <3>2, <3>3, <3>4 DEF TtUntilMistaken
  <2> QED
    BY <2>1, <2>2, <2>3, <2>4, <2>5, <2>6
<1>11. CASE TT!CloseRest
  <2>1. TtType'
    BY <1>11 DEF TT!CloseRest, TtType, TtBools, TtFlags, TtCalling
  <2>2. TtBools'
    BY <1>11 DEF TT!CloseRest, TtBools
  <2>3. TtPlace'
    BY <1>11 DEF TT!CloseRest, TtType, TtBools, TtFlags, TtPlace, TtCalling
  <2>4. TtCalling'
    BY <1>11 DEF TT!CloseRest, TtType, TtBools, TtFlags, TtPlace, TtCalling
  <2>5. TtCounts'
    BY <1>11 DEF TT!CloseRest, TtType, TtBools, TtFlags, TtPlace, TtCalling, TtCounts, TtProcessing, One
  <2>6. ASSUME ~mistaken'
        PROVE  TtUntilMistaken'
    <3>1. ~mistaken /\ TtUntilMistaken
      BY <1>11, <2>6 DEF TT!CloseRest, TtBools
    <3>2. TtMarked'
      BY <1>11, <2>6, <3>1 DEF TT!CloseRest, TtUntilMistaken, TtType, TtBools, TtFlags, TtPlace, TtCalling, TtMarked
    <3>3. TtStatus'
      BY <1>11, <2>6, <3>1 DEF TT!CloseRest, TtUntilMistaken, TtType, TtBools, TtFlags, TtPlace, TtCalling, TtMarked, TtStatus
    <3>4. TtLocked' /\ TtApart'
      BY <1>11, <2>6, <3>1 DEF TT!CloseRest, TtUntilMistaken, TtType, TtBools, TtFlags, TtPlace, TtCalling, TtMarked, TtStatus, TtLocked, TtApart, TtTrapped, One
    <3> QED
      BY <3>2, <3>3, <3>4 DEF TtUntilMistaken
  <2> QED
    BY <2>1, <2>2, <2>3, <2>4, <2>5, <2>6
<1>12. CASE TT!ProcessLine
  <2>1. TtType'
    BY <1>12 DEF TT!ProcessLine, TtType, TtBools, TtFlags, TtCalling
  <2>2. TtBools'
    BY <1>12 DEF TT!ProcessLine, TtBools
  <2>3. TtPlace'
    BY <1>12 DEF TT!ProcessLine, TtType, TtBools, TtFlags, TtPlace, TtCalling
  <2>4. TtCalling'
    BY <1>12 DEF TT!ProcessLine, TtType, TtBools, TtFlags, TtPlace, TtCalling
  <2>5. TtCounts'
    BY <1>12 DEF TT!ProcessLine, TtType, TtBools, TtFlags, TtPlace, TtCalling, TtCounts, TtProcessing, One
  <2>6. ASSUME ~mistaken'
        PROVE  TtUntilMistaken'
    <3>1. ~mistaken /\ TtUntilMistaken
      BY <1>12, <2>6 DEF TT!ProcessLine, TtBools
    <3>2. TtMarked'
      BY <1>12, <2>6, <3>1 DEF TT!ProcessLine, TtUntilMistaken, TtType, TtBools, TtFlags, TtPlace, TtCalling, TtMarked
    <3>3. TtStatus'
      BY <1>12, <2>6, <3>1 DEF TT!ProcessLine, TtUntilMistaken, TtType, TtBools, TtFlags, TtPlace, TtCalling, TtMarked, TtStatus
    <3>4. TtLocked' /\ TtApart'
      BY <1>12, <2>6, <3>1 DEF TT!ProcessLine, TtUntilMistaken, TtType, TtBools, TtFlags, TtPlace, TtCalling, TtMarked, TtStatus, TtLocked, TtApart, TtTrapped, One
    <3> QED
      BY <3>2, <3>3, <3>4 DEF TtUntilMistaken
  <2> QED
    BY <2>1, <2>2, <2>3, <2>4, <2>5, <2>6
<1>13. CASE TT!ProcessRaw
  <2>1. TtType'
    BY <1>13 DEF TT!ProcessRaw, TtType, TtBools, TtFlags, TtCalling
  <2>2. TtBools'
    BY <1>13 DEF TT!ProcessRaw, TtBools
  <2>3. TtPlace'
    BY <1>13 DEF TT!ProcessRaw, TtType, TtBools, TtFlags, TtPlace, TtCalling
  <2>4. TtCalling'
    BY <1>13 DEF TT!ProcessRaw, TtType, TtBools, TtFlags, TtPlace, TtCalling
  <2>5. TtCounts'
    BY <1>13 DEF TT!ProcessRaw, TtType, TtBools, TtFlags, TtPlace, TtCalling, TtCounts, TtProcessing, One
  <2>6. ASSUME ~mistaken'
        PROVE  TtUntilMistaken'
    <3>1. ~mistaken /\ TtUntilMistaken
      BY <1>13, <2>6 DEF TT!ProcessRaw, TtBools
    <3>2. TtMarked'
      BY <1>13, <2>6, <3>1 DEF TT!ProcessRaw, TtUntilMistaken, TtType, TtBools, TtFlags, TtPlace, TtCalling, TtMarked
    <3>3. TtStatus'
      BY <1>13, <2>6, <3>1 DEF TT!ProcessRaw, TtUntilMistaken, TtType, TtBools, TtFlags, TtPlace, TtCalling, TtMarked, TtStatus
    <3>4. TtLocked' /\ TtApart'
      BY <1>13, <2>6, <3>1 DEF TT!ProcessRaw, TtUntilMistaken, TtType, TtBools, TtFlags, TtPlace, TtCalling, TtMarked, TtStatus, TtLocked, TtApart, TtTrapped, One
    <3> QED
      BY <3>2, <3>3, <3>4 DEF TtUntilMistaken
  <2> QED
    BY <2>1, <2>2, <2>3, <2>4, <2>5, <2>6
<1>14. CASE TT!ProcessRest
  <2>1. TtType'
    BY <1>14 DEF TT!ProcessRest, TtType, TtBools, TtFlags, TtCalling
  <2>2. TtBools'
    BY <1>14 DEF TT!ProcessRest, TtBools
  <2>3. TtPlace'
    BY <1>14 DEF TT!ProcessRest, TtType, TtBools, TtFlags, TtPlace, TtCalling
  <2>4. TtCalling'
    BY <1>14 DEF TT!ProcessRest, TtType, TtBools, TtFlags, TtPlace, TtCalling
  <2>5. TtCounts'
    BY <1>14 DEF TT!ProcessRest, TtType, TtBools, TtFlags, TtPlace, TtCalling, TtCounts, TtProcessing, One
  <2>6. ASSUME ~mistaken'
        PROVE  TtUntilMistaken'
    <3>1. ~mistaken /\ TtUntilMistaken
      BY <1>14, <2>6 DEF TT!ProcessRest, TtBools
    <3>2. TtMarked'
      BY <1>14, <2>6, <3>1 DEF TT!ProcessRest, TtUntilMistaken, TtType, TtBools, TtFlags, TtPlace, TtCalling, TtMarked
    <3>3. TtStatus'
      BY <1>14, <2>6, <3>1 DEF TT!ProcessRest, TtUntilMistaken, TtType, TtBools, TtFlags, TtPlace, TtCalling, TtMarked, TtStatus
    <3>4. TtLocked' /\ TtApart'
      BY <1>14, <2>6, <3>1 DEF TT!ProcessRest, TtUntilMistaken, TtType, TtBools, TtFlags, TtPlace, TtCalling, TtMarked, TtStatus, TtLocked, TtApart, TtTrapped, One
    <3> QED
      BY <3>2, <3>3, <3>4 DEF TtUntilMistaken
  <2> QED
    BY <2>1, <2>2, <2>3, <2>4, <2>5, <2>6
<1>15. CASE TT!Endgame
  <2>1. TtType'
    BY <1>15 DEF TT!Endgame, TtType, TtBools, TtFlags, TtCalling
  <2>2. TtBools'
    BY <1>15 DEF TT!Endgame, TtBools
  <2>3. TtPlace'
    BY <1>15 DEF TT!Endgame, TtType, TtBools, TtFlags, TtPlace, TtCalling
  <2>4. TtCalling'
    BY <1>15 DEF TT!Endgame, TtType, TtBools, TtFlags, TtPlace, TtCalling
  <2>5. TtCounts'
    BY <1>15 DEF TT!Endgame, TtType, TtBools, TtFlags, TtPlace, TtCalling, TtCounts, TtProcessing, One
  <2>6. ASSUME ~mistaken'
        PROVE  TtUntilMistaken'
    <3>1. ~mistaken /\ TtUntilMistaken
      BY <1>15, <2>6 DEF TT!Endgame, TtBools
    <3>2. TtMarked'
      BY <1>15, <2>6, <3>1 DEF TT!Endgame, TtUntilMistaken, TtType, TtBools, TtFlags, TtPlace, TtCalling, TtMarked
    <3>3. TtStatus'
      BY <1>15, <2>6, <3>1 DEF TT!Endgame, TtUntilMistaken, TtType, TtBools, TtFlags, TtPlace, TtCalling, TtMarked, TtStatus
    <3>4. TtLocked' /\ TtApart'
      BY <1>15, <2>6, <3>1 DEF TT!Endgame, TtUntilMistaken, TtType, TtBools, TtFlags, TtPlace, TtCalling, TtMarked, TtStatus, TtLocked, TtApart, TtTrapped, One
    <3> QED
      BY <3>2, <3>3, <3>4 DEF TtUntilMistaken
  <2> QED
    BY <2>1, <2>2, <2>3, <2>4, <2>5, <2>6
<1>16. CASE TT!ThreadStart
  <2>1. TtType'
    BY <1>16 DEF TT!ThreadStart, TtType, TtBools, TtFlags, TtCalling
  <2>2. TtBools'
    BY <1>16 DEF TT!ThreadStart, TtBools
  <2>3. TtPlace'
    BY <1>16 DEF TT!ThreadStart, TtType, TtBools, TtFlags, TtPlace, TtCalling
  <2>4. TtCalling'
    BY <1>16 DEF TT!ThreadStart, TtType, TtBools, TtFlags, TtPlace, TtCalling
  <2>5. TtCounts'
    BY <1>16 DEF TT!ThreadStart, TtType, TtBools, TtFlags, TtPlace, TtCalling, TtCounts, TtProcessing, One
  <2>6. ASSUME ~mistaken'
        PROVE  TtUntilMistaken'
    <3>1. ~mistaken /\ TtUntilMistaken
      BY <1>16, <2>6 DEF TT!ThreadStart, TtBools
    <3>2. TtMarked'
      BY <1>16, <2>6, <3>1 DEF TT!ThreadStart, TtUntilMistaken, TtType, TtBools, TtFlags, TtPlace, TtCalling, TtMarked
    <3>3. TtStatus'
      BY <1>16, <2>6, <3>1 DEF TT!ThreadStart, TtUntilMistaken, TtType, TtBools, TtFlags, TtPlace, TtCalling, TtMarked, TtStatus
    <3>4. TtLocked' /\ TtApart'
      BY <1>16, <2>6, <3>1 DEF TT!ThreadStart, TtUntilMistaken, TtType, TtBools, TtFlags, TtPlace, TtCalling, TtMarked, TtStatus, TtLocked, TtApart, TtTrapped, One
    <3> QED
      BY <3>2, <3>3, <3>4 DEF TtUntilMistaken
  <2> QED
    BY <2>1, <2>2, <2>3, <2>4, <2>5, <2>6
<1>17. CASE TT!ThreadEnters
  <2>1. TtType'
    BY <1>17 DEF TT!ThreadEnters, TtType, TtBools, TtFlags, TtCalling
  <2>2. TtBools'
    BY <1>17 DEF TT!ThreadEnters, TtBools
  <2>3. TtPlace'
    BY <1>17 DEF TT!ThreadEnters, TtType, TtBools, TtFlags, TtPlace, TtCalling
  <2>4. TtCalling'
    BY <1>17 DEF TT!ThreadEnters, TtType, TtBools, TtFlags, TtPlace, TtCalling
  <2>5. TtCounts'
    BY <1>17 DEF TT!ThreadEnters, TtType, TtBools, TtFlags, TtPlace, TtCalling, TtCounts, TtProcessing, One
  <2>6. ASSUME ~mistaken'
        PROVE  TtUntilMistaken'
    <3>1. ~mistaken /\ TtUntilMistaken
      BY <1>17, <2>6 DEF TT!ThreadEnters, TtBools
    <3>2. TtMarked'
      BY <1>17, <2>6, <3>1 DEF TT!ThreadEnters, TtUntilMistaken, TtType, TtBools, TtFlags, TtPlace, TtCalling, TtMarked
    <3>3. TtStatus'
      BY <1>17, <2>6, <3>1 DEF TT!ThreadEnters, TtUntilMistaken, TtType, TtBools, TtFlags, TtPlace, TtCalling, TtMarked, TtStatus
    <3>4. TtLocked' /\ TtApart'
      BY <1>17, <2>6, <3>1 DEF TT!ThreadEnters, TtUntilMistaken, TtType, TtBools, TtFlags, TtPlace, TtCalling, TtMarked, TtStatus, TtLocked, TtApart, TtTrapped, One
    <3> QED
      BY <3>2, <3>3, <3>4 DEF TtUntilMistaken
  <2> QED
    BY <2>1, <2>2, <2>3, <2>4, <2>5, <2>6
<1>18. CASE TT!ConsoleReturns
  <2>1. TtType'
    BY <1>18 DEF TT!ConsoleReturns, TtType, TtBools, TtFlags, TtCalling
  <2>2. TtBools'
    BY <1>18 DEF TT!ConsoleReturns, TtBools
  <2>3. TtPlace'
    BY <1>18 DEF TT!ConsoleReturns, TtType, TtBools, TtFlags, TtPlace, TtCalling
  <2>4. TtCalling'
    BY <1>18 DEF TT!ConsoleReturns, TtType, TtBools, TtFlags, TtPlace, TtCalling
  <2>5. TtCounts'
    BY <1>18 DEF TT!ConsoleReturns, TtType, TtBools, TtFlags, TtPlace, TtCalling, TtCounts, TtProcessing, One
  <2>6. ASSUME ~mistaken'
        PROVE  TtUntilMistaken'
    <3>1. ~mistaken /\ TtUntilMistaken
      BY <1>18, <2>6 DEF TT!ConsoleReturns, TtBools
    <3>2. TtMarked'
      BY <1>18, <2>6, <3>1 DEF TT!ConsoleReturns, TtUntilMistaken, TtType, TtBools, TtFlags, TtPlace, TtCalling, TtMarked
    <3>3. TtStatus'
      BY <1>18, <2>6, <3>1 DEF TT!ConsoleReturns, TtUntilMistaken, TtType, TtBools, TtFlags, TtPlace, TtCalling, TtMarked, TtStatus
    <3>4. TtLocked' /\ TtApart'
      BY <1>18, <2>6, <3>1 DEF TT!ConsoleReturns, TtUntilMistaken, TtType, TtBools, TtFlags, TtPlace, TtCalling, TtMarked, TtStatus, TtLocked, TtApart, TtTrapped, One
    <3> QED
      BY <3>2, <3>3, <3>4 DEF TtUntilMistaken
  <2> QED
    BY <2>1, <2>2, <2>3, <2>4, <2>5, <2>6
<1>19. CASE TT!ThreadEnd
  <2>1. TtType'
    BY <1>19 DEF TT!ThreadEnd, TtType, TtBools, TtFlags, TtCalling
  <2>2. TtBools'
    BY <1>19 DEF TT!ThreadEnd, TtBools
  <2>3. TtPlace'
    BY <1>19 DEF TT!ThreadEnd, TtType, TtBools, TtFlags, TtPlace, TtCalling
  <2>4. TtCalling'
    BY <1>19 DEF TT!ThreadEnd, TtType, TtBools, TtFlags, TtPlace, TtCalling
  <2>5. TtCounts'
    BY <1>19 DEF TT!ThreadEnd, TtType, TtBools, TtFlags, TtPlace, TtCalling, TtCounts, TtProcessing, One
  <2>6. ASSUME ~mistaken'
        PROVE  TtUntilMistaken'
    <3>1. ~mistaken /\ TtUntilMistaken
      BY <1>19, <2>6 DEF TT!ThreadEnd, TtBools
    <3>2. TtMarked'
      BY <1>19, <2>6, <3>1 DEF TT!ThreadEnd, TtUntilMistaken, TtType, TtBools, TtFlags, TtPlace, TtCalling, TtMarked
    <3>3. TtStatus'
      BY <1>19, <2>6, <3>1 DEF TT!ThreadEnd, TtUntilMistaken, TtType, TtBools, TtFlags, TtPlace, TtCalling, TtMarked, TtStatus
    <3>4. TtLocked' /\ TtApart'
      BY <1>19, <2>6, <3>1 DEF TT!ThreadEnd, TtUntilMistaken, TtType, TtBools, TtFlags, TtPlace, TtCalling, TtMarked, TtStatus, TtLocked, TtApart, TtTrapped, One
    <3> QED
      BY <3>2, <3>3, <3>4 DEF TtUntilMistaken
  <2> QED
    BY <2>1, <2>2, <2>3, <2>4, <2>5, <2>6
<1>20. CASE TT!RawWaitEnds
  <2>1. TtType'
    BY <1>20 DEF TT!RawWaitEnds, TtType, TtBools, TtFlags, TtCalling
  <2>2. TtBools'
    BY <1>20 DEF TT!RawWaitEnds, TtBools
  <2>3. TtPlace'
    BY <1>20 DEF TT!RawWaitEnds, TtType, TtBools, TtFlags, TtPlace, TtCalling
  <2>4. TtCalling'
    BY <1>20 DEF TT!RawWaitEnds, TtType, TtBools, TtFlags, TtPlace, TtCalling
  <2>5. TtCounts'
    BY <1>20 DEF TT!RawWaitEnds, TtType, TtBools, TtFlags, TtPlace, TtCalling, TtCounts, TtProcessing, One
  <2>6. ASSUME ~mistaken'
        PROVE  TtUntilMistaken'
    <3>1. ~mistaken /\ TtUntilMistaken
      BY <1>20, <2>6 DEF TT!RawWaitEnds, TtBools
    <3>2. TtMarked'
      BY <1>20, <2>6, <3>1 DEF TT!RawWaitEnds, TtUntilMistaken, TtType, TtBools, TtFlags, TtPlace, TtCalling, TtMarked
    <3>3. TtStatus'
      BY <1>20, <2>6, <3>1 DEF TT!RawWaitEnds, TtUntilMistaken, TtType, TtBools, TtFlags, TtPlace, TtCalling, TtMarked, TtStatus
    <3>4. TtLocked' /\ TtApart'
      BY <1>20, <2>6, <3>1 DEF TT!RawWaitEnds, TtUntilMistaken, TtType, TtBools, TtFlags, TtPlace, TtCalling, TtMarked, TtStatus, TtLocked, TtApart, TtTrapped, One
    <3> QED
      BY <3>2, <3>3, <3>4 DEF TtUntilMistaken
  <2> QED
    BY <2>1, <2>2, <2>3, <2>4, <2>5, <2>6
<1>21. CASE TT!UserEnters
  <2>1. TtType'
    BY <1>21 DEF TT!UserEnters, TtType, TtBools, TtFlags, TtCalling
  <2>2. TtBools'
    BY <1>21 DEF TT!UserEnters, TtBools
  <2>3. TtPlace'
    BY <1>21 DEF TT!UserEnters, TtType, TtBools, TtFlags, TtPlace, TtCalling
  <2>4. TtCalling'
    BY <1>21 DEF TT!UserEnters, TtType, TtBools, TtFlags, TtPlace, TtCalling
  <2>5. TtCounts'
    BY <1>21 DEF TT!UserEnters, TtType, TtBools, TtFlags, TtPlace, TtCalling, TtCounts, TtProcessing, One
  <2>6. ASSUME ~mistaken'
        PROVE  TtUntilMistaken'
    <3>1. ~mistaken /\ TtUntilMistaken
      BY <1>21, <2>6 DEF TT!UserEnters, TtBools
    <3>2. TtMarked'
      BY <1>21, <2>6, <3>1 DEF TT!UserEnters, TtUntilMistaken, TtType, TtBools, TtFlags, TtPlace, TtCalling, TtMarked
    <3>3. TtStatus'
      BY <1>21, <2>6, <3>1 DEF TT!UserEnters, TtUntilMistaken, TtType, TtBools, TtFlags, TtPlace, TtCalling, TtMarked, TtStatus
    <3>4. TtLocked' /\ TtApart'
      BY <1>21, <2>6, <3>1 DEF TT!UserEnters, TtUntilMistaken, TtType, TtBools, TtFlags, TtPlace, TtCalling, TtMarked, TtStatus, TtLocked, TtApart, TtTrapped, One
    <3> QED
      BY <3>2, <3>3, <3>4 DEF TtUntilMistaken
  <2> QED
    BY <2>1, <2>2, <2>3, <2>4, <2>5, <2>6
<1> QED
  BY <1>1, <1>2, <1>3, <1>4, <1>5, <1>6, <1>7, <1>8, <1>9, <1>10, <1>11, <1>12, <1>13, <1>14, <1>15, <1>16, <1>17, <1>18, <1>19, <1>20, <1>21 DEF TT!Next, TT!Program, TT!LoopGoesOn, TT!ReadingEnds

LEMMA TtCardinality == \A S : TT!Cardinality(S) = Cardinality(S)
BY DEF TT!Cardinality, Cardinality, TT!IsFiniteSet, IsFiniteSet

LEMMA TtSound == TtInv => TT!TtyLockReleased /\ TT!TtyReadsOnce
<1> SUFFICES ASSUME TtInv
             PROVE  TT!TtyLockReleased /\ TT!TtyReadsOnce
  OBVIOUS
<1>1. TT!TtyLockReleased
  BY DEF TtInv, TtUntilMistaken, TtLocked, TtTrapped, TtReads, One, TT!TtyLockReleased, TT!TtyLockHeld
<1>2. TT!TtyReadsOnce
  <2> DEFINE places == {x \in {"thread"} : rpc # "none"} \cup {x \in {"wait"} : raw_wait}
                         \cup {x \in {"posted"} : posted_read}
  <2>3. SUFFICES /\ Cardinality(places) = IF "read_pending" \in tflags THEN 1 ELSE 0
                 /\ "closed" \in tflags => places = {} /\ tactive = 0
    BY TtCardinality DEF TT!TtyReadsOnce
  <2>1. CASE "read_pending" \in tflags
    <3>1. \E x : places = {x}
      BY <2>1 DEF TtInv, TtPlace, TtBools
    <3>2. Cardinality(places) = 1
      BY <3>1, FS_Singleton
    <3>3. "closed" \notin tflags
      BY <2>1 DEF TtInv, TtCounts, One
    <3> QED
      BY <2>1, <3>2, <3>3
  <2>2. CASE "read_pending" \notin tflags
    <3>1. places = {}
      BY <2>2 DEF TtInv, TtPlace, TtBools
    <3>2. Cardinality(places) = 0
      BY <3>1, FS_EmptySet
    <3>3. "closed" \in tflags => tactive = 0
      BY DEF TtInv, TtCounts, TtCalling, One
    <3> QED
      BY <2>2, <3>1, <3>2, <3>3
  <2> QED
    BY <2>1, <2>2
<1> QED
  BY <1>1, <1>2

-----------------------------------------------------------------------------
(* The barrier of unix/thread.c. *)

PbInside == {t \in Threads : pb_pc[t] \in {"asleep", "awake"}}

PbType ==
  /\ pb_in \in Nat /\ pb_out \in Nat /\ pb_destroy \in {"none", "abort", "done"}
  /\ pb_pc \in [Threads -> {"out", "asleep", "awake", "returning"}]
  /\ pb_entered \in [Threads -> 0..PosixRounds]
  /\ pb_serials \in [1..PosixRounds -> SUBSET Threads]

\* The two counters are those who wait in the condition variable.
PbCounted == IsFiniteSet(PbInside) /\ pb_in + pb_out = Cardinality(PbInside)

\* The rounds up to k are complete; pb_in threads are in the next one, and inside.
PbFilling(k) == {t \in Threads : pb_entered[t] = k + 1}
PbRound(k) ==
  /\ \A t \in Threads : pb_entered[t] \in {k, k + 1}
  /\ \A t \in PbFilling(k) : pb_pc[t] \in {"asleep", "awake"}
  /\ pb_in = Cardinality(PbFilling(k)) /\ pb_in < Cardinality(Threads)
  /\ \A j \in 1..PosixRounds : pb_serials[j] # {} => j <= k
PbRounds == Threads # {} => \E k \in Nat : PbRound(k)

\* The serializer of a round is the one that returns from it, out of the mutex.
PbReturning ==
  \A t \in Threads :
    pb_pc[t] = "returning" => pb_entered[t] > 0 /\ pb_serials[pb_entered[t]] = {t}

\* What is destroyed is out of use for good.
PbDestroyed ==
  pb_destroy = "done" =>
    \A t \in Threads : pb_pc[t] = "out" /\ pb_entered[t] = PosixRounds

PbInv == PbType /\ PbCounted /\ PbRounds /\ PbReturning /\ PbDestroyed

LEMMA PbCardinality == \A S : PB!Cardinality(S) = Cardinality(S)
BY DEF PB!Cardinality, Cardinality, PB!IsFiniteSet, IsFiniteSet

LEMMA PbInit == PB!Init => PbInv
<1> SUFFICES ASSUME PB!Init
             PROVE  PbInv
  OBVIOUS
<1> USE ThreadsAssumption
<1>1. PbType /\ PbReturning /\ PbDestroyed
  BY DEF PB!Init, PbType, PbReturning, PbDestroyed
<1>2. PbInside = {} /\ PbFilling(0) = {}
  BY DEF PB!Init, PbInside, PbFilling
<1>3. PbCounted
  BY <1>2, FS_EmptySet DEF PB!Init, PbCounted
<1>4. ASSUME Threads # {}
      PROVE  PbRound(0)
  <2>1. Cardinality(Threads) \in Nat /\ Cardinality(Threads) # 0
    BY <1>4, FS_CardinalityType, FS_EmptySet
  <2>2. Cardinality(PbFilling(0)) = 0
    BY <1>2, FS_EmptySet
  <2> QED
    BY <1>2, <2>1, <2>2 DEF PB!Init, PbRound
<1> QED
  BY <1>1, <1>3, <1>4 DEF PbInv, PbRounds

\* pthread_cond_signal moves a sleeper only from asleep to awake.
LEMMA PbSignalled ==
  ASSUME NEW f \in [Threads -> {"out", "asleep", "awake", "returning"}], NEW g \in PB!Signalled(f)
  PROVE  /\ g \in [Threads -> {"out", "asleep", "awake", "returning"}]
         /\ \A u \in Threads : g[u] = f[u] \/ (f[u] = "asleep" /\ g[u] = "awake")
BY DEF PB!Signalled

LEMMA PbNext ==
  ASSUME PbInv, PB!Next
  PROVE  PbInv'
<1> USE ThreadsAssumption DEF PbInv
<1> DEFINE Places == {"out", "asleep", "awake", "returning"}
<1>1. PICK t \in Threads : \/ PB!Enter(t) \/ PB!EnterLast(t) \/ PB!ThreadStep(t)
                           \/ PB!WakeSpuriously(t) \/ PB!Destroy(t)
  BY DEF PB!Next
<1>2. PICK k \in Nat : PbRound(k)
  BY DEF PbRounds
<1>3. Cardinality(Threads) \in Nat
  BY FS_CardinalityType
<1>4. IsFiniteSet(PbFilling(k)) /\ IsFiniteSet(PbInside)
  BY FS_Subset DEF PbFilling, PbInside
<1>5. CASE PB!Enter(t)
  <2>1. /\ pb_pc[t] = "out" /\ pb_entered[t] < PosixRounds /\ pb_in + 1 < Cardinality(Threads)
        /\ pb_in' = pb_in + 1 /\ pb_entered' = [pb_entered EXCEPT ![t] = @ + 1]
        /\ pb_pc' = [pb_pc EXCEPT ![t] = "asleep"]
        /\ UNCHANGED <<pb_out, pb_destroy, pb_serials>>
    BY <1>5, PbCardinality DEF PB!Enter, PB!threshold
  <2>2. pb_entered[t] = k /\ k + 1 <= PosixRounds
    BY <1>2, <2>1 DEF PbRound, PbFilling, PbType
  <2>3. PbType'
    BY <2>1, <2>2 DEF PbType
  <2>4. PbInside' = PbInside \cup {t} /\ t \notin PbInside
    BY <2>1 DEF PbInside, PbType
  <2>5. PbCounted'
    BY <1>4, <2>1, <2>4, FS_AddElement DEF PbCounted, PbType
  <2>6. PbFilling(k)' = PbFilling(k) \cup {t} /\ t \notin PbFilling(k)
    BY <2>1, <2>2 DEF PbFilling, PbType
  <2>7. Cardinality(PbFilling(k)') = Cardinality(PbFilling(k)) + 1
    BY <1>4, <2>6, FS_AddElement
  <2>8. PbRound(k)'
    BY <1>2, <2>1, <2>2, <2>6, <2>7 DEF PbRound, PbType, PbFilling
  <2>9. PbReturning' /\ PbDestroyed'
    BY <2>1 DEF PbType, PbReturning, PbDestroyed
  <2> QED
    BY <2>3, <2>5, <2>8, <2>9 DEF PbRounds
<1>6. CASE PB!EnterLast(t)
  <2> DEFINE f == [pb_pc EXCEPT ![t] = "returning"]
  <2>1. /\ pb_pc[t] = "out" /\ pb_entered[t] < PosixRounds /\ pb_in + 1 = Cardinality(Threads)
        /\ pb_in' = 0 /\ pb_out' = Cardinality(Threads) - 1
        /\ pb_entered' = [pb_entered EXCEPT ![t] = @ + 1]
        /\ pb_serials' = [pb_serials EXCEPT ![pb_entered[t] + 1] = {t}]
        /\ pb_pc' \in PB!Signalled(f)
        /\ UNCHANGED pb_destroy
    BY <1>6, PbCardinality DEF PB!EnterLast, PB!threshold
  <2>2. pb_entered[t] = k /\ k + 1 \in 1..PosixRounds
    BY <1>2, <2>1 DEF PbRound, PbFilling, PbType
  <2>3. f \in [Threads -> Places] /\ \A u \in Threads : f[u] = IF u = t THEN "returning" ELSE pb_pc[u]
    BY DEF PbType
  <2>4. /\ pb_pc' \in [Threads -> Places]
        /\ \A u \in Threads : pb_pc'[u] = f[u] \/ (f[u] = "asleep" /\ pb_pc'[u] = "awake")
    BY <2>1, <2>3, PbSignalled
  <2>5. PbType'
    <3>1. pb_in' \in Nat /\ pb_out' \in Nat
      BY <1>3, <2>1 DEF PbType
    <3>2. pb_entered' \in [Threads -> 0..PosixRounds]
      BY <2>1 DEF PbType
    <3>3. pb_serials' \in [1..PosixRounds -> SUBSET Threads]
      BY <2>1, <2>2 DEF PbType
    <3> QED
      BY <2>1, <2>4, <3>1, <3>2, <3>3 DEF PbType
  <2>6. IsFiniteSet(Threads \ {t}) /\ Cardinality(Threads \ {t}) = Cardinality(Threads) - 1
    BY FS_RemoveElement
  <2>15. PbFilling(k) \in SUBSET (Threads \ {t})
    BY <2>2 DEF PbFilling
  <2>16. Cardinality(PbFilling(k)) = Cardinality(Threads \ {t})
    BY <1>2, <1>3, <2>1, <2>6 DEF PbRound, PbType
  <2>7. PbFilling(k) = Threads \ {t}
    BY <2>6, <2>15, <2>16, FS_Subset
  <2>8. PbInside = Threads \ {t} /\ PbInside' = Threads \ {t}
    BY <1>2, <2>1, <2>3, <2>4, <2>7 DEF PbInside, PbRound
  <2>9. PbCounted'
    BY <1>3, <2>1, <2>6, <2>8 DEF PbCounted
  <2>10. \A u \in Threads : pb_entered'[u] = k + 1
    BY <2>1, <2>2, <2>7 DEF PbFilling, PbType
  <2>11. PbFilling(k + 1)' = {}
    BY <2>10 DEF PbFilling
  <2>12. PbRound(k + 1)'
    <3>1. \A j \in 1..PosixRounds : pb_serials'[j] # {} => j <= k + 1
      BY <1>2, <2>1, <2>2 DEF PbRound, PbType
    <3>2. Cardinality(PbFilling(k + 1)') = 0
      BY <2>11, FS_EmptySet
    <3>3. pb_in' = 0 /\ 0 < Cardinality(Threads)
      BY <1>3, <2>1 DEF PbType
    <3>4. \A u \in Threads : pb_entered'[u] \in {k + 1, k + 1 + 1}
      BY <2>10
    <3> QED
      BY <2>11, <3>1, <3>2, <3>3, <3>4 DEF PbRound
  <2>13. PbReturning'
    BY <2>1, <2>2, <2>3, <2>4, <2>8, <2>10 DEF PbInside, PbReturning, PbType
  <2>14. PbDestroyed'
    BY <2>1, <2>2 DEF PbDestroyed
  <2> QED
    BY <2>5, <2>9, <2>12, <2>13, <2>14 DEF PbRounds
<1>7. CASE PB!ReturnSerial(t) \/ PB!SleepAgain(t) \/ PB!WakeSpuriously(t)
  <2>1. PICK p \in {"out", "asleep", "awake"} :
          /\ pb_pc' = [pb_pc EXCEPT ![t] = p]
          /\ (p = "out" /\ pb_pc[t] = "returning")
               \/ (p # "out" /\ pb_pc[t] \in {"asleep", "awake"})
          /\ UNCHANGED <<pb_in, pb_out, pb_destroy, pb_entered, pb_serials>>
    BY <1>7 DEF PB!ReturnSerial, PB!SleepAgain, PB!WakeSpuriously
  <2>2. PbType' /\ PbReturning' /\ PbDestroyed'
    BY <2>1 DEF PbType, PbReturning, PbDestroyed
  <2>3. PbInside' = PbInside
    BY <2>1 DEF PbType, PbInside
  <2>4. PbFilling(k)' = PbFilling(k)
    BY <2>1 DEF PbFilling
  <2>5. PbRound(k)'
    BY <1>2, <2>1, <2>4 DEF PbRound, PbType
  <2> QED
    BY <2>1, <2>2, <2>3, <2>5 DEF PbCounted, PbRounds
<1>8. CASE PB!Leave(t)
  <2> DEFINE f == [pb_pc EXCEPT ![t] = "out"]
  <2>1. /\ pb_pc[t] = "awake" /\ pb_in = 0 /\ pb_out' = pb_out - 1 /\ pb_pc' \in PB!Signalled(f)
        /\ UNCHANGED <<pb_in, pb_destroy, pb_entered, pb_serials>>
    BY <1>8 DEF PB!Leave
  <2>2. f \in [Threads -> Places] /\ \A u \in Threads : f[u] = IF u = t THEN "out" ELSE pb_pc[u]
    BY DEF PbType
  <2>3. /\ pb_pc' \in [Threads -> Places]
        /\ \A u \in Threads : pb_pc'[u] = f[u] \/ (f[u] = "asleep" /\ pb_pc'[u] = "awake")
    BY <2>1, <2>2, PbSignalled
  <2>4. PbInside' = PbInside \ {t} /\ t \in PbInside
    BY <2>1, <2>2, <2>3 DEF PbInside
  <2>5. /\ IsFiniteSet(PbInside') /\ Cardinality(PbInside') = Cardinality(PbInside) - 1
        /\ Cardinality(PbInside') \in Nat
    BY <1>4, <2>4, FS_RemoveElement, FS_CardinalityType
  <2>6. pb_out' \in Nat /\ PbCounted'
    BY <1>4, <2>1, <2>5, FS_CardinalityType DEF PbCounted, PbType
  <2>7. PbType' /\ PbReturning' /\ PbDestroyed'
    BY <2>1, <2>2, <2>3, <2>6 DEF PbType, PbReturning, PbDestroyed
  <2>8. PbFilling(k)' = PbFilling(k) /\ PbFilling(k) = {}
    BY <1>2, <1>4, <2>1, FS_EmptySet DEF PbFilling, PbRound
  <2>9. PbRound(k)'
    BY <1>2, <2>1, <2>8 DEF PbRound
  <2> QED
    BY <2>6, <2>7, <2>9 DEF PbRounds
<1>9. CASE PB!Destroy(t)
  <2>1. /\ pb_pc[t] = "out" /\ pb_entered[t] = PosixRounds /\ t \in pb_serials[PosixRounds]
        /\ pb_destroy' \in {"abort", "done"}
        /\ pb_destroy' = "done" => pb_in = 0 /\ pb_out = 0
        /\ UNCHANGED <<pb_in, pb_out, pb_pc, pb_entered, pb_serials>>
    BY <1>9 DEF PB!Destroy, PbType
  <2>2. PbType' /\ PbReturning' /\ PbCounted' /\ PbRound(k)'
    BY <1>2, <2>1 DEF PbType, PbReturning, PbCounted, PbInside, PbRound, PbFilling
  <2>3. ASSUME pb_destroy' = "done"
        PROVE  \A u \in Threads : pb_pc[u] = "out" /\ pb_entered[u] = PosixRounds
    <3>1. PbInside = {}
      BY <1>4, <2>1, <2>3, FS_EmptySet DEF PbCounted
    <3>2. \A u \in Threads : pb_entered[u] = PosixRounds
      BY <1>2, <2>1 DEF PbRound, PbType
    <3>3. \A u \in Threads : pb_pc[u] # "returning"
      BY <2>1, <3>2 DEF PbReturning
    <3> QED
      BY <3>1, <3>2, <3>3 DEF PbInside, PbType
  <2> QED
    BY <2>1, <2>2, <2>3 DEF PbRounds, PbDestroyed
<1> QED
  BY <1>1, <1>5, <1>6, <1>7, <1>8, <1>9 DEF PB!ThreadStep

LEMMA PbSound == PbInv => PB!DestroyedOnlyIdle
BY DEF PbInv, PbDestroyed, PB!DestroyedOnlyIdle

-----------------------------------------------------------------------------
(* The barrier of unix/thread.c implements Barrier. *)

\* A call that has not returned is the one entered last; who waits is not the one that
\* its round told, and each round that is complete has told one.
PbLeft == \A t \in Threads : pb_left[t] \in Nat /\ pb_left[t] + One(pb_pc[t] # "out") = pb_entered[t]
PbSerial ==
  /\ \A j \in 1..PosixRounds : pb_serials[j] # {} => \E s \in Threads : pb_serials[j] = {s}
  /\ \A t \in Threads : pb_pc[t] \in {"asleep", "awake"} => t \notin pb_serials[pb_entered[t]]
  /\ \A j \in 1..PosixRounds : Threads # {} /\ (\A t \in Threads : pb_entered[t] >= j) => pb_serials[j] # {}
PbFits == pb_left \in [Threads -> Nat] /\ PbLeft /\ PbSerial

LEMMA PbFitsInit == PB!Init => PbFits
<1> SUFFICES ASSUME PB!Init
             PROVE  PbFits
  OBVIOUS
<1>1. /\ pb_pc = [t \in Threads |-> "out"] /\ pb_entered = [t \in Threads |-> 0]
      /\ pb_left = [t \in Threads |-> 0] /\ pb_serials = [j \in 1..PosixRounds |-> {}]
  BY DEF PB!Init
<1>2. PbLeft
  BY <1>1 DEF PbLeft, One
<1>3. PbSerial
  BY <1>1 DEF PbSerial
<1> QED
  BY <1>1, <1>2, <1>3 DEF PbFits

\* The last one in finds all others in its round.
LEMMA PbLast ==
  ASSUME PbInv, NEW t \in Threads, PB!EnterLast(t)
  PROVE  \E k \in Nat : /\ pb_entered[t] = k /\ k + 1 \in 1..PosixRounds
                        /\ \A u \in Threads : u # t => /\ pb_entered[u] = k + 1
                                                       /\ pb_pc[u] \in {"asleep", "awake"}
                        /\ \A j \in 1..PosixRounds : pb_serials[j] # {} => j <= k
<1> USE ThreadsAssumption DEF PbInv
<1>1. /\ pb_pc[t] = "out" /\ pb_entered[t] < PosixRounds /\ pb_in + 1 = Cardinality(Threads)
  BY PbCardinality DEF PB!EnterLast, PB!threshold
<1>2. PICK k \in Nat : PbRound(k)
  BY DEF PbRounds
<1>3. pb_entered[t] = k /\ k + 1 \in 1..PosixRounds
  BY <1>1, <1>2 DEF PbRound, PbFilling, PbType
<1>4. /\ IsFiniteSet(Threads \ {t}) /\ Cardinality(Threads \ {t}) = Cardinality(Threads) - 1
      /\ Cardinality(Threads) \in Nat
  BY FS_RemoveElement, FS_CardinalityType
<1>5. PbFilling(k) \in SUBSET (Threads \ {t})
  BY <1>3 DEF PbFilling
<1>6. Cardinality(PbFilling(k)) = Cardinality(Threads \ {t})
  BY <1>1, <1>2, <1>4 DEF PbRound, PbType
<1>7. PbFilling(k) = Threads \ {t}
  BY <1>4, <1>5, <1>6, FS_Subset
<1> QED
  BY <1>2, <1>3, <1>7 DEF PbRound, PbFilling

\* Who leaves does so when all have entered its round; another one was told of it.
LEMMA PbLeaves ==
  ASSUME PbInv, PbFits, NEW t \in Threads, PB!Leave(t) \/ PB!ReturnSerial(t)
  PROVE  /\ \A u \in Threads : pb_entered[u] >= pb_entered[t]
         /\ pb_entered[t] \in 1..PosixRounds
         /\ pb_serials[pb_entered[t]] # {}
<1> USE ThreadsAssumption DEF PbInv
<1>1. PICK k \in Nat : PbRound(k)
  BY DEF PbRounds
<1>2. pb_entered[t] \in 1..PosixRounds
  <2>1. pb_pc[t] # "out"
    BY DEF PB!Leave, PB!ReturnSerial
  <2>2. pb_left[t] \in Nat /\ pb_left[t] + 1 = pb_entered[t]
    BY <2>1 DEF PbFits, PbLeft, One
  <2>3. pb_entered[t] \in 0..PosixRounds
    BY DEF PbType
  <2> QED
    BY <2>2, <2>3
<1>3. CASE PB!ReturnSerial(t)
  <2>1. pb_pc[t] = "returning"
    BY <1>3 DEF PB!ReturnSerial
  <2>2. pb_serials[pb_entered[t]] = {t}
    BY <2>1 DEF PbReturning
  <2>3. pb_entered[t] <= k
    BY <1>1, <1>2, <2>2 DEF PbRound
  <2> QED
    BY <1>1, <1>2, <2>2, <2>3 DEF PbRound, PbType
<1>4. CASE PB!Leave(t)
  <2>1. pb_in = 0
    BY <1>4 DEF PB!Leave
  <2>2. PbFilling(k) = {}
    <3>1. IsFiniteSet(PbFilling(k))
      BY FS_Subset DEF PbFilling
    <3> QED
      BY <1>1, <2>1, <3>1, FS_EmptySet DEF PbRound
  <2>3. \A u \in Threads : pb_entered[u] = k
    BY <1>1, <2>2 DEF PbRound, PbFilling
  <2>4. pb_serials[pb_entered[t]] # {}
    BY <1>2, <2>3 DEF PbFits, PbSerial
  <2> QED
    BY <1>2, <2>3, <2>4
<1> QED
  BY <1>3, <1>4

LEMMA PbFitsNext ==
  ASSUME PbInv, PbFits, PB!Next
  PROVE  PbFits'
<1> USE DEF PbFits
<1> DEFINE Places == {"out", "asleep", "awake", "returning"}
<1>0. /\ pb_pc \in [Threads -> Places] /\ pb_entered \in [Threads -> 0..PosixRounds]
      /\ pb_serials \in [1..PosixRounds -> SUBSET Threads] /\ PosixRounds \in Nat
  BY ThreadsAssumption DEF PbInv, PbType
<1>1. PICK t \in Threads : \/ PB!Enter(t) \/ PB!EnterLast(t) \/ PB!ThreadStep(t)
                           \/ PB!WakeSpuriously(t) \/ PB!Destroy(t)
  BY DEF PB!Next
<1>2. CASE PB!Enter(t)
  <2>1. /\ pb_pc[t] = "out" /\ pb_entered[t] < PosixRounds
        /\ pb_entered' = [pb_entered EXCEPT ![t] = @ + 1]
        /\ pb_pc' = [pb_pc EXCEPT ![t] = "asleep"] /\ UNCHANGED <<pb_left, pb_serials>>
    BY <1>2 DEF PB!Enter
  <2>2. PbLeft'
    BY <1>0, <2>1 DEF PbLeft, One
  <2>3. pb_serials[pb_entered[t] + 1] = {}
    <3>1. PICK k \in Nat : PbRound(k)
      BY <1>1 DEF PbInv, PbRounds
    <3>2. pb_entered[t] + 1 \in 1..PosixRounds
      BY <1>0, <2>1
    <3>3. pb_entered[t] \in {k, k + 1}
      BY <3>1 DEF PbRound
    <3>4. ~(pb_entered[t] + 1 <= k)
      BY <3>3
    <3> QED
      BY <3>1, <3>2, <3>4 DEF PbRound
  <2>4. ASSUME NEW j \in 1..PosixRounds, \A u \in Threads : pb_entered'[u] >= j
        PROVE  pb_serials[j] # {}
    <3>1. PICK k \in Nat : PbRound(k)
      BY <1>1 DEF PbInv, PbRounds
    <3>2. /\ IsFiniteSet(PbFilling(k)) /\ pb_in + 1 < Cardinality(Threads) /\ pb_entered[t] = k
      BY <1>2, <2>1, <3>1, PbCardinality, ThreadsAssumption, FS_Subset
        DEF PB!Enter, PB!threshold, PbFilling, PbRound, PbInv, PbType
    <3>3. t \notin PbFilling(k)
      BY <3>2 DEF PbFilling
    <3>4. Cardinality(PbFilling(k) \cup {t}) = pb_in + 1 /\ pb_in + 1 \in Nat
      <4>1. Cardinality(PbFilling(k)) = pb_in /\ pb_in \in Nat
        BY <3>1 DEF PbRound, PbInv, PbType
      <4> QED
        <5>1. Cardinality(PbFilling(k) \cup {t}) = Cardinality(PbFilling(k)) + 1
          BY <3>2, <3>3, FS_AddElement
        <5> QED
          BY <4>1, <5>1
    <3>5. PbFilling(k) \cup {t} # Threads
      BY <3>2, <3>4
    <3>6. PICK u \in Threads : u \notin PbFilling(k) \cup {t}
      BY <3>5 DEF PbFilling
    <3>7. pb_entered'[u] = k
      BY <1>0, <2>1, <3>1, <3>6 DEF PbRound, PbFilling
    <3>8. k >= j
      BY <2>4, <3>7
    <3>9. \A v \in Threads : pb_entered[v] \in {k, k + 1}
      BY <3>1 DEF PbRound
    <3>10. \A v \in Threads : pb_entered[v] >= j
      BY <3>8, <3>9
    <3> QED
      BY <1>1, <3>10 DEF PbSerial
  <2>5. \A u \in Threads : pb_pc'[u] \in {"asleep", "awake"} => u \notin pb_serials'[pb_entered'[u]]
    BY <1>0, <2>1, <2>3 DEF PbSerial
  <2> QED
    BY <2>1, <2>2, <2>4, <2>5 DEF PbSerial
<1>3. CASE PB!EnterLast(t)
  <2> DEFINE f == [pb_pc EXCEPT ![t] = "returning"]
  <2>1. /\ pb_entered' = [pb_entered EXCEPT ![t] = @ + 1] /\ pb_pc[t] = "out"
        /\ pb_serials' = [pb_serials EXCEPT ![pb_entered[t] + 1] = {t}]
        /\ pb_pc' \in PB!Signalled(f) /\ UNCHANGED pb_left
    BY <1>3 DEF PB!EnterLast
  <2>2. PICK k \in Nat : /\ pb_entered[t] = k /\ k + 1 \in 1..PosixRounds
                         /\ \A u \in Threads : u # t => /\ pb_entered[u] = k + 1
                                                        /\ pb_pc[u] \in {"asleep", "awake"}
                         /\ \A j \in 1..PosixRounds : pb_serials[j] # {} => j <= k
    BY <1>3, PbLast
  <2>3. f \in [Threads -> Places] /\ \A u \in Threads : f[u] = IF u = t THEN "returning" ELSE pb_pc[u]
    BY <1>0
  <2>4. \A u \in Threads : pb_pc'[u] = f[u] \/ (f[u] = "asleep" /\ pb_pc'[u] = "awake")
    BY <2>1, <2>3, PbSignalled
  <2>5. \A u \in Threads : pb_pc'[u] = "out" <=> (pb_pc[u] = "out" /\ u # t)
    BY <2>3, <2>4
  <2>6. PbLeft'
    BY <1>0, <2>1, <2>5 DEF PbLeft, One
  <2>7. \A u \in Threads : pb_entered'[u] = k + 1
    BY <1>0, <2>1, <2>2
  <2>8. \A j \in 1..PosixRounds : pb_serials'[j] = IF j = k + 1 THEN {t} ELSE pb_serials[j]
    BY <1>0, <2>1, <2>2
  <2>9. \A u \in Threads : pb_pc'[u] \in {"asleep", "awake"} => u \notin pb_serials'[pb_entered'[u]]
    BY <2>2, <2>3, <2>4, <2>7, <2>8
  <2>10. ASSUME NEW j \in 1..PosixRounds, \A u \in Threads : pb_entered'[u] >= j
         PROVE  pb_serials'[j] # {}
    <3>1. CASE j = k + 1
      BY <2>8, <3>1
    <3>2. CASE j # k + 1
      <4>1. \A u \in Threads : pb_entered[u] >= j
        BY <1>0, <1>1, <2>2, <2>7, <2>10, <3>2
      <4> QED
        BY <1>1, <2>8, <3>2, <4>1 DEF PbSerial
    <3> QED
      BY <3>1, <3>2
  <2>11. \A j \in 1..PosixRounds : pb_serials'[j] # {} => \E s \in Threads : pb_serials'[j] = {s}
    BY <1>1, <2>8 DEF PbSerial
  <2> QED
    BY <2>1, <2>6, <2>9, <2>10, <2>11 DEF PbSerial
<1>4. CASE PB!Leave(t) \/ PB!ReturnSerial(t)
  <2> DEFINE f == [pb_pc EXCEPT ![t] = "out"]
  <2>1. /\ pb_pc[t] \in {"awake", "returning"} /\ (pb_pc' = f \/ pb_pc' \in PB!Signalled(f))
        /\ pb_left' = [pb_left EXCEPT ![t] = @ + 1] /\ UNCHANGED <<pb_entered, pb_serials>>
    BY <1>4 DEF PB!Leave, PB!ReturnSerial
  <2>2. f \in [Threads -> Places] /\ \A u \in Threads : f[u] = IF u = t THEN "out" ELSE pb_pc[u]
    BY <1>0
  <2>3. \A u \in Threads : pb_pc'[u] = f[u] \/ (f[u] = "asleep" /\ pb_pc'[u] = "awake")
    BY <2>1, <2>2, PbSignalled
  <2>4. \A u \in Threads : pb_pc'[u] = "out" <=> (pb_pc[u] = "out" \/ u = t)
    BY <2>2, <2>3
  <2>5. PbLeft'
    BY <1>0, <2>1, <2>4 DEF PbLeft, One
  <2>6. pb_left' \in [Threads -> Nat]
    BY <2>1
  <2>7. PbSerial'
    BY <2>1, <2>2, <2>3 DEF PbSerial
  <2> QED
    BY <2>5, <2>6, <2>7
<1>5. CASE PB!SleepAgain(t) \/ PB!WakeSpuriously(t) \/ PB!Destroy(t)
  <2>1. /\ UNCHANGED <<pb_left, pb_entered, pb_serials>>
        /\ \/ pb_pc' = pb_pc
           \/ \E p \in {"asleep", "awake"} : pb_pc[t] \in {"asleep", "awake"} /\ pb_pc' = [pb_pc EXCEPT ![t] = p]
    BY <1>5 DEF PB!SleepAgain, PB!WakeSpuriously, PB!Destroy
  <2>2. \A u \in Threads : /\ pb_pc'[u] = "out" <=> pb_pc[u] = "out"
                           /\ pb_pc'[u] \in {"asleep", "awake"} <=> pb_pc[u] \in {"asleep", "awake"}
    BY <1>0, <2>1
  <2> QED
    BY <2>1, <2>2 DEF PbLeft, PbSerial, One
<1> QED
  BY <1>1, <1>2, <1>3, <1>4, <1>5 DEF PB!ThreadStep

\* Each step of the barrier enters, returns or is not seen.
LEMMA PbMaps ==
  ASSUME PbInv, PbFits, PB!Next
  PROVE  PB!B!Next \/ UNCHANGED PB!B!barrierVars
<1> USE DEF PbFits
<1> DEFINE shown == [j \in 1..PosixRounds |-> PB!Returned(j)]
<1>0. /\ pb_pc \in [Threads -> {"out", "asleep", "awake", "returning"}]
      /\ pb_entered \in [Threads -> 0..PosixRounds]
      /\ pb_serials \in [1..PosixRounds -> SUBSET Threads] /\ PosixRounds \in Nat
  BY ThreadsAssumption DEF PbInv, PbType
<1>a. \A j \in 1..PosixRounds :
        /\ PB!Returned(j) = {u \in pb_serials[j] : pb_left[u] >= j}
        /\ PB!Returned(j)' = {u \in pb_serials'[j] : pb_left'[u] >= j}
  BY DEF PB!Returned
<1>1. PICK t \in Threads : \/ PB!Enter(t) \/ PB!EnterLast(t) \/ PB!ThreadStep(t)
                           \/ PB!WakeSpuriously(t) \/ PB!Destroy(t)
  BY DEF PB!Next
<1>2. CASE PB!Enter(t) \/ PB!EnterLast(t)
  <2>1. /\ pb_pc[t] = "out" /\ pb_entered[t] < PosixRounds
        /\ pb_entered' = [pb_entered EXCEPT ![t] = @ + 1] /\ UNCHANGED pb_left
    BY <1>2 DEF PB!Enter, PB!EnterLast
  <2>2. pb_entered[t] = pb_left[t]
    BY <1>0, <2>1 DEF PbLeft, One
  <2>3. \A j \in 1..PosixRounds : PB!Returned(j)' = PB!Returned(j)
    <3>1. CASE PB!Enter(t)
      BY <2>1, <3>1 DEF PB!Enter, PB!Returned
    <3>2. CASE PB!EnterLast(t)
      <4>1. PICK k \in Nat : /\ pb_entered[t] = k /\ k + 1 \in 1..PosixRounds
                             /\ \A j \in 1..PosixRounds : pb_serials[j] # {} => j <= k
        BY <3>2, PbLast
      <4>2. pb_serials' = [pb_serials EXCEPT ![k + 1] = {t}]
        BY <3>2, <4>1 DEF PB!EnterLast
      <4>3. pb_serials[k + 1] = {}
        BY <4>1
      <4>4. PB!Returned(k + 1) = {} /\ PB!Returned(k + 1)' = {}
        <5>1. pb_serials'[k + 1] = {t} /\ pb_left'[t] = k
          BY <1>0, <2>1, <2>2, <4>1, <4>2
        <5> QED
          BY <1>a, <4>1, <4>3, <5>1
      <4>5. \A j \in 1..PosixRounds : j # k + 1 => PB!Returned(j)' = PB!Returned(j)
        BY <1>0, <2>1, <4>2 DEF PB!Returned
      <4> QED
        BY <4>4, <4>5
    <3> QED
      BY <1>2, <3>1, <3>2
  <2>4. UNCHANGED shown
    BY <2>3
  <2> QED
    BY <2>1, <2>2, <2>4 DEF PB!B!Next, PB!B!Enter
<1>3. CASE PB!Leave(t) \/ PB!ReturnSerial(t)
  <2>0. PICK k \in Nat : k = pb_entered[t]
    BY <1>0
  <2>1. /\ pb_pc[t] \in {"awake", "returning"}
        /\ pb_left' = [pb_left EXCEPT ![t] = @ + 1] /\ UNCHANGED <<pb_entered, pb_serials>>
    BY <1>3 DEF PB!Leave, PB!ReturnSerial
  <2>2. pb_left[t] + 1 = k /\ pb_left[t] < k
    BY <1>0, <2>0, <2>1 DEF PbLeft, One
  <2>3. /\ \A u \in Threads : pb_entered[u] >= k
        /\ k \in 1..PosixRounds /\ pb_serials[k] # {}
    BY <1>3, <2>0, PbLeaves
  <2>4. PICK s \in Threads : pb_serials[k] = {s}
    BY <2>3 DEF PbSerial
  <2>5. \A j \in 1..PosixRounds : j # k => PB!Returned(j)' = PB!Returned(j)
    BY <1>0, <2>1, <2>2 DEF PB!Returned, PbLeft
  <2>6. CASE s = t
    <3>1. PB!Returned(k) = {} /\ PB!Returned(k)' = {t}
      <4>1. pb_serials'[k] = {t} /\ pb_left'[t] = k
        BY <2>1, <2>2, <2>4, <2>6
      <4> QED
        BY <1>a, <2>2, <2>3, <2>4, <2>6, <4>1
    <3>2. shown[k] = {} /\ shown' = [shown EXCEPT ![k] = {t}]
      BY <2>3, <2>5, <3>1
    <3>3. shown[pb_entered[t]] = {} /\ shown' = [shown EXCEPT ![pb_entered[t]] = {t}]
      BY <2>0, <3>2
    <3>4. PB!B!Return(t)
      BY <2>0, <2>1, <2>2, <2>3, <3>3 DEF PB!B!Return
    <3> QED
      BY <3>4 DEF PB!B!Next
  <2>7. CASE s # t
    <3>1. PB!Returned(k)' = PB!Returned(k)
      <4>1. pb_serials'[k] = {s} /\ pb_left'[s] = pb_left[s]
        BY <2>1, <2>4, <2>7
      <4> QED
        BY <1>a, <2>3, <2>4, <4>1
    <3>2. shown' = shown
      BY <2>5, <3>1
    <3>3. shown[k] # {} \/ pb_left[s] < k
      <4>1. shown[k] = PB!Returned(k) /\ pb_left[s] \in Nat
        BY <2>3
      <4>2. pb_left[s] >= k => s \in PB!Returned(k)
        BY <1>a, <2>3, <2>4
      <4>3. pb_left[s] >= k \/ pb_left[s] < k
        BY <4>1
      <4>4. ASSUME s \in PB!Returned(k)
            PROVE  shown[k] # {}
        <5>1. PB!Returned(k) # {}
          BY <4>4
        <5> QED
          BY ONLY <4>1, <5>1
      <4> HIDE DEF shown
      <4> QED
        BY <4>2, <4>3, <4>4
    <3>4. shown[k] # {} \/ \E u \in Threads \ {t} : pb_left[u] < k
      BY <2>7, <3>3
    <3> QED
      <4>1. shown[pb_entered[t]] # {} \/ \E u \in Threads \ {t} : pb_left[u] < pb_entered[t]
        BY <2>0, <3>4
      <4>2. PB!B!Return(t)
        BY <2>0, <2>1, <2>2, <2>3, <3>2, <4>1 DEF PB!B!Return
      <4> QED
        BY <4>2 DEF PB!B!Next
  <2> QED
    BY <2>6, <2>7
<1>4. CASE PB!SleepAgain(t) \/ PB!WakeSpuriously(t) \/ PB!Destroy(t)
  <2>1. UNCHANGED <<pb_left, pb_entered, pb_serials>>
    BY <1>4 DEF PB!SleepAgain, PB!WakeSpuriously, PB!Destroy
  <2>2. shown' = shown
    BY <2>1 DEF PB!Returned
  <2> QED
    BY <2>1, <2>2 DEF PB!B!barrierVars
<1> QED
  BY <1>1, <1>2, <1>3, <1>4 DEF PB!ThreadStep

LEMMA PbMapsInit == PB!Init => PB!B!Init
<1> SUFFICES ASSUME PB!Init
             PROVE  PB!B!Init
  OBVIOUS
<1>1. \A j \in 1..PosixRounds : PB!Returned(j) = {}
  BY DEF PB!Init, PB!Returned
<1> QED
  BY <1>1 DEF PB!Init, PB!B!Init

-----------------------------------------------------------------------------
(* The barrier of win/thread.c implements Barrier. *)

WbType ==
  /\ wb_count \in Nat /\ turnstile \in [{1, 2} -> Nat]
  /\ wb_pc \in [Threads -> {"out", "arrive", "open1", "wait1", "post1",
                            "depart", "open2", "wait2", "post2"}]
  /\ wb_entered \in [Threads -> 0..Rounds] /\ wb_left \in [Threads -> Nat]
  /\ wb_serials \in [1..Rounds -> SUBSET Threads]

WbLeft == \A t \in Threads : wb_left[t] + One(wb_pc[t] # "out") = wb_entered[t]

\* The one that swaps the turnstiles has the mutex.
WbMutex == wb_mutex => \A t \in Threads : wb_pc[t] # "open1" /\ wb_pc[t] # "open2"

\* Who is counted in wb_count while a round fills, and while it drains.
WbFilled == {t \in Threads : wb_pc[t] \in {"wait1", "open1"}}
WbUndrained == {t \in Threads : wb_pc[t] \in {"wait1", "post1", "depart"}}

\* A turnstile that is open lets one through at a time, who opens it again.
WbOneThrough(value, p) ==
  /\ value \in {0, 1}
  /\ value = 1 => \A t \in Threads : wb_pc[t] # p
  /\ \A t, u \in Threads : wb_pc[t] = p /\ wb_pc[u] = p => t = u

\* Round k is over, but for those who wait at the second turnstile; round k + 1 fills.
WbFilling(k) ==
  /\ \A t \in Threads : \/ wb_entered[t] = k /\ wb_pc[t] \in {"out", "wait2", "post2"}
                        \/ wb_entered[t] = k + 1 /\ wb_pc[t] \in {"arrive", "wait1", "open1"}
  /\ wb_count = Cardinality(WbFilled)
  /\ turnstile[1] = 0 /\ WbOneThrough(turnstile[2], "post2")
  /\ \A t, u \in Threads : wb_pc[t] = "open1" /\ u # t => wb_pc[u] = "wait1"
  /\ \A j \in 1..Rounds : j > k => wb_serials[j] = {}
  /\ \A j \in 1..Rounds : j <= k => \E s \in Threads : wb_serials[j] = {s}

\* All have entered round k and pass the first turnstile; the last one is the serializer.
WbDraining(k) ==
  /\ k \in 1..Rounds
  /\ \A t \in Threads : /\ wb_entered[t] = k
                        /\ wb_pc[t] \in {"wait1", "post1", "depart", "open2", "wait2"}
  /\ wb_count = Cardinality(WbUndrained)
  /\ turnstile[2] = 0 /\ WbOneThrough(turnstile[1], "post1")
  /\ \A t, u \in Threads : wb_pc[t] = "open2" /\ u # t => wb_pc[u] = "wait2"
  /\ \A t \in Threads : wb_pc[t] = "open2" => wb_serials[k] = {t}
  /\ (\A t \in Threads : wb_pc[t] # "open2") => wb_serials[k] = {}
  /\ \A j \in 1..Rounds : j > k => wb_serials[j] = {}
  /\ \A j \in 1..Rounds : j < k => \E s \in Threads : wb_serials[j] = {s}

WbInv == WbType /\ WbLeft /\ WbMutex /\ \E k \in Nat : WbFilling(k) \/ WbDraining(k)

LEMMA WbCardinality == \A S : WB!Cardinality(S) = Cardinality(S)
BY DEF WB!Cardinality, Cardinality, WB!IsFiniteSet, IsFiniteSet

LEMMA WbInit == WB!Init => WbInv
<1> SUFFICES ASSUME WB!Init
             PROVE  WbInv
  OBVIOUS
<1> USE ThreadsAssumption
<1>1. /\ wb_count = 0 /\ turnstile = <<0, 1>> /\ wb_pc = [t \in Threads |-> "out"]
      /\ wb_entered = [t \in Threads |-> 0] /\ wb_left = [t \in Threads |-> 0]
      /\ wb_serials = [j \in 1..Rounds |-> {}]
  BY DEF WB!Init
<1>2. turnstile \in [{1, 2} -> Nat] /\ turnstile[1] = 0 /\ turnstile[2] = 1
  BY <1>1
<1>3. WbType
  BY <1>1, <1>2 DEF WbType
<1>4. WbLeft /\ WbMutex
  BY <1>1 DEF WbLeft, WbMutex, One
<1>5. wb_count = Cardinality(WbFilled)
  <2>1. WbFilled = {}
    BY <1>1 DEF WbFilled
  <2> QED
    BY <1>1, <2>1, FS_EmptySet
<1>6. WbFilling(0)
  BY <1>1, <1>2, <1>5 DEF WbFilling, WbOneThrough
<1> QED
  BY <1>3, <1>4, <1>6 DEF WbInv

LEMMA WbCallStep ==
  ASSUME WbInv, NEW t \in Threads, WB!Call(t)
  PROVE  WbInv'
<1> USE ThreadsAssumption DEF WbInv
<1>1. /\ wb_pc[t] = "out" /\ wb_entered[t] < Rounds
      /\ wb_entered' = [wb_entered EXCEPT ![t] = @ + 1]
      /\ wb_pc' = [wb_pc EXCEPT ![t] = "arrive"]
      /\ UNCHANGED <<wb_count, turnstile, wb_left, wb_serials>>
  BY DEF WB!Call, WB!Goto
<1>2. UNCHANGED wb_mutex
  BY Zenon DEF WB!Call
<1>3. WbType'
  BY <1>1 DEF WbType
<1>4. \A u \in Threads : wb_pc'[u] = IF u = t THEN "arrive" ELSE wb_pc[u]
  BY <1>1 DEF WbType
<1>5. WbLeft'
  BY <1>1, <1>4 DEF WbLeft, WbType, One
<1>6. WbMutex'
  <2>1. \A u \in Threads : wb_pc'[u] \in {"open1", "open2"} => wb_pc[u] = wb_pc'[u]
    BY <1>4
  <2> QED
    BY <1>2, <2>1 DEF WbMutex
<1>7. PICK k \in Nat : WbFilling(k)
  BY <1>1 DEF WbDraining
<1>8. wb_entered[t] = k
  BY <1>1, <1>7 DEF WbFilling
<1>9. WbFilled' = WbFilled
  BY <1>1, <1>4 DEF WbFilled
<1>10. WbFilling(k)'
  <2>1. \A u \in Threads : \/ wb_entered'[u] = k /\ wb_pc'[u] \in {"out", "wait2", "post2"}
                           \/ wb_entered'[u] = k + 1 /\ wb_pc'[u] \in {"arrive", "wait1", "open1"}
    BY <1>1, <1>4, <1>7, <1>8 DEF WbFilling, WbType
  <2>2. WbOneThrough(turnstile[2], "post2")'
    BY <1>1, <1>4, <1>7 DEF WbFilling, WbOneThrough
  <2>3. \A v, u \in Threads : wb_pc'[v] = "open1" /\ u # v => wb_pc'[u] = "wait1"
    BY <1>1, <1>4, <1>7 DEF WbFilling
  <2> QED
    BY <1>1, <1>7, <1>9, <2>1, <2>2, <2>3 DEF WbFilling
<1> QED
  BY <1>3, <1>5, <1>6, <1>10

LEMMA WbArrive ==
  ASSUME WbInv, NEW t \in Threads, WB!Arrive(t)
  PROVE  WbInv'
<1> USE ThreadsAssumption DEF WbInv
<1> DEFINE p == IF wb_count + 1 = Cardinality(Threads) THEN "open1" ELSE "wait1"
<1>1. /\ wb_pc[t] = "arrive" /\ wb_count' = wb_count + 1
      /\ wb_pc' = [wb_pc EXCEPT ![t] = p]
      /\ UNCHANGED <<turnstile, wb_entered, wb_left, wb_serials>>
  BY WbCardinality DEF WB!Arrive, WB!Goto, WB!N
<1>2. /\ wb_mutex
      /\ wb_count + 1 = Cardinality(Threads) => wb_mutex' = FALSE
  BY Zenon, WbCardinality DEF WB!Arrive, WB!N
<1>3. \A u \in Threads : wb_pc[u] # "open1" /\ wb_pc[u] # "open2"
  BY <1>2 DEF WbMutex
<1>4. WbType'
  BY <1>1 DEF WbType
<1>5. \A u \in Threads : wb_pc'[u] = IF u = t THEN p ELSE wb_pc[u]
  BY <1>1 DEF WbType
<1>6. WbLeft'
  BY <1>1, <1>5 DEF WbLeft, WbType, One
<1>7. WbMutex'
  <2>1. p = "wait1" => \A u \in Threads : wb_pc'[u] # "open1" /\ wb_pc'[u] # "open2"
    BY <1>3, <1>5
  <2>2. p = "wait1" \/ wb_mutex' = FALSE
    BY <1>2, Zenon
  <2> QED
    BY <2>1, <2>2, Zenon DEF WbMutex
<1>8. PICK k \in Nat : WbFilling(k)
  BY <1>1 DEF WbDraining
<1>9. IsFiniteSet(WbFilled)
  BY FS_Subset DEF WbFilled
<1>10. WbFilled' = WbFilled \cup {t} /\ t \notin WbFilled
  BY <1>1, <1>5 DEF WbFilled
<1>11. Cardinality(WbFilled \cup {t}) = Cardinality(WbFilled) + 1
  BY <1>9, <1>10, FS_AddElement
<1>12. wb_count' = Cardinality(WbFilled')
  BY <1>1, <1>8, <1>10, <1>11 DEF WbFilling
<1>13. ASSUME p = "open1"
       PROVE  \A u \in Threads : u # t => wb_pc'[u] = "wait1"
  <2>1. Cardinality(WbFilled \cup {t}) = Cardinality(Threads)
    BY <1>8, <1>11, <1>13 DEF WbFilling
  <2>2. WbFilled \cup {t} \in SUBSET Threads
    BY DEF WbFilled
  <2>3. WbFilled \cup {t} = Threads
    BY <2>1, <2>2, FS_Subset
  <2> QED
    BY <1>3, <1>5, <2>3 DEF WbFilled
<1>14. WbFilling(k)'
  <2> HIDE DEF p
  <2>0. p \in {"open1", "wait1"}
    BY DEF p
  <2>1. \A u \in Threads : \/ wb_entered'[u] = k /\ wb_pc'[u] \in {"out", "wait2", "post2"}
                           \/ wb_entered'[u] = k + 1 /\ wb_pc'[u] \in {"arrive", "wait1", "open1"}
    BY <1>1, <1>5, <1>8, <2>0 DEF WbFilling
  <2>2. WbOneThrough(turnstile[2], "post2")'
    BY <1>1, <1>5, <1>8, <2>0 DEF WbFilling, WbOneThrough
  <2>3. \A v, u \in Threads : wb_pc'[v] = "open1" /\ u # v => wb_pc'[u] = "wait1"
    BY <1>3, <1>5, <1>13
  <2> QED
    BY <1>1, <1>8, <1>12, <2>1, <2>2, <2>3 DEF WbFilling
<1> QED
  BY <1>4, <1>6, <1>7, <1>14

LEMMA WbOpen1 ==
  ASSUME WbInv, NEW t \in Threads, WB!Open1(t)
  PROVE  WbInv'
<1> USE ThreadsAssumption DEF WbInv
<1>1. /\ wb_pc[t] = "open1" /\ turnstile[2] > 0
      /\ turnstile' = <<turnstile[1] + 1, turnstile[2] - 1>>
      /\ wb_pc' = [wb_pc EXCEPT ![t] = "wait1"]
      /\ UNCHANGED <<wb_count, wb_entered, wb_left, wb_serials>>
  BY DEF WB!Open1, WB!Goto
<1>2. PICK k \in Nat : WbFilling(k)
  BY <1>1 DEF WbDraining
<1>3. \A u \in Threads : wb_pc'[u] = "wait1"
  BY <1>1, <1>2 DEF WbFilling, WbType
<1>4. \A u \in Threads : wb_pc[u] \in {"wait1", "open1"}
  BY <1>1, <1>2 DEF WbFilling
<1>5. /\ turnstile' \in [{1, 2} -> Nat] /\ turnstile'[1] = 1 /\ turnstile'[2] = 0
  <2>1. turnstile[1] = 0 /\ turnstile[2] = 1
    BY <1>1, <1>2 DEF WbFilling, WbOneThrough
  <2>2. turnstile' = <<1, 0>>
    BY <1>1, <2>1
  <2> QED
    BY <2>2
<1>6. WbType'
  BY <1>1, <1>5 DEF WbType
<1>7. WbLeft' /\ WbMutex'
  BY <1>1, <1>3, <1>4 DEF WbLeft, WbMutex, WbType, One
<1>8. \A u \in Threads : wb_entered'[u] = k + 1
  BY <1>1, <1>2, <1>4 DEF WbFilling
<1>9. k + 1 \in 1..Rounds
  BY <1>6, <1>8 DEF WbType
<1>10. wb_count' = Cardinality(WbUndrained')
  <2>1. WbUndrained' = WbFilled
    BY <1>3, <1>4 DEF WbUndrained, WbFilled
  <2> QED
    BY <1>1, <1>2, <2>1 DEF WbFilling
<1>11. WbDraining(k + 1)'
  <2>1. WbOneThrough(turnstile[1], "post1")'
    BY <1>3, <1>5 DEF WbOneThrough
  <2>2. /\ \A j \in 1..Rounds : j > k + 1 => wb_serials'[j] = {}
        /\ \A j \in 1..Rounds : j < k + 1 => \E s \in Threads : wb_serials'[j] = {s}
        /\ wb_serials'[k + 1] = {}
    BY <1>1, <1>2, <1>9 DEF WbFilling
  <2> QED
    BY <1>3, <1>5, <1>8, <1>9, <1>10, <2>1, <2>2 DEF WbDraining
<1> QED
  BY <1>6, <1>7, <1>11

\* Through a turnstile.
LEMMA WbThrough1 ==
  ASSUME WbInv, NEW t \in Threads, WB!Wait(t, 1, "wait1", "post1")
  PROVE  WbInv'
<1> USE ThreadsAssumption DEF WbInv
<1>1. /\ wb_pc[t] = "wait1" /\ turnstile[1] > 0
      /\ turnstile' = [turnstile EXCEPT ![1] = @ - 1]
      /\ wb_pc' = [wb_pc EXCEPT ![t] = "post1"]
      /\ UNCHANGED <<wb_count, wb_entered, wb_left, wb_serials>>
  BY DEF WB!Wait, WB!Goto
<1>2. UNCHANGED wb_mutex
  BY Zenon DEF WB!Wait
<1>3. PICK k \in Nat : WbDraining(k)
  BY <1>1 DEF WbFilling
<1>4. \A u \in Threads : wb_pc'[u] = IF u = t THEN "post1" ELSE wb_pc[u]
  BY <1>1 DEF WbType
<1>5. /\ turnstile[1] = 1 /\ turnstile'[1] = 0 /\ turnstile'[2] = 0
      /\ turnstile' \in [{1, 2} -> Nat]
  BY <1>1, <1>3 DEF WbDraining, WbOneThrough, WbType
<1>6. WbType'
  BY <1>1, <1>5 DEF WbType
<1>7. WbLeft'
  BY <1>1, <1>4 DEF WbLeft, One
<1>8. WbMutex'
  <2>1. \A u \in Threads : wb_pc'[u] \in {"open1", "open2"} => wb_pc[u] = wb_pc'[u]
    BY <1>4
  <2> QED
    BY <1>2, <2>1 DEF WbMutex
<1>9. WbUndrained' = WbUndrained
  BY <1>1, <1>4 DEF WbUndrained
<1>10. WbDraining(k)'
  <2>1. WbOneThrough(turnstile[1], "post1")'
    BY <1>3, <1>4, <1>5 DEF WbDraining, WbOneThrough
  <2>2. /\ \A v, u \in Threads : wb_pc'[v] = "open2" /\ u # v => wb_pc'[u] = "wait2"
        /\ \A u \in Threads : wb_pc'[u] = "open2" <=> wb_pc[u] = "open2"
        /\ \A u \in Threads : wb_pc'[u] \in {"wait1", "post1", "depart", "open2", "wait2"}
    BY <1>1, <1>3, <1>4 DEF WbDraining
  <2> QED
    BY <1>1, <1>3, <1>5, <1>9, <2>1, <2>2 DEF WbDraining
<1> QED
  BY <1>6, <1>7, <1>8, <1>10

LEMMA WbPost1 ==
  ASSUME WbInv, NEW t \in Threads, WB!Post1(t)
  PROVE  WbInv'
<1> USE ThreadsAssumption DEF WbInv
<1>1. /\ wb_pc[t] = "post1"
      /\ turnstile' = [turnstile EXCEPT ![1] = @ + 1]
      /\ wb_pc' = [wb_pc EXCEPT ![t] = "depart"]
      /\ UNCHANGED <<wb_count, wb_entered, wb_left, wb_serials>>
  BY DEF WB!Post1, WB!Goto
<1>2. UNCHANGED wb_mutex
  BY Zenon DEF WB!Post1
<1>3. PICK k \in Nat : WbDraining(k)
  BY <1>1 DEF WbFilling
<1>4. \A u \in Threads : wb_pc'[u] = IF u = t THEN "depart" ELSE wb_pc[u]
  BY <1>1 DEF WbType
<1>5. /\ turnstile[1] = 0 /\ turnstile'[1] = 1 /\ turnstile'[2] = 0
      /\ turnstile' \in [{1, 2} -> Nat]
  BY <1>1, <1>3 DEF WbDraining, WbOneThrough, WbType
<1>6. WbType'
  BY <1>1, <1>5 DEF WbType
<1>7. WbLeft'
  BY <1>1, <1>4 DEF WbLeft, One
<1>8. WbMutex'
  <2>1. \A u \in Threads : wb_pc'[u] \in {"open1", "open2"} => wb_pc[u] = wb_pc'[u]
    BY <1>4
  <2> QED
    BY <1>2, <2>1 DEF WbMutex
<1>9. WbUndrained' = WbUndrained
  BY <1>1, <1>4 DEF WbUndrained
<1>10. WbDraining(k)'
  <2>1. WbOneThrough(turnstile[1], "post1")'
    BY <1>1, <1>3, <1>4, <1>5 DEF WbDraining, WbOneThrough
  <2>2. /\ \A v, u \in Threads : wb_pc'[v] = "open2" /\ u # v => wb_pc'[u] = "wait2"
        /\ \A u \in Threads : wb_pc'[u] = "open2" <=> wb_pc[u] = "open2"
        /\ \A u \in Threads : wb_pc'[u] \in {"wait1", "post1", "depart", "open2", "wait2"}
    BY <1>1, <1>3, <1>4 DEF WbDraining
  <2> QED
    BY <1>1, <1>3, <1>5, <1>9, <2>1, <2>2 DEF WbDraining
<1> QED
  BY <1>6, <1>7, <1>8, <1>10

LEMMA WbDepart ==
  ASSUME WbInv, NEW t \in Threads, WB!Depart(t)
  PROVE  WbInv'
<1> USE ThreadsAssumption DEF WbInv
<1> DEFINE p == IF wb_count = 1 THEN "open2" ELSE "wait2"
<1>1. /\ wb_pc[t] = "depart" /\ wb_count' = wb_count - 1
      /\ wb_pc' = [wb_pc EXCEPT ![t] = p]
      /\ wb_serials' = IF wb_count = 1
                       THEN [wb_serials EXCEPT ![wb_entered[t]] = @ \cup {t}] ELSE wb_serials
      /\ UNCHANGED <<turnstile, wb_entered, wb_left>>
  BY DEF WB!Depart, WB!Goto
<1>2. wb_mutex /\ (wb_count = 1 => wb_mutex' = FALSE)
  BY Zenon DEF WB!Depart
<1>3. \A u \in Threads : wb_pc[u] # "open1" /\ wb_pc[u] # "open2"
  BY <1>2 DEF WbMutex
<1>4. PICK k \in Nat : WbDraining(k)
  BY <1>1 DEF WbFilling
<1>5. /\ k \in 1..Rounds /\ wb_entered[t] = k /\ wb_serials[k] = {}
      /\ wb_count = Cardinality(WbUndrained)
  BY <1>3, <1>4 DEF WbDraining
<1>6. \A u \in Threads : wb_pc'[u] = IF u = t THEN p ELSE wb_pc[u]
  BY <1>1 DEF WbType
<1>7. IsFiniteSet(WbUndrained) /\ t \in WbUndrained
  BY <1>1, FS_Subset DEF WbUndrained
<1>8. WbUndrained' = WbUndrained \ {t}
  BY <1>6 DEF WbUndrained
<1>9. /\ Cardinality(WbUndrained') = Cardinality(WbUndrained) - 1 /\ Cardinality(WbUndrained') \in Nat
      /\ IsFiniteSet(WbUndrained')
  BY <1>7, <1>8, FS_RemoveElement, FS_CardinalityType
<1>10. wb_count' = Cardinality(WbUndrained') /\ wb_count' \in Nat
  BY <1>1, <1>5, <1>9
<1>11. ASSUME wb_count = 1
       PROVE  \A u \in Threads : u # t => wb_pc'[u] = "wait2"
  <2>1. Cardinality(WbUndrained') = 0
    BY <1>5, <1>9, <1>11
  <2>2. WbUndrained' = {}
    BY <1>9, <2>1, FS_EmptySet
  <2> QED
    BY <1>3, <1>4, <1>6, <2>2 DEF WbUndrained, WbDraining
<1>12. \A j \in 1..Rounds : wb_serials'[j] = IF j = k /\ wb_count = 1 THEN {t} ELSE wb_serials[j]
  BY <1>1, <1>5 DEF WbType
<1>13. WbType'
  <2>1. wb_serials' \in [1..Rounds -> SUBSET Threads]
    BY <1>1, <1>5 DEF WbType
  <2> QED
    BY <1>1, <1>10, <2>1 DEF WbType
<1>14. WbLeft'
  BY <1>1, <1>6 DEF WbLeft, One
<1>15. WbMutex'
  <2>1. p = "wait2" => \A u \in Threads : wb_pc'[u] # "open1" /\ wb_pc'[u] # "open2"
    BY <1>3, <1>6
  <2>2. p = "wait2" \/ wb_mutex' = FALSE
    BY <1>2, Zenon
  <2> QED
    BY <2>1, <2>2, Zenon DEF WbMutex
<1>16. WbDraining(k)'
  <2>1. WbOneThrough(turnstile[1], "post1")'
    BY <1>1, <1>4, <1>6 DEF WbDraining, WbOneThrough
  <2>2. /\ \A u \in Threads : wb_pc'[u] = "open2" <=> (u = t /\ wb_count = 1)
        /\ \A u \in Threads : wb_pc'[u] \in {"wait1", "post1", "depart", "open2", "wait2"}
    BY <1>3, <1>4, <1>6 DEF WbDraining
  <2>3. \A v, u \in Threads : wb_pc'[v] = "open2" /\ u # v => wb_pc'[u] = "wait2"
    BY <1>11, <2>2
  <2>4. /\ \A u \in Threads : wb_pc'[u] = "open2" => wb_serials'[k] = {u}
        /\ (\A u \in Threads : wb_pc'[u] # "open2") => wb_serials'[k] = {}
    BY <1>5, <1>12, <2>2
  <2>5. /\ \A j \in 1..Rounds : j > k => wb_serials'[j] = {}
        /\ \A j \in 1..Rounds : j < k => \E s \in Threads : wb_serials'[j] = {s}
    <3>1. \A j \in 1..Rounds : j # k => wb_serials'[j] = wb_serials[j]
      BY <1>12
    <3>2. /\ \A j \in 1..Rounds : j > k => wb_serials[j] = {}
          /\ \A j \in 1..Rounds : j < k => \E s \in Threads : wb_serials[j] = {s}
      BY <1>4 DEF WbDraining
    <3> QED
      BY <3>1, <3>2
  <2>6. turnstile'[2] = 0 /\ \A u \in Threads : wb_entered'[u] = k
    BY <1>1, <1>4 DEF WbDraining
  <2> QED
    BY <1>5, <1>10, <2>1, <2>2, <2>3, <2>4, <2>5, <2>6 DEF WbDraining
<1> QED
  BY <1>13, <1>14, <1>15, <1>16

LEMMA WbOpen2 ==
  ASSUME WbInv, NEW t \in Threads, WB!Open2(t)
  PROVE  WbInv'
<1> USE ThreadsAssumption DEF WbInv
<1>1. /\ wb_pc[t] = "open2" /\ turnstile[1] > 0
      /\ turnstile' = <<turnstile[1] - 1, turnstile[2] + 1>>
      /\ wb_pc' = [wb_pc EXCEPT ![t] = "wait2"]
      /\ UNCHANGED <<wb_count, wb_entered, wb_left, wb_serials>>
  BY DEF WB!Open2, WB!Goto
<1>2. PICK k \in Nat : WbDraining(k)
  BY <1>1 DEF WbFilling
<1>3. \A u \in Threads : wb_pc'[u] = "wait2" /\ wb_pc[u] \in {"open2", "wait2"}
  BY <1>1, <1>2 DEF WbDraining, WbType
<1>4. /\ turnstile' \in [{1, 2} -> Nat] /\ turnstile'[1] = 0 /\ turnstile'[2] = 1
  <2>1. turnstile[1] = 1 /\ turnstile[2] = 0
    BY <1>1, <1>2 DEF WbDraining, WbOneThrough
  <2>2. turnstile' = <<0, 1>>
    BY <1>1, <2>1
  <2> QED
    BY <2>2
<1>5. WbType'
  BY <1>1, <1>4 DEF WbType
<1>6. WbLeft' /\ WbMutex'
  BY <1>1, <1>3 DEF WbLeft, WbMutex, WbType, One
<1>7. WbUndrained = {} /\ WbFilled' = {}
  BY <1>3 DEF WbUndrained, WbFilled
<1>8. wb_count' = Cardinality(WbFilled')
  BY <1>1, <1>2, <1>7 DEF WbDraining
<1>9. WbFilling(k)'
  <2>1. WbOneThrough(turnstile[2], "post2")'
    BY <1>3, <1>4 DEF WbOneThrough
  <2>2. wb_serials'[k] = {t} /\ \A u \in Threads : wb_entered'[u] = k
    BY <1>1, <1>2 DEF WbDraining
  <2>3. \A j \in 1..Rounds : j > k => wb_serials'[j] = {}
    BY <1>1, <1>2 DEF WbDraining
  <2>4. \A j \in 1..Rounds : j <= k => \E s \in Threads : wb_serials'[j] = {s}
    <3>1. \A j \in 1..Rounds : j < k => \E s \in Threads : wb_serials'[j] = {s}
      BY <1>1, <1>2 DEF WbDraining
    <3>2. \A j \in 1..Rounds : j <= k => j < k \/ j = k
      OBVIOUS
    <3> QED
      BY <2>2, <3>1, <3>2
  <2> QED
    BY <1>3, <1>4, <1>8, <2>1, <2>2, <2>3, <2>4 DEF WbFilling
<1> QED
  BY <1>5, <1>6, <1>9

LEMMA WbThrough2 ==
  ASSUME WbInv, NEW t \in Threads, WB!Wait(t, 2, "wait2", "post2") \/ WB!Return(t)
  PROVE  WbInv'
<1> USE ThreadsAssumption DEF WbInv
<1> DEFINE p == IF wb_pc[t] = "wait2" THEN "post2" ELSE "out"
           v == IF wb_pc[t] = "wait2" THEN 0 ELSE 1
<1>1. /\ \/ wb_pc[t] = "wait2" /\ turnstile[2] > 0 /\ wb_left' = wb_left
            /\ turnstile' = [turnstile EXCEPT ![2] = @ - 1]
         \/ wb_pc[t] = "post2" /\ wb_left' = [wb_left EXCEPT ![t] = @ + 1]
            /\ turnstile' = [turnstile EXCEPT ![2] = @ + 1]
      /\ wb_pc' = [wb_pc EXCEPT ![t] = p]
      /\ UNCHANGED <<wb_count, wb_entered, wb_serials>>
  BY DEF WB!Wait, WB!Return, WB!Goto
<1>2. UNCHANGED wb_mutex
  BY Zenon DEF WB!Wait, WB!Return
<1>3. PICK k \in Nat : WbFilling(k)
  <2>1. ASSUME NEW k \in Nat, WbDraining(k)
        PROVE  FALSE
    BY <1>1, <2>1 DEF WbDraining
  <2> QED
    BY <2>1
<1>4. \A u \in Threads : wb_pc'[u] = IF u = t THEN p ELSE wb_pc[u]
  BY <1>1 DEF WbType
<1>5. turnstile[2] = 1 - v /\ turnstile'[1] = 0 /\ turnstile'[2] = v
  <2>1. turnstile[1] = 0 /\ turnstile[2] \in {0, 1} /\ turnstile \in [{1, 2} -> Nat]
    BY <1>3 DEF WbFilling, WbOneThrough, WbType
  <2>2. wb_pc[t] = "post2" => turnstile[2] # 1
    BY <1>3 DEF WbFilling, WbOneThrough
  <2> QED
    BY <1>1, <2>1, <2>2
<1>6. turnstile' \in [{1, 2} -> Nat]
  BY <1>1, <1>5 DEF WbType
<1>7. WbType'
  BY <1>1, <1>6 DEF WbType
<1>8. WbLeft'
  BY <1>1, <1>4 DEF WbLeft, WbType, One
<1>9. WbMutex'
  <2>1. \A u \in Threads : wb_pc'[u] \in {"open1", "open2"} => wb_pc[u] = wb_pc'[u]
    BY <1>4
  <2> QED
    BY <1>2, <2>1 DEF WbMutex
<1>10. WbFilled' = WbFilled
  BY <1>1, <1>4 DEF WbFilled
<1>11. WbFilling(k)'
  <2>1. WbOneThrough(turnstile[2], "post2")'
    BY <1>1, <1>3, <1>4, <1>5 DEF WbFilling, WbOneThrough
  <2>2. \A u \in Threads : \/ wb_entered'[u] = k /\ wb_pc'[u] \in {"out", "wait2", "post2"}
                           \/ wb_entered'[u] = k + 1 /\ wb_pc'[u] \in {"arrive", "wait1", "open1"}
    BY <1>1, <1>3, <1>4 DEF WbFilling
  <2>3. \A w, u \in Threads : wb_pc'[w] = "open1" /\ u # w => wb_pc'[u] = "wait1"
    BY <1>1, <1>3, <1>4 DEF WbFilling
  <2> QED
    BY <1>1, <1>3, <1>5, <1>10, <2>1, <2>2, <2>3 DEF WbFilling
<1> QED
  BY <1>7, <1>8, <1>9, <1>11

LEMMA WbNext ==
  ASSUME WbInv, WB!Next
  PROVE  WbInv'
BY WbCallStep, WbArrive, WbOpen1, WbThrough1, WbPost1, WbDepart, WbOpen2, WbThrough2
  DEF WB!Next, WB!WaitStep

LEMMA WbMapsInit == WB!Init => WB!B!Init
<1> SUFFICES ASSUME WB!Init
             PROVE  WB!B!Init
  OBVIOUS
<1>1. \A j \in 1..Rounds : WB!Returned(j) = {}
  BY DEF WB!Init, WB!Returned
<1> QED
  BY <1>1 DEF WB!Init, WB!B!Init

\* A call enters, the post of the second turnstile returns, and nothing else is seen:
\* the serializer of a round counts when it returns.
LEMMA WbMaps ==
  ASSUME WbInv, WB!Next
  PROVE  WB!B!Next \/ UNCHANGED WB!B!barrierVars
<1> USE ThreadsAssumption DEF WbInv
<1> DEFINE shown == [j \in 1..Rounds |-> WB!Returned(j)]
<1>0. /\ wb_entered \in [Threads -> 0..Rounds] /\ wb_left \in [Threads -> Nat]
      /\ wb_serials \in [1..Rounds -> SUBSET Threads] /\ Rounds \in Nat
  BY DEF WbType
<1>a. \A j \in 1..Rounds :
        /\ WB!Returned(j) = {u \in wb_serials[j] : wb_left[u] >= j}
        /\ WB!Returned(j)' = {u \in wb_serials'[j] : wb_left'[u] >= j}
  BY DEF WB!Returned
<1>1. PICK t \in Threads : WB!Call(t) \/ WB!WaitStep(t)
  BY DEF WB!Next
<1>2. CASE WB!Call(t)
  <2>1. /\ wb_pc[t] = "out" /\ wb_entered[t] < Rounds
        /\ wb_entered' = [wb_entered EXCEPT ![t] = @ + 1] /\ UNCHANGED <<wb_left, wb_serials>>
    BY <1>2 DEF WB!Call
  <2>2. wb_entered[t] = wb_left[t]
    BY <1>0, <2>1 DEF WbLeft, One
  <2>3. shown' = shown
    BY <2>1 DEF WB!Returned
  <2> QED
    BY <2>1, <2>2, <2>3 DEF WB!B!Next, WB!B!Enter
<1>3. CASE WB!Return(t)
  <2>0. PICK k \in Nat : k = wb_entered[t]
    BY <1>0
  <2>1. /\ wb_pc[t] = "post2"
        /\ wb_left' = [wb_left EXCEPT ![t] = @ + 1] /\ UNCHANGED <<wb_entered, wb_serials>>
    BY <1>3 DEF WB!Return
  <2>2. wb_left[t] + 1 = k /\ wb_left[t] < k
    BY <1>0, <2>0, <2>1 DEF WbLeft, One
  <2>3. k \in 1..Rounds
    BY <1>0, <2>0, <2>2
  <2>4. PICK m \in Nat : WbFilling(m)
    <3>1. ASSUME NEW m \in Nat, WbDraining(m)
          PROVE  FALSE
      BY <2>1, <3>1 DEF WbDraining
    <3> QED
      BY <3>1
  <2>5. m = k
    BY <2>0, <2>1, <2>4 DEF WbFilling
  <2>6. \A u \in Threads : wb_entered[u] >= k
    BY <2>4, <2>5 DEF WbFilling
  <2>7. PICK s \in Threads : wb_serials[k] = {s}
    BY <2>3, <2>4, <2>5 DEF WbFilling
  <2>8. \A j \in 1..Rounds : j # k => WB!Returned(j)' = WB!Returned(j)
    <3>1. \A u \in Threads : wb_left'[u] = IF u = t THEN k ELSE wb_left[u]
      BY <1>0, <2>1, <2>2
    <3>2. \A j \in 1..Rounds : j # k => (wb_left[t] >= j <=> k >= j)
      BY <1>0, <2>2
    <3>3. \A j \in 1..Rounds : wb_serials'[j] = wb_serials[j] /\ wb_serials[j] \subseteq Threads
      BY <1>0, <2>1
    <3> QED
      BY <1>a, <3>1, <3>2, <3>3
  <2>9. CASE s = t
    <3>1. WB!Returned(k) = {} /\ WB!Returned(k)' = {t}
      <4>1. wb_serials'[k] = {t} /\ wb_left'[t] = k
        <5>1. wb_left'[t] = wb_left[t] + 1
          BY <1>0, <2>1
        <5> QED
          BY <2>1, <2>2, <2>7, <2>9, <5>1
      <4> QED
        <5>1. wb_left[t] \in Nat /\ ~(wb_left[t] >= k) /\ wb_left'[t] >= k
          BY <1>0, <2>2, <4>1
        <5> QED
          BY <1>a, <2>3, <2>7, <2>9, <4>1, <5>1
    <3>2. shown[k] = {} /\ shown' = [shown EXCEPT ![k] = {t}]
      BY <2>3, <2>8, <3>1
    <3>3. shown[wb_entered[t]] = {} /\ shown' = [shown EXCEPT ![wb_entered[t]] = {t}]
      BY <2>0, <3>2
    <3>4. WB!B!Return(t)
      BY <2>0, <2>1, <2>2, <2>6, <3>3 DEF WB!B!Return
    <3> QED
      BY <3>4 DEF WB!B!Next
  <2>10. CASE s # t
    <3>1. WB!Returned(k)' = WB!Returned(k)
      <4>1. wb_serials'[k] = {s} /\ wb_left'[s] = wb_left[s]
        BY <1>0, <2>1, <2>7, <2>10
      <4> QED
        BY <1>a, <2>3, <2>7, <4>1
    <3>2. shown' = shown
      BY <2>8, <3>1
    <3>3. shown[k] # {} \/ wb_left[s] < k
      <4>1. shown[k] = WB!Returned(k) /\ wb_left[s] \in Nat
        BY <1>0, <2>3
      <4>2. wb_left[s] >= k => s \in WB!Returned(k)
        BY <1>a, <2>3, <2>7
      <4>3. wb_left[s] >= k \/ wb_left[s] < k
        BY <4>1
      <4>4. ASSUME s \in WB!Returned(k)
            PROVE  shown[k] # {}
        <5>1. WB!Returned(k) # {}
          BY <4>4
        <5> QED
          BY ONLY <4>1, <5>1
      <4> HIDE DEF shown
      <4> QED
        BY <4>2, <4>3, <4>4
    <3>4. shown[k] # {} \/ \E u \in Threads \ {t} : wb_left[u] < k
      BY <2>10, <3>3
    <3>5. shown[wb_entered[t]] # {} \/ \E u \in Threads \ {t} : wb_left[u] < wb_entered[t]
      BY <2>0, <3>4
    <3>6. WB!B!Return(t)
      BY <2>0, <2>1, <2>2, <2>6, <3>2, <3>5 DEF WB!B!Return
    <3> QED
      BY <3>6 DEF WB!B!Next
  <2> QED
    BY <2>9, <2>10
<1>4. CASE WB!Depart(t)
  <2>1. /\ wb_pc[t] = "depart" /\ UNCHANGED <<wb_entered, wb_left>>
        /\ wb_serials' = wb_serials
             \/ wb_serials' = [wb_serials EXCEPT ![wb_entered[t]] = @ \cup {t}]
    BY <1>4 DEF WB!Depart
  <2>2. wb_left[t] + 1 = wb_entered[t]
    BY <2>1 DEF WbLeft, One
  <2>3. \A j \in 1..Rounds : WB!Returned(j)' = WB!Returned(j)
    <3>1. ASSUME NEW j \in 1..Rounds
          PROVE  WB!Returned(j)' = WB!Returned(j)
      <4>1. \A u : u \in wb_serials'[j] <=> u \in wb_serials[j]
                                            \/ (u = t /\ j = wb_entered[t] /\ wb_serials' # wb_serials)
        BY <1>0, <2>1
      <4>2. ~(wb_left[t] >= wb_entered[t])
        BY <1>0, <2>2
      <4> QED
        BY <1>a, <2>1, <4>1, <4>2
    <3> QED
      BY <3>1
  <2>4. shown' = shown
    BY <2>3
  <2> QED
    BY <2>1, <2>4 DEF WB!B!barrierVars
<1>5. CASE \/ WB!Arrive(t) \/ WB!Open1(t) \/ WB!Wait(t, 1, "wait1", "post1") \/ WB!Post1(t)
           \/ WB!Open2(t) \/ WB!Wait(t, 2, "wait2", "post2")
  <2>1. UNCHANGED <<wb_entered, wb_left, wb_serials>>
    BY <1>5 DEF WB!Arrive, WB!Open1, WB!Wait, WB!Post1, WB!Open2
  <2>2. shown' = shown
    BY <2>1 DEF WB!Returned
  <2> QED
    BY <2>1, <2>2 DEF WB!B!barrierVars
<1> QED
  BY <1>1, <1>2, <1>3, <1>4, <1>5 DEF WB!WaitStep

-----------------------------------------------------------------------------
(* The thread pool, threadpool.c. *)

TpType ==
  /\ wq \in Seq(Requests \cup {"exit_message"}) /\ loop_wq \in Seq(Requests) /\ batch \in Seq(Requests)
  /\ wpc \in [Workers -> {"none", "top", "waiting", "woken", "working", "handing", "gone"}]
  /\ wjob \in [Workers -> Requests \cup {"exit_message"}]
  /\ work \in [Requests -> {"null", "work", "cancelled"}]
  /\ ran \in [Requests -> Nat] /\ done \in [Requests -> Seq({"UV_ECANCELED", "0"})]
  /\ linked \subseteq Requests /\ cancelled \subseteq Requests
  /\ loop_pc \in {"user", "cancel", "requeue"}
  /\ exiting \in BOOLEAN

TpOnce == Once(wq) /\ Once(loop_wq) /\ Once(batch)

\* The exit message is posted once, when the threads run; they run before anything is
\* queued.
TpExit == "exit_message" \in Elems(wq) => exiting
TpThreads ==
  /\ (\A w \in Workers : wpc[w] = "none") => wq = <<>>
  /\ (\E w \in Workers : wpc[w] = "none") => \A w \in Workers : wpc[w] = "none"

\* One worker has a request in hand, and then a request.
TpHand ==
  /\ \A w \in Workers : wpc[w] = "working" => wjob[w] \in Requests
  /\ \A v, w \in Workers : wpc[v] = "working" /\ wpc[w] = "working" /\ wjob[v] = wjob[w] => v = w

InHand(r) == \E w \in Workers : wpc[w] = "working" /\ wjob[w] = r
Requeued(r) == loop_pc = "requeue" /\ target = r

\* A request is in one place at a time ...
TpPlaces(r) ==
  /\ r \in Elems(wq) => ~InHand(r) /\ r \notin Elems(loop_wq) /\ r \notin Elems(batch) /\ ~Requeued(r)
  /\ InHand(r) => r \notin Elems(loop_wq) /\ r \notin Elems(batch) /\ ~Requeued(r)
  /\ r \in Elems(loop_wq) => r \notin Elems(batch) /\ ~Requeued(r)
  /\ r \in Elems(batch) => ~Requeued(r)

\* ... which w->work, the links of its node and the work done tell.
TpTold(r) ==
  /\ r \in Elems(wq) =>
       work[r] = "work" /\ ran[r] = 0 /\ r \in linked /\ r \notin cancelled /\ done[r] = <<>>
  /\ InHand(r) =>
       work[r] = "work" /\ ran[r] = 1 /\ r \notin linked /\ r \notin cancelled /\ done[r] = <<>>
  /\ r \in Elems(loop_wq) \cup Elems(batch) =>
       /\ r \in linked /\ done[r] = <<>>
       /\ \/ work[r] = "null" /\ ran[r] = 1 /\ r \notin cancelled
          \/ work[r] = "cancelled" /\ ran[r] = 0 /\ r \in cancelled
  /\ Requeued(r) =>
       /\ r \in linked /\ done[r] = <<>> /\ ran[r] = 0 /\ work[r] # "null"
       /\ work[r] = "cancelled" <=> r \in cancelled
  /\ done[r] # <<>> =>
       \/ done[r] = <<"UV_ECANCELED">> /\ work[r] = "cancelled" /\ ran[r] = 0 /\ r \in cancelled
       \/ done[r] = <<"0">> /\ work[r] = "null" /\ ran[r] = 1 /\ r \notin cancelled
  /\ r \notin Elems(wq) \cup Elems(loop_wq) \cup Elems(batch) /\ ~InHand(r) /\ ~Requeued(r)
       /\ done[r] = <<>> => work[r] = "null" /\ ran[r] = 0 /\ r \notin cancelled /\ r \notin linked

\* uv_cancel is called with a request that has not been answered.
TpTarget ==
  loop_pc # "user" => target \in Requests /\ done[target] = <<>>
                      /\ (work[target] # "null" \/ ran[target] > 0)

TpInv ==
  /\ TpType /\ TpOnce /\ TpExit /\ TpThreads /\ TpHand /\ TpTarget
  /\ \A r \in Requests : TpPlaces(r) /\ TpTold(r)

\* What stays when only what the threads wait for changes.
TpSame ==
  /\ \A v \in Workers : (wpc'[v] = "none" <=> wpc[v] = "none") /\ (wpc'[v] = "working" <=> wpc[v] = "working")
  /\ UNCHANGED <<wq, wjob, linked, work, ran, done, loop_wq, batch, loop_pc, target, cancelled, exiting>>

LEMMA TpStutters ==
  ASSUME TpInv, TpSame, wpc' \in [Workers -> {"none", "top", "waiting", "woken", "working", "handing", "gone"}]
  PROVE  TpInv'
<1>1. TpType'
  BY DEF TpInv, TpType, TpSame
<1>2. TpOnce' /\ TpExit' /\ TpTarget'
  BY DEF TpInv, TpOnce, TpExit, TpTarget, TpSame, Once, Elems
<1>3. TpThreads' /\ TpHand'
  BY DEF TpInv, TpThreads, TpHand, TpSame
<1>4. \A r \in Requests : (InHand(r)' <=> InHand(r)) /\ (Requeued(r)' <=> Requeued(r))
  BY DEF InHand, Requeued, TpSame
<1>5. Elems(wq') = Elems(wq) /\ Elems(loop_wq') = Elems(loop_wq) /\ Elems(batch') = Elems(batch)
  BY DEF TpSame
<1>6. \A r \in Requests : TpPlaces(r)' /\ TpTold(r)'
  BY <1>4, <1>5 DEF TpInv, TpPlaces, TpTold, TpSame
<1> QED
  BY <1>1, <1>2, <1>3, <1>6 DEF TpInv

LEMMA TpInit ==
  ASSUME TP!Init
  PROVE  TpInv
<1>1. /\ wq = <<>> /\ loop_wq = <<>> /\ batch = <<>> /\ wpc = [w \in Workers |-> "none"]
      /\ wjob = [w \in Workers |-> "exit_message"] /\ linked = {} /\ cancelled = {}
      /\ work = [r \in Requests |-> "null"] /\ ran = [r \in Requests |-> 0]
      /\ done = [r \in Requests |-> <<>>] /\ loop_pc = "user" /\ exiting = FALSE
  BY DEF TP!Init, TP!Exit
<1>2. Elems(<<>>) = {} /\ Once(<<>>)
  BY ElemsEmpty
<1>3. TpType
  <2>1. /\ <<>> \in Seq(Requests \cup {"exit_message"}) /\ <<>> \in Seq(Requests)
        /\ <<>> \in Seq({"UV_ECANCELED", "0"})
    OBVIOUS
  <2>2. done \in [Requests -> Seq({"UV_ECANCELED", "0"})]
    BY <1>1, <2>1
  <2>3. wq \in Seq(Requests \cup {"exit_message"}) /\ loop_wq \in Seq(Requests) /\ batch \in Seq(Requests)
    BY <1>1, <2>1
  <2>4. exiting \in BOOLEAN
    BY <1>1
  <2> QED
    BY <1>1, <2>2, <2>3, <2>4 DEF TpType
<1>4. TpOnce /\ TpExit /\ TpThreads /\ TpHand /\ TpTarget
  BY <1>1, <1>2 DEF TpOnce, TpExit, TpThreads, TpHand, TpTarget
<1>5. \A r \in Requests : ~InHand(r) /\ ~Requeued(r)
  BY <1>1 DEF InHand, Requeued
<1>6. \A r \in Requests : TpPlaces(r) /\ TpTold(r)
  BY <1>1, <1>2, <1>5 DEF TpPlaces, TpTold
<1> QED
  BY <1>3, <1>4, <1>6 DEF TpInv

\* A signal wakes one thread that waits, or none.
LEMMA TpSignal ==
  ASSUME NEW places \in [Workers -> {"none", "top", "waiting", "woken", "working", "handing", "gone"}],
         NEW woken \in TP!Signal(places)
  PROVE  /\ woken \in [Workers -> {"none", "top", "waiting", "woken", "working", "handing", "gone"}]
         /\ \A v \in Workers : /\ woken[v] = "none" <=> places[v] = "none"
                               /\ woken[v] = "working" <=> places[v] = "working"
<1>1. woken = places \/ \E w \in Workers : places[w] = "waiting" /\ woken = [places EXCEPT ![w] = "woken"]
  BY DEF TP!Signal
<1> QED
  BY <1>1

LEMMA TpTakeWork ==
  ASSUME TpInv, NEW w \in Workers, TP!TakeWork(w)
  PROVE  TpInv'
<1> DEFINE h == Head(wq)
<1>1. /\ wpc[w] \in {"top", "woken"} /\ wq # <<>> /\ h # "exit_message" /\ wq' = Tail(wq)
      /\ linked' = linked \ {h} /\ wjob' = [wjob EXCEPT ![w] = h]
      /\ ran' = [ran EXCEPT ![h] = @ + 1] /\ wpc' = [wpc EXCEPT ![w] = "working"]
      /\ UNCHANGED <<work, done, loop_wq, batch, loop_pc, target, cancelled, exiting>>
  BY DEF TP!TakeWork, TP!Exit
<1>2. /\ Tail(wq) \in Seq(Requests \cup {"exit_message"}) /\ h \in Requests /\ h \in Elems(wq)
      /\ Elems(wq') = Elems(wq) \ {h} /\ Once(wq')
  BY <1>1, ElemsTail DEF TpInv, TpType, TpOnce
<1> HIDE DEF h
<1>3. TpType'
  BY <1>1, <1>2 DEF TpInv, TpType
<1>4. TpOnce' /\ TpExit'
  BY <1>1, <1>2 DEF TpInv, TpOnce, TpExit
<1>5. TpThreads'
  BY <1>1 DEF TpInv, TpType, TpThreads
<1>6. ~InHand(h) /\ work[h] = "work" /\ ran[h] = 0 /\ h \in linked /\ h \notin cancelled /\ done[h] = <<>>
      /\ h \notin Elems(loop_wq) /\ h \notin Elems(batch) /\ ~Requeued(h)
  BY <1>2 DEF TpInv, TpPlaces, TpTold
<1>7. \A r \in Requests : (InHand(r)' <=> InHand(r) \/ r = h) /\ (Requeued(r)' <=> Requeued(r))
  BY <1>1, <1>2 DEF InHand, Requeued, TpInv, TpType
<1>8. TpHand'
  BY <1>1, <1>2, <1>6 DEF TpHand, InHand, TpInv, TpType
<1>9. ran'[h] = 1 /\ \A r \in Requests : r # h => ran'[r] = ran[r]
  BY <1>1, <1>2, <1>6 DEF TpInv, TpType
<1>10. TpTarget'
  BY <1>1, <1>2, <1>6, <1>9 DEF TpInv, TpTarget
<1>11. ASSUME NEW r \in Requests
       PROVE  TpPlaces(r)' /\ TpTold(r)'
  <2>1. CASE r = h
    BY <1>1, <1>2, <1>6, <1>7, <1>9, <2>1 DEF TpPlaces, TpTold
  <2>2. CASE r # h
    <3>1. /\ r \in Elems(wq') <=> r \in Elems(wq)
          /\ InHand(r)' <=> InHand(r)
          /\ Requeued(r)' <=> Requeued(r)
          /\ ran'[r] = ran[r] /\ (r \in linked' <=> r \in linked)
      BY <1>1, <1>2, <1>7, <1>9, <2>2
    <3>2. TpPlaces(r) /\ TpTold(r)
      BY DEF TpInv
    <3> QED
      BY <1>1, <3>1, <3>2 DEF TpPlaces, TpTold
  <2> QED
    BY <2>1, <2>2
<1> QED
  BY <1>3, <1>4, <1>5, <1>8, <1>10, <1>11 DEF TpInv

LEMMA TpHandOver ==
  ASSUME TpInv, NEW w \in Workers, TP!HandOver(w)
  PROVE  TpInv'
<1> DEFINE h == wjob[w]
<1>1. /\ wpc[w] = "working" /\ work' = [work EXCEPT ![h] = "null"]
      /\ loop_wq' = Append(loop_wq, h) /\ linked' = linked \cup {h}
      /\ wpc' = [wpc EXCEPT ![w] = "handing"]
      /\ UNCHANGED <<wq, wjob, ran, done, batch, loop_pc, target, cancelled, exiting>>
  BY DEF TP!HandOver
<1>2. h \in Requests /\ InHand(h)
  BY <1>1 DEF TpInv, TpHand, InHand
<1> HIDE DEF h
<1>3. /\ work[h] = "work" /\ ran[h] = 1 /\ h \notin linked /\ h \notin cancelled /\ done[h] = <<>>
      /\ h \notin Elems(wq) /\ h \notin Elems(loop_wq) /\ h \notin Elems(batch) /\ ~Requeued(h)
  BY <1>2 DEF TpInv, TpPlaces, TpTold
<1>4. /\ loop_wq' \in Seq(Requests) /\ Elems(loop_wq') = Elems(loop_wq) \cup {h} /\ Once(loop_wq')
  BY <1>1, <1>2, <1>3, ElemsAppend DEF TpInv, TpType, TpOnce
<1>5. TpType'
  BY <1>1, <1>2, <1>4 DEF TpInv, TpType
<1>6. TpOnce' /\ TpExit'
  BY <1>1, <1>4 DEF TpInv, TpOnce, TpExit
<1>7. TpThreads' /\ TpHand'
  BY <1>1 DEF TpInv, TpType, TpThreads, TpHand
<1>8. \A r \in Requests : (InHand(r)' <=> InHand(r) /\ r # h) /\ (Requeued(r)' <=> Requeued(r))
  <2>1. \A r \in Requests : Requeued(r)' <=> Requeued(r)
    BY <1>1 DEF Requeued
  <2>2. ASSUME NEW r \in Requests, InHand(r), r # h
        PROVE  InHand(r)'
    BY <1>1, <2>2 DEF InHand, TpInv, TpType, h
  <2>3. ASSUME NEW r \in Requests, InHand(r)'
        PROVE  InHand(r) /\ r # h
    BY <1>1, <2>3 DEF InHand, TpInv, TpType, TpHand, h
  <2> QED
    BY <2>1, <2>2, <2>3
<1>9. work'[h] = "null" /\ \A r \in Requests : r # h => work'[r] = work[r]
  BY <1>1, <1>2 DEF TpInv, TpType
<1>10. TpTarget'
  <2>1. ran[h] > 0
    BY <1>3
  <2> QED
    BY <1>1, <1>9, <2>1 DEF TpInv, TpTarget
<1>11. ASSUME NEW r \in Requests
       PROVE  TpPlaces(r)' /\ TpTold(r)'
  <2>1. CASE r = h
    BY <1>1, <1>3, <1>4, <1>8, <1>9, <2>1 DEF TpPlaces, TpTold
  <2>2. CASE r # h
    <3>1. /\ r \in Elems(loop_wq') <=> r \in Elems(loop_wq)
          /\ InHand(r)' <=> InHand(r)
          /\ Requeued(r)' <=> Requeued(r)
          /\ work'[r] = work[r] /\ (r \in linked' <=> r \in linked)
      BY <1>1, <1>4, <1>8, <1>9, <2>2
    <3>2. TpPlaces(r) /\ TpTold(r)
      BY DEF TpInv
    <3> QED
      BY <1>1, <3>1, <3>2 DEF TpPlaces, TpTold
  <2> QED
    BY <2>1, <2>2
<1> QED
  BY <1>5, <1>6, <1>7, <1>10, <1>11 DEF TpInv

\* What post() does to the queue and the threads.
LEMMA TpPost ==
  ASSUME TpInv, NEW e \in Requests \cup {"exit_message"}, TP!Post(e), e \notin Elems(wq)
  PROVE  /\ wq' \in Seq(Requests \cup {"exit_message"}) /\ Elems(wq') = Elems(wq) \cup {e} /\ Once(wq')
         /\ wpc' \in [Workers -> {"none", "top", "waiting", "woken", "working", "handing", "gone"}]
         /\ \A v \in Workers : (wpc'[v] = "none" <=> wpc[v] = "none") /\ (wpc'[v] = "working" <=> wpc[v] = "working")
<1>1. wq' = Append(wq, e) /\ (wpc' = wpc \/ wpc' \in TP!Signal(wpc))
  BY DEF TP!Post
<1>2. wpc \in [Workers -> {"none", "top", "waiting", "woken", "working", "handing", "gone"}]
  BY DEF TpInv, TpType
<1>3. /\ wq' \in Seq(Requests \cup {"exit_message"}) /\ Elems(wq') = Elems(wq) \cup {e} /\ Once(wq')
  BY <1>1, ElemsAppend DEF TpInv, TpType, TpOnce
<1>4. ASSUME wpc' \in TP!Signal(wpc)
      PROVE  /\ wpc' \in [Workers -> {"none", "top", "waiting", "woken", "working", "handing", "gone"}]
             /\ \A v \in Workers : (wpc'[v] = "none" <=> wpc[v] = "none") /\ (wpc'[v] = "working" <=> wpc[v] = "working")
  BY <1>2, <1>4, TpSignal
<1> QED
  BY <1>1, <1>2, <1>3, <1>4

LEMMA TpQueueWork ==
  ASSUME TpInv, NEW q \in Requests, TP!QueueWork(q)
  PROVE  TpInv'
<1>1. /\ loop_pc = "user" /\ ~exiting /\ work[q] = "null" /\ ran[q] = 0
      /\ work' = [work EXCEPT ![q] = "work"] /\ linked' = linked \cup {q}
      /\ UNCHANGED <<wjob, ran, done, loop_wq, batch, loop_pc, target, cancelled, exiting>>
  BY DEF TP!QueueWork
<1>2. /\ q \notin Elems(wq) /\ ~InHand(q) /\ q \notin Elems(loop_wq) /\ q \notin Elems(batch)
      /\ ~Requeued(q) /\ done[q] = <<>> /\ q \notin cancelled
  <2>1. TpPlaces(q) /\ TpTold(q)
    BY DEF TpInv
  <2> QED
    BY <1>1, <2>1 DEF TpPlaces, TpTold, Requeued
<1>3. /\ wq' \in Seq(Requests \cup {"exit_message"}) /\ Elems(wq') = Elems(wq) \cup {q} /\ Once(wq')
      /\ wpc' \in [Workers -> {"none", "top", "waiting", "woken", "working", "handing", "gone"}]
      /\ \A v \in Workers : wpc'[v] # "none" /\ (wpc'[v] = "working" <=> wpc[v] = "working")
  <2>1. CASE \A w \in Workers : wpc[w] = "none"
    <3>1. wpc' = [w \in Workers |-> "top"] /\ wq' = <<q>> /\ wq = <<>>
      BY <2>1 DEF TP!QueueWork, TpInv, TpThreads
    <3>2. /\ wq' \in Seq(Requests \cup {"exit_message"}) /\ Elems(wq') = Elems(wq) \cup {q} /\ Once(wq')
      <4>1. Elems(<<q>>) = {q} /\ Elems(<<>>) = {} /\ Once(<<q>>)
        BY ElemsEmpty
      <4>2. <<q>> \in Seq(Requests \cup {"exit_message"})
        OBVIOUS
      <4> QED
        BY <3>1, <4>1, <4>2
    <3> QED
      BY <2>1, <3>1, <3>2
  <2>2. CASE ~ \A w \in Workers : wpc[w] = "none"
    <3>1. TP!Post(q)
      BY <2>2 DEF TP!QueueWork
    <3>2. \A w \in Workers : wpc[w] # "none"
      BY <2>2 DEF TpInv, TpThreads
    <3> QED
      BY <1>2, <3>1, <3>2, TpPost
  <2> QED
    BY <2>1, <2>2
<1>4. TpType'
  BY <1>1, <1>3 DEF TpInv, TpType
<1>5. TpOnce' /\ TpExit'
  BY <1>1, <1>3, PoolAssumption DEF TpInv, TpOnce, TpExit
<1>6. TpThreads' /\ TpHand'
  BY <1>1, <1>3, PoolAssumption DEF TpInv, TpThreads, TpHand
<1>7. \A r \in Requests : (InHand(r)' <=> InHand(r)) /\ (Requeued(r)' <=> Requeued(r))
  BY <1>1, <1>3 DEF InHand, Requeued
<1>8. work'[q] = "work" /\ \A r \in Requests : r # q => work'[r] = work[r]
  BY <1>1 DEF TpInv, TpType
<1>9. TpTarget'
  BY <1>1 DEF TpTarget
<1>10. ASSUME NEW r \in Requests
       PROVE  TpPlaces(r)' /\ TpTold(r)'
  <2>1. TpPlaces(r) /\ TpTold(r)
    BY DEF TpInv
  <2>2. CASE r = q
    BY <1>1, <1>2, <1>3, <1>7, <1>8, <2>2 DEF TpPlaces, TpTold
  <2>3. CASE r # q
    <3>1. (r \in Elems(wq') <=> r \in Elems(wq)) /\ work'[r] = work[r] /\ (r \in linked' <=> r \in linked)
      BY <1>1, <1>3, <1>8, <2>3
    <3> QED
      BY <1>1, <1>7, <2>1, <3>1 DEF TpPlaces, TpTold
  <2> QED
    BY <2>2, <2>3
<1> QED
  BY <1>4, <1>5, <1>6, <1>9, <1>10 DEF TpInv

LEMMA TpCleanup ==
  ASSUME TpInv, TP!Cleanup
  PROVE  TpInv'
<1>1. /\ ~exiting /\ TP!Post("exit_message") /\ exiting' = TRUE
      /\ UNCHANGED <<wjob, linked, work, ran, done, loop_wq, batch, loop_pc, target, cancelled>>
      /\ \A w \in Workers : wpc[w] # "none"
  BY DEF TP!Cleanup, TP!Exit
<1>2. "exit_message" \notin Elems(wq)
  BY <1>1 DEF TpInv, TpExit
<1>3. /\ wq' \in Seq(Requests \cup {"exit_message"}) /\ Elems(wq') = Elems(wq) \cup {"exit_message"}
      /\ Once(wq')
      /\ wpc' \in [Workers -> {"none", "top", "waiting", "woken", "working", "handing", "gone"}]
      /\ \A v \in Workers : (wpc'[v] = "none" <=> wpc[v] = "none") /\ (wpc'[v] = "working" <=> wpc[v] = "working")
  BY <1>1, <1>2, TpPost
<1>4. TpType' /\ TpOnce' /\ TpExit' /\ TpTarget'
  BY <1>1, <1>3 DEF TpInv, TpType, TpOnce, TpExit, TpTarget
<1>5. TpThreads' /\ TpHand'
  BY <1>1, <1>3, PoolAssumption DEF TpInv, TpThreads, TpHand
<1>6. \A r \in Requests : (InHand(r)' <=> InHand(r)) /\ (Requeued(r)' <=> Requeued(r))
  BY <1>1, <1>3 DEF InHand, Requeued
<1>7. \A r \in Requests : r \in Elems(wq') <=> r \in Elems(wq)
  BY <1>3, PoolAssumption
<1>8. \A r \in Requests : TpPlaces(r)' /\ TpTold(r)'
  BY <1>1, <1>6, <1>7 DEF TpInv, TpPlaces, TpTold
<1> QED
  BY <1>4, <1>5, <1>8 DEF TpInv

LEMMA TpCancelUnlink ==
  ASSUME TpInv, TP!CancelUnlink
  PROVE  TpInv'
<1>1. /\ loop_pc = "cancel"
      /\ UNCHANGED <<wpc, wjob, linked, work, ran, done, target, cancelled, exiting>>
  BY DEF TP!CancelUnlink
<1>2. CASE ~TP!Cancellable(target)
  <2>1. loop_pc' = "user" /\ UNCHANGED <<wq, loop_wq, batch>>
    BY <1>2 DEF TP!CancelUnlink
  <2>2. TpType' /\ TpOnce' /\ TpExit' /\ TpTarget'
    BY <1>1, <2>1 DEF TpInv, TpType, TpOnce, TpExit, TpTarget
  <2>3. TpThreads' /\ TpHand'
    BY <1>1, <2>1 DEF TpInv, TpThreads, TpHand
  <2>4. \A r \in Requests : (InHand(r)' <=> InHand(r)) /\ ~Requeued(r) /\ ~Requeued(r)'
    BY <1>1, <2>1 DEF InHand, Requeued
  <2>5. \A r \in Requests : TpPlaces(r)' /\ TpTold(r)'
    BY <1>1, <2>1, <2>4 DEF TpInv, TpPlaces, TpTold
  <2> QED
    BY <2>2, <2>3, <2>5 DEF TpInv
<1>3. CASE TP!Cancellable(target)
  <2>1. /\ loop_pc' = "requeue" /\ wq' = TP!Without(wq, target)
        /\ loop_wq' = TP!Without(loop_wq, target) /\ batch' = TP!Without(batch, target)
        /\ target \in linked /\ work[target] # "null"
    BY <1>3 DEF TP!CancelUnlink, TP!Cancellable
  <2>2. target \in Requests /\ done[target] = <<>>
    BY <1>1 DEF TpInv, TpTarget
  <2>3. /\ wq' \in Seq(Requests \cup {"exit_message"}) /\ Elems(wq') = Elems(wq) \ {target} /\ Once(wq')
        /\ loop_wq' \in Seq(Requests) /\ Elems(loop_wq') = Elems(loop_wq) \ {target} /\ Once(loop_wq')
        /\ batch' \in Seq(Requests) /\ Elems(batch') = Elems(batch) \ {target} /\ Once(batch')
    <3>1. /\ wq \in Seq(Requests \cup {"exit_message"}) /\ loop_wq \in Seq(Requests)
          /\ batch \in Seq(Requests) /\ Once(wq) /\ Once(loop_wq) /\ Once(batch)
      BY DEF TpInv, TpType, TpOnce
    <3>2. /\ wq' \in Seq(Requests \cup {"exit_message"}) /\ Elems(wq') = Elems(wq) \ {target} /\ Once(wq')
      BY <2>1, <3>1, ElemsWithout
    <3>3. /\ loop_wq' \in Seq(Requests) /\ Elems(loop_wq') = Elems(loop_wq) \ {target} /\ Once(loop_wq')
      BY <2>1, <3>1, ElemsWithout
    <3>4. /\ batch' \in Seq(Requests) /\ Elems(batch') = Elems(batch) \ {target} /\ Once(batch')
      BY <2>1, <3>1, ElemsWithout
    <3> QED
      BY <3>2, <3>3, <3>4
  <2>4. TpType' /\ TpOnce' /\ TpExit'
    BY <1>1, <2>1, <2>3 DEF TpInv, TpType, TpOnce, TpExit
  <2>5. TpTarget'
    BY <1>1, <2>1, <2>2 DEF TpInv, TpTarget
  <2>6. TpThreads' /\ TpHand'
    <3>1. wq = <<>> => wq' = <<>>
      BY <2>1 DEF TP!Without
    <3> QED
      BY <1>1, <3>1 DEF TpInv, TpThreads, TpHand
  <2>7. \A r \in Requests : (InHand(r)' <=> InHand(r)) /\ ~Requeued(r) /\ (Requeued(r)' <=> r = target)
    BY <1>1, <2>1 DEF InHand, Requeued
  <2>8. ~InHand(target) /\ ran[target] = 0 /\ (work[target] = "cancelled" <=> target \in cancelled)
    <3>1. /\ target \in Elems(wq) \/ InHand(target) \/ target \in Elems(loop_wq) \/ target \in Elems(batch)
          /\ TpTold(target)
      BY <2>1, <2>2, <2>7 DEF TpInv, TpTold
    <3> QED
      BY <2>1, <2>2, <3>1 DEF TpTold
  <2>9. ASSUME NEW r \in Requests
        PROVE  TpPlaces(r)' /\ TpTold(r)'
    <3>1. TpPlaces(r) /\ TpTold(r)
      BY DEF TpInv
    <3>2. CASE r = target
      BY <1>1, <2>1, <2>2, <2>3, <2>7, <2>8, <3>2 DEF TpPlaces, TpTold
    <3>3. CASE r # target
      <4>1. /\ r \in Elems(wq') <=> r \in Elems(wq)
            /\ r \in Elems(loop_wq') <=> r \in Elems(loop_wq)
            /\ r \in Elems(batch') <=> r \in Elems(batch)
        BY <2>3, <3>3
      <4> QED
        BY <1>1, <2>7, <3>1, <3>3, <4>1 DEF TpPlaces, TpTold
    <3> QED
      BY <3>2, <3>3
  <2> QED
    BY <2>4, <2>5, <2>6, <2>9 DEF TpInv
<1> QED
  BY <1>2, <1>3

LEMMA TpCancelRequeue ==
  ASSUME TpInv, TP!CancelRequeue
  PROVE  TpInv'
<1>1. /\ loop_pc = "requeue" /\ work' = [work EXCEPT ![target] = "cancelled"]
      /\ loop_wq' = Append(loop_wq, target) /\ cancelled' = cancelled \cup {target} /\ loop_pc' = "user"
      /\ UNCHANGED <<wq, wpc, wjob, linked, ran, done, batch, target, exiting>>
  BY DEF TP!CancelRequeue
<1>2. target \in Requests /\ Requeued(target)
  BY <1>1 DEF TpInv, TpTarget, Requeued
<1>3. /\ target \notin Elems(wq) /\ ~InHand(target) /\ target \notin Elems(loop_wq) /\ target \notin Elems(batch)
      /\ target \in linked /\ done[target] = <<>> /\ ran[target] = 0
  BY <1>2 DEF TpInv, TpPlaces, TpTold
<1>4. /\ loop_wq' \in Seq(Requests) /\ Elems(loop_wq') = Elems(loop_wq) \cup {target} /\ Once(loop_wq')
  BY <1>1, <1>2, <1>3, ElemsAppend DEF TpInv, TpType, TpOnce
<1>5. TpType' /\ TpOnce' /\ TpExit'
  BY <1>1, <1>2, <1>4 DEF TpInv, TpType, TpOnce, TpExit
<1>6. TpThreads' /\ TpHand' /\ TpTarget'
  BY <1>1 DEF TpInv, TpThreads, TpHand, TpTarget
<1>7. \A r \in Requests : (InHand(r)' <=> InHand(r)) /\ ~Requeued(r)' /\ (Requeued(r) <=> r = target)
  BY <1>1 DEF InHand, Requeued
<1>8. work'[target] = "cancelled" /\ \A r \in Requests : r # target => work'[r] = work[r]
  BY <1>1, <1>2 DEF TpInv, TpType
<1>9. ASSUME NEW r \in Requests
      PROVE  TpPlaces(r)' /\ TpTold(r)'
  <2>1. TpPlaces(r) /\ TpTold(r)
    BY DEF TpInv
  <2>2. CASE r = target
    BY <1>1, <1>2, <1>3, <1>4, <1>7, <1>8, <2>2 DEF TpPlaces, TpTold
  <2>3. CASE r # target
    <3>1. /\ r \in Elems(loop_wq') <=> r \in Elems(loop_wq)
          /\ work'[r] = work[r] /\ (r \in cancelled' <=> r \in cancelled)
      BY <1>1, <1>4, <1>8, <2>3
    <3> QED
      BY <1>1, <1>7, <2>1, <2>3, <3>1 DEF TpPlaces, TpTold
  <2> QED
    BY <2>2, <2>3
<1> QED
  BY <1>5, <1>6, <1>9 DEF TpInv

LEMMA TpWorkDone ==
  ASSUME TpInv, TP!WorkDone
  PROVE  TpInv'
<1>1. /\ loop_pc = "user" /\ batch = <<>> /\ batch' = loop_wq /\ loop_wq' = <<>>
      /\ UNCHANGED <<wq, wpc, wjob, linked, work, ran, done, loop_pc, target, cancelled, exiting>>
  BY DEF TP!WorkDone
<1>2. Elems(<<>>) = {} /\ Once(<<>>)
  BY ElemsEmpty
<1>3. TpType' /\ TpOnce' /\ TpExit'
  BY <1>1, <1>2 DEF TpInv, TpType, TpOnce, TpExit
<1>4. TpThreads' /\ TpHand' /\ TpTarget'
  BY <1>1 DEF TpInv, TpThreads, TpHand, TpTarget
<1>5. \A r \in Requests : (InHand(r)' <=> InHand(r)) /\ ~Requeued(r)' /\ ~Requeued(r)
  BY <1>1 DEF InHand, Requeued
<1>6. Elems(loop_wq') = {} /\ Elems(batch') = Elems(loop_wq) /\ Elems(batch) = {}
  BY <1>1, <1>2
<1>7. \A r \in Requests : TpPlaces(r)' /\ TpTold(r)'
  BY <1>1, <1>5, <1>6 DEF TpInv, TpPlaces, TpTold
<1> QED
  BY <1>3, <1>4, <1>7 DEF TpInv

LEMMA TpCallDone ==
  ASSUME TpInv, TP!CallDone
  PROVE  TpInv'
<1> DEFINE h == Head(batch)
           answer == IF work[h] = "cancelled" THEN "UV_ECANCELED" ELSE "0"
<1>1. /\ loop_pc = "user" /\ batch # <<>> /\ batch' = Tail(batch)
      /\ done' = [done EXCEPT ![h] = Append(@, answer)]
      /\ UNCHANGED <<wq, wpc, wjob, linked, work, ran, loop_wq, loop_pc, target, cancelled, exiting>>
  BY DEF TP!CallDone
<1>2. /\ batch' \in Seq(Requests) /\ h \in Requests /\ h \in Elems(batch)
      /\ Elems(batch') = Elems(batch) \ {h} /\ Once(batch')
  BY <1>1, ElemsTail DEF TpInv, TpType, TpOnce
<1> HIDE DEF h
<1>3. /\ h \notin Elems(wq) /\ ~InHand(h) /\ h \notin Elems(loop_wq) /\ ~Requeued(h) /\ done[h] = <<>>
      /\ \/ work[h] = "null" /\ ran[h] = 1 /\ h \notin cancelled
         \/ work[h] = "cancelled" /\ ran[h] = 0 /\ h \in cancelled
  <2>1. TpPlaces(h) /\ TpTold(h)
    BY <1>2 DEF TpInv
  <2> QED
    BY <1>2, <2>1 DEF TpPlaces, TpTold
<1>4. done'[h] = <<answer>> /\ answer \in {"UV_ECANCELED", "0"} /\ \A r \in Requests : r # h => done'[r] = done[r]
  BY <1>1, <1>2, <1>3 DEF TpInv, TpType
<1>5. TpType'
  <2>1. done' \in [Requests -> Seq({"UV_ECANCELED", "0"})]
    <3>1. \A r \in Requests : done'[r] \in Seq({"UV_ECANCELED", "0"})
      <4>1. <<answer>> \in Seq({"UV_ECANCELED", "0"})
        BY <1>4
      <4> QED
        BY <1>2, <1>4, <4>1 DEF TpInv, TpType
    <3>2. done' = [r \in Requests |-> done'[r]]
      BY <1>1 DEF TpInv, TpType
    <3> QED
      BY <3>1, <3>2
  <2> QED
    BY <1>1, <1>2, <2>1 DEF TpInv, TpType
<1>6. TpOnce' /\ TpExit'
  BY <1>1, <1>2 DEF TpInv, TpOnce, TpExit
<1>7. TpThreads' /\ TpHand' /\ TpTarget'
  BY <1>1 DEF TpInv, TpThreads, TpHand, TpTarget
<1>8. \A r \in Requests : (InHand(r)' <=> InHand(r)) /\ ~Requeued(r)' /\ ~Requeued(r)
  BY <1>1 DEF InHand, Requeued
<1>9. ASSUME NEW r \in Requests
      PROVE  TpPlaces(r)' /\ TpTold(r)'
  <2>1. TpPlaces(r) /\ TpTold(r)
    BY DEF TpInv
  <2>2. CASE r = h
    <3>1. done'[r] = <<answer>> /\ <<answer>> # <<>>
      BY <1>4, <2>2
    <3> QED
      BY <1>1, <1>2, <1>3, <1>8, <2>2, <3>1 DEF TpPlaces, TpTold
  <2>3. CASE r # h
    <3>1. (r \in Elems(batch') <=> r \in Elems(batch)) /\ done'[r] = done[r]
      BY <1>2, <1>4, <2>3
    <3> QED
      BY <1>1, <1>8, <2>1, <3>1 DEF TpPlaces, TpTold
  <2> QED
    BY <2>2, <2>3
<1> QED
  BY <1>5, <1>6, <1>7, <1>9 DEF TpInv

LEMMA TpCancelLock ==
  ASSUME TpInv, NEW q \in Requests, TP!CancelLock(q)
  PROVE  TpInv'
<1>1. /\ loop_pc = "user" /\ (work[q] # "null" \/ ran[q] > 0) /\ done[q] = <<>>
      /\ loop_pc' = "cancel" /\ target' = q
      /\ UNCHANGED <<wq, wpc, wjob, linked, work, ran, done, loop_wq, batch, cancelled, exiting>>
  BY DEF TP!CancelLock
<1>2. TpType' /\ TpOnce' /\ TpExit' /\ TpTarget'
  BY <1>1 DEF TpInv, TpType, TpOnce, TpExit, TpTarget
<1>3. TpThreads' /\ TpHand'
  BY <1>1 DEF TpInv, TpThreads, TpHand
<1>4. \A r \in Requests : (InHand(r)' <=> InHand(r)) /\ ~Requeued(r)' /\ ~Requeued(r)
  BY <1>1 DEF InHand, Requeued
<1>5. \A r \in Requests : TpPlaces(r)' /\ TpTold(r)'
  BY <1>1, <1>4 DEF TpInv, TpPlaces, TpTold
<1> QED
  BY <1>2, <1>3, <1>5 DEF TpInv

LEMMA TpNext ==
  ASSUME TpInv, TP!Next
  PROVE  TpInv'
<1>0. wpc \in [Workers -> {"none", "top", "waiting", "woken", "working", "handing", "gone"}]
  BY DEF TpInv, TpType
<1>1. ASSUME NEW w \in Workers, TP!Sleep(w) \/ TP!WakeSpuriously(w) \/ TP!SendAsync(w)
      PROVE  TpInv'
  <2>1. \/ wpc[w] \in {"top", "woken"} /\ wpc' = [wpc EXCEPT ![w] = "waiting"]
        \/ wpc[w] = "waiting" /\ wpc' = [wpc EXCEPT ![w] = "woken"]
        \/ wpc[w] = "handing" /\ wpc' = [wpc EXCEPT ![w] = "top"]
    BY <1>1 DEF TP!Sleep, TP!WakeSpuriously, TP!SendAsync
  <2>2. UNCHANGED <<wq, wjob, linked, work, ran, done, loop_wq, batch, loop_pc, target, cancelled, exiting>>
    BY <1>1 DEF TP!Sleep, TP!WakeSpuriously, TP!SendAsync
  <2>3. /\ wpc' \in [Workers -> {"none", "top", "waiting", "woken", "working", "handing", "gone"}]
        /\ \A v \in Workers : (wpc'[v] = "none" <=> wpc[v] = "none") /\ (wpc'[v] = "working" <=> wpc[v] = "working")
    BY <1>0, <2>1
  <2> QED
    BY <2>2, <2>3, TpStutters DEF TpSame
<1>2. ASSUME NEW w \in Workers, TP!TakeExit(w)
      PROVE  TpInv'
  <2> DEFINE left == [wpc EXCEPT ![w] = "gone"]
  <2>1. /\ wpc[w] \in {"top", "woken"} /\ wpc' \in TP!Signal(left)
        /\ UNCHANGED <<wq, wjob, linked, work, ran, done, loop_wq, batch, loop_pc, target, cancelled, exiting>>
    BY <1>2 DEF TP!TakeExit
  <2>2. /\ left \in [Workers -> {"none", "top", "waiting", "woken", "working", "handing", "gone"}]
        /\ \A v \in Workers : (left[v] = "none" <=> wpc[v] = "none") /\ (left[v] = "working" <=> wpc[v] = "working")
    BY <1>0, <2>1
  <2> HIDE DEF left
  <2>3. /\ wpc' \in [Workers -> {"none", "top", "waiting", "woken", "working", "handing", "gone"}]
        /\ \A v \in Workers : (wpc'[v] = "none" <=> wpc[v] = "none") /\ (wpc'[v] = "working" <=> wpc[v] = "working")
    BY <2>1, <2>2, TpSignal
  <2> QED
    BY <2>1, <2>3, TpStutters DEF TpSame
<1> QED
  BY <1>1, <1>2, TpTakeWork, TpHandOver, TpQueueWork, TpCancelLock, TpCancelUnlink, TpCancelRequeue,
     TpWorkDone, TpCallDone, TpCleanup DEF TP!Next, TP!WorkerStep, TP!LoopStep

LEMMA TpSound ==
  ASSUME TpInv
  PROVE  TP!DoneOnceTruthfully
<1>1. SUFFICES ASSUME NEW r \in Requests
      PROVE  /\ Len(done[r]) <= 1 /\ ran[r] <= 1
             /\ (r \in cancelled) => ran[r] = 0
             /\ \A i \in DOMAIN done[r] :
                  /\ (done[r][i] = "UV_ECANCELED") <=> (r \in cancelled)
                  /\ (done[r][i] = "0") => ran[r] = 1
                  /\ \A w \in Workers : wpc[w] = "working" => wjob[w] # r
  BY DEF TP!DoneOnceTruthfully
<1>2. TpPlaces(r) /\ TpTold(r)
  BY DEF TpInv
<1>3. ran[r] <= 1 /\ (r \in cancelled => ran[r] = 0)
  BY <1>2 DEF TpTold, TpPlaces
<1>4. done[r] # <<>> => ~InHand(r)
  BY <1>2 DEF TpTold
<1>5. \/ done[r] = <<>>
      \/ done[r] = <<"UV_ECANCELED">> /\ r \in cancelled
      \/ done[r] = <<"0">> /\ r \notin cancelled /\ ran[r] = 1
  BY <1>2 DEF TpTold
<1>6. ASSUME done[r] = <<>>
      PROVE  Len(done[r]) = 0 /\ DOMAIN done[r] = {}
  BY <1>6
<1>7. ASSUME NEW s, done[r] = <<s>>
      PROVE  Len(done[r]) = 1 /\ DOMAIN done[r] = {1} /\ done[r][1] = s /\ done[r] # <<>>
  <2>1. Len(<<s>>) = 1 /\ DOMAIN <<s>> = {1} /\ <<s>>[1] = s /\ <<s>> # <<>>
    OBVIOUS
  <2> QED
    BY <1>7, <2>1
<1>8. Len(done[r]) <= 1
  <2>1. done[r] = <<>> \/ \E s : done[r] = <<s>>
    BY <1>5, Zenon
  <2>2. Len(done[r]) = 0 \/ Len(done[r]) = 1
    BY <1>6, <1>7, <2>1, Zenon
  <2>3. \A n : n = 0 \/ n = 1 => n <= 1
    OBVIOUS
  <2> QED
    BY <2>2, <2>3, Zenon
<1>9. ASSUME NEW i \in DOMAIN done[r]
      PROVE  /\ (done[r][i] = "UV_ECANCELED") <=> (r \in cancelled)
             /\ (done[r][i] = "0") => ran[r] = 1
             /\ \A w \in Workers : wpc[w] = "working" => wjob[w] # r
  <2>1. done[r] # <<>>
    BY <1>6, <1>9
  <2>2. i = 1
    BY <1>5, <1>7, <1>9, <2>1
  <2>3. \A w \in Workers : wpc[w] = "working" => wjob[w] # r
    BY <1>4, <2>1 DEF InHand
  <2> QED
    BY <1>5, <1>7, <2>1, <2>2, <2>3
<1> QED
  BY <1>3, <1>8, <1>9

-----------------------------------------------------------------------------
(* The watchers of unix/loop-watcher.c implement LoopWatchers. *)

\* An active handle is in one of the two queues, once.
UwInv ==
  /\ name_handles \in Seq(Idlers) /\ queue \in Seq(Idlers)
  /\ Once(name_handles) /\ Once(queue) /\ Elems(name_handles) \cap Elems(queue) = {}
  /\ ul_active = Elems(name_handles) \cup Elems(queue)

LEMMA UwDrop ==
  ASSUME NEW q \in Seq(Idlers), Once(q), NEW h
  PROVE  /\ h \notin Elems(q) => UW!Removed(q, h) = q /\ UW!LW!Drop(q, h) = q /\ ~UW!LW!Listed(q, h)
         /\ h \in Elems(q) =>
              \E k \in 1..Len(q) : /\ q[k] = h /\ UW!LW!Listed(q, h)
                                   /\ UW!Removed(q, h) = Cut(q, k) /\ UW!LW!Drop(q, h) = Cut(q, k)
<1>1. DOMAIN q = 1..Len(q)
  OBVIOUS
<1>2. CASE h \notin Elems(q)
  <2>1. \A i \in DOMAIN q : q[i] # h
    BY <1>1, <1>2 DEF Elems
  <2> QED
    BY <1>2, <2>1 DEF UW!Removed, UW!LW!Drop, UW!LW!Listed
<1>3. CASE h \in Elems(q)
  <2> DEFINE k == CHOOSE i \in DOMAIN q : q[i] = h
  <2>1. \E i \in DOMAIN q : q[i] = h
    BY <1>1, <1>3 DEF Elems
  <2>2. k \in 1..Len(q) /\ q[k] = h
    BY <1>1, <2>1
  <2>3. UW!Removed(q, h) = Cut(q, k) /\ UW!LW!Drop(q, h) = Cut(q, k) /\ UW!LW!Listed(q, h)
    BY <2>1 DEF UW!Removed, UW!LW!Drop, UW!LW!Listed, Cut
  <2> HIDE DEF k
  <2> QED
    BY <1>3, <2>2, <2>3
<1> QED
  BY <1>2, <1>3

LEMMA UwInit == UW!Init => UwInv /\ UW!LW!Init
<1> SUFFICES ASSUME UW!Init
             PROVE  UwInv /\ UW!LW!Init
  OBVIOUS
<1>1. name_handles = <<>> /\ queue = <<>> /\ ul_active = {} /\ ul_calling = NoIdler /\ ul_gone = {}
  BY DEF UW!Init
<1>2. <<>> \in Seq(Idlers) /\ <<>> \o <<>> = <<>>
  BY JoinedEmpty
<1>3. UwInv
  BY <1>1, <1>2, ElemsEmpty DEF UwInv
<1>4. UW!LW!Init
  BY <1>1, <1>2 DEF UW!LW!Init
<1> QED
  BY <1>3, <1>4

\* uv_name_stop of an active handle.
LEMMA UwStop ==
  ASSUME UwInv, NEW h \in ul_active, UW!StopActive(h)
  PROVE  /\ UwInv'
         /\ UW!LW!Listed(name_handles \o queue, h)
         /\ name_handles' \o queue' = UW!LW!Drop(name_handles \o queue, h)
         /\ queue' = UW!LW!Drop(queue, h)
<1> USE DEF UwInv
<1>1. /\ name_handles' = UW!Removed(name_handles, h) /\ queue' = UW!Removed(queue, h)
      /\ ul_active' = ul_active \ {h}
  BY DEF UW!StopActive
<1> DEFINE order == name_handles \o queue
<1>2. /\ order \in Seq(Idlers) /\ Len(order) = Len(name_handles) + Len(queue) /\ Once(order)
      /\ Elems(order) = ul_active
      /\ \A i \in 1..Len(name_handles) : order[i] = name_handles[i]
      /\ \A i \in 1..Len(queue) : order[Len(name_handles) + i] = queue[i]
      /\ Len(name_handles) \in Nat /\ Len(queue) \in Nat
  BY Joined, ElemsJoined
<1>3. PICK m \in 1..Len(order) : /\ order[m] = h /\ UW!LW!Listed(order, h)
                                 /\ UW!LW!Drop(order, h) = Cut(order, m)
  <2> HIDE DEF order
  <2> QED
    BY <1>2, UwDrop
<1>4. CASE h \in Elems(name_handles)
  <2>1. h \notin Elems(queue)
    BY <1>4
  <2>2. queue' = queue /\ UW!LW!Drop(queue, h) = queue
    BY <1>1, <2>1, UwDrop
  <2>3. PICK k \in 1..Len(name_handles) :
          name_handles[k] = h /\ UW!Removed(name_handles, h) = Cut(name_handles, k)
    BY <1>4, UwDrop
  <2>4. m = k
    <3>1. k \in 1..Len(order) /\ order[k] = h
      BY <1>2, <2>3
    <3> HIDE DEF order
    <3> QED
      BY <1>2, <1>3, <3>1 DEF Once
  <2>5. Cut(order, m) = Cut(name_handles, k) \o queue
    BY <2>4, CutJoined
  <2>6. /\ Cut(name_handles, k) \in Seq(Idlers) /\ Once(Cut(name_handles, k))
        /\ Elems(Cut(name_handles, k)) = Elems(name_handles) \ {h}
    BY <2>3, CutAt, ElemsCut
  <2>7. UwInv'
    BY <1>1, <2>1, <2>2, <2>3, <2>6
  <2> QED
    BY <1>1, <1>3, <2>2, <2>3, <2>5, <2>7
<1>5. CASE h \notin Elems(name_handles)
  <2>1. h \in Elems(queue)
    BY <1>5
  <2>2. name_handles' = name_handles
    BY <1>1, <1>5, UwDrop
  <2>3. PICK k \in 1..Len(queue) : /\ queue[k] = h /\ UW!Removed(queue, h) = Cut(queue, k)
                                   /\ UW!LW!Drop(queue, h) = Cut(queue, k)
    BY <2>1, UwDrop
  <2>4. m = Len(name_handles) + k
    <3>1. Len(name_handles) + k \in 1..Len(order) /\ order[Len(name_handles) + k] = h
      BY <1>2, <2>3
    <3> HIDE DEF order
    <3> QED
      BY <1>2, <1>3, <3>1 DEF Once
  <2>5. Cut(order, m) = name_handles \o Cut(queue, k)
    <3>1. Cut(order, Len(name_handles) + k) = name_handles \o Cut(queue, k)
      <4>1. name_handles \in Seq(Idlers) /\ queue \in Seq(Idlers)
        OBVIOUS
      <4> QED
        BY <2>3, <4>1, CutBehindJoined, Zenon
    <3> QED
      BY <2>4, <3>1, Zenon
  <2>6. /\ Cut(queue, k) \in Seq(Idlers) /\ Once(Cut(queue, k))
        /\ Elems(Cut(queue, k)) = Elems(queue) \ {h}
    BY <2>3, CutAt, ElemsCut
  <2>7. UwInv'
    BY <1>1, <1>5, <2>2, <2>3, <2>6
  <2> QED
    BY <1>1, <1>3, <2>2, <2>3, <2>5, <2>7
<1> QED
  BY <1>4, <1>5

\* Each step of the two queues is one of the list and what the turn has still to call.
LEMMA UwNext ==
  ASSUME UwInv, UW!Next
  PROVE  UwInv' /\ UW!LW!Next
<1> USE DEF UwInv
<1>0. /\ name_handles \o queue \in Seq(Idlers) /\ Once(name_handles \o queue)
      /\ Elems(name_handles \o queue) = ul_active
  BY Joined, ElemsJoined
<1>1. CASE \E h \in Idlers : UW!Start(h)
  <2>1. PICK h \in Idlers : UW!Start(h)
    BY <1>1
  <2>2. /\ h \notin ul_gone /\ h \notin ul_active
        /\ name_handles' = <<h>> \o name_handles /\ ul_active' = ul_active \cup {h}
        /\ UNCHANGED <<queue, ul_calling, ul_gone>>
    BY <2>1 DEF UW!Start
  <2>3. <<h>> \in Seq(Idlers) /\ Elems(<<h>>) = {h} /\ Once(<<h>>)
    BY ElemsEmpty
  <2>4. /\ name_handles' \in Seq(Idlers) /\ Once(name_handles')
        /\ Elems(name_handles') = {h} \cup Elems(name_handles)
    <3> DEFINE q == <<h>>
    <3>1. q \in Seq(Idlers) /\ Elems(q) = {h} /\ Once(q) /\ name_handles' = q \o name_handles
      BY <2>2, <2>3
    <3> HIDE DEF q
    <3>2. q \o name_handles \in Seq(Idlers)
      BY <3>1
    <3>3. Elems(q) \cap Elems(name_handles) = {}
      BY <2>2, <3>1
    <3>4. Elems(q \o name_handles) = {h} \cup Elems(name_handles) /\ Once(q \o name_handles)
      BY <3>1, <3>3, ElemsJoined
    <3> QED
      BY <3>1, <3>2, <3>4
  <2>5. UwInv'
    BY <2>2, <2>4
  <2>6. name_handles' \o queue' = <<h>> \o (name_handles \o queue)
    <3>1. (<<h>> \o name_handles) \o queue = <<h>> \o (name_handles \o queue)
      BY <2>3
    <3> QED
      BY <2>2, <3>1
  <2>7. ~UW!LW!Listed(name_handles \o queue, h)
    BY <1>0, <2>2, UwDrop
  <2> QED
    BY <2>2, <2>5, <2>6, <2>7 DEF UW!LW!Next, UW!LW!Start
<1>2. CASE \E h \in Idlers : UW!Stop(h)
  <2>1. PICK h \in Idlers : UW!Stop(h)
    BY <1>2
  <2>2. h \in ul_active /\ UW!StopActive(h) /\ UNCHANGED <<ul_calling, ul_gone>>
    BY <2>1 DEF UW!Stop
  <2> QED
    BY <2>2, UwStop DEF UW!LW!Next, UW!LW!Stop
<1>3. CASE \E h \in Idlers : UW!Close(h)
  <2>1. PICK h \in Idlers : UW!Close(h)
    BY <1>3
  <2>2. /\ h \notin ul_gone /\ ul_gone' = ul_gone \cup {h} /\ UNCHANGED ul_calling
        /\ \/ h \in ul_active /\ UW!StopActive(h)
           \/ h \notin ul_active /\ UNCHANGED <<name_handles, queue, ul_active>>
    BY <2>1 DEF UW!Close
  <2>3. CASE h \in ul_active /\ UW!StopActive(h)
    BY <2>2, <2>3, UwStop DEF UW!LW!Next, UW!LW!Close
  <2>4. CASE h \notin ul_active /\ UNCHANGED <<name_handles, queue, ul_active>>
    <3>1. UW!LW!Drop(name_handles \o queue, h) = name_handles \o queue /\ UW!LW!Drop(queue, h) = queue
      <4>1. queue \in Seq(Idlers) /\ Once(queue) /\ h \notin Elems(queue)
        BY <2>4
      <4>2. h \notin Elems(name_handles \o queue)
        BY <1>0, <2>4, Zenon
      <4>3. UW!LW!Drop(queue, h) = queue
        BY <4>1, UwDrop, Zenon
      <4>4. UW!LW!Drop(name_handles \o queue, h) = name_handles \o queue
        BY <1>0, <4>2, UwDrop, Zenon
      <4> QED
        BY <4>3, <4>4, Zenon
    <3>2. UwInv'
      BY <2>4
    <3> QED
      BY <2>2, <2>4, <3>1, <3>2 DEF UW!LW!Next, UW!LW!Close
  <2> QED
    BY <2>2, <2>3, <2>4
<1>4. CASE UW!RunBegins
  <2>1. /\ queue = <<>> /\ ul_calling = NoIdler /\ queue' = name_handles /\ name_handles' = <<>>
        /\ UNCHANGED <<ul_active, ul_calling, ul_gone>>
    BY <1>4 DEF UW!RunBegins
  <2>2. UwInv'
    BY <2>1, ElemsEmpty
  <2>3. name_handles' \o queue' = name_handles /\ name_handles \o queue = name_handles
    BY <2>1, JoinedEmpty
  <2> QED
    BY <2>1, <2>2, <2>3 DEF UW!LW!Next, UW!LW!TurnBegins
<1>5. CASE UW!RunCalls
  <2>1. /\ queue # <<>> /\ ul_calling = NoIdler /\ ul_calling' = Head(queue) /\ queue' = Tail(queue)
        /\ name_handles' = Append(name_handles, Head(queue)) /\ UNCHANGED <<ul_active, ul_gone>>
    BY <1>5 DEF UW!RunCalls
  <2>2. /\ Tail(queue) \in Seq(Idlers) /\ Head(queue) \in Idlers /\ Head(queue) \in Elems(queue)
        /\ Elems(Tail(queue)) = Elems(queue) \ {Head(queue)} /\ Once(Tail(queue))
    BY <2>1, ElemsTail
  <2>3. /\ name_handles' \in Seq(Idlers) /\ Elems(name_handles') = Elems(name_handles) \cup {Head(queue)}
        /\ Once(name_handles')
    BY <2>1, <2>2, ElemsAppend
  <2>4. UwInv'
    BY <2>1, <2>2, <2>3
  <2>5. name_handles' \o queue' = name_handles \o queue
    <3>1. Append(name_handles, Head(queue)) \o Tail(queue) = name_handles \o queue
      BY <2>1, <2>2
    <3> QED
      BY <2>1, <3>1
  <2> QED
    BY <2>1, <2>4, <2>5 DEF UW!LW!Next, UW!LW!Call
<1>6. CASE UW!CallbackReturns
  BY <1>6 DEF UW!CallbackReturns, UW!LW!Next, UW!LW!Return
<1> QED
  BY <1>1, <1>2, <1>3, <1>4, <1>5, <1>6 DEF UW!Next

-----------------------------------------------------------------------------
(* The watchers of win/loop-watcher.c implement LoopWatchers. *)

LEMMA NatLeast ==
  ASSUME NEW T \in SUBSET Nat, T # {}
  PROVE  \E x \in T : \A y \in T : x <= y
<1>1. IsWellFoundedOn(OpToRel(<, Nat), Nat)
  BY NatLessThanWellFounded
<1>2. PICK x \in T : \A y \in T : ~(<<y, x>> \in OpToRel(<, Nat))
  BY <1>1, WFMin
<1>3. ASSUME NEW y \in T
      PROVE  x <= y
  <2>1. <<y, x>> \notin {ss \in Nat \X Nat : ss[1] < ss[2]}
    BY <1>2 DEF OpToRel
  <2> QED
    BY <2>1
<1> QED
  BY <1>3

LEMMA AtFacts ==
  ASSUME NEW q \in Seq(Idlers)
  PROVE  /\ \A i \in 1..Len(q) : WW!At(q, i) = q[i] /\ q[i] \in Idlers /\ WW!At(q, i) # NoIdler
         /\ \A i : i \notin 1..Len(q) => WW!At(q, i) = NoIdler
BY WatchersAssumption DEF WW!At

\* Two walks from the same handle are the same.
LEMMA WalksAgree ==
  ASSUME NEW l, NEW h, NEW q \in Seq(Idlers), NEW r \in Seq(Idlers),
         WW!Walks(l, q, h), WW!Walks(l, r, h)
  PROVE  q = r
<1> DEFINE T == {i \in Nat : i >= 1 /\ WW!At(q, i) # WW!At(r, i)}
<1>0. /\ DOMAIN q = 1..Len(q) /\ DOMAIN r = 1..Len(r) /\ Len(q) \in Nat /\ Len(r) \in Nat
  OBVIOUS
<1>1. /\ WW!At(q, 1) = h /\ WW!At(r, 1) = h
      /\ \A i \in 1..Len(q) : l[q[i]].next = WW!At(q, i + 1)
      /\ \A i \in 1..Len(r) : l[r[i]].next = WW!At(r, i + 1)
  BY <1>0 DEF WW!Walks
<1>2. T = {}
  <2>1. SUFFICES ASSUME T # {}
                 PROVE  FALSE
    OBVIOUS
  <2>2. PICK n \in T : \A m \in T : n <= m
    BY <2>1, NatLeast
  <2>3. n \in Nat /\ n >= 1 /\ WW!At(q, n) # WW!At(r, n) /\ n # 1
    BY <1>1, <2>2
  <2>4. n - 1 \in Nat /\ n - 1 >= 1 /\ (n - 1) + 1 = n /\ ~(n <= n - 1)
    BY <2>3
  <2>5. WW!At(q, n - 1) = WW!At(r, n - 1)
    BY <2>2, <2>4
  <2>6. CASE n - 1 \in 1..Len(q) /\ n - 1 \in 1..Len(r)
    <3>1. q[n - 1] = r[n - 1]
      BY <2>5, <2>6, AtFacts
    <3>2. WW!At(q, n) = WW!At(r, n)
      BY <1>1, <2>4, <2>6, <3>1
    <3> QED
      BY <2>3, <3>2
  <2>7. CASE n - 1 \notin 1..Len(q) /\ n - 1 \notin 1..Len(r)
    <3>1. n \notin 1..Len(q) /\ n \notin 1..Len(r)
      BY <1>0, <2>4, <2>7
    <3> QED
      BY <2>3, <3>1, AtFacts
  <2> QED
    BY <2>5, <2>6, <2>7, AtFacts
<1>3. \A i \in Nat : i >= 1 => WW!At(q, i) = WW!At(r, i)
  BY <1>2
<1>4. Len(q) = Len(r)
  <2>1. ~(Len(q) < Len(r))
    <3>1. SUFFICES ASSUME Len(q) < Len(r)
                   PROVE  FALSE
      OBVIOUS
    <3>2. Len(q) + 1 \in 1..Len(r) /\ Len(q) + 1 \notin 1..Len(q)
      BY <1>0, <3>1
    <3> QED
      BY <1>3, <3>2, AtFacts
  <2>2. ~(Len(r) < Len(q))
    <3>1. SUFFICES ASSUME Len(r) < Len(q)
                   PROVE  FALSE
      OBVIOUS
    <3>2. Len(r) + 1 \in 1..Len(q) /\ Len(r) + 1 \notin 1..Len(r)
      BY <1>0, <3>1
    <3> QED
      BY <1>3, <3>2, AtFacts
  <2>3. \A m, n \in Nat : ~(m < n) /\ ~(n < m) => m = n
    OBVIOUS
  <2> QED
    BY <1>0, <2>1, <2>2, <2>3, Zenon
<1>5. \A i \in 1..Len(q) : q[i] = r[i]
  BY <1>3, <1>4, AtFacts
<1> QED
  BY <1>4, <1>5, SeqEqual

\* Handles that are active, each once, are a list.
LEMMA ActivesAreList ==
  ASSUME NEW l, NEW q \in Seq(Idlers), Once(q), \A i \in 1..Len(q) : l[q[i]].active
  PROVE  q \in WW!Lists(l)
<1> DEFINE on == {h \in Idlers : l[h].active}
<1>1. q \in [1..Len(q) -> on] /\ Len(q) \in Nat
  OBVIOUS
<1>2. IsFiniteSet(on)
  BY WatchersAssumption, FS_Subset
<1>3. \A S : WW!Cardinality(S) = Cardinality(S)
  BY DEF WW!Cardinality, Cardinality, WW!IsFiniteSet, IsFiniteSet
<1>4. Len(q) <= Cardinality(on)
  <2>1. IsFiniteSet(1..Len(q)) /\ Cardinality(1..Len(q)) = Len(q)
    <3>1. [i \in 1..Len(q) |-> i] \in Bijection(1..Len(q), 1..Len(q))
      BY DEF Bijection, Injection, Surjection, IsInjective
    <3>2. ExistsBijection(1..Len(q), 1..Len(q))
      BY <3>1 DEF ExistsBijection
    <3> QED
      BY <1>1, <3>2, FS_CountingElements, FS_NatBijection
  <2>2. Cardinality(on) \in Nat
    BY <1>2, FS_CardinalityType
  <2>3. ASSUME Cardinality(on) < Len(q)
        PROVE  FALSE
    <3> HIDE DEF on
    <3>1. \E i, j \in 1..Len(q) : i # j /\ q[i] = q[j]
      BY <1>1, <1>2, <2>1, <2>3, FS_PigeonHole
    <3> QED
      BY <3>1 DEF Once
  <2> HIDE DEF on
  <2> QED
    BY <1>1, <2>2, <2>3
<1>5. Len(q) \in 0..WW!Cardinality(on)
  <2>1. Cardinality(on) \in Nat
    BY <1>2, FS_CardinalityType
  <2> HIDE DEF on
  <2> QED
    BY <1>1, <1>3, <1>4, <2>1
<1> QED
  BY <1>1, <1>5 DEF WW!Lists

LEMMA FromWalk ==
  ASSUME NEW l, NEW h, NEW q \in Seq(Idlers), Once(q), \A i \in 1..Len(q) : l[q[i]].active,
         WW!Walks(l, q, h)
  PROVE  WW!From(l, h) = q
<1> DEFINE walks == {s \in WW!Lists(l) : WW!Walks(l, s, h)}
<1>1. q \in walks
  BY ActivesAreList
<1>2. ASSUME NEW s \in walks
      PROVE  s = q
  <2>1. s \in Seq(Idlers)
    <3> DEFINE on == {g \in Idlers : l[g].active}
    <3>1. PICK n \in 0..WW!Cardinality(on) : s \in [1..n -> on]
      BY DEF WW!Lists
    <3>2. n \in Nat
      OBVIOUS
    <3>3. s \in [1..n -> Idlers]
      BY <3>1
    <3> QED
      BY <3>2, <3>3
  <2> QED
    BY <2>1, WalksAgree
<1>3. WW!From(l, h) = IF walks = {} THEN <<>> ELSE CHOOSE s \in walks : TRUE
  BY DEF WW!From
<1> HIDE DEF walks
<1> QED
  BY <1>1, <1>2, <1>3

\* The rest of a list, from its p-th handle on.
Rest(q, p) == [i \in 1..(Len(q) - p + 1) |-> q[i + (p - 1)]]

\* l links q both ways.
Linked(l, q) ==
  \A i \in 1..Len(q) : l[q[i]].next = WW!At(q, i + 1) /\ l[q[i]].prev = WW!At(q, i - 1)

\* order lists the active handles; the turn has come to its p-th.
WwLinked(order, p) ==
  /\ Once(order) /\ p \in 1..(Len(order) + 1) /\ Linked(link, order)
  /\ head = WW!At(order, 1) /\ next_handle = WW!At(order, p)
  /\ \A h \in Idlers : link[h].active <=> h \in Elems(order)

WwLink == [next : Idlers \cup {NoIdler}, prev : Idlers \cup {NoIdler}, active : BOOLEAN]
WwInv ==
  /\ link \in [Idlers -> WwLink]
  /\ \E order \in Seq(Idlers), p \in Nat : WwLinked(order, p)

LEMMA RestFacts ==
  ASSUME NEW q \in Seq(Idlers), Once(q), NEW p \in 1..(Len(q) + 1)
  PROVE  /\ Rest(q, p) \in Seq(Idlers) /\ Len(Rest(q, p)) = Len(q) - p + 1 /\ Once(Rest(q, p))
         /\ \A i \in 1..(Len(q) - p + 1) : Rest(q, p)[i] = q[i + (p - 1)] /\ i + (p - 1) \in 1..Len(q)
<1>1. Len(q) \in Nat /\ p \in Nat /\ Len(q) - p + 1 \in Nat /\ \A i \in 1..Len(q) : q[i] \in Idlers
  OBVIOUS
<1>2. \A i \in 1..(Len(q) - p + 1) : i + (p - 1) \in 1..Len(q)
  BY <1>1
<1>3. Rest(q, p) \in [1..(Len(q) - p + 1) -> Idlers]
  BY <1>1, <1>2 DEF Rest
<1>4. /\ Rest(q, p) \in Seq(Idlers) /\ Len(Rest(q, p)) = Len(q) - p + 1
      /\ \A i \in 1..(Len(q) - p + 1) : Rest(q, p)[i] = q[i + (p - 1)]
  BY <1>1, <1>3 DEF Rest
<1>5. Once(Rest(q, p))
  <2>1. SUFFICES ASSUME NEW i \in 1..(Len(q) - p + 1), NEW j \in 1..(Len(q) - p + 1),
                        Rest(q, p)[i] = Rest(q, p)[j]
                 PROVE  i = j
    BY <1>4 DEF Once
  <2>2. i + (p - 1) = j + (p - 1)
    BY <1>2, <1>4, <2>1 DEF Once
  <2> QED
    BY <1>1, <2>2
<1> QED
  BY <1>2, <1>4, <1>5

\* The two ends of the list: all of it, nothing.
LEMMA RestEnds ==
  ASSUME NEW q \in Seq(Idlers), Once(q)
  PROVE  Rest(q, 1) = q /\ Rest(q, Len(q) + 1) = <<>>
<1>1. Len(q) \in Nat /\ 1 \in 1..(Len(q) + 1) /\ Len(q) + 1 \in 1..(Len(q) + 1)
  OBVIOUS
<1>2. Rest(q, 1) = q
  <2>1. /\ Rest(q, 1) \in Seq(Idlers) /\ Len(Rest(q, 1)) = Len(q) - 1 + 1
        /\ \A i \in 1..(Len(q) - 1 + 1) : Rest(q, 1)[i] = q[i + (1 - 1)]
    BY <1>1, RestFacts
  <2>2. Len(Rest(q, 1)) = Len(q) /\ \A i \in 1..Len(q) : Rest(q, 1)[i] = q[i]
    BY <1>1, <2>1
  <2> QED
    BY <2>1, <2>2, SeqEqual
<1>3. Rest(q, Len(q) + 1) = <<>>
  <2>1. /\ Rest(q, Len(q) + 1) \in Seq(Idlers)
        /\ Len(Rest(q, Len(q) + 1)) = Len(q) - (Len(q) + 1) + 1
    BY <1>1, RestFacts
  <2>2. Len(Rest(q, Len(q) + 1)) = 0
    BY <1>1, <2>1
  <2> QED
    BY <2>1, <2>2
<1> QED
  BY <1>2, <1>3

\* What the pointers say to LoopWatchers.
LEMMA FromLinked ==
  ASSUME NEW l, NEW h, NEW n, NEW order \in Seq(Idlers), NEW p \in 1..(Len(order) + 1), Once(order),
         h = WW!At(order, 1), n = WW!At(order, p),
         \A i \in 1..Len(order) : l[order[i]].next = WW!At(order, i + 1) /\ l[order[i]].active
  PROVE  WW!From(l, h) = order /\ WW!From(l, n) = Rest(order, p)
<1>1. DOMAIN order = 1..Len(order) /\ Len(order) \in Nat /\ p \in Nat
  OBVIOUS
<1>2. WW!From(l, h) = order
  <2>1. WW!Walks(l, order, h)
    BY <1>1 DEF WW!Walks
  <2> QED
    BY <2>1, FromWalk
<1>3. WW!From(l, n) = Rest(order, p)
  <2> DEFINE r == Rest(order, p)
  <2>1. /\ r \in Seq(Idlers) /\ Len(r) = Len(order) - p + 1 /\ Once(r)
        /\ \A i \in 1..(Len(order) - p + 1) : r[i] = order[i + (p - 1)] /\ i + (p - 1) \in 1..Len(order)
    BY RestFacts
  <2> HIDE DEF r
  <2>2. \A i \in Nat : i >= 1 => WW!At(r, i) = WW!At(order, i + (p - 1))
    <3>1. SUFFICES ASSUME NEW i \in Nat, i >= 1
                   PROVE  WW!At(r, i) = WW!At(order, i + (p - 1))
      OBVIOUS
    <3>2. CASE i \in 1..Len(r)
      <4>1. r[i] = order[i + (p - 1)] /\ i + (p - 1) \in 1..Len(order)
        BY <2>1, <3>2
      <4> QED
        BY <2>1, <3>2, <4>1, AtFacts
    <3>3. CASE i \notin 1..Len(r)
      <4>1. i + (p - 1) \notin 1..Len(order)
        BY <1>1, <2>1, <3>1, <3>3
      <4> QED
        BY <2>1, <3>3, <4>1, AtFacts
    <3> QED
      BY <3>2, <3>3
  <2>3. WW!At(r, 1) = n
    <3>1. 1 + (p - 1) = p
      BY <1>1
    <3> QED
      BY <2>2, <3>1
  <2>4. ASSUME NEW i \in 1..Len(r)
        PROVE  l[r[i]].next = WW!At(r, i + 1) /\ l[r[i]].active
    <3>1. r[i] = order[i + (p - 1)] /\ i + (p - 1) \in 1..Len(order)
      BY <2>1
    <3>2. i + 1 \in Nat /\ i + 1 >= 1 /\ (i + 1) + (p - 1) = (i + (p - 1)) + 1
      BY <1>1
    <3>3. WW!At(r, i + 1) = WW!At(order, (i + (p - 1)) + 1)
      BY <2>2, <3>2
    <3> QED
      BY <3>1, <3>3
  <2>5. DOMAIN r = 1..Len(r)
    BY <2>1
  <2>6. WW!Walks(l, r, n)
    BY <2>3, <2>4, <2>5 DEF WW!Walks
  <2>7. WW!From(l, n) = r
    BY <2>1, <2>4, <2>6, FromWalk
  <2> QED
    BY <2>7 DEF r
<1> QED
  BY <1>2, <1>3

\* A handle before a list, and the list without one of its handles.
Pushes(r, q, h) ==
  /\ r \in Seq(Idlers) /\ Len(r) = Len(q) + 1 /\ Once(r) /\ Elems(r) = Elems(q) \cup {h}
  /\ r[1] = h /\ \A i \in 1..Len(q) : r[i + 1] = q[i]
  /\ WW!At(r, 1) = h /\ \A i \in Nat : i >= 1 => WW!At(r, i + 1) = WW!At(q, i)

LEMMA ListPush ==
  ASSUME NEW q \in Seq(Idlers), NEW h \in Idlers, Once(q), h \notin Elems(q), NEW p \in 1..(Len(q) + 1),
         NEW r, r = <<h>> \o q
  PROVE  Pushes(r, q, h) /\ p + 1 \in 1..(Len(r) + 1) /\ Rest(r, p + 1) = Rest(q, p)
<1> DEFINE s == <<h>>
<1>0. r = s \o q
  OBVIOUS
<1>1. s \in Seq(Idlers) /\ Len(s) = 1 /\ s[1] = h /\ Elems(s) = {h} /\ Once(s)
  BY ElemsEmpty
<1> HIDE DEF s
<1>2. /\ r \in Seq(Idlers) /\ Len(r) = 1 + Len(q) /\ Len(q) \in Nat
      /\ \A i \in 1..1 : r[i] = s[i]
      /\ \A i \in 1..Len(q) : r[1 + i] = q[i]
  <2>1. /\ r \in Seq(Idlers) /\ Len(r) = Len(s) + Len(q)
        /\ \A i \in 1..Len(s) : r[i] = s[i]
        /\ \A i \in 1..Len(q) : r[Len(s) + i] = q[i]
    BY <1>0, <1>1
  <2> QED
    BY <1>1, <2>1
<1>3. Once(r) /\ Elems(r) = Elems(q) \cup {h}
  <2>1. /\ Elems(s \o q) = Elems(s) \cup Elems(q)
        /\ Once(s) /\ Once(q) /\ Elems(s) \cap Elems(q) = {} => Once(s \o q)
    BY <1>1, ElemsJoined
  <2> QED
    BY <1>0, <1>1, <2>1
<1>4. r[1] = h /\ \A i \in 1..Len(q) : r[i + 1] = q[i]
  BY <1>1, <1>2
<1>5. WW!At(r, 1) = h
  <2>1. 1 \in 1..Len(r)
    BY <1>2
  <2> QED
    BY <1>2, <1>4, <2>1, AtFacts
<1>6. \A i \in Nat : i >= 1 => WW!At(r, i + 1) = WW!At(q, i)
  <2>1. SUFFICES ASSUME NEW i \in Nat, i >= 1
                 PROVE  WW!At(r, i + 1) = WW!At(q, i)
    OBVIOUS
  <2>2. CASE i \in 1..Len(q)
    <3>1. i + 1 \in 1..Len(r)
      BY <1>2, <2>2
    <3>2. r[i + 1] = q[i]
      BY <1>4, <2>2
    <3>3. WW!At(r, i + 1) = r[i + 1]
      <4>1. r \in Seq(Idlers)
        BY <1>2
      <4> QED
        BY <3>1, <4>1, AtFacts, Zenon
    <3>4. WW!At(q, i) = q[i]
      BY <2>2, AtFacts, Zenon
    <3> QED
      BY <3>2, <3>3, <3>4
  <2>3. CASE i \notin 1..Len(q)
    <3>1. i + 1 \notin 1..Len(r)
      BY <1>2, <2>1, <2>3
    <3> QED
      BY <1>2, <2>3, <3>1, AtFacts
  <2> QED
    BY <2>2, <2>3
<1>7. p + 1 \in 1..(Len(r) + 1)
  BY <1>2
<1>8. Rest(r, p + 1) = Rest(q, p)
  <2>1. /\ Rest(q, p) \in Seq(Idlers) /\ Len(Rest(q, p)) = Len(q) - p + 1
        /\ \A i \in 1..(Len(q) - p + 1) : Rest(q, p)[i] = q[i + (p - 1)] /\ i + (p - 1) \in 1..Len(q)
    BY RestFacts
  <2>2. /\ Rest(r, p + 1) \in Seq(Idlers) /\ Len(Rest(r, p + 1)) = Len(r) - (p + 1) + 1
        /\ \A i \in 1..(Len(r) - (p + 1) + 1) : Rest(r, p + 1)[i] = r[i + ((p + 1) - 1)]
    BY <1>2, <1>3, <1>7, RestFacts
  <2>3. Len(r) - (p + 1) + 1 = Len(q) - p + 1
    BY <1>2
  <2>4. ASSUME NEW i \in 1..(Len(q) - p + 1)
        PROVE  Rest(r, p + 1)[i] = Rest(q, p)[i]
    <3>1. Rest(r, p + 1)[i] = r[i + ((p + 1) - 1)]
      BY <2>2, <2>3
    <3>2. i + ((p + 1) - 1) = (i + (p - 1)) + 1
      BY <1>2
    <3> QED
      BY <1>4, <2>1, <3>1, <3>2
  <2> QED
    BY <2>1, <2>2, <2>3, <2>4, SeqEqual
<1>9. r \in Seq(Idlers) /\ Len(r) = Len(q) + 1
  BY <1>2
<1> QED
  BY <1>3, <1>4, <1>5, <1>6, <1>7, <1>8, <1>9, Zenon DEF Pushes

LEMMA ListCut ==
  ASSUME NEW q \in Seq(Idlers), Once(q), NEW k \in 1..Len(q), NEW p \in 1..(Len(q) + 1)
  PROVE  /\ \A i \in Nat : WW!At(Cut(q, k), i) = IF i < k THEN WW!At(q, i) ELSE WW!At(q, i + 1)
         /\ k < p => p - 1 \in 1..Len(q) /\ Rest(Cut(q, k), p - 1) = Rest(q, p) /\ q[k] \notin Elems(Rest(q, p))
         /\ ~(k < p) => /\ p \in 1..Len(q) /\ k - p + 1 \in 1..(Len(q) - p + 1)
                        /\ Rest(q, p)[k - p + 1] = q[k]
                        /\ Rest(Cut(q, k), p) = Cut(Rest(q, p), k - p + 1)
<1> DEFINE c == Cut(q, k)
<1>1. /\ c \in Seq(Idlers) /\ Len(c) = Len(q) - 1 /\ Len(q) \in Nat /\ Len(c) \in Nat
      /\ \A i \in 1..(Len(q) - 1) : c[i] = IF i < k THEN q[i] ELSE q[i + 1]
      /\ Once(c)
  BY CutAt, ElemsCut
<1> HIDE DEF c
<1>2. \A i \in Nat : WW!At(c, i) = IF i < k THEN WW!At(q, i) ELSE WW!At(q, i + 1)
  <2>1. SUFFICES ASSUME NEW i \in Nat
                 PROVE  WW!At(c, i) = IF i < k THEN WW!At(q, i) ELSE WW!At(q, i + 1)
    OBVIOUS
  <2>2. CASE i \in 1..(Len(q) - 1)
    <3>1. i \in 1..Len(q) /\ i + 1 \in 1..Len(q) /\ i \in 1..Len(c)
      BY <1>1, <2>2
    <3> QED
      BY <1>1, <2>2, <3>1, AtFacts
  <2>3. CASE i \notin 1..(Len(q) - 1) /\ i < k
    <3>1. i \notin 1..Len(q) /\ i \notin 1..Len(c)
      BY <1>1, <2>3
    <3> QED
      BY <1>1, <2>3, <3>1, AtFacts
  <2>4. CASE i \notin 1..(Len(q) - 1) /\ ~(i < k)
    <3>1. i + 1 \notin 1..Len(q) /\ i \notin 1..Len(c)
      BY <1>1, <2>4
    <3> QED
      BY <1>1, <2>4, <3>1, AtFacts
  <2> QED
    BY <2>2, <2>3, <2>4
<1>3. /\ Rest(q, p) \in Seq(Idlers) /\ Len(Rest(q, p)) = Len(q) - p + 1
      /\ \A i \in 1..(Len(q) - p + 1) : Rest(q, p)[i] = q[i + (p - 1)] /\ i + (p - 1) \in 1..Len(q)
  BY RestFacts
<1>4. ASSUME k < p
      PROVE  p - 1 \in 1..Len(q) /\ Rest(c, p - 1) = Rest(q, p) /\ q[k] \notin Elems(Rest(q, p))
  <2>1. p - 1 \in 1..Len(q) /\ p - 1 \in 1..(Len(c) + 1)
    BY <1>1, <1>4
  <2>2. /\ Rest(c, p - 1) \in Seq(Idlers) /\ Len(Rest(c, p - 1)) = Len(c) - (p - 1) + 1
        /\ \A i \in 1..(Len(c) - (p - 1) + 1) :
             Rest(c, p - 1)[i] = c[i + ((p - 1) - 1)] /\ i + ((p - 1) - 1) \in 1..Len(c)
    BY <1>1, <2>1, RestFacts
  <2>3. Len(c) - (p - 1) + 1 = Len(q) - p + 1
    BY <1>1
  <2>4. ASSUME NEW i \in 1..(Len(q) - p + 1)
        PROVE  Rest(c, p - 1)[i] = Rest(q, p)[i]
    <3>1. Rest(c, p - 1)[i] = c[i + ((p - 1) - 1)] /\ i + ((p - 1) - 1) \in 1..Len(c)
      BY <2>2, <2>3
    <3>2. (i + ((p - 1) - 1)) + 1 = i + (p - 1) /\ ~(i + ((p - 1) - 1) < k)
      BY <1>1, <1>4
    <3>3. c[i + ((p - 1) - 1)] = q[i + (p - 1)]
      BY <1>1, <3>1, <3>2
    <3> QED
      BY <1>3, <3>1, <3>3
  <2>5. Rest(c, p - 1) = Rest(q, p)
    BY <1>3, <2>2, <2>3, <2>4, SeqEqual
  <2>6. ASSUME q[k] \in Elems(Rest(q, p))
        PROVE  FALSE
    <3>1. PICK i \in 1..(Len(q) - p + 1) : q[k] = q[i + (p - 1)] /\ i + (p - 1) \in 1..Len(q)
      BY <1>3, <2>6 DEF Elems
    <3>2. k = i + (p - 1)
      BY <3>1 DEF Once
    <3> QED
      BY <1>1, <1>4, <3>2
  <2> QED
    BY <2>1, <2>5, <2>6
<1>5. ASSUME ~(k < p)
      PROVE  /\ p \in 1..Len(q) /\ k - p + 1 \in 1..(Len(q) - p + 1)
             /\ Rest(q, p)[k - p + 1] = q[k]
             /\ Rest(c, p) = Cut(Rest(q, p), k - p + 1)
  <2>1. /\ p \in 1..Len(q) /\ p \in 1..(Len(c) + 1) /\ k - p + 1 \in 1..(Len(q) - p + 1)
        /\ (k - p + 1) + (p - 1) = k
    BY <1>1, <1>5
  <2>2. Rest(q, p)[k - p + 1] = q[k]
    BY <1>3, <2>1
  <2>3. /\ Rest(c, p) \in Seq(Idlers) /\ Len(Rest(c, p)) = Len(c) - p + 1
        /\ \A i \in 1..(Len(c) - p + 1) : Rest(c, p)[i] = c[i + (p - 1)] /\ i + (p - 1) \in 1..Len(c)
    BY <1>1, <2>1, RestFacts
  <2> DEFINE d == Cut(Rest(q, p), k - p + 1)
  <2>4. /\ d \in Seq(Idlers) /\ Len(d) = (Len(q) - p + 1) - 1
        /\ \A i \in 1..((Len(q) - p + 1) - 1) :
             d[i] = IF i < k - p + 1 THEN Rest(q, p)[i] ELSE Rest(q, p)[i + 1]
    <3> DEFINE r == Rest(q, p)
               m == k - p + 1
    <3>1. r \in Seq(Idlers) /\ Len(r) = Len(q) - p + 1 /\ m \in 1..Len(r)
      BY <1>3, <2>1
    <3> HIDE DEF r, m
    <3>2. /\ Cut(r, m) \in Seq(Idlers) /\ Len(Cut(r, m)) = Len(r) - 1
          /\ \A i \in 1..(Len(r) - 1) : Cut(r, m)[i] = IF i < m THEN r[i] ELSE r[i + 1]
      BY <3>1, CutAt
    <3> QED
      BY <3>1, <3>2 DEF r, m
  <2> HIDE DEF d
  <2>5. Len(c) - p + 1 = (Len(q) - p + 1) - 1
    BY <1>1
  <2>6. ASSUME NEW i \in 1..(Len(c) - p + 1)
        PROVE  Rest(c, p)[i] = d[i]
    <3>1. /\ Rest(c, p)[i] = c[i + (p - 1)] /\ i + (p - 1) \in 1..(Len(q) - 1)
          /\ i \in 1..(Len(q) - p + 1) /\ i + 1 \in 1..(Len(q) - p + 1)
          /\ (i + 1) + (p - 1) = (i + (p - 1)) + 1
          /\ (i < k - p + 1) <=> (i + (p - 1) < k)
      <4>1. Rest(c, p)[i] = c[i + (p - 1)] /\ i + (p - 1) \in 1..Len(c)
        BY <2>3
      <4>2. \A a, b \in Nat : \A x \in 1..(b - a + 1) : a >= 1 =>
              x \in 1..((b + 1) - a + 1) /\ x + 1 \in 1..((b + 1) - a + 1)
        OBVIOUS
      <4>3. Len(q) = Len(c) + 1 /\ p >= 1 /\ p \in Nat /\ Len(c) \in Nat /\ k \in Nat /\ i \in Nat
        BY <1>1
      <4>4. i \in 1..(Len(q) - p + 1) /\ i + 1 \in 1..(Len(q) - p + 1)
        BY <4>2, <4>3
      <4>5. \A a, x, n \in Nat : /\ (x + 1) + (a - 1) = (x + (a - 1)) + 1
                                /\ (x < n - a + 1) <=> (x + (a - 1) < n)
        OBVIOUS
      <4>6. Len(q) - 1 = Len(c)
        BY <4>3
      <4> QED
        BY <4>1, <4>3, <4>4, <4>5, <4>6
    <3>2. Rest(q, p)[i] = q[i + (p - 1)] /\ Rest(q, p)[i + 1] = q[(i + (p - 1)) + 1]
      BY <1>3, <3>1
    <3>3. d[i] = IF i < k - p + 1 THEN Rest(q, p)[i] ELSE Rest(q, p)[i + 1]
      BY <2>4, <2>5
    <3>4. c[i + (p - 1)] = IF i + (p - 1) < k THEN q[i + (p - 1)] ELSE q[(i + (p - 1)) + 1]
      BY <1>1, <3>1
    <3> QED
      BY <3>1, <3>2, <3>3, <3>4
  <2>7. Rest(c, p) = d
    BY <2>3, <2>4, <2>5, <2>6, SeqEqual
  <2> QED
    BY <2>1, <2>2, <2>7 DEF d
<1> QED
  BY <1>2, <1>4, <1>5 DEF c

LEMMA CutBefore ==
  ASSUME NEW q \in Seq(Idlers), Once(q), NEW k \in 1..Len(q), NEW p \in 1..(Len(q) + 1), k < p
  PROVE  /\ p - 1 \in 1..Len(q) /\ Rest(Cut(q, k), p - 1) = Rest(q, p)
         /\ q[k] \notin Elems(Rest(q, p))
BY ListCut, Zenon

LEMMA CutBehind ==
  ASSUME NEW q \in Seq(Idlers), Once(q), NEW k \in 1..Len(q), NEW p \in 1..(Len(q) + 1), ~(k < p)
  PROVE  /\ p \in 1..Len(q) /\ k - p + 1 \in 1..(Len(q) - p + 1)
         /\ Rest(q, p)[k - p + 1] = q[k]
         /\ Rest(Cut(q, k), p) = Cut(Rest(q, p), k - p + 1)
BY ListCut, Zenon

\* What the three pointer updates of uv_name_stop do to the links.
LEMMA SetNextIs ==
  ASSUME NEW l \in [Idlers -> WwLink], NEW x \in Idlers \cup {NoIdler}, NEW y \in Idlers \cup {NoIdler}
  PROVE  WW!SetNext(l, x, y) = [g \in Idlers |-> [next |-> IF g = x THEN y ELSE l[g].next,
                                                 prev |-> l[g].prev, active |-> l[g].active]]
<1>0. NoIdler \notin Idlers
  BY WatchersAssumption
<1>1. \A g \in Idlers : l[g] = [next |-> l[g].next, prev |-> l[g].prev, active |-> l[g].active]
  BY DEF WwLink
<1>2. CASE x = NoIdler
  <2>1. WW!SetNext(l, x, y) = l
    BY <1>2 DEF WW!SetNext
  <2>2. l = [g \in Idlers |-> l[g]]
    OBVIOUS
  <2> QED
    BY <1>0, <1>1, <1>2, <2>1, <2>2
<1>3. CASE x \in Idlers
  <2>1. WW!SetNext(l, x, y) = [l EXCEPT ![x] = [l[x] EXCEPT !.next = y]]
    BY <1>0, <1>3 DEF WW!SetNext
  <2>2. [l[x] EXCEPT !.next = y] = [next |-> y, prev |-> l[x].prev, active |-> l[x].active]
    BY <1>3 DEF WwLink
  <2> QED
    BY <1>1, <1>3, <2>1, <2>2
<1> QED
  BY <1>2, <1>3

LEMMA SetPrevIs ==
  ASSUME NEW l \in [Idlers -> WwLink], NEW x \in Idlers \cup {NoIdler}, NEW y \in Idlers \cup {NoIdler}
  PROVE  WW!SetPrev(l, x, y) = [g \in Idlers |-> [next |-> l[g].next,
                                                 prev |-> IF g = x THEN y ELSE l[g].prev,
                                                 active |-> l[g].active]]
<1>0. NoIdler \notin Idlers
  BY WatchersAssumption
<1>1. \A g \in Idlers : l[g] = [next |-> l[g].next, prev |-> l[g].prev, active |-> l[g].active]
  BY DEF WwLink
<1>2. CASE x = NoIdler
  <2>1. WW!SetPrev(l, x, y) = l
    BY <1>2 DEF WW!SetPrev
  <2>2. l = [g \in Idlers |-> l[g]]
    OBVIOUS
  <2> QED
    BY <1>0, <1>1, <1>2, <2>1, <2>2
<1>3. CASE x \in Idlers
  <2>1. WW!SetPrev(l, x, y) = [l EXCEPT ![x] = [l[x] EXCEPT !.prev = y]]
    BY <1>0, <1>3 DEF WW!SetPrev
  <2>2. [l[x] EXCEPT !.prev = y] = [next |-> l[x].next, prev |-> y, active |-> l[x].active]
    BY <1>3 DEF WwLink
  <2> QED
    BY <1>1, <1>3, <2>1, <2>2
<1> QED
  BY <1>2, <1>3

LEMMA LinkBoth ==
  ASSUME NEW l \in [Idlers -> WwLink], NEW x \in Idlers \cup {NoIdler}, NEW y \in Idlers \cup {NoIdler}
  PROVE  WW!SetPrev(WW!SetNext(l, x, y), y, x) =
           [g \in Idlers |-> [next |-> IF g = x THEN y ELSE l[g].next,
                             prev |-> IF g = y THEN x ELSE l[g].prev, active |-> l[g].active]]
<1>1. PICK o : o = WW!SetNext(l, x, y)
  OBVIOUS
<1>2. o = [g \in Idlers |-> [next |-> IF g = x THEN y ELSE l[g].next,
                            prev |-> l[g].prev, active |-> l[g].active]]
  BY <1>1, SetNextIs
<1>3. \A g \in Idlers : /\ l[g].next \in Idlers \cup {NoIdler} /\ l[g].prev \in Idlers \cup {NoIdler}
                       /\ l[g].active \in BOOLEAN
  BY DEF WwLink
<1>4. o \in [Idlers -> WwLink]
  BY <1>2, <1>3 DEF WwLink
<1>5. WW!SetPrev(o, y, x) = [g \in Idlers |-> [next |-> o[g].next,
                                              prev |-> IF g = y THEN x ELSE o[g].prev,
                                              active |-> o[g].active]]
  BY <1>4, SetPrevIs
<1>6. ASSUME NEW g \in Idlers
      PROVE  /\ o[g].next = IF g = x THEN y ELSE l[g].next
             /\ o[g].prev = l[g].prev
             /\ o[g].active = l[g].active
  BY <1>2
<1> QED
  BY <1>1, <1>5, <1>6

LEMMA RecordOff ==
  ASSUME NEW r, NEW u, NEW v, NEW b, NEW f, r = [next |-> u, prev |-> v, active |-> b]
  PROVE  [r EXCEPT !.active = f] = [next |-> u, prev |-> v, active |-> f]
OBVIOUS

\* uv_name_stop's links; m is l with y after x and x before y; m is l but for h, not active.
Unlinked(l, x, y, h) == [WW!SetPrev(WW!SetNext(l, x, y), y, x) EXCEPT ![h].active = FALSE]
Relinked(m, l, x, y) ==
  \A g \in Idlers : /\ m[g].next = IF g = x THEN y ELSE l[g].next
                   /\ m[g].prev = IF g = y THEN x ELSE l[g].prev
SwitchedOff(m, l, h) == \A g \in Idlers : m[g].active <=> l[g].active /\ g # h

LEMMA LinkOff ==
  ASSUME NEW l \in [Idlers -> WwLink], NEW x \in Idlers \cup {NoIdler}, NEW y \in Idlers \cup {NoIdler},
         NEW h \in Idlers
  PROVE  /\ Unlinked(l, x, y, h) \in [Idlers -> WwLink]
         /\ Relinked(Unlinked(l, x, y, h), l, x, y)
         /\ SwitchedOff(Unlinked(l, x, y, h), l, h)
<1> DEFINE m == Unlinked(l, x, y, h)
<1>6. m = [WW!SetPrev(WW!SetNext(l, x, y), y, x) EXCEPT ![h].active = FALSE]
  BY DEF Unlinked
<1> HIDE DEF m
<1>1. PICK n : n = WW!SetPrev(WW!SetNext(l, x, y), y, x)
  OBVIOUS
<1>2. n = [g \in Idlers |-> [next |-> IF g = x THEN y ELSE l[g].next,
                            prev |-> IF g = y THEN x ELSE l[g].prev, active |-> l[g].active]]
  BY <1>1, LinkBoth, Zenon
<1>0. PICK f : f = FALSE
  OBVIOUS
<1>3. m = [n EXCEPT ![h] = [n[h] EXCEPT !.active = f]]
  BY <1>0, <1>1, <1>6
<1>4. ASSUME NEW g \in Idlers
      PROVE  /\ m[g] \in WwLink
             /\ m[g].next = IF g = x THEN y ELSE l[g].next
             /\ m[g].prev = IF g = y THEN x ELSE l[g].prev
             /\ m[g].active <=> l[g].active /\ g # h
  <2>1. PICK b \in BOOLEAN : b = l[g].active
    BY DEF WwLink
  <2>2. /\ l[g].next \in Idlers \cup {NoIdler} /\ l[g].prev \in Idlers \cup {NoIdler}
    BY DEF WwLink
  <2>3. PICK u \in Idlers \cup {NoIdler}, v \in Idlers \cup {NoIdler}, w \in BOOLEAN :
          /\ u = IF g = x THEN y ELSE l[g].next
          /\ v = IF g = y THEN x ELSE l[g].prev
          /\ w = IF g = h THEN FALSE ELSE b
    BY <2>1, <2>2
  <2>4. n[g] = [next |-> u, prev |-> v, active |-> b]
    BY <1>2, <2>1, <2>3
  <2>5. m[g] = [next |-> u, prev |-> v, active |-> w]
    <3>1. DOMAIN n = Idlers
      BY <1>2
    <3>2. CASE g = h
      <4>1. m[g] = [n[g] EXCEPT !.active = f] /\ w = f
        <5>1. PICK d : d = [n[h] EXCEPT !.active = f]
          OBVIOUS
        <5>2. m = [n EXCEPT ![h] = d]
          BY <1>3, <5>1
        <5>3. m[h] = d
          BY <3>1, <5>2
        <5> QED
          BY <1>0, <2>3, <3>2, <5>1, <5>3
      <4>2. [n[g] EXCEPT !.active = f] = [next |-> u, prev |-> v, active |-> f]
        BY <2>4, RecordOff
      <4> QED
        BY <4>1, <4>2
    <3>3. CASE g # h
      <4>1. m[g] = n[g] /\ w = b
        BY <1>3, <2>3, <3>1, <3>3
      <4> QED
        BY <2>4, <4>1
    <3> QED
      BY <3>2, <3>3
  <2>6. m[g] \in WwLink /\ m[g].next = u /\ m[g].prev = v /\ m[g].active = w
    <3>1. ASSUME NEW d, d = [next |-> u, prev |-> v, active |-> w]
          PROVE  d \in WwLink /\ d.next = u /\ d.prev = v /\ d.active = w
      BY <3>1 DEF WwLink
    <3> QED
      BY <2>5, <3>1, Zenon
  <2>7. m[g].active <=> l[g].active /\ g # h
    BY <2>1, <2>3, <2>6
  <2> QED
    BY <2>3, <2>6, <2>7
<1>5. m \in [Idlers -> WwLink]
  <2>1. DOMAIN m = Idlers /\ m = [g \in Idlers |-> m[g]]
    BY <1>2, <1>3
  <2> QED
    BY <1>4, <2>1
<1> QED
  BY <1>4, <1>5, Zenon DEF Relinked, SwitchedOff, m

LEMMA LinkCut ==
  ASSUME NEW l, NEW q \in Seq(Idlers), Once(q), NEW k \in 1..Len(q), Linked(l, q), NEW m,
         Relinked(m, l, WW!At(q, k - 1), WW!At(q, k + 1))
  PROVE  Linked(m, Cut(q, k))
<1>1. PICK x, y : x = WW!At(q, k - 1) /\ y = WW!At(q, k + 1)
  OBVIOUS
<1>2. k \in Nat /\ \A i \in 1..Len(q) : q[i] \in Idlers
  OBVIOUS
<1>3. \A i \in 1..Len(q) : l[q[i]].next = WW!At(q, i + 1) /\ l[q[i]].prev = WW!At(q, i - 1)
  BY DEF Linked
<1>7. \A g \in Idlers : /\ m[g].next = IF g = x THEN y ELSE l[g].next
                       /\ m[g].prev = IF g = y THEN x ELSE l[g].prev
  BY <1>1 DEF Relinked
<1> DEFINE c == Cut(q, k)
<1>9. /\ c \in Seq(Idlers) /\ Len(c) = Len(q) - 1 /\ Len(q) \in Nat
      /\ \A i \in 1..(Len(q) - 1) : c[i] = IF i < k THEN q[i] ELSE q[i + 1]
      /\ \A i \in Nat : WW!At(c, i) = IF i < k THEN WW!At(q, i) ELSE WW!At(q, i + 1)
  <2>1. PICK p \in 1..(Len(q) + 1) : TRUE
    OBVIOUS
  <2>2. \A i \in Nat : WW!At(c, i) = IF i < k THEN WW!At(q, i) ELSE WW!At(q, i + 1)
    BY <2>1, ListCut
  <2>3. /\ c \in Seq(Idlers) /\ Len(c) = Len(q) - 1
        /\ \A i \in 1..(Len(q) - 1) : c[i] = IF i < k THEN q[i] ELSE q[i + 1]
    BY CutAt
  <2> QED
    BY <2>2, <2>3
<1> HIDE DEF c
<1>10. /\ \A i \in 1..Len(q) : q[i] = x => i = k - 1
       /\ k - 1 \in 1..Len(q) => q[k - 1] = x
       /\ \A i \in 1..Len(q) : q[i] = y => i = k + 1
       /\ k + 1 \in 1..Len(q) => q[k + 1] = y
  <2>1. /\ \A i \in 1..Len(q) : q[i] = x => i = k - 1
        /\ k - 1 \in 1..Len(q) => q[k - 1] = x
    BY <1>1, <1>2, AtFacts DEF Once
  <2>2. /\ \A i \in 1..Len(q) : q[i] = y => i = k + 1
        /\ k + 1 \in 1..Len(q) => q[k + 1] = y
    BY <1>1, <1>2, AtFacts DEF Once
  <2> QED
    BY <2>1, <2>2
<1>11. ASSUME NEW i \in 1..Len(c)
       PROVE  m[c[i]].next = WW!At(c, i + 1) /\ m[c[i]].prev = WW!At(c, i - 1)
  <2>0. i \in Nat /\ i + 1 \in Nat /\ i - 1 \in Nat /\ i \in 1..Len(q) /\ i + 1 \in 1..Len(q) /\ k \in Nat
    BY <1>2, <1>9
  <2>1. CASE i < k
    <3>1. c[i] = q[i] /\ q[i] \in Idlers /\ i # k + 1
      BY <1>2, <1>9, <2>0, <2>1
    <3>2. m[c[i]].prev = WW!At(q, i - 1)
      BY <1>3, <1>7, <1>10, <2>0, <3>1
    <3>3. WW!At(c, i - 1) = WW!At(q, i - 1)
      <4>1. i - 1 < k
        BY <2>0, <2>1
      <4> QED
        BY <1>9, <2>0, <4>1
    <3>4. m[c[i]].next = WW!At(c, i + 1)
      <4>1. CASE i + 1 < k
        <5>1. i # k - 1
          BY <2>0, <4>1
        <5>2. m[c[i]].next = WW!At(q, i + 1)
          BY <1>3, <1>7, <1>10, <2>0, <3>1, <5>1
        <5> QED
          BY <1>9, <2>0, <4>1, <5>2
      <4>2. CASE ~(i + 1 < k)
        <5>1. i = k - 1 /\ i + 1 = k
          BY <2>0, <2>1, <4>2
        <5>2. m[c[i]].next = y
          BY <1>3, <1>7, <1>10, <2>0, <3>1, <5>1
        <5>3. WW!At(c, i + 1) = WW!At(q, k + 1)
          BY <1>9, <2>0, <5>1
        <5> QED
          BY <1>1, <5>2, <5>3
      <4> QED
        BY <4>1, <4>2
    <3> QED
      BY <3>2, <3>3, <3>4
  <2>2. CASE ~(i < k)
    <3>1. c[i] = q[i + 1] /\ q[i + 1] \in Idlers /\ i + 1 # k - 1
      <4>1. i \in 1..(Len(q) - 1)
        BY <1>9
      <4>2. c[i] = q[i + 1]
        BY <1>9, <2>2, <4>1
      <4>3. i + 1 # k - 1
        BY <2>0, <2>2
      <4> QED
        BY <1>2, <2>0, <4>2, <4>3
    <3>2. m[c[i]].next = WW!At(q, (i + 1) + 1)
      BY <1>3, <1>7, <1>10, <2>0, <3>1
    <3>3. WW!At(c, i + 1) = WW!At(q, (i + 1) + 1)
      <4>1. ~(i + 1 < k)
        BY <2>0, <2>2
      <4> QED
        BY <1>9, <2>0, <4>1
    <3>4. m[c[i]].prev = WW!At(c, i - 1)
      <4>1. CASE i = k
        <5>1. m[c[i]].prev = x
          BY <1>3, <1>7, <1>10, <2>0, <3>1, <4>1
        <5>2. i - 1 < k
          BY <2>0, <4>1
        <5>3. WW!At(c, i - 1) = WW!At(q, k - 1)
          BY <1>9, <2>0, <4>1, <5>2
        <5> QED
          BY <1>1, <5>1, <5>3
      <4>2. CASE i # k
        <5>1. i + 1 # k + 1 /\ ~(i - 1 < k) /\ (i + 1) - 1 = i /\ (i - 1) + 1 = i
          BY <2>0, <2>2, <4>2
        <5>2. m[c[i]].prev = WW!At(q, i)
          <6>1. q[i + 1] # y
            BY <1>10, <2>0, <5>1
          <6>2. l[q[i + 1]].prev = WW!At(q, i)
            BY <1>3, <2>0, <5>1
          <6> QED
            BY <1>7, <3>1, <6>1, <6>2
        <5>3. WW!At(c, i - 1) = WW!At(q, i)
          BY <1>9, <2>0, <5>1
        <5> QED
          BY <5>2, <5>3
      <4> QED
        BY <4>1, <4>2
    <3> QED
      BY <3>2, <3>3, <3>4
  <2> QED
    BY <2>1, <2>2
<1> QED
  BY <1>11 DEF c, Linked

LEMMA WwMapped ==
  ASSUME NEW order \in Seq(Idlers), NEW p \in Nat, WwLinked(order, p)
  PROVE  /\ WW!From(link, head) = order /\ WW!From(link, next_handle) = Rest(order, p)
         /\ Once(order) /\ p \in 1..(Len(order) + 1)
<1>1. ASSUME NEW i \in 1..Len(order)
      PROVE  link[order[i]].active
  <2>1. order[i] \in Elems(order) /\ order[i] \in Idlers
    BY DEF Elems
  <2> QED
    BY <2>1, Zenon DEF WwLinked
<1>2. \A i \in 1..Len(order) : link[order[i]].next = WW!At(order, i + 1)
  BY DEF WwLinked, Linked
<1>3. \A i \in 1..Len(order) : link[order[i]].next = WW!At(order, i + 1) /\ link[order[i]].active
  BY <1>1, <1>2, Zenon
<1>4. Once(order) /\ p \in 1..(Len(order) + 1) /\ head = WW!At(order, 1) /\ next_handle = WW!At(order, p)
  BY DEF WwLinked
<1> QED
  BY <1>3, <1>4, FromLinked

LEMMA WwMappedNext ==
  ASSUME NEW order \in Seq(Idlers), NEW p \in Nat, WwLinked(order, p)'
  PROVE  WW!From(link', head') = order /\ WW!From(link', next_handle') = Rest(order, p)
<1>1. ASSUME NEW i \in 1..Len(order)
      PROVE  link'[order[i]].active
  <2>1. order[i] \in Elems(order) /\ order[i] \in Idlers
    BY DEF Elems
  <2> QED
    BY <2>1, Zenon DEF WwLinked
<1>2. \A i \in 1..Len(order) : link'[order[i]].next = WW!At(order, i + 1)
  BY DEF WwLinked, Linked
<1>3. \A i \in 1..Len(order) : link'[order[i]].next = WW!At(order, i + 1) /\ link'[order[i]].active
  BY <1>1, <1>2, Zenon
<1>4. Once(order) /\ p \in 1..(Len(order) + 1) /\ head' = WW!At(order, 1) /\ next_handle' = WW!At(order, p)
  BY DEF WwLinked
<1> QED
  BY <1>3, <1>4, FromLinked

LEMMA WwInit == WW!Init => WwInv /\ WW!LW!Init
<1> SUFFICES ASSUME WW!Init
             PROVE  WwInv /\ WW!LW!Init
  OBVIOUS
<1>1. /\ head = NoIdler /\ next_handle = NoIdler /\ wl_calling = NoIdler /\ wl_gone = {}
      /\ link = [h \in Idlers |-> [next |-> NoIdler, prev |-> NoIdler, active |-> FALSE]]
  BY DEF WW!Init
<1>2. link \in [Idlers -> WwLink]
  BY <1>1 DEF WwLink
<1>3. PICK order \in Seq(Idlers) : order = <<>> /\ Len(order) = 0 /\ Once(order) /\ Elems(order) = {}
  <2>1. ASSUME NEW q, q = <<>>
        PROVE  q \in Seq(Idlers) /\ Len(q) = 0
    BY <2>1
  <2> QED
    BY <2>1, ElemsEmpty, Zenon
<1>4. WwLinked(order, 1)
  <2>1. \A h \in Idlers : ~link[h].active
    BY <1>1
  <2>2. Linked(link, order) /\ 1 \in 1..(Len(order) + 1) /\ 1 \notin 1..Len(order)
    BY <1>3 DEF Linked
  <2>3. WW!At(order, 1) = NoIdler
    BY <2>2, AtFacts
  <2> QED
    BY <1>1, <1>3, <2>1, <2>2, <2>3 DEF WwLinked
<1>5. WwInv
  BY <1>2, <1>4 DEF WwInv
<1>6. WW!From(link, head) = <<>> /\ WW!From(link, next_handle) = <<>>
  <2>1. WW!From(link, head) = order
    BY <1>4, WwMapped
  <2> QED
    BY <1>1, <1>3, <2>1
<1> QED
  BY <1>1, <1>5, <1>6 DEF WW!LW!Init

\* Taking out of a list by LoopWatchers' operators.
LEMMA WwDrop ==
  ASSUME NEW q \in Seq(Idlers), Once(q), NEW h
  PROVE  /\ h \notin Elems(q) => WW!LW!Drop(q, h) = q /\ ~WW!LW!Listed(q, h)
         /\ \A k \in 1..Len(q) : q[k] = h => WW!LW!Listed(q, h) /\ WW!LW!Drop(q, h) = Cut(q, k)
<1>1. DOMAIN q = 1..Len(q)
  OBVIOUS
<1>2. ASSUME h \notin Elems(q)
      PROVE  WW!LW!Drop(q, h) = q /\ ~WW!LW!Listed(q, h)
  <2>1. \A i \in DOMAIN q : q[i] # h
    BY <1>1, <1>2 DEF Elems
  <2> QED
    BY <2>1 DEF WW!LW!Drop, WW!LW!Listed
<1>3. ASSUME NEW k \in 1..Len(q), q[k] = h
      PROVE  WW!LW!Listed(q, h) /\ WW!LW!Drop(q, h) = Cut(q, k)
  <2> DEFINE i == CHOOSE n \in DOMAIN q : q[n] = h
  <2>1. \E n \in DOMAIN q : q[n] = h
    BY <1>1, <1>3
  <2>2. i \in 1..Len(q) /\ q[i] = h
    BY <1>1, <2>1
  <2>3. WW!LW!Drop(q, h) = Cut(q, i) /\ WW!LW!Listed(q, h)
    BY <2>1 DEF WW!LW!Drop, WW!LW!Listed, Cut
  <2> HIDE DEF i
  <2>4. i = k
    BY <1>3, <2>2 DEF Once
  <2> QED
    BY <2>3, <2>4
<1> QED
  BY <1>2, <1>3

\* uv_name_stop of an active handle.
LEMMA WwUnlink ==
  ASSUME WwInv, NEW h \in Idlers, link[h].active, WW!Unlink(h)
  PROVE  /\ WwInv'
         /\ WW!LW!Listed(WW!From(link, head), h)
         /\ WW!From(link', head') = WW!LW!Drop(WW!From(link, head), h)
         /\ WW!From(link', next_handle') = WW!LW!Drop(WW!From(link, next_handle), h)
<1>1. link \in [Idlers -> WwLink]
  BY DEF WwInv
<1>2. PICK q \in Seq(Idlers), p \in Nat : WwLinked(q, p)
  BY DEF WwInv
<1>3. /\ Once(q) /\ p \in 1..(Len(q) + 1) /\ Linked(link, q)
      /\ head = WW!At(q, 1) /\ next_handle = WW!At(q, p)
  BY <1>2 DEF WwLinked
<1>4. PICK k \in 1..Len(q) : q[k] = h
  <2>1. h \in Elems(q)
    BY <1>2, Zenon DEF WwLinked
  <2> QED
    BY <2>1 DEF Elems
<1>5. k \in Nat /\ Len(q) \in Nat /\ p \in Nat /\ k >= 1 /\ p >= 1
  BY <1>3
<1>6. link[h].next = WW!At(q, k + 1) /\ link[h].prev = WW!At(q, k - 1)
  BY <1>3, <1>4 DEF Linked
<1>7. /\ head' = IF head = h THEN link[h].next ELSE head
      /\ next_handle' = IF next_handle = h THEN link[h].next ELSE next_handle
      /\ link' = [WW!SetPrev(WW!SetNext(link, link[h].prev, link[h].next), link[h].next, link[h].prev)
                  EXCEPT ![h].active = FALSE]
  BY DEF WW!Unlink
<1>8. /\ link' \in [Idlers -> WwLink] /\ Relinked(link', link, WW!At(q, k - 1), WW!At(q, k + 1))
      /\ SwitchedOff(link', link, h)
  <2>1. PICK x \in Idlers \cup {NoIdler}, y \in Idlers \cup {NoIdler} : x = link[h].prev /\ y = link[h].next
    BY <1>1 DEF WwLink
  <2>2. link' = Unlinked(link, x, y, h)
    BY <1>7, <2>1 DEF Unlinked
  <2>3. link' \in [Idlers -> WwLink] /\ Relinked(link', link, x, y) /\ SwitchedOff(link', link, h)
    BY <1>1, <2>2, LinkOff
  <2> QED
    BY <1>6, <2>1, <2>3
<1>9. \A g \in Idlers : link'[g].active <=> link[g].active /\ g # h
  BY <1>8, Zenon DEF SwitchedOff
<1>10. PICK c \in Seq(Idlers) :
         c = Cut(q, k) /\ Len(c) = Len(q) - 1 /\ Elems(c) = Elems(q) \ {h} /\ Once(c)
  BY <1>3, <1>4, CutAt, ElemsCut
<1>11. Linked(link', c)
  BY <1>3, <1>8, <1>10, LinkCut
<1>12. \A g \in Idlers : link'[g].active <=> g \in Elems(c)
  <2>1. \A g \in Idlers : link[g].active <=> g \in Elems(q)
    BY <1>2, Zenon DEF WwLinked
  <2>2. \A g : g \in Elems(c) <=> g \in Elems(q) /\ g # h
    BY <1>10
  <2> QED
    BY <1>9, <2>1, <2>2, Zenon
<1>13. \A i \in Nat : WW!At(c, i) = IF i < k THEN WW!At(q, i) ELSE WW!At(q, i + 1)
  BY <1>3, <1>10, ListCut
<1>14. \A i \in Nat : WW!At(q, i) = h <=> i = k
  <2>1. SUFFICES ASSUME NEW i \in Nat
                 PROVE  WW!At(q, i) = h <=> i = k
    OBVIOUS
  <2>2. NoIdler # h
    BY WatchersAssumption
  <2>3. CASE i \in 1..Len(q)
    BY <1>3, <1>4, <2>3, AtFacts DEF Once
  <2>4. CASE i \notin 1..Len(q)
    BY <2>2, <2>4, AtFacts
  <2> QED
    BY <2>3, <2>4
<1>15. head' = WW!At(c, 1)
  <2>1. CASE k = 1
    BY <1>3, <1>6, <1>7, <1>13, <1>14, <2>1
  <2>2. CASE k # 1
    <3>1. 1 < k
      BY <1>5, <2>2
    <3> QED
      BY <1>3, <1>7, <1>13, <1>14, <2>2, <3>1
  <2> QED
    BY <2>1, <2>2
<1>16. CASE k < p
  <2>1. /\ p - 1 \in 1..Len(q) /\ Rest(c, p - 1) = Rest(q, p) /\ h \notin Elems(Rest(q, p))
    <3>1. /\ p - 1 \in 1..Len(q) /\ Rest(Cut(q, k), p - 1) = Rest(q, p)
          /\ q[k] \notin Elems(Rest(q, p))
      BY <1>3, <1>16, CutBefore, Zenon
    <3> QED
      BY <1>4, <1>10, <3>1
  <2>2. p - 1 \in Nat /\ ~(p - 1 < k) /\ (p - 1) + 1 = p /\ p # k /\ p - 1 \in 1..(Len(c) + 1)
    BY <1>5, <1>10, <1>16, <2>1
  <2>3. next_handle' = WW!At(c, p - 1)
    <3>1. WW!At(c, p - 1) = WW!At(q, p)
      BY <1>13, <2>2
    <3>2. next_handle # h
      BY <1>3, <1>5, <1>14, <2>2
    <3> QED
      BY <1>3, <1>7, <3>1, <3>2
  <2>4. WwLinked(c, p - 1)'
    BY <1>10, <1>11, <1>12, <1>15, <2>2, <2>3, Zenon DEF WwLinked
  <2>5. WW!From(link', head') = c /\ WW!From(link', next_handle') = Rest(q, p)
    BY <2>1, <2>2, <2>4, WwMappedNext
  <2>6. WW!From(link, head) = q /\ WW!From(link, next_handle) = Rest(q, p)
    BY <1>2, WwMapped
  <2>7. WW!LW!Listed(q, h) /\ WW!LW!Drop(q, h) = c
    BY <1>3, <1>4, <1>10, WwDrop
  <2>8. WW!LW!Drop(Rest(q, p), h) = Rest(q, p)
    <3>1. Rest(q, p) \in Seq(Idlers) /\ Once(Rest(q, p))
      BY <1>3, RestFacts
    <3> QED
      BY <2>1, <3>1, WwDrop
  <2>9. WwInv'
    BY <1>8, <2>2, <2>4 DEF WwInv
  <2> QED
    BY <2>5, <2>6, <2>7, <2>8, <2>9
<1>17. CASE ~(k < p)
  <2>1. /\ p \in 1..Len(q) /\ k - p + 1 \in 1..(Len(q) - p + 1) /\ Rest(q, p)[k - p + 1] = h
        /\ Rest(c, p) = Cut(Rest(q, p), k - p + 1)
    <3>1. /\ p \in 1..Len(q) /\ k - p + 1 \in 1..(Len(q) - p + 1) /\ Rest(q, p)[k - p + 1] = q[k]
          /\ Rest(Cut(q, k), p) = Cut(Rest(q, p), k - p + 1)
      BY <1>3, <1>17, CutBehind, Zenon
    <3> QED
      BY <1>4, <1>10, <3>1
  <2>2. p \in 1..(Len(c) + 1)
    BY <1>5, <1>10, <2>1
  <2>3. next_handle' = WW!At(c, p)
    <3>1. CASE p = k
      <4>1. next_handle = h /\ next_handle' = WW!At(q, p + 1)
        BY <1>3, <1>5, <1>6, <1>7, <1>14, <3>1
      <4> QED
        BY <1>5, <1>13, <1>17, <3>1, <4>1
    <3>2. CASE p # k
      <4>1. p < k
        BY <1>5, <1>17, <3>2
      <4>2. next_handle # h
        BY <1>3, <1>5, <1>14, <3>2
      <4> QED
        BY <1>3, <1>5, <1>7, <1>13, <4>1, <4>2
    <3> QED
      BY <3>1, <3>2
  <2>4. WwLinked(c, p)'
    BY <1>10, <1>11, <1>12, <1>15, <2>2, <2>3, Zenon DEF WwLinked
  <2>5. WW!From(link', head') = c /\ WW!From(link', next_handle') = Rest(c, p)
    BY <2>4, WwMappedNext
  <2>6. WW!From(link, head) = q /\ WW!From(link, next_handle) = Rest(q, p)
    BY <1>2, WwMapped
  <2>7. WW!LW!Listed(q, h) /\ WW!LW!Drop(q, h) = c
    BY <1>3, <1>4, <1>10, WwDrop
  <2>8. WW!LW!Drop(Rest(q, p), h) = Rest(c, p)
    <3>1. Rest(q, p) \in Seq(Idlers) /\ Once(Rest(q, p)) /\ Len(Rest(q, p)) = Len(q) - p + 1
      BY <1>3, RestFacts
    <3> QED
      BY <2>1, <3>1, WwDrop
  <2>9. WwInv'
    BY <1>8, <2>4 DEF WwInv
  <2> QED
    BY <2>5, <2>6, <2>7, <2>8, <2>9
<1> QED
  BY <1>16, <1>17

\* What uv_name_start does to the links: h before x, active.
Pushed(m, l, h, x) ==
  \A g \in Idlers : /\ m[g].next = IF g = h THEN x ELSE l[g].next
                   /\ m[g].prev = IF g = x THEN h ELSE IF g = h THEN NoIdler ELSE l[g].prev
SwitchedOn(m, l, h) == \A g \in Idlers : m[g].active <=> l[g].active \/ g = h
StartedLinks(l, h, x) ==
  WW!SetPrev([l EXCEPT ![h] = [next |-> x, prev |-> NoIdler, active |-> TRUE]], x, h)

LEMMA LinkOn ==
  ASSUME NEW l \in [Idlers -> WwLink], NEW h \in Idlers, NEW x \in Idlers \cup {NoIdler}
  PROVE  /\ StartedLinks(l, h, x) \in [Idlers -> WwLink]
         /\ Pushed(StartedLinks(l, h, x), l, h, x)
         /\ SwitchedOn(StartedLinks(l, h, x), l, h)
<1>1. PICK d : d = [next |-> x, prev |-> NoIdler, active |-> TRUE]
  OBVIOUS
<1>2. d \in WwLink /\ d.next = x /\ d.prev = NoIdler
  BY <1>1 DEF WwLink
<1>3. d.active = TRUE
  BY <1>1
<1>4. PICK n \in [Idlers -> WwLink] :
        /\ n = [l EXCEPT ![h] = d] /\ n[h] = d /\ \A g \in Idlers : g # h => n[g] = l[g]
  <2>1. /\ [l EXCEPT ![h] = d] \in [Idlers -> WwLink] /\ [l EXCEPT ![h] = d][h] = d
        /\ \A g \in Idlers : g # h => [l EXCEPT ![h] = d][g] = l[g]
    BY <1>2
  <2> QED
    BY <2>1, Zenon
<1>5. PICK m : m = StartedLinks(l, h, x)
  OBVIOUS
<1>6. m = [g \in Idlers |-> [next |-> n[g].next, prev |-> IF g = x THEN h ELSE n[g].prev,
                           active |-> n[g].active]]
  <2>1. m = WW!SetPrev(n, x, h)
    BY <1>1, <1>4, <1>5 DEF StartedLinks
  <2>2. WW!SetPrev(n, x, h) =
          [g \in Idlers |-> [next |-> n[g].next, prev |-> IF g = x THEN h ELSE n[g].prev,
                            active |-> n[g].active]]
    <3>1. n \in [Idlers -> WwLink] /\ h \in Idlers \cup {NoIdler}
      OBVIOUS
    <3> QED
      BY <3>1, SetPrevIs
  <2> QED
    BY <2>1, <2>2, Zenon
<1>7. ASSUME NEW g \in Idlers
      PROVE  /\ m[g] \in WwLink
             /\ m[g].next = IF g = h THEN x ELSE l[g].next
             /\ m[g].prev = IF g = x THEN h ELSE IF g = h THEN NoIdler ELSE l[g].prev
             /\ m[g].active <=> l[g].active \/ g = h
  <2>1. PICK b \in BOOLEAN : b = n[g].active
    BY DEF WwLink
  <2>2. PICK u \in Idlers \cup {NoIdler}, v \in Idlers \cup {NoIdler} :
          u = n[g].next /\ v = IF g = x THEN h ELSE n[g].prev
    BY DEF WwLink
  <2>3. m[g] = [next |-> u, prev |-> v, active |-> b]
    BY <1>6, <2>1, <2>2
  <2>4. m[g] \in WwLink /\ m[g].next = u /\ m[g].prev = v /\ m[g].active = b
    <3>1. ASSUME NEW e, e = [next |-> u, prev |-> v, active |-> b]
          PROVE  e \in WwLink /\ e.next = u /\ e.prev = v /\ e.active = b
      BY <3>1 DEF WwLink
    <3> QED
      BY <2>3, <3>1, Zenon
  <2>5. CASE g = h
    <3>1. n[g].next = x /\ n[g].prev = NoIdler
      BY <1>2, <1>4, <2>5
    <3>2. n[g].active = TRUE
      BY <1>3, <1>4, <2>5
    <3>3. m[g].active
      BY <2>1, <2>4, <3>2, Zenon
    <3> QED
      BY <2>2, <2>4, <2>5, <3>1, <3>3
  <2>6. CASE g # h
    <3>1. n[g] = l[g]
      BY <1>4, <2>6
    <3>2. m[g].active <=> l[g].active
      BY <2>1, <2>4, <3>1, Zenon
    <3> QED
      BY <2>2, <2>4, <2>6, <3>1, <3>2
  <2> QED
    BY <2>5, <2>6
<1>8. m \in [Idlers -> WwLink]
  <2>1. DOMAIN m = Idlers /\ m = [g \in Idlers |-> m[g]]
    BY <1>6
  <2> QED
    BY <1>7, <2>1
<1> QED
  BY <1>5, <1>7, <1>8, Zenon DEF Pushed, SwitchedOn

LEMMA LinkPush ==
  ASSUME NEW l, NEW q \in Seq(Idlers), Once(q), Linked(l, q), NEW h \in Idlers, h \notin Elems(q),
         NEW r, Pushes(r, q, h), NEW m, Pushed(m, l, h, WW!At(q, 1))
  PROVE  Linked(m, r)
<1>1. /\ r \in Seq(Idlers) /\ Len(r) = Len(q) + 1 /\ Len(q) \in Nat
      /\ r[1] = h /\ (\A i \in 1..Len(q) : r[i + 1] = q[i])
      /\ WW!At(r, 1) = h /\ (\A i \in Nat : i >= 1 => WW!At(r, i + 1) = WW!At(q, i))
  BY DEF Pushes
<1>2. PICK x : x = WW!At(q, 1)
  OBVIOUS
<1>3. \A g \in Idlers : /\ m[g].next = IF g = h THEN x ELSE l[g].next
                       /\ m[g].prev = IF g = x THEN h ELSE IF g = h THEN NoIdler ELSE l[g].prev
  BY <1>2 DEF Pushed
<1>4. ASSUME NEW i \in 1..Len(q)
      PROVE  q[i] \in Idlers /\ q[i] # h /\ (q[i] = x <=> i = 1)
  <2>1. q[i] \in Idlers /\ q[i] # h
    BY DEF Elems
  <2>2. 1 \in 1..Len(q)
    BY <1>1
  <2>3. x = q[1]
    BY <1>2, <2>2, AtFacts
  <2> QED
    BY <2>1, <2>2, <2>3 DEF Once
<1>5. h # x
  <2>1. CASE 1 \in 1..Len(q)
    BY <1>4, <2>1
  <2>2. CASE 1 \notin 1..Len(q)
    <3>1. x = NoIdler
      BY <1>2, <2>2, AtFacts
    <3> QED
      BY <3>1, WatchersAssumption
  <2> QED
    BY <2>1, <2>2
<1>6. m[h].next = WW!At(r, 1 + 1) /\ m[h].prev = WW!At(r, 1 - 1)
  <2>1. WW!At(r, 1 + 1) = x
    <3>1. 1 \in Nat /\ 1 >= 1
      OBVIOUS
    <3> QED
      BY <1>1, <1>2, <3>1, Zenon
  <2>2. 1 - 1 \notin 1..Len(r)
    BY <1>1
  <2>3. WW!At(r, 1 - 1) = NoIdler
    BY <1>1, <2>2, AtFacts
  <2> QED
    BY <1>3, <1>5, <2>1, <2>3
<1>7. ASSUME NEW i \in 1..Len(q)
      PROVE  /\ m[r[i + 1]].next = WW!At(r, (i + 1) + 1)
             /\ m[r[i + 1]].prev = WW!At(r, (i + 1) - 1)
  <2>0. i \in Nat /\ i >= 1 /\ i + 1 \in Nat /\ i + 1 >= 1 /\ (i + 1) - 1 = i
    OBVIOUS
  <2>1. r[i + 1] = q[i]
    BY <1>1
  <2>2. l[q[i]].next = WW!At(q, i + 1) /\ l[q[i]].prev = WW!At(q, i - 1)
    BY DEF Linked
  <2>3. m[q[i]].next = WW!At(r, (i + 1) + 1)
    BY <1>1, <1>3, <1>4, <2>0, <2>2
  <2>4. m[q[i]].prev = WW!At(r, i)
    <3>1. CASE i = 1
      BY <1>1, <1>3, <1>4, <3>1
    <3>2. CASE i # 1
      <4>1. i - 1 \in Nat /\ i - 1 >= 1 /\ (i - 1) + 1 = i
        BY <2>0, <3>2
      <4>2. WW!At(r, i) = WW!At(q, i - 1)
        BY <1>1, <4>1
      <4> QED
        BY <1>3, <1>4, <2>2, <3>2, <4>2
    <3> QED
      BY <3>1, <3>2
  <2> QED
    BY <2>0, <2>1, <2>3, <2>4
<1>8. ASSUME NEW i \in 1..Len(r)
      PROVE  m[r[i]].next = WW!At(r, i + 1) /\ m[r[i]].prev = WW!At(r, i - 1)
  <2>1. CASE i = 1
    BY <1>1, <1>6, <2>1
  <2>2. CASE i # 1
    <3>1. PICK j \in 1..Len(q) : i = j + 1
      <4>1. i - 1 \in 1..Len(q) /\ i = (i - 1) + 1
        BY <1>1, <2>2
      <4> QED
        BY <4>1
    <3> QED
      BY <1>7, <3>1
  <2> QED
    BY <2>1, <2>2
<1> QED
  BY <1>8 DEF Linked

\* uv_name_start of a handle that is not active.
LEMMA WwStart ==
  ASSUME WwInv, NEW h \in Idlers, WW!Start(h)
  PROVE  WwInv' /\ WW!LW!Start(h)
<1>1. link \in [Idlers -> WwLink]
  BY DEF WwInv
<1>2. PICK q \in Seq(Idlers), p \in Nat : WwLinked(q, p)
  BY DEF WwInv
<1>3. /\ Once(q) /\ p \in 1..(Len(q) + 1) /\ Linked(link, q)
      /\ head = WW!At(q, 1) /\ next_handle = WW!At(q, p)
  BY <1>2 DEF WwLinked
<1>4. /\ h \notin wl_gone /\ head' = h /\ UNCHANGED <<next_handle, wl_calling, wl_gone>>
      /\ link' = StartedLinks(link, h, head)
  BY DEF WW!Start, StartedLinks
<1>5. h \notin Elems(q)
  <2>1. ~link[h].active
    BY DEF WW!Start
  <2> QED
    BY <1>2, <2>1, Zenon DEF WwLinked
<1>6. PICK r : r = <<h>> \o q
  OBVIOUS
<1>7. Pushes(r, q, h) /\ p + 1 \in 1..(Len(r) + 1) /\ Rest(r, p + 1) = Rest(q, p)
  BY <1>3, <1>5, <1>6, ListPush, Zenon
<1>8. head \in Idlers \cup {NoIdler}
  <2>1. CASE 1 \in 1..Len(q)
    BY <1>3, <2>1, AtFacts
  <2>2. CASE 1 \notin 1..Len(q)
    BY <1>3, <2>2, AtFacts
  <2> QED
    BY <2>1, <2>2
<1>9. link' \in [Idlers -> WwLink] /\ Pushed(link', link, h, head) /\ SwitchedOn(link', link, h)
  BY <1>1, <1>4, <1>8, LinkOn
<1>10. Linked(link', r)
  BY <1>3, <1>5, <1>7, <1>9, LinkPush
<1>11. \A g \in Idlers : link'[g].active <=> g \in Elems(r)
  <2>1. \A g \in Idlers : link[g].active <=> g \in Elems(q)
    BY <1>2, Zenon DEF WwLinked
  <2>2. \A g : g \in Elems(r) <=> g \in Elems(q) \/ g = h
    BY <1>7 DEF Pushes
  <2> QED
    BY <1>9, <2>1, <2>2, Zenon DEF SwitchedOn
<1>12. WwLinked(r, p + 1)'
  <2>1. Once(r) /\ head' = WW!At(r, 1)
    BY <1>4, <1>7 DEF Pushes
  <2>2. next_handle' = WW!At(r, p + 1)
    <3>1. p \in Nat /\ p >= 1
      BY <1>3
    <3> QED
      BY <1>3, <1>4, <1>7, <3>1 DEF Pushes
  <2> QED
    BY <1>7, <1>10, <1>11, <2>1, <2>2, Zenon DEF WwLinked
<1>13. r \in Seq(Idlers) /\ p + 1 \in Nat
  BY <1>7 DEF Pushes
<1>14. WW!From(link', head') = r /\ WW!From(link', next_handle') = Rest(q, p)
  BY <1>7, <1>12, <1>13, WwMappedNext
<1>15. WW!From(link, head) = q /\ WW!From(link, next_handle) = Rest(q, p)
  BY <1>2, WwMapped
<1>16. ~WW!LW!Listed(q, h)
  BY <1>3, <1>5, WwDrop
<1>17. WwInv'
  BY <1>9, <1>12, <1>13 DEF WwInv
<1>18. WW!LW!Start(h)
  BY <1>4, <1>6, <1>14, <1>15, <1>16, Zenon DEF WW!LW!Start
<1> QED
  BY <1>17, <1>18

\* The links and the list stay, the turn moves on to the list's n-th handle.
LEMMA WwTurn ==
  ASSUME NEW q \in Seq(Idlers), NEW p \in Nat, WwLinked(q, p), link \in [Idlers -> WwLink],
         NEW n \in 1..(Len(q) + 1), UNCHANGED <<head, link>>, next_handle' = WW!At(q, n)
  PROVE  /\ WwInv' /\ WW!From(link', head') = q /\ WW!From(link', next_handle') = Rest(q, n)
<1>1. WwLinked(q, n)'
  BY Zenon DEF WwLinked
<1>2. n \in Nat
  OBVIOUS
<1>3. WwInv'
  BY <1>1, <1>2 DEF WwInv
<1> QED
  BY <1>1, <1>2, <1>3, WwMappedNext

\* Each step of the linked list is one of the list and what the turn has still to call.
LEMMA WwNext ==
  ASSUME WwInv, WW!Next
  PROVE  WwInv' /\ WW!LW!Next
<1>1. link \in [Idlers -> WwLink]
  BY DEF WwInv
<1>2. PICK q \in Seq(Idlers), p \in Nat : WwLinked(q, p)
  BY DEF WwInv
<1>3. /\ WW!From(link, head) = q /\ WW!From(link, next_handle) = Rest(q, p)
      /\ Once(q) /\ p \in 1..(Len(q) + 1)
  BY <1>2, WwMapped
<1>4. head = WW!At(q, 1) /\ next_handle = WW!At(q, p) /\ Linked(link, q)
  BY <1>2 DEF WwLinked
<1>5. CASE \E h \in Idlers : WW!Start(h)
  BY <1>5, WwStart DEF WW!LW!Next
<1>6. CASE \E h \in Idlers : WW!Stop(h)
  <2>1. PICK h \in Idlers : WW!Stop(h)
    BY <1>6
  <2>2. link[h].active /\ WW!Unlink(h) /\ UNCHANGED <<wl_calling, wl_gone>>
    BY <2>1, Zenon DEF WW!Stop
  <2>3. /\ WwInv' /\ WW!LW!Listed(WW!From(link, head), h)
        /\ WW!From(link', head') = WW!LW!Drop(WW!From(link, head), h)
        /\ WW!From(link', next_handle') = WW!LW!Drop(WW!From(link, next_handle), h)
    BY <2>2, WwUnlink, Zenon
  <2>4. WW!LW!Stop(h)
    BY <2>2, <2>3, Zenon DEF WW!LW!Stop
  <2> QED
    BY <2>3, <2>4 DEF WW!LW!Next
<1>7. CASE \E h \in Idlers : WW!Close(h)
  <2>1. PICK h \in Idlers : WW!Close(h)
    BY <1>7
  <2>2. h \notin wl_gone /\ wl_gone' = wl_gone \cup {h} /\ UNCHANGED wl_calling
    BY <2>1 DEF WW!Close
  <2>3. CASE link[h].active
    <3>1. WW!Unlink(h)
      BY <2>1, <2>3, Zenon DEF WW!Close
    <3>2. /\ WwInv'
          /\ WW!From(link', head') = WW!LW!Drop(WW!From(link, head), h)
          /\ WW!From(link', next_handle') = WW!LW!Drop(WW!From(link, next_handle), h)
      BY <2>3, <3>1, WwUnlink, Zenon
    <3>3. WW!LW!Close(h)
      BY <2>2, <3>2, Zenon DEF WW!LW!Close
    <3> QED
      BY <3>2, <3>3 DEF WW!LW!Next
  <2>4. CASE ~link[h].active
    <3>1. UNCHANGED <<head, next_handle, link>>
      BY <2>1, <2>4, Zenon DEF WW!Close
    <3>2. WwInv' /\ WW!From(link', head') = q /\ WW!From(link', next_handle') = Rest(q, p)
      BY <1>1, <1>2, <1>3, <1>4, <3>1, WwTurn
    <3>3. h \notin Elems(q)
      BY <1>2, <2>4, Zenon DEF WwLinked
    <3>4. h \notin Elems(Rest(q, p))
      <4>1. /\ Len(Rest(q, p)) = Len(q) - p + 1
            /\ \A i \in 1..(Len(q) - p + 1) : Rest(q, p)[i] = q[i + (p - 1)] /\ i + (p - 1) \in 1..Len(q)
        BY <1>3, RestFacts
      <4> QED
        BY <3>3, <4>1 DEF Elems
    <3>5. WW!LW!Drop(q, h) = q /\ WW!LW!Drop(Rest(q, p), h) = Rest(q, p)
      <4>1. Rest(q, p) \in Seq(Idlers) /\ Once(Rest(q, p))
        BY <1>3, RestFacts
      <4> QED
        BY <1>3, <3>3, <3>4, <4>1, WwDrop
    <3>6. WW!LW!Close(h)
      BY <1>3, <2>2, <3>2, <3>5, Zenon DEF WW!LW!Close
    <3> QED
      BY <3>2, <3>6 DEF WW!LW!Next
  <2> QED
    BY <2>3, <2>4
<1>8. ASSUME p \in 1..Len(q)
      PROVE  /\ next_handle # NoIdler /\ link[next_handle].next = WW!At(q, p + 1)
             /\ Rest(q, p) # <<>> /\ Head(Rest(q, p)) = next_handle
             /\ Tail(Rest(q, p)) = Rest(q, p + 1) /\ p + 1 \in 1..(Len(q) + 1)
  <2>1. next_handle = q[p] /\ next_handle # NoIdler
    BY <1>4, <1>8, AtFacts
  <2>2. link[next_handle].next = WW!At(q, p + 1)
    BY <1>4, <1>8, <2>1 DEF Linked
  <2>3. p + 1 \in 1..(Len(q) + 1) /\ Len(q) \in Nat /\ p \in Nat /\ p <= Len(q)
    BY <1>8
  <2>4. PICK s \in Seq(Idlers) :
          /\ s = Rest(q, p) /\ Len(s) = Len(q) - p + 1
          /\ \A i \in 1..(Len(q) - p + 1) : s[i] = q[i + (p - 1)]
    BY <1>3, RestFacts
  <2>5. PICK t \in Seq(Idlers) :
          /\ t = Rest(q, p + 1) /\ Len(t) = Len(q) - (p + 1) + 1
          /\ \A i \in 1..(Len(q) - (p + 1) + 1) : t[i] = q[i + ((p + 1) - 1)]
    BY <1>3, <2>3, RestFacts
  <2>6. s # <<>> /\ Head(s) = s[1] /\ s[1] = q[p]
    <3>1. Len(s) >= 1 /\ 1 \in 1..(Len(q) - p + 1) /\ 1 + (p - 1) = p
      BY <2>3, <2>4
    <3>2. s # <<>> /\ Head(s) = s[1]
      BY <3>1
    <3> QED
      BY <2>4, <3>1, <3>2
  <2>7. Tail(s) = t
    <3>1. /\ Tail(s) \in Seq(Idlers) /\ Len(Tail(s)) = Len(s) - 1
          /\ \A i \in 1..(Len(s) - 1) : Tail(s)[i] = s[i + 1]
      BY <2>6
    <3>2. Len(s) - 1 = Len(q) - (p + 1) + 1 /\ Len(s) - 1 = Len(t)
      <4>1. \A m, n \in Nat : (m - n + 1) - 1 = m - (n + 1) + 1
        OBVIOUS
      <4>2. Len(s) - 1 = Len(q) - (p + 1) + 1
        BY <2>3, <2>4, <4>1
      <4> QED
        BY <2>5, <4>2
    <3>3. ASSUME NEW i \in 1..Len(t)
          PROVE  Tail(s)[i] = t[i]
      <4>1. i + 1 \in 1..(Len(q) - p + 1) /\ (i + 1) + (p - 1) = i + ((p + 1) - 1)
        BY <2>3, <2>5
      <4>2. Tail(s)[i] = s[i + 1]
        BY <3>1, <3>2
      <4>3. s[i + 1] = q[(i + 1) + (p - 1)]
        BY <2>4, <4>1
      <4>4. t[i] = q[i + ((p + 1) - 1)]
        BY <2>5, <3>2
      <4> QED
        BY <4>1, <4>2, <4>3, <4>4
    <3> QED
      BY <3>1, <3>2, <3>3, SeqEqual
  <2> QED
    BY <2>1, <2>2, <2>3, <2>4, <2>5, <2>6, <2>7
<1>9. ASSUME p \notin 1..Len(q)
      PROVE  next_handle = NoIdler /\ Rest(q, p) = <<>>
  <2>1. p = Len(q) + 1
    BY <1>3, <1>9
  <2> QED
    BY <1>3, <1>4, <1>9, <2>1, AtFacts, RestEnds
<1>10. CASE WW!InvokeBegins
  <2>1. /\ next_handle = NoIdler /\ wl_calling = NoIdler /\ next_handle' = head
        /\ UNCHANGED <<head, link, wl_calling, wl_gone>>
    BY <1>10 DEF WW!InvokeBegins
  <2>2. Rest(q, p) = <<>>
    BY <1>8, <1>9, <2>1
  <2>3. 1 \in 1..(Len(q) + 1)
    OBVIOUS
  <2>4. WwInv' /\ WW!From(link', head') = q /\ WW!From(link', next_handle') = Rest(q, 1)
    BY <1>1, <1>2, <1>4, <2>1, <2>3, WwTurn
  <2>5. Rest(q, 1) = q
    BY <1>3, RestEnds
  <2>6. WW!LW!TurnBegins
    BY <1>3, <2>1, <2>2, <2>4, <2>5, Zenon DEF WW!LW!TurnBegins
  <2> QED
    BY <2>4, <2>6 DEF WW!LW!Next
<1>11. CASE WW!InvokeCalls
  <2>1. /\ next_handle # NoIdler /\ wl_calling = NoIdler
        /\ wl_calling' = next_handle /\ next_handle' = link[next_handle].next
        /\ UNCHANGED <<head, link, wl_gone>>
    BY <1>11 DEF WW!InvokeCalls
  <2>2. /\ link[next_handle].next = WW!At(q, p + 1)
        /\ Rest(q, p) # <<>> /\ Head(Rest(q, p)) = next_handle
        /\ Tail(Rest(q, p)) = Rest(q, p + 1) /\ p + 1 \in 1..(Len(q) + 1)
    BY <1>8, <1>9, <2>1
  <2>3. WwInv' /\ WW!From(link', head') = q /\ WW!From(link', next_handle') = Rest(q, p + 1)
    BY <1>1, <1>2, <2>1, <2>2, WwTurn
  <2>4. WW!LW!Call
    BY <1>3, <2>1, <2>2, <2>3, Zenon DEF WW!LW!Call
  <2> QED
    BY <2>3, <2>4 DEF WW!LW!Next
<1>12. CASE WW!CallbackReturns
  <2>1. /\ wl_calling # NoIdler /\ wl_calling' = NoIdler
        /\ UNCHANGED <<head, next_handle, link, wl_gone>>
    BY <1>12 DEF WW!CallbackReturns
  <2>2. WwInv' /\ WW!From(link', head') = q /\ WW!From(link', next_handle') = Rest(q, p)
    BY <1>1, <1>2, <1>3, <1>4, <2>1, WwTurn
  <2>3. WW!LW!Return
    BY <1>3, <2>1, <2>2, Zenon DEF WW!LW!Return
  <2> QED
    BY <2>2, <2>3 DEF WW!LW!Next
<1> QED
  BY <1>5, <1>6, <1>7, <1>10, <1>11, <1>12 DEF WW!Next

-----------------------------------------------------------------------------
(* A step of the composition is a step of one part or leaves it alone. *)

LEMMA PoolStep ==
  ASSUME [Next]_vars
  PROVE  TP!Next \/ UNCHANGED poolVars
BY DEF Next, vars, OnlyThreadpool, OnlyWinBarrier, OnlyPosixBarrier, OnlyRwlock, OnlyOnce,
       OnlyReadCancel, OnlyPipe, OnlyPipeServer, OnlyTcp, OnlyTcpServer, OnlyPoll,
       OnlyWinWatchers, OnlyUnixWatchers, OnlyTty, OnlyLogger

LEMMA PosixBarrierStep ==
  ASSUME [Next]_vars
  PROVE  PB!Next \/ UNCHANGED posixBarrierVars
BY DEF Next, vars, OnlyThreadpool, OnlyWinBarrier, OnlyPosixBarrier, OnlyRwlock, OnlyOnce,
       OnlyReadCancel, OnlyPipe, OnlyPipeServer, OnlyTcp, OnlyTcpServer, OnlyPoll,
       OnlyWinWatchers, OnlyUnixWatchers, OnlyTty, OnlyLogger

LEMMA RwlockStep ==
  ASSUME [Next]_vars
  PROVE  RW!Next \/ UNCHANGED rwlockVars
BY DEF Next, vars, OnlyThreadpool, OnlyWinBarrier, OnlyPosixBarrier, OnlyRwlock, OnlyOnce,
       OnlyReadCancel, OnlyPipe, OnlyPipeServer, OnlyTcp, OnlyTcpServer, OnlyPoll,
       OnlyWinWatchers, OnlyUnixWatchers, OnlyTty, OnlyLogger

LEMMA OnceStep ==
  ASSUME [Next]_vars
  PROVE  ON!Next \/ UNCHANGED onceVars
BY DEF Next, vars, OnlyThreadpool, OnlyWinBarrier, OnlyPosixBarrier, OnlyRwlock, OnlyOnce,
       OnlyReadCancel, OnlyPipe, OnlyPipeServer, OnlyTcp, OnlyTcpServer, OnlyPoll,
       OnlyWinWatchers, OnlyUnixWatchers, OnlyTty, OnlyLogger

LEMMA ReadCancelStep ==
  ASSUME [Next]_vars
  PROVE  RC!Next \/ UNCHANGED readCancelVars
BY DEF Next, vars, OnlyThreadpool, OnlyWinBarrier, OnlyPosixBarrier, OnlyRwlock, OnlyOnce,
       OnlyReadCancel, OnlyPipe, OnlyPipeServer, OnlyTcp, OnlyTcpServer, OnlyPoll,
       OnlyWinWatchers, OnlyUnixWatchers, OnlyTty, OnlyLogger

LEMMA TtyStep ==
  ASSUME [Next]_vars
  PROVE  TT!Next \/ UNCHANGED ttyVars
BY DEF Next, vars, OnlyThreadpool, OnlyWinBarrier, OnlyPosixBarrier, OnlyRwlock, OnlyOnce,
       OnlyReadCancel, OnlyPipe, OnlyPipeServer, OnlyTcp, OnlyTcpServer, OnlyPoll,
       OnlyWinWatchers, OnlyUnixWatchers, OnlyTty, OnlyLogger

\* The invariants hold through the steps of the composition.
LEMMA TpKeeps ==
  ASSUME TpInv, [Next]_vars
  PROVE  TpInv'
<1>1. CASE UNCHANGED poolVars
  <2>1. TpSame /\ wpc' = wpc
    BY <1>1 DEF poolVars, TpSame
  <2>2. wpc' \in [Workers -> {"none", "top", "waiting", "woken", "working", "handing", "gone"}]
    BY <2>1 DEF TpInv, TpType
  <2> QED
    BY <2>1, <2>2, TpStutters
<1> QED
  BY <1>1, PoolStep, TpNext

LEMMA PbKeeps ==
  ASSUME PbInv, [Next]_vars
  PROVE  PbInv'
<1>1. CASE UNCHANGED posixBarrierVars
  BY <1>1 DEF posixBarrierVars, PbInv, PbType, PbCounted, PbInside, PbRounds, PbRound, PbFilling,
     PbReturning, PbDestroyed
<1> QED
  BY <1>1, PosixBarrierStep, PbNext

LEMMA RwKeeps ==
  ASSUME RwInv, [Next]_vars
  PROVE  RwInv'
<1>1. CASE UNCHANGED rwlockVars
  BY <1>1 DEF rwlockVars, RwInv, RwType, RwCounted, Counted, RwFirst, RwLocked, RwHeld,
     RW!RwExclusion
<1> QED
  BY <1>1, RwlockStep, RwNext

LEMMA OnKeeps ==
  ASSUME OnInv, [Next]_vars
  PROVE  OnInv'
<1>1. CASE UNCHANGED onceVars
  BY <1>1 DEF onceVars, OnInv, OnType, OnRace
<1> QED
  BY <1>1, OnceStep, OnNext

LEMMA RcKeeps ==
  ASSUME RcInv, [Next]_vars
  PROVE  RcInv'
<1>1. CASE UNCHANGED readCancelVars
  BY <1>1 DEF readCancelVars, RcInv, RcType, RcLocked, RC!CancelHitsOwnRead
<1> QED
  BY <1>1, ReadCancelStep, RcNext

LEMMA TtKeeps ==
  ASSUME TtInv, [Next]_vars
  PROVE  TtInv'
<1>1. CASE UNCHANGED ttyVars
  BY <1>1 DEF ttyVars, TtInv, TtUntilMistaken, TtMarked, TtType, TtBools, TtPlace, TtCalling,
     TtStatus, TtLocked, TtApart, TtCounts, TtTrapped, TtProcessing
<1> QED
  BY <1>1, TtyStep, TtNext

\* A step of the composition is one of Barrier or LoopWatchers, or stutters there.
LEMMA WinBarrierStep ==
  ASSUME WbInv, [Next]_vars
  PROVE  WbInv' /\ [WB!B!Next]_(WB!B!barrierVars)
<1>1. WB!Next \/ UNCHANGED winBarrierVars
  BY DEF Next, vars, OnlyThreadpool, OnlyWinBarrier, OnlyPosixBarrier, OnlyRwlock, OnlyOnce,
         OnlyReadCancel, OnlyPipe, OnlyPipeServer, OnlyTcp, OnlyTcpServer, OnlyPoll,
         OnlyWinWatchers, OnlyUnixWatchers, OnlyTty, OnlyLogger
<1>2. CASE WB!Next
  BY <1>2, WbNext, WbMaps
<1>3. CASE UNCHANGED winBarrierVars
  <2>0. /\ wb_mutex' = wb_mutex /\ wb_count' = wb_count /\ turnstile' = turnstile /\ wb_pc' = wb_pc
        /\ wb_entered' = wb_entered /\ wb_left' = wb_left /\ wb_serials' = wb_serials
    BY <1>3 DEF winBarrierVars
  <2>1. WbInv'
    <3>1. WbType' /\ WbLeft' /\ WbMutex'
      BY <2>0 DEF WbInv, WbType, WbLeft, WbMutex
    <3>2. PICK k \in Nat : WbFilling(k) \/ WbDraining(k)
      BY DEF WbInv
    <3>3. ASSUME WbFilling(k)
          PROVE  WbFilling(k)'
      BY <2>0, <3>3, Zenon DEF WbFilling, WbFilled, WbOneThrough
    <3>4. ASSUME WbDraining(k)
          PROVE  WbDraining(k)'
      BY <2>0, <3>4, Zenon DEF WbDraining, WbUndrained, WbOneThrough
    <3> QED
      BY <3>1, <3>2, <3>3, <3>4, Zenon DEF WbInv
  <2>2. UNCHANGED WB!B!barrierVars
    BY <1>3 DEF winBarrierVars, WB!B!barrierVars, WB!Returned
  <2> QED
    BY <2>1, <2>2
<1> QED
  BY <1>1, <1>2, <1>3

LEMMA PosixBarrierAgrees ==
  ASSUME PbInv, PbFits, [Next]_vars
  PROVE  PbFits' /\ [PB!B!Next]_(PB!B!barrierVars)
<1>1. CASE PB!Next
  BY <1>1, PbFitsNext, PbMaps
<1>2. CASE UNCHANGED posixBarrierVars
  <2>1. PbFits'
    BY <1>2 DEF posixBarrierVars, PbFits, PbLeft, PbSerial
  <2>2. UNCHANGED PB!B!barrierVars
    BY <1>2 DEF posixBarrierVars, PB!B!barrierVars, PB!Returned
  <2> QED
    BY <2>1, <2>2
<1> QED
  BY <1>1, <1>2, PosixBarrierStep

LEMMA WinWatchersStep ==
  ASSUME WwInv, [Next]_vars
  PROVE  WwInv' /\ [WW!LW!Next]_(WW!LW!watcherVars)
<1>1. WW!Next \/ UNCHANGED winWatcherVars
  BY DEF Next, vars, OnlyThreadpool, OnlyWinBarrier, OnlyPosixBarrier, OnlyRwlock, OnlyOnce,
         OnlyReadCancel, OnlyPipe, OnlyPipeServer, OnlyTcp, OnlyTcpServer, OnlyPoll,
         OnlyWinWatchers, OnlyUnixWatchers, OnlyTty, OnlyLogger
<1>2. CASE WW!Next
  BY <1>2, WwNext
<1>3. CASE UNCHANGED winWatcherVars
  <2>1. WwInv'
    BY <1>3 DEF winWatcherVars, WwInv, WwLinked
  <2>2. UNCHANGED WW!LW!watcherVars
    BY <1>3 DEF winWatcherVars, WW!LW!watcherVars
  <2> QED
    BY <2>1, <2>2
<1> QED
  BY <1>1, <1>2, <1>3

LEMMA UnixWatchersStep ==
  ASSUME UwInv, [Next]_vars
  PROVE  UwInv' /\ [UW!LW!Next]_(UW!LW!watcherVars)
<1>1. UW!Next \/ UNCHANGED unixWatcherVars
  BY DEF Next, vars, OnlyThreadpool, OnlyWinBarrier, OnlyPosixBarrier, OnlyRwlock, OnlyOnce,
         OnlyReadCancel, OnlyPipe, OnlyPipeServer, OnlyTcp, OnlyTcpServer, OnlyPoll,
         OnlyWinWatchers, OnlyUnixWatchers, OnlyTty, OnlyLogger
<1>2. CASE UW!Next
  BY <1>2, UwNext
<1>3. CASE UNCHANGED unixWatcherVars
  <2>1. UwInv'
    BY <1>3 DEF unixWatcherVars, UwInv
  <2>2. UNCHANGED UW!LW!watcherVars
    BY <1>3 DEF unixWatcherVars, UW!LW!watcherVars
  <2> QED
    BY <2>1, <2>2
<1> QED
  BY <1>1, <1>2, <1>3

-----------------------------------------------------------------------------
(* The properties of the composition. *)

\* DoneOnceTruthfully: the thread pool answers each request at most once, with
\* UV_ECANCELED exactly when uv_cancel returned 0 for it, and then its work never ran;
\* otherwise it ran once and no worker still has it.
THEOREM DoneOnceTruthfullyHolds == Spec => []DoneOnceTruthfully
<1>1. Init => TpInv
  BY TpInit DEF Init
<1>2. TpInv => DoneOnceTruthfully
  BY TpSound DEF DoneOnceTruthfully
<1> QED
  BY <1>1, <1>2, TpKeeps, PTL DEF Spec

\* ThreadsExclude: the read-write lock never has a writer beside another holder, uv_once
\* returns after its callback has run, a barrier that pthread_barrier_destroy accepted is
\* out of use, a cancel hits the read of its own pipe, and the console has one read at a
\* time, whenever the mode is switched.  The lock that cancelling a line takes is given
\* back once, by the one who has to, as long as no pending read of keys was cancelled as
\* if it were a line's, which a switch of the mode under it leads to (tty.c:1034).
THEOREM ThreadsExcludeHolds == Spec => []ThreadsExclude
<1>1. Init => RwInv /\ OnInv /\ RcInv /\ PbInv /\ TtInv
  BY RwInit, OnInit, RcInit, PbInit, TtInit DEF Init
<1>2. RwInv /\ OnInv /\ RcInv /\ PbInv /\ TtInv => ThreadsExclude
  BY OnSound, PbSound, TtSound DEF ThreadsExclude, RwInv, RcInv
<1> QED
  BY <1>1, <1>2, RwKeeps, OnKeeps, RcKeeps, PbKeeps, TtKeeps, PTL DEF Spec

\* PlatformsAgree: both barriers implement Barrier (no call returns before all threads of
\* its round have entered, one of them is the serializer), and the prepare, check and idle
\* handles of both platforms implement LoopWatchers (a turn calls each handle that was
\* active when it began and has not been stopped since, once, the one started last first).
THEOREM PlatformsAgreeHolds == Spec => PlatformsAgree
<1>1. Spec => WB!WinBarrierSpec
  <2>1. Init => WbInv /\ WB!B!Init
    BY WbInit, WbMapsInit DEF Init
  <2> QED
    BY <2>1, WinBarrierStep, PTL DEF Spec, WB!WinBarrierSpec, WB!B!Spec
<1>2. Spec => PB!PosixBarrierSpec
  <2>1. Init => PbInv /\ PbFits /\ PB!B!Init
    BY PbInit, PbFitsInit, PbMapsInit DEF Init
  <2> QED
    BY <2>1, PbKeeps, PosixBarrierAgrees, PTL DEF Spec, PB!PosixBarrierSpec, PB!B!Spec
<1>3. Spec => WW!WinWatchersSpec
  <2>1. Init => WwInv /\ WW!LW!Init
    BY WwInit DEF Init
  <2> QED
    BY <2>1, WinWatchersStep, PTL DEF Spec, WW!WinWatchersSpec, WW!LW!Spec
<1>4. Spec => UW!UnixWatchersSpec
  <2>1. Init => UwInv /\ UW!LW!Init
    BY UwInit DEF Init
  <2> QED
    BY <2>1, UnixWatchersStep, PTL DEF Spec, UW!UnixWatchersSpec, UW!LW!Spec
<1> QED
  BY <1>1, <1>2, <1>3, <1>4 DEF PlatformsAgree
=============================================================================
