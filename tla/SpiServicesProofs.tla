------------------------- MODULE SpiServicesProofs -------------------------
(***************************************************************************)
(* Proofs about SpiServices, for every set of callers, services and event  *)
(* classes and every bound: the type of the state and the three invariants *)
(* its run checks.                                                         *)
(***************************************************************************)
EXTENDS SpiServices, FiniteSetTheorems, TLAPS

-----------------------------------------------------------------------------
(* The inductive invariant. *)

\* What the service writes: answers, which are the calls, and events.
Event == [id : {0}, op : {"Event"}, svc : {Nobody}, cls : SUBSET Classes]

Making(c, op, s) == cpc[c] # "idle" /\ call[c].op = op /\ call[c].svc = s

\* A caller that is not idle is in a call; one call at most opens a handle or
\* closes it, and the manager knows.
CallsMade ==
  /\ \A c \in Callers : cpc[c] # "idle" => call[c] \in Call
  /\ \A c, d \in Callers, s \in Services :
       /\ Making(c, "Open", s) /\ Making(d, "Open", s) => c = d
       /\ Making(c, "Close", s) /\ Making(d, "Close", s) => c = d
  /\ \A c \in Callers, s \in Services :
       /\ Making(c, "Open", s) => held[s] = "opening"
       /\ Making(c, "Close", s) => held[s] = "closing"

\* The closes on their way to the service, or answered and not read.
Closes(q) == {q[i].svc : i \in {j \in 1..Len(q) : q[j].op = "Close"}}

CloseOnce(q) ==
  \A i, j \in 1..Len(q) :
    q[i].op = "Close" /\ q[j].op = "Close" /\ q[i].svc = q[j].svc => i = j

\* A handle is closed once: its close is with a caller, on its way to the service,
\* or answered.
ClosesApart ==
  /\ CloseOnce(toServer) /\ CloseOnce(toClient)
  /\ Closes(toServer) \cap Closes(toClient) = {}
  /\ \A s \in Closes(toServer) \cup Closes(toClient) :
       held[s] = "closing" /\ \A c \in Callers : ~Making(c, "Close", s)

\* The worker has a service to erase after the completion of a close, only then.
ErasingAt == erasing = Nobody <=> wpc = "read"

\* Of the entries a service has, the first is the one registrations go to.
FirstRegistered(q) ==
  \A i, j \in 1..Len(q) : i < j /\ q[i].svc = q[j].svc => q[j].cls = {}

Registered(q, s) == \E i \in 1..Len(q) : q[i].svc = s /\ q[i].cls # {}

\* A service is registered while the manager has its handle, or until the worker
\* erases it, unless the registration came late.
RegisteredHeld ==
  \A s \in Services :
    Registered(registry, s) => held[s] \in {"open", "closing"} \/ erasing = s \/ s \in late

IInv ==
  /\ TypeOK /\ toClient \in Seq(Call \cup Event)
  /\ CallsMade /\ ClosesApart /\ ErasingAt /\ FirstRegistered(registry) /\ RegisteredHeld
  /\ EntriesAccounted

-----------------------------------------------------------------------------
(* Sequences. *)

LEMMA AppendFacts ==
  ASSUME NEW S, NEW q \in Seq(S), NEW e \in S
  PROVE  /\ Append(q, e) \in Seq(S) /\ Len(Append(q, e)) = Len(q) + 1
         /\ Append(q, e)[Len(q) + 1] = e
         /\ \A i \in 1..Len(q) : Append(q, e)[i] = q[i]
  OBVIOUS

\* The place in q of what RemoveAt leaves at place i.
Old(n, i) == IF i < n THEN i ELSE i + 1

LEMMA ConcatFacts ==
  ASSUME NEW S, NEW p \in Seq(S), NEW q \in Seq(S)
  PROVE  /\ p \o q \in Seq(S) /\ Len(p \o q) = Len(p) + Len(q)
         /\ \A i \in 1..(Len(p) + Len(q)) :
              (p \o q)[i] = IF i <= Len(p) THEN p[i] ELSE q[i - Len(p)]
  OBVIOUS

LEMMA RemoveAtFacts ==
  ASSUME NEW S, NEW q \in Seq(S), NEW n \in 1..Len(q)
  PROVE  /\ RemoveAt(q, n) \in Seq(S) /\ Len(RemoveAt(q, n)) = Len(q) - 1
         /\ \A i \in 1..(Len(q) - 1) : RemoveAt(q, n)[i] = q[Old(n, i)]
<1> DEFINE a == SubSeq(q, 1, n - 1)
           b == SubSeq(q, n + 1, Len(q))
<1>1. a \in Seq(S) /\ Len(a) = n - 1 /\ \A i \in 1..(n - 1) : a[i] = q[i]
  OBVIOUS
<1>2. b \in Seq(S) /\ Len(b) = Len(q) - n /\ \A i \in 1..(Len(q) - n) : b[i] = q[i + n]
  OBVIOUS
<1> HIDE DEF a, b
<1>3. /\ a \o b \in Seq(S) /\ Len(a \o b) = Len(a) + Len(b)
      /\ \A i \in 1..(Len(a) + Len(b)) :
           (a \o b)[i] = IF i <= Len(a) THEN a[i] ELSE b[i - Len(a)]
  BY <1>1, <1>2, ConcatFacts
<1>4. n \in Nat /\ Len(q) \in Nat /\ Len(a) + Len(b) = Len(q) - 1
  BY <1>1, <1>2
<1>5. \A i \in 1..(Len(q) - 1) : i < n => (a \o b)[i] = q[i]
  BY <1>1, <1>3, <1>4
<1>6. \A i \in 1..(Len(q) - 1) : i >= n => (a \o b)[i] = q[i + 1]
  <2> SUFFICES ASSUME NEW i \in 1..(Len(q) - 1), i >= n PROVE (a \o b)[i] = q[i + 1]
    OBVIOUS
  <2>1. i - (n - 1) \in 1..(Len(q) - n) /\ (i - (n - 1)) + n = i + 1
    BY <1>4
  <2>2. (a \o b)[i] = b[i - (n - 1)]
    BY <1>1, <1>3, <1>4
  <2> QED
    BY <1>2, <2>1, <2>2
<1>7. \A i \in 1..(Len(q) - 1) : (a \o b)[i] = q[Old(n, i)]
  BY <1>4, <1>5, <1>6 DEF Old
<1> QED
  BY <1>3, <1>4, <1>7 DEF RemoveAt, a, b

LEMMA OldFacts ==
  ASSUME NEW m \in Nat, NEW n \in 1..m
  PROVE  /\ \A i \in 1..(m - 1) : Old(n, i) \in 1..m /\ Old(n, i) # n
         /\ \A i, j \in 1..(m - 1) : i < j <=> Old(n, i) < Old(n, j)
         /\ \A k \in 1..m : k # n => \E i \in 1..(m - 1) : Old(n, i) = k
<1>1. \A i \in 1..(m - 1) : Old(n, i) \in 1..m /\ Old(n, i) # n
  BY DEF Old
<1>2. \A i, j \in 1..(m - 1) : i < j <=> Old(n, i) < Old(n, j)
  BY DEF Old
<1>3. ASSUME NEW k \in 1..m, k # n
      PROVE  \E i \in 1..(m - 1) : Old(n, i) = k
  <2>1. CASE k < n
    BY <1>3, <2>1 DEF Old
  <2>2. CASE k > n
    <3>1. k - 1 \in 1..(m - 1) /\ Old(n, k - 1) = k
      BY <2>2 DEF Old
    <3> QED
      BY <3>1
  <2> QED
    BY <1>3, <2>1, <2>2
<1> QED
  BY <1>1, <1>2, <1>3

LEMMA SuffixFacts ==
  ASSUME NEW S, NEW q \in Seq(S), NEW n \in 1..Len(q)
  PROVE  LET r == SubSeq(q, n + 1, Len(q))
         IN  /\ r \in Seq(S) /\ Len(r) = Len(q) - n
             /\ \A i \in 1..Len(r) : r[i] = q[i + n]
  OBVIOUS

-----------------------------------------------------------------------------
(* The entries of a service. *)

Entries(q, s) == {i \in 1..Len(q) : q[i].svc = s}

LEMMA EntriesFinite ==
  ASSUME NEW q \in Seq(Entry), NEW s
  PROVE  IsFiniteSet(Entries(q, s)) /\ Cardinality(Entries(q, s)) \in Nat
<1>1. IsFiniteSet(1..Len(q))
  BY FS_Interval
<1>2. IsFiniteSet(Entries(q, s))
  BY <1>1, FS_Subset DEF Entries
<1> QED
  BY <1>2, FS_CardinalityType

LEMMA EntriesAppend ==
  ASSUME NEW q \in Seq(Entry), NEW e \in Entry, NEW s
  PROVE  Cardinality(Entries(Append(q, e), s)) =
           Cardinality(Entries(q, s)) + (IF e.svc = s THEN 1 ELSE 0)
<1> DEFINE r == Append(q, e)
<1>1. /\ Len(r) = Len(q) + 1 /\ r[Len(q) + 1] = e /\ Len(q) \in Nat
      /\ \A i \in 1..Len(q) : r[i] = q[i]
  BY AppendFacts
<1> HIDE DEF r
<1>2. CASE e.svc = s
  <2>1. Entries(r, s) = Entries(q, s) \cup {Len(q) + 1}
    BY <1>1, <1>2 DEF Entries
  <2>2. Len(q) + 1 \notin Entries(q, s)
    BY <1>1 DEF Entries
  <2> QED
    BY <1>2, <2>1, <2>2, EntriesFinite, FS_AddElement DEF r
<1>3. CASE e.svc # s
  <2>1. Entries(r, s) = Entries(q, s)
    BY <1>1, <1>3 DEF Entries
  <2> QED
    BY <1>3, <2>1, EntriesFinite DEF r
<1> QED
  BY <1>2, <1>3

LEMMA EntriesRemove ==
  ASSUME NEW q \in Seq(Entry), NEW n \in 1..Len(q), NEW s
  PROVE  Cardinality(Entries(RemoveAt(q, n), s)) =
           Cardinality(Entries(q, s)) - (IF q[n].svc = s THEN 1 ELSE 0)
<1> DEFINE r == RemoveAt(q, n)
           f == [i \in Entries(r, s) |-> Old(n, i)]
<1>0. Len(q) \in Nat
  OBVIOUS
<1>1. /\ r \in Seq(Entry) /\ Len(r) = Len(q) - 1
      /\ \A i \in 1..(Len(q) - 1) : r[i] = q[Old(n, i)]
  BY RemoveAtFacts
<1>2. /\ \A i \in 1..(Len(q) - 1) : Old(n, i) \in 1..Len(q) /\ Old(n, i) # n
      /\ \A i, j \in 1..(Len(q) - 1) : i < j <=> Old(n, i) < Old(n, j)
      /\ \A k \in 1..Len(q) : k # n => \E i \in 1..(Len(q) - 1) : Old(n, i) = k
  BY <1>0, OldFacts
<1> HIDE DEF r
<1>3. f \in [Entries(r, s) -> Entries(q, s) \ {n}]
  BY <1>1, <1>2 DEF Entries
<1>4. \A i, j \in Entries(r, s) : f[i] = f[j] => i = j
  BY <1>1, <1>2 DEF Entries
<1>5. \A k \in Entries(q, s) \ {n} : \E i \in Entries(r, s) : f[i] = k
  BY <1>1, <1>2 DEF Entries
<1>6. ExistsBijection(Entries(r, s), Entries(q, s) \ {n})
  BY <1>3, <1>4, <1>5 DEF ExistsBijection, Bijection, Injection, Surjection, IsInjective
<1>7. Cardinality(Entries(r, s)) = Cardinality(Entries(q, s) \ {n})
  BY <1>1, <1>6, EntriesFinite, FS_Bijection
<1>8. n \in Entries(q, s) <=> q[n].svc = s
  BY DEF Entries
<1>9. /\ IsFiniteSet(Entries(q, s)) /\ Cardinality(Entries(q, s)) \in Nat
      /\ Cardinality(Entries(q, s) \ {n}) =
           IF n \in Entries(q, s) THEN Cardinality(Entries(q, s)) - 1
                                  ELSE Cardinality(Entries(q, s))
  BY EntriesFinite, FS_RemoveElement
<1> QED
  BY <1>7, <1>8, <1>9 DEF r

-----------------------------------------------------------------------------
(* The closes in a queue. *)

LEMMA ClosesAppend ==
  ASSUME NEW S, NEW q \in Seq(S), NEW e \in S, CloseOnce(q),
         e.op = "Close" => e.svc \notin Closes(q)
  PROVE  /\ CloseOnce(Append(q, e))
         /\ Closes(Append(q, e)) \subseteq Closes(q) \cup {x \in {e.svc} : e.op = "Close"}
<1> DEFINE r == Append(q, e)
<1>1. Len(q) \in Nat /\ Len(r) = Len(q) + 1
  OBVIOUS
<1>2. r[Len(q) + 1] = e /\ \A i \in 1..Len(q) : r[i] = q[i]
  BY AppendFacts
<1> HIDE DEF r
<1>3. \A i \in 1..Len(r) : i = Len(q) + 1 \/ i \in 1..Len(q)
  BY <1>1
<1>4. CloseOnce(r)
  BY <1>2, <1>3 DEF CloseOnce, Closes
<1>5. Closes(r) \subseteq Closes(q) \cup {x \in {e.svc} : e.op = "Close"}
  BY <1>2, <1>3 DEF Closes
<1> QED
  BY <1>4, <1>5 DEF r

LEMMA ClosesRemove ==
  ASSUME NEW S, NEW q \in Seq(S), NEW n \in 1..Len(q), CloseOnce(q)
  PROVE  /\ RemoveAt(q, n) \in Seq(S) /\ CloseOnce(RemoveAt(q, n))
         /\ Closes(RemoveAt(q, n)) \subseteq Closes(q)
         /\ q[n].op = "Close" => q[n].svc \in Closes(q) /\ q[n].svc \notin Closes(RemoveAt(q, n))
<1> DEFINE r == RemoveAt(q, n)
<1>0. Len(q) \in Nat
  OBVIOUS
<1>1. /\ r \in Seq(S) /\ Len(r) = Len(q) - 1
      /\ \A i \in 1..(Len(q) - 1) : r[i] = q[Old(n, i)]
  BY RemoveAtFacts
<1>2. /\ \A i \in 1..(Len(q) - 1) : Old(n, i) \in 1..Len(q) /\ Old(n, i) # n
      /\ \A i, j \in 1..(Len(q) - 1) : i < j <=> Old(n, i) < Old(n, j)
  BY <1>0, OldFacts
<1> HIDE DEF r
<1>3. \A i \in 1..Len(r) : r[i] = q[Old(n, i)] /\ Old(n, i) \in 1..Len(q) /\ Old(n, i) # n
  BY <1>1, <1>2
<1>4. \A i, j \in 1..Len(r) : Old(n, i) = Old(n, j) => i = j
  BY <1>0, <1>1, <1>2
<1>5. CloseOnce(r)
  BY <1>3, <1>4 DEF CloseOnce
<1>6. Closes(r) \subseteq Closes(q)
  BY <1>3 DEF Closes
<1>7. ASSUME q[n].op = "Close"
      PROVE  q[n].svc \in Closes(q) /\ q[n].svc \notin Closes(r)
  BY <1>3, <1>7 DEF Closes, CloseOnce
<1> QED
  BY <1>1, <1>5, <1>6, <1>7 DEF r

LEMMA ClosesSuffix ==
  ASSUME NEW S, NEW q \in Seq(S), NEW n \in 1..Len(q), CloseOnce(q)
  PROVE  LET r == SubSeq(q, n + 1, Len(q))
         IN  /\ r \in Seq(S) /\ CloseOnce(r) /\ Closes(r) \subseteq Closes(q)
             /\ Head(q) \in S
             /\ Head(q).op = "Close" => Head(q).svc \in Closes(q) /\ Head(q).svc \notin Closes(r)
<1> DEFINE r == SubSeq(q, n + 1, Len(q))
<1>1. Len(q) \in Nat /\ 1 \in 1..Len(q) /\ Head(q) = q[1] /\ q[1] \in S
  OBVIOUS
<1>2. r \in Seq(S) /\ Len(r) = Len(q) - n /\ \A i \in 1..Len(r) : r[i] = q[i + n]
  BY SuffixFacts
<1> HIDE DEF r
<1>3. \A i \in 1..Len(r) : i + n \in 1..Len(q) /\ i + n # 1
  BY <1>1, <1>2
<1>4. \A i, j \in 1..Len(r) : i + n = j + n => i = j
  BY <1>1, <1>2
<1>5. CloseOnce(r)
  BY <1>2, <1>3, <1>4 DEF CloseOnce
<1>6. Closes(r) \subseteq Closes(q)
  BY <1>2, <1>3 DEF Closes
<1>7. ASSUME q[1].op = "Close"
      PROVE  q[1].svc \in Closes(q) /\ q[1].svc \notin Closes(r)
  <2>1. q[1].svc \in Closes(q)
    BY <1>1, <1>7 DEF Closes
  <2>2. ASSUME NEW i \in 1..Len(r), r[i].op = "Close" PROVE r[i].svc # q[1].svc
    BY <1>1, <1>2, <1>3, <1>7, <2>2 DEF CloseOnce
  <2> QED
    BY <2>1, <2>2 DEF Closes
<1> QED
  BY <1>1, <1>2, <1>5, <1>6, <1>7 DEF r

-----------------------------------------------------------------------------
(* The initial states. *)

LEMMA InitIInv == Init => IInv
<1> SUFFICES ASSUME Init PROVE IInv
  OBVIOUS
<1> USE SpiServicesAssumption DEF Init
<1>1. TypeOK /\ toClient \in Seq(Call \cup Event)
  <2>1. registry \in Seq(Entry) /\ toServer \in Seq(Call) /\ toClient \in Seq(Call \cup Event)
    OBVIOUS
  <2>2. /\ call \in [Callers -> Call \cup {NoCall}]
        /\ cpc \in [Callers -> {"idle", "enter", "create", "send"}]
        /\ held \in [Services -> {"free", "opening", "open", "closing"}]
        /\ stale \in [Services -> Nat]
    OBVIOUS
  <2>3. calls \in 0..MaxCalls /\ events \in 0..MaxEvents
    OBVIOUS
  <2> QED
    BY <2>1, <2>2, <2>3 DEF TypeOK
<1>2. CallsMade /\ ErasingAt
  BY DEF CallsMade, Making, ErasingAt
<1>3. ClosesApart
  BY DEF ClosesApart, CloseOnce, Closes
<1>4. FirstRegistered(registry) /\ RegisteredHeld
  BY DEF FirstRegistered, Registered, RegisteredHeld
<1>5. EntriesAccounted
  <2>1. \A s \in Services : Positions(s) = {}
    BY DEF Positions
  <2>2. \A s \in Services : ~Pushed(s) /\ held[s] = "free" /\ stale[s] = 0 /\ erasing # s
    BY DEF Pushed
  <2> HIDE DEF Init
  <2>3. Cardinality({}) = 0
    BY FS_EmptySet
  <2> QED
    BY <2>1, <2>2, <2>3 DEF EntriesAccounted
<1> QED
  BY <1>1, <1>2, <1>3, <1>4, <1>5 DEF IInv

-----------------------------------------------------------------------------
(* What the functions of the registry do to it. *)

LEMMA FirstFacts ==
  ASSUME registry \in Seq(Entry), NEW s, Positions(s) # {}
  PROVE  First(s) \in Positions(s) /\ \A j \in Positions(s) : First(s) <= j
<1>1. Positions(s) \subseteq Nat
  BY DEF Positions
<1> DEFINE Less == {p \in Nat \X Nat : p[1] < p[2]}
<1>2. IsWellFoundedOn(Less, Nat)
  BY NatLessThanWellFounded DEF OpToRel
<1>3. PICK i \in Positions(s) : \A j \in Positions(s) : <<j, i>> \notin Less
  BY <1>1, <1>2, WFMin
<1>4. ASSUME NEW j \in Positions(s), j < i PROVE FALSE
  <2>1. j \in Nat /\ i \in Nat
    BY <1>1
  <2>2. <<j, i>> \in Nat \X Nat /\ <<j, i>>[1] = j /\ <<j, i>>[2] = i
    BY <2>1
  <2>3. <<j, i>> \in Less
    BY <1>4, <2>2, Zenon
  <2> QED
    BY <1>3, <2>3, Zenon
<1>5. \A j \in Positions(s) : i <= j
  BY <1>1, <1>4
<1> QED
  BY <1>5 DEF First

\* More(q, r, s, n): r has n entries of s more than q.
More(q, r, s, n) == Cardinality(Entries(r, s)) = Cardinality(Entries(q, s)) + n

LEMMA PushFacts ==
  ASSUME registry \in Seq(Entry), FirstRegistered(registry), NEW s \in Services, PushService(s)
  PROVE  /\ registry' \in Seq(Entry) /\ FirstRegistered(registry')
         /\ \A t \in Services : Registered(registry', t) => Registered(registry, t)
         /\ \A t \in Services : More(registry, registry', t, IF t = s THEN 1 ELSE 0)
<1> DEFINE e == [svc |-> s, cls |-> {}]
           q == registry
           r == registry'
<1>1. e \in Entry /\ e.svc = s /\ e.cls = {} /\ r = Append(q, e)
  BY DEF Entry, PushService
<1> HIDE DEF e
<1>2. /\ r \in Seq(Entry) /\ Len(r) = Len(q) + 1 /\ Len(q) \in Nat
      /\ r[Len(q) + 1] = e /\ \A i \in 1..Len(q) : r[i] = q[i]
  BY <1>1, AppendFacts
<1>3. \A t \in Services : More(q, r, t, IF t = s THEN 1 ELSE 0)
  BY <1>1, EntriesAppend DEF More
<1> HIDE DEF q, r
<1>4. \A i \in 1..Len(r) : i = Len(q) + 1 \/ i \in 1..Len(q)
  BY <1>2
<1>5. FirstRegistered(r)
  <2> SUFFICES ASSUME NEW i \in 1..Len(r), NEW j \in 1..Len(r), i < j, r[i].svc = r[j].svc
               PROVE  r[j].cls = {}
    BY DEF FirstRegistered
  <2>1. CASE j = Len(q) + 1
    BY <1>1, <1>2, <2>1
  <2>2. CASE j \in 1..Len(q)
    <3>1. i \in 1..Len(q) /\ r[i] = q[i] /\ r[j] = q[j]
      BY <1>2, <2>2
    <3> QED
      BY <2>2, <3>1 DEF FirstRegistered, q
  <2> QED
    BY <1>4, <2>1, <2>2
<1>6. \A t \in Services : Registered(r, t) => Registered(q, t)
  BY <1>1, <1>2, <1>4 DEF Registered
<1> QED
  BY <1>2, <1>3, <1>5, <1>6 DEF q, r

LEMMA WithClasses ==
  ASSUME NEW e \in Entry, NEW x
  PROVE  [e EXCEPT !.cls = x] = [svc |-> e.svc, cls |-> x]
  BY DEF Entry

LEMMA RegistrationFacts ==
  ASSUME registry \in Seq(Entry), FirstRegistered(registry), NEW s \in Services,
         Positions(s) # {}, NEW cls \in SUBSET Classes,
         RegisterEvent(s, cls) \/ DeregisterEvent(s, cls)
  PROVE  /\ registry' \in Seq(Entry) /\ FirstRegistered(registry')
         /\ \A t \in Services : Registered(registry', t) =>
              Registered(registry, t) \/ (t = s /\ RegisterEvent(s, cls))
         /\ \A t \in Services : More(registry, registry', t, 0)
<1> DEFINE q == registry
           r == registry'
           n == First(s)
<1>1. n \in 1..Len(q) /\ q[n].svc = s /\ \A i \in 1..Len(q) : q[i].svc = s => n <= i
  BY FirstFacts DEF Positions
<1>2. q[n] \in Entry /\ q[n].cls \in SUBSET Classes
  <2>1. q[n] \in Entry
    BY <1>1
  <2> QED
    BY <2>1 DEF Entry
<1>3. PICK new \in SUBSET Classes :
        /\ r = [q EXCEPT ![n] = [svc |-> s, cls |-> new]]
        /\ RegisterEvent(s, cls) \/ new \subseteq q[n].cls
  <2>1. CASE RegisterEvent(s, cls)
    <3>1. r = [q EXCEPT ![n] = [svc |-> s, cls |-> q[n].cls \cup cls]]
      BY <1>1, <1>2, <2>1, WithClasses DEF RegisterEvent
    <3> QED
      BY <1>2, <2>1, <3>1
  <2>2. CASE DeregisterEvent(s, cls)
    <3>1. r = [q EXCEPT ![n] = [svc |-> s, cls |-> q[n].cls \ cls]]
      BY <1>1, <1>2, <2>2, WithClasses DEF DeregisterEvent
    <3> QED
      BY <1>2, <2>2, <3>1
  <2> QED
    BY <2>1, <2>2
<1> DEFINE e == [svc |-> s, cls |-> new]
<1>4. e \in Entry /\ e.svc = s /\ e.cls = new
  BY DEF Entry
<1> HIDE DEF e, n
<1>5. /\ r \in Seq(Entry) /\ Len(r) = Len(q) /\ Len(q) \in Nat
      /\ r[n] = e /\ \A i \in 1..Len(q) : i # n => r[i] = q[i]
  BY <1>1, <1>3, <1>4 DEF e
<1> HIDE DEF q, r
<1>6. \A i \in 1..Len(q) : r[i].svc = q[i].svc
  BY <1>1, <1>4, <1>5
<1>7. FirstRegistered(r)
  <2> SUFFICES ASSUME NEW i \in 1..Len(q), NEW j \in 1..Len(q), i < j, q[i].svc = q[j].svc
               PROVE  r[j].cls = {}
    BY <1>5, <1>6 DEF FirstRegistered
  <2>1. j # n
    BY <1>1, <1>5
  <2>2. r[j] = q[j]
    BY <1>5, <2>1
  <2> QED
    BY <2>2 DEF FirstRegistered, q
<1>8. \A t \in Services : Registered(r, t) =>
        Registered(q, t) \/ (t = s /\ RegisterEvent(s, cls))
  <2> SUFFICES ASSUME NEW t \in Services, NEW i \in 1..Len(q), r[i].svc = t, r[i].cls # {}
               PROVE  Registered(q, t) \/ (t = s /\ RegisterEvent(s, cls))
    BY <1>5 DEF Registered
  <2>1. CASE i # n
    BY <1>5, <2>1 DEF Registered
  <2>2. CASE i = n
    BY <1>1, <1>3, <1>4, <1>5, <2>2 DEF Registered
  <2> QED
    BY <2>1, <2>2
<1>9. \A t \in Services : More(q, r, t, 0)
  <2> SUFFICES ASSUME NEW t \in Services PROVE More(q, r, t, 0)
    OBVIOUS
  <2>1. Entries(r, t) = Entries(q, t)
    BY <1>5, <1>6 DEF Entries
  <2>2. Cardinality(Entries(q, t)) \in Nat
    BY EntriesFinite DEF q
  <2> QED
    BY <2>1, <2>2 DEF More
<1> QED
  BY <1>5, <1>7, <1>8, <1>9 DEF q, r

LEMMA DeregisterFewer ==
  ASSUME registry \in Seq(Entry), NEW s \in Services, Positions(s) # {}, NEW cls \in SUBSET Classes,
         DeregisterEvent(s, cls), NEW t \in Services, Registered(registry', t)
  PROVE  Registered(registry, t)
<1> DEFINE n == First(s)
<1>1. n \in 1..Len(registry) /\ registry' = [registry EXCEPT ![n].cls = @ \ cls]
  BY FirstFacts DEF Positions, DeregisterEvent
<1>2. registry[n] \in Entry
  BY <1>1
<1> HIDE DEF n
<1>3. registry' = [registry EXCEPT ![n] = [svc |-> registry[n].svc, cls |-> registry[n].cls \ cls]]
  BY <1>1, <1>2, WithClasses
<1>4. PICK i \in 1..Len(registry') : registry'[i].svc = t /\ registry'[i].cls # {}
  BY DEF Registered
<1> DEFINE e == [svc |-> registry[n].svc, cls |-> registry[n].cls \ cls]
<1> HIDE DEF e
<1>5. /\ i \in 1..Len(registry)
      /\ i # n => registry'[i] = registry[i]
      /\ i = n => registry'[i] = e
  <2>1. registry' = [registry EXCEPT ![n] = e]
    BY <1>3 DEF e
  <2> QED
    BY <1>1, <2>1
<1>6. registry[i].svc = t /\ registry[i].cls # {}
  BY <1>4, <1>5 DEF e
<1> QED
  BY <1>5, <1>6 DEF Registered

LEMMA CloseFacts ==
  ASSUME registry \in Seq(Entry), FirstRegistered(registry), NEW s \in Services, CloseService(s)
  PROVE  /\ registry' \in Seq(Entry) /\ FirstRegistered(registry')
         /\ \A t \in Services : Registered(registry', t) => Registered(registry, t) /\ t # s
         /\ \A t \in Services :
              More(registry, registry', t, IF t = s /\ Positions(s) # {} THEN -1 ELSE 0)
<1> DEFINE q == registry
           r == registry'
           n == First(s)
<1>1. CASE Positions(s) = {}
  <2>1. r = q
    BY <1>1 DEF CloseService
  <2>2. ~Registered(q, s)
    BY <1>1 DEF Registered, Positions
  <2>3. \A t \in Services : Cardinality(Entries(q, t)) \in Nat
    BY EntriesFinite
  <2> HIDE DEF q, r
  <2>4. \A t \in Services : More(q, r, t, 0)
    BY <2>1, <2>3 DEF More
  <2> QED
    BY <1>1, <2>1, <2>2, <2>4 DEF q, r
<1>2. CASE Positions(s) # {}
  <2>1. n \in 1..Len(q) /\ q[n].svc = s /\ \A i \in 1..Len(q) : q[i].svc = s => n <= i
    BY <1>2, FirstFacts DEF Positions
  <2>2. r = RemoveAt(q, n) /\ Len(q) \in Nat
    BY <1>2 DEF CloseService
  <2> HIDE DEF n
  <2>3. /\ r \in Seq(Entry) /\ Len(r) = Len(q) - 1
        /\ \A i \in 1..(Len(q) - 1) : r[i] = q[Old(n, i)]
    BY <2>1, <2>2, RemoveAtFacts
  <2>4. /\ \A i \in 1..(Len(q) - 1) : Old(n, i) \in 1..Len(q) /\ Old(n, i) # n
        /\ \A i, j \in 1..(Len(q) - 1) : i < j <=> Old(n, i) < Old(n, j)
    BY <2>1, <2>2, OldFacts
  <2>5. \A t \in Services : More(q, r, t, IF t = s THEN -1 ELSE 0)
    <3> SUFFICES ASSUME NEW t \in Services PROVE More(q, r, t, IF t = s THEN -1 ELSE 0)
      OBVIOUS
    <3>1. Cardinality(Entries(r, t)) = Cardinality(Entries(q, t)) - (IF q[n].svc = t THEN 1 ELSE 0)
      BY <2>1, <2>2, EntriesRemove
    <3>2. Cardinality(Entries(q, t)) \in Nat
      BY EntriesFinite
    <3> QED
      BY <2>1, <3>1, <3>2 DEF More
  <2> HIDE DEF q, r
  <2>6. \A i \in 1..Len(r) : Old(n, i) \in 1..Len(q) /\ Old(n, i) # n /\ r[i] = q[Old(n, i)]
    BY <2>3, <2>4
  <2>7. FirstRegistered(r)
    <3> SUFFICES ASSUME NEW i \in 1..Len(r), NEW j \in 1..Len(r), i < j, r[i].svc = r[j].svc
                 PROVE  r[j].cls = {}
      BY DEF FirstRegistered
    <3>1. Old(n, i) < Old(n, j)
      BY <2>3, <2>4
    <3> QED
      BY <2>6, <3>1 DEF FirstRegistered, q
  <2>8. ASSUME NEW t \in Services, Registered(r, t)
        PROVE  Registered(q, t) /\ t # s
    <3>1. PICK i \in 1..Len(r) : r[i].svc = t /\ r[i].cls # {}
      BY <2>8 DEF Registered
    <3>2. Old(n, i) \in 1..Len(q) /\ q[Old(n, i)].svc = t /\ q[Old(n, i)].cls # {}
      BY <2>6, <3>1
    <3>3. ASSUME t = s PROVE FALSE
      <4>1. n < Old(n, i) /\ q[n].svc = q[Old(n, i)].svc
        BY <2>1, <2>2, <2>6, <3>2, <3>3
      <4> QED
        BY <2>1, <3>2, <4>1 DEF FirstRegistered, q
    <3> QED
      BY <3>2, <3>3 DEF Registered
  <2> QED
    BY <1>2, <2>3, <2>5, <2>7, <2>8 DEF q, r
<1> QED
  BY <1>1, <1>2

-----------------------------------------------------------------------------
(* What a call does to the callers and to the manager. *)

\* The entries that failed opens, open handles and opens that have pushed account for.
Due(s) == stale[s] + (IF held[s] \in {"open", "closing"} \/ Pushed(s) THEN 1 ELSE 0)

HeldStates == {"free", "opening", "open", "closing"}
Places == {"idle", "enter", "create", "send"}

LEMMA StayFacts ==
  ASSUME TypeOK, CallsMade, NEW c \in Callers, cpc[c] # "idle",
         NEW l \in {"create", "send"}, cpc' = [cpc EXCEPT ![c] = l], UNCHANGED <<call, held>>
  PROVE  /\ cpc' \in [Callers -> Places]
         /\ \A d \in Callers, op \in Ops, s \in Services : Making(d, op, s)' <=> Making(d, op, s)
         /\ CallsMade'
         /\ \A s \in Services : Pushed(s)' <=> Pushed(s) \/ Making(c, "Open", s)
<1>1. cpc \in [Callers -> Places] /\ cpc' \in [Callers -> Places]
  BY DEF TypeOK, Places
<1>2. \A d \in Callers : cpc'[d] = IF d = c THEN l ELSE cpc[d]
  BY <1>1
<1>3. \A d \in Callers : cpc'[d] # "idle" <=> cpc[d] # "idle"
  BY <1>2
<1>4. \A d \in Callers : \A op, s : Making(d, op, s)' <=> Making(d, op, s)
  BY <1>3 DEF Making
<1>5. CallsMade'
  BY <1>3, <1>4 DEF CallsMade
<1>6. \A s \in Services : Pushed(s)' <=> Pushed(s) \/ Making(c, "Open", s)
  BY <1>2 DEF Pushed, Making
<1> QED
  BY <1>1, <1>4, <1>5, <1>6

LEMMA ReturnFacts ==
  ASSUME TypeOK, CallsMade, NEW c \in Callers, cpc[c] # "idle", NEW ok \in BOOLEAN, Return(c, ok),
         cpc[c] = "enter" => call[c].op # "Open"
  PROVE  /\ mutex' = Nobody /\ cpc' \in [Callers -> Places]
         /\ call' \in [Callers -> Call \cup {NoCall}]
         /\ held' \in [Services -> HeldStates] /\ stale' \in [Services -> Nat]
         /\ \A d \in Callers, op \in Ops, s \in Services :
              Making(d, op, s)' => d # c /\ Making(d, op, s)
         /\ CallsMade'
         /\ \A s \in Services : held'[s] = held[s] \/ held[s] = "opening"
              \/ (Making(c, "Close", s) /\ held[s] = "closing" /\ held'[s] = "open")
         /\ \A s \in Services : Due(s)' = Due(s)
<1> DEFINE k == call[c]
<1>1. /\ k \in Call /\ k.svc \in Services /\ k.op \in Ops
      /\ cpc \in [Callers -> Places] /\ call \in [Callers -> Call \cup {NoCall}]
      /\ held \in [Services -> HeldStates] /\ stale \in [Services -> Nat]
  <2>1. k \in Call
    BY DEF CallsMade
  <2>2. k.svc \in Services /\ k.op \in Ops
    BY <2>1 DEF Call
  <2> QED
    BY <2>1, <2>2 DEF TypeOK, Places, HeldStates
<1>2. mutex' = Nobody /\ cpc' = [cpc EXCEPT ![c] = "idle"] /\ call' = [call EXCEPT ![c] = NoCall]
  BY DEF Return
<1>3. cpc' \in [Callers -> Places] /\ call' \in [Callers -> Call \cup {NoCall}]
  BY <1>1, <1>2 DEF Places
<1>4. \A d \in Callers : /\ d # c => cpc'[d] = cpc[d] /\ call'[d] = call[d]
                         /\ cpc'[c] = "idle"
  BY <1>1, <1>2
<1>5. \A d \in Callers : \A op, s : Making(d, op, s)' <=> d # c /\ Making(d, op, s)
  BY <1>4 DEF Making
<1>6. \/ Making(c, "Open", k.svc) /\ held' = [held EXCEPT ![k.svc] = "open"] /\ stale' = stale
      \/ /\ Making(c, "Open", k.svc) /\ held' = [held EXCEPT ![k.svc] = "free"]
         /\ stale' = [stale EXCEPT ![k.svc] = @ + 1]
      \/ Making(c, "Close", k.svc) /\ held' = [held EXCEPT ![k.svc] = "open"] /\ stale' = stale
      \/ k.op # "Open" /\ held' = held /\ stale' = stale
  BY <1>1 DEF Return, Making, mgrVars
<1> HIDE DEF k
<1>7. held' \in [Services -> HeldStates] /\ stale' \in [Services -> Nat]
  <2>1. CASE stale' = [stale EXCEPT ![k.svc] = @ + 1] /\ held' = [held EXCEPT ![k.svc] = "free"]
    BY <1>1, <2>1 DEF HeldStates
  <2>2. CASE stale' = stale /\ held' \in {held, [held EXCEPT ![k.svc] = "open"]}
    BY <1>1, <2>2 DEF HeldStates
  <2> QED
    BY <1>6, <2>1, <2>2
<1>8. /\ Making(c, "Open", k.svc) => held[k.svc] = "opening"
      /\ Making(c, "Close", k.svc) => held[k.svc] = "closing"
  BY <1>1 DEF CallsMade
<1>9. \A s \in Services : held'[s] = held[s] \/ held[s] = "opening"
              \/ (Making(c, "Close", s) /\ held[s] = "closing" /\ held'[s] = "open")
  BY <1>1, <1>6, <1>8
<1>10. \A d \in Callers, s \in Services :
         /\ Making(d, "Open", s)' => held'[s] = held[s]
         /\ Making(d, "Close", s)' => held'[s] = held[s]
  <2> SUFFICES ASSUME NEW d \in Callers, NEW s \in Services, d # c,
                      Making(d, "Open", s) \/ Making(d, "Close", s)
               PROVE  held'[s] = held[s]
    BY <1>5
  <2>1. CASE s # k.svc
    BY <1>1, <1>6, <2>1
  <2>2. CASE s = k.svc
    BY <1>6, <1>8, <2>2 DEF CallsMade
  <2> QED
    BY <2>1, <2>2
<1>11. CallsMade'
  BY <1>4, <1>5, <1>10 DEF CallsMade
<1>12. \A s \in Services : Pushed(s) <=> \E d \in Callers : Making(d, "Open", s) /\ cpc[d] \in {"create", "send"}
  BY DEF Pushed, Making
<1>13. \A s \in Services :
         Pushed(s)' <=> \E d \in Callers : d # c /\ Making(d, "Open", s) /\ cpc[d] \in {"create", "send"}
  BY <1>4, <1>5 DEF Pushed, Making
<1>14. ASSUME NEW s \in Services
       PROVE  Due(s)' = Due(s)
  <2>1. CASE Making(c, "Open", s)
    <3>1. s = k.svc /\ k.op = "Open" /\ cpc[c] \in {"create", "send"}
      BY <1>1, <2>1 DEF Making, k, Places
    <3>2. Pushed(s) /\ held[s] = "opening"
      BY <1>8, <1>12, <2>1, <3>1
    <3>3. ~Pushed(s)'
      BY <1>13, <2>1 DEF CallsMade
    <3>4. stale[s] \in Nat
      BY <1>1
    <3>5. \/ held'[s] = "open" /\ stale'[s] = stale[s]
          \/ held'[s] = "free" /\ stale'[s] = stale[s] + 1
      BY <1>1, <1>6, <1>8, <3>1, <3>2 DEF HeldStates
    <3> QED
      BY <3>2, <3>3, <3>4, <3>5 DEF Due
  <2>2. CASE ~Making(c, "Open", s)
    <3>1. Pushed(s)' <=> Pushed(s)
      BY <1>12, <1>13, <2>2
    <3>2. stale'[s] = stale[s]
      BY <1>1, <1>6, <2>2
    <3>3. held'[s] \in {"open", "closing"} <=> held[s] \in {"open", "closing"}
      BY <1>1, <1>6, <1>8, <2>2
    <3> QED
      BY <3>1, <3>2, <3>3 DEF Due
  <2> QED
    BY <2>1, <2>2
<1> QED
  BY <1>2, <1>3, <1>5, <1>7, <1>9, <1>11, <1>14

\* Closes that are left in a queue stay closes of handles that are being closed.
LEMMA ClosesKept ==
  ASSUME ClosesApart, CloseOnce(toServer'), CloseOnce(toClient'),
         Closes(toServer') \subseteq Closes(toServer), Closes(toClient') \subseteq Closes(toClient),
         \A s \in Closes(toServer') \cup Closes(toClient') :
           /\ held'[s] = held[s]
           /\ \A c \in Callers : Making(c, "Close", s)' => Making(c, "Close", s)
  PROVE  ClosesApart'
  BY DEF ClosesApart

LEMMA ClosesServices ==
  ASSUME TypeOK, toClient \in Seq(Call \cup Event)
  PROVE  Closes(toServer) \cup Closes(toClient) \subseteq Services
<1>1. ASSUME NEW i \in 1..Len(toServer) PROVE toServer[i].svc \in Services
  <2>1. toServer[i] \in Call
    BY DEF TypeOK
  <2> QED
    BY <2>1 DEF Call
<1>2. ASSUME NEW i \in 1..Len(toClient), toClient[i].op = "Close" PROVE toClient[i].svc \in Services
  <2>1. toClient[i] \in Call \cup Event
    OBVIOUS
  <2> QED
    BY <1>2, <2>1 DEF Call, Event
<1> QED
  BY <1>1, <1>2 DEF Closes

LEMMA Accounted ==
  /\ EntriesAccounted <=>
       \A s \in Services :
         Cardinality(Entries(registry, s)) = Due(s) + (IF erasing = s THEN 1 ELSE 0)
  /\ EntriesAccounted' <=>
       \A s \in Services :
         Cardinality(Entries(registry', s)) = Due(s)' + (IF erasing' = s THEN 1 ELSE 0)
  BY DEF EntriesAccounted, Positions, Entries, Due

LEMMA DueType ==
  ASSUME TypeOK, NEW s \in Services
  PROVE  Due(s) \in Nat
  BY DEF TypeOK, Due

-----------------------------------------------------------------------------
(* The steps.  One lemma per action. *)

LEMMA MakeCallStep ==
  ASSUME IInv, NEW c \in Callers, NEW op \in Ops, NEW s \in Services, NEW cls \in ClassesOf(op),
         MakeCall(c, op, s, cls)
  PROVE  IInv'
<1> USE SpiServicesAssumption
<1> DEFINE k == [id |-> calls + 1, op |-> op, svc |-> s, cls |-> cls]
<1>1. /\ TypeOK /\ toClient \in Seq(Call \cup Event) /\ CallsMade /\ ClosesApart
      /\ cpc \in [Callers -> Places] /\ call \in [Callers -> Call \cup {NoCall}]
      /\ held \in [Services -> HeldStates]
  BY DEF IInv, TypeOK, Places, HeldStates
<1>2. /\ cpc[c] = "idle" /\ calls < MaxCalls /\ calls' = calls + 1
      /\ call' = [call EXCEPT ![c] = k] /\ cpc' = [cpc EXCEPT ![c] = "enter"]
      /\ UNCHANGED <<mutex, registry, link, toServer, toClient, wpc, erasing, stale, late, events>>
  BY DEF MakeCall, linkVars, workVars
<1>3. \/ op = "Open" /\ held[s] = "free" /\ held' = [held EXCEPT ![s] = "opening"]
      \/ op = "Close" /\ held[s] = "open" /\ held' = [held EXCEPT ![s] = "closing"]
      \/ op \notin {"Open", "Close"} /\ held' = held
  BY DEF MakeCall
<1>4. k \in Call /\ k.op = op /\ k.svc = s
  <2>1. cls \in SUBSET Classes
    BY DEF ClassesOf
  <2>2. calls + 1 \in 1..MaxCalls
    BY <1>1, <1>2 DEF TypeOK
  <2> QED
    BY <2>1, <2>2 DEF Call
<1> HIDE DEF k
<1>5. /\ cpc' \in [Callers -> Places] /\ call' \in [Callers -> Call \cup {NoCall}]
      /\ held' \in [Services -> HeldStates]
  <2>1. cpc' \in [Callers -> Places]
    BY <1>1, <1>2 DEF Places
  <2>2. call' \in [Callers -> Call \cup {NoCall}]
    BY <1>1, <1>2, <1>4
  <2>3. held' \in [Services -> HeldStates]
    BY <1>1, <1>3 DEF HeldStates
  <2> QED
    BY <2>1, <2>2, <2>3
<1>6. TypeOK' /\ toClient' \in Seq(Call \cup Event)
  <2>1. calls' \in 0..MaxCalls
    BY <1>1, <1>2 DEF TypeOK
  <2> QED
    BY <1>1, <1>2, <1>5, <2>1 DEF TypeOK, Places, HeldStates
<1>7. \A d \in Callers : cpc'[d] = (IF d = c THEN "enter" ELSE cpc[d])
                         /\ call'[d] = (IF d = c THEN k ELSE call[d])
  BY <1>1, <1>2
<1>8. \A d \in Callers : \A o, t : Making(d, o, t)' <=> IF d = c THEN o = op /\ t = s ELSE Making(d, o, t)
  BY <1>4, <1>7 DEF Making
<1>9. /\ \A t \in Services : held'[t] = IF t = s THEN held'[s] ELSE held[t]
      /\ op = "Open" => held[s] = "free" /\ held'[s] = "opening"
      /\ op = "Close" => held[s] = "open" /\ held'[s] = "closing"
      /\ op \notin {"Open", "Close"} => held' = held
  BY <1>1, <1>3
<1>10. CallsMade'
  <2>1. \A d \in Callers : cpc'[d] # "idle" => call'[d] \in Call
    BY <1>1, <1>4, <1>7 DEF CallsMade
  <2>2. \A d \in Callers, t \in Services :
          /\ Making(d, "Open", t)' => held'[t] = "opening"
          /\ Making(d, "Close", t)' => held'[t] = "closing"
    BY <1>1, <1>8, <1>9 DEF CallsMade
  <2>3. \A d, e \in Callers, t \in Services :
          /\ Making(d, "Open", t)' /\ Making(e, "Open", t)' => d = e
          /\ Making(d, "Close", t)' /\ Making(e, "Close", t)' => d = e
    BY <1>1, <1>8, <1>9 DEF CallsMade
  <2> QED
    BY <2>1, <2>2, <2>3 DEF CallsMade
<1>11. ClosesApart'
  <2>1. ASSUME NEW t \in Closes(toServer) \cup Closes(toClient)
        PROVE  held'[t] = held[t] /\ \A d \in Callers : Making(d, "Close", t)' => Making(d, "Close", t)
    <3>1. t \in Services /\ held[t] = "closing"
      BY <1>1, ClosesServices DEF ClosesApart
    <3> QED
      BY <1>8, <1>9, <3>1
  <2> QED
    BY <1>1, <1>2, <2>1, ClosesKept DEF ClosesApart
<1>12. ErasingAt' /\ FirstRegistered(registry)'
  BY <1>2 DEF IInv, ErasingAt
<1>13. RegisteredHeld'
  BY <1>2, <1>9 DEF IInv, RegisteredHeld
<1>14. EntriesAccounted'
  <2>1. \A t \in Services : Pushed(t)' <=> Pushed(t)
    BY <1>2, <1>7 DEF Pushed
  <2>2. \A t \in Services : held'[t] \in {"open", "closing"} <=> held[t] \in {"open", "closing"}
    BY <1>9
  <2>3. \A t \in Services : Due(t)' = Due(t)
    BY <1>2, <2>1, <2>2 DEF Due
  <2>4. EntriesAccounted
    BY DEF IInv
  <2> QED
    BY <1>2, <2>3, <2>4, Accounted
<1> QED
  BY <1>6, <1>10, <1>11, <1>12, <1>13, <1>14 DEF IInv

\* A call that returns, whatever it has sent.
LEMMA ReturnStep ==
  ASSUME IInv, NEW c \in Callers, cpc[c] # "idle", NEW ok \in BOOLEAN, Return(c, ok),
         cpc[c] = "enter" => call[c].op # "Open",
         toServer' \in Seq(Call), link' \in {"none", "connecting", "up", "broken"},
         late \subseteq late', late' \subseteq Services,
         UNCHANGED <<calls, registry, toClient, wpc, erasing, events>>
  PROVE  /\ TypeOK' /\ toClient' \in Seq(Call \cup Event) /\ CallsMade' /\ ErasingAt'
         /\ FirstRegistered(registry)' /\ RegisteredHeld' /\ EntriesAccounted'
         /\ UNCHANGED toServer => ClosesApart'
<1>1. /\ TypeOK /\ toClient \in Seq(Call \cup Event) /\ CallsMade /\ ClosesApart
      /\ RegisteredHeld /\ EntriesAccounted
  BY DEF IInv
<1>2. /\ mutex' = Nobody /\ cpc' \in [Callers -> Places]
      /\ call' \in [Callers -> Call \cup {NoCall}]
      /\ held' \in [Services -> HeldStates] /\ stale' \in [Services -> Nat]
      /\ \A d \in Callers, op \in Ops, s \in Services :
           Making(d, op, s)' => d # c /\ Making(d, op, s)
      /\ CallsMade'
      /\ \A s \in Services : held'[s] = held[s] \/ held[s] = "opening"
           \/ (Making(c, "Close", s) /\ held[s] = "closing" /\ held'[s] = "open")
      /\ \A s \in Services : Due(s)' = Due(s)
  BY <1>1, ReturnFacts
<1>3. TypeOK'
  BY <1>1, <1>2 DEF TypeOK, Places, HeldStates
<1>4. RegisteredHeld'
  BY <1>1, <1>2 DEF RegisteredHeld
<1>5. EntriesAccounted'
  BY <1>1, <1>2, Accounted
<1>6. ASSUME UNCHANGED toServer
      PROVE  ClosesApart'
  <2>1. ASSUME NEW s \in Closes(toServer) \cup Closes(toClient)
        PROVE  held'[s] = held[s] /\ \A d \in Callers : Making(d, "Close", s)' => Making(d, "Close", s)
    <3>1. s \in Services /\ held[s] = "closing" /\ ~Making(c, "Close", s) /\ "Close" \in Ops
      BY <1>1, ClosesServices DEF ClosesApart, Ops
    <3> QED
      BY <1>2, <3>1
  <2> QED
    BY <1>1, <1>6, <2>1, ClosesKept DEF ClosesApart
<1>7. ErasingAt' /\ FirstRegistered(registry)'
  BY DEF IInv, ErasingAt
<1> QED
  BY <1>1, <1>2, <1>3, <1>4, <1>5, <1>6, <1>7

\* A call that goes on, with what it does to the registry.
LEMMA StayStep ==
  ASSUME IInv, NEW c \in Callers, cpc[c] # "idle", NEW l \in {"create", "send"},
         cpc' = [cpc EXCEPT ![c] = l], UNCHANGED <<call, held, stale>>,
         mutex' \in Callers \cup {Nobody},
         link' \in {"none", "connecting", "up", "broken"},
         registry' \in Seq(Entry), FirstRegistered(registry'),
         late \subseteq late', late' \subseteq Services,
         \A s \in Services : Registered(registry', s) =>
           Registered(registry, s) \/ held[s] \in {"open", "closing"} \/ s \in late',
         \A s \in Services :
           More(registry, registry', s, IF Making(c, "Open", s) /\ ~Pushed(s) THEN 1 ELSE 0),
         UNCHANGED <<calls, toServer, toClient, wpc, erasing, events>>
  PROVE  IInv'
<1>1. /\ TypeOK /\ toClient \in Seq(Call \cup Event) /\ CallsMade /\ ClosesApart
      /\ RegisteredHeld /\ EntriesAccounted
  BY DEF IInv
<1>2. /\ cpc' \in [Callers -> Places]
      /\ \A d \in Callers, op \in Ops, s \in Services : Making(d, op, s)' <=> Making(d, op, s)
      /\ CallsMade'
      /\ \A s \in Services : Pushed(s)' <=> Pushed(s) \/ Making(c, "Open", s)
  BY <1>1, StayFacts
<1>3. TypeOK'
  BY <1>1, <1>2 DEF TypeOK, Places
<1>4. RegisteredHeld'
  BY <1>1 DEF RegisteredHeld
<1>5. EntriesAccounted'
  <2>1. ASSUME NEW s \in Services
        PROVE  Due(s)' = Due(s) + (IF Making(c, "Open", s) /\ ~Pushed(s) THEN 1 ELSE 0)
    <3>1. Making(c, "Open", s) => held[s] = "opening"
      BY <1>1 DEF CallsMade
    <3>2. stale[s] \in Nat
      BY <1>1 DEF TypeOK
    <3> QED
      BY <1>2, <3>1, <3>2 DEF Due
  <2>2. ASSUME NEW s \in Services
        PROVE  Cardinality(Entries(registry', s)) = Due(s)' + (IF erasing' = s THEN 1 ELSE 0)
    <3>1. Cardinality(Entries(registry, s)) = Due(s) + (IF erasing = s THEN 1 ELSE 0)
      BY <1>1, Accounted
    <3>2. Due(s) \in Nat
      BY <1>1, DueType
    <3> QED
      BY <2>1, <3>1, <3>2 DEF More
  <2> QED
    BY <2>2, Accounted
<1>6. ClosesApart'
  <2>1. ASSUME NEW s \in Closes(toServer) \cup Closes(toClient)
        PROVE  held'[s] = held[s] /\ \A d \in Callers : Making(d, "Close", s)' => Making(d, "Close", s)
    <3>1. s \in Services /\ "Close" \in Ops
      BY <1>1, ClosesServices DEF Ops
    <3> QED
      BY <1>2, <3>1
  <2> QED
    BY <1>1, <2>1, ClosesKept DEF ClosesApart
<1>7. ErasingAt'
  BY DEF IInv, ErasingAt
<1> QED
  BY <1>1, <1>2, <1>3, <1>4, <1>5, <1>6, <1>7 DEF IInv

LEMMA EnterStep ==
  ASSUME IInv, NEW c \in Callers, Enter(c)
  PROVE  IInv'
<1> DEFINE k == call[c]
<1>1. /\ TypeOK /\ CallsMade /\ registry \in Seq(Entry) /\ FirstRegistered(registry)
      /\ late \subseteq Services /\ link \in {"none", "connecting", "up", "broken"}
      /\ toServer \in Seq(Call)
  BY DEF IInv, TypeOK
<1>2. cpc[c] = "enter" /\ UNCHANGED <<calls, link, toServer, toClient, wpc, erasing, events>>
  BY DEF Enter, linkVars, workVars
<1>3. k \in Call /\ k.svc \in Services /\ k.cls \in SUBSET Classes /\ k.op \in Ops
  <2>1. k \in Call
    BY <1>1, <1>2 DEF CallsMade
  <2> QED
    BY <2>1 DEF Call
<1>4. late' = IF k.op = "Register" /\ held[k.svc] \in {"free", "opening"}
                 THEN late \cup {k.svc} ELSE late
  BY DEF Enter
<1>5. late \subseteq late' /\ late' \subseteq Services
  BY <1>1, <1>3, <1>4
<1>6. CASE /\ k.op # "Open"
           /\ Return(c, Positions(k.svc) # {}) /\ UNCHANGED registry
  BY <1>1, <1>2, <1>5, <1>6, ReturnStep DEF IInv
<1>7. CASE /\ k.op # "Open" => Positions(k.svc) # {}
           /\ mutex' = c
           /\ cpc' = [cpc EXCEPT ![c] = IF k.op = "Open" THEN "create" ELSE "send"]
           /\ CASE k.op = "Open"       -> PushService(k.svc)
                [] k.op = "Register"   -> RegisterEvent(k.svc, k.cls)
                [] k.op = "Deregister" -> DeregisterEvent(k.svc, k.cls)
                [] OTHER               -> UNCHANGED registry
           /\ UNCHANGED <<call, mgrVars>>
  <2> DEFINE l == IF k.op = "Open" THEN "create" ELSE "send"
  <2>1. /\ l \in {"create", "send"} /\ cpc' = [cpc EXCEPT ![c] = l] /\ mutex' \in Callers \cup {Nobody}
        /\ UNCHANGED <<call, held, stale>>
    BY <1>7 DEF mgrVars
  <2> HIDE DEF l
  <2>2. \A s \in Services : Making(c, "Open", s) <=> k.op = "Open" /\ s = k.svc
    BY <1>2 DEF Making
  <2>3. \A s \in Services : Making(c, "Open", s) => ~Pushed(s)
    BY <1>1, <1>2 DEF CallsMade, Pushed, Making
  <2>4. /\ registry' \in Seq(Entry) /\ FirstRegistered(registry')
        /\ \A s \in Services : Registered(registry', s) =>
             Registered(registry, s) \/ held[s] \in {"open", "closing"} \/ s \in late'
        /\ \A s \in Services :
             More(registry, registry', s, IF k.op = "Open" /\ s = k.svc THEN 1 ELSE 0)
    <3>1. CASE k.op = "Open"
      <4>1. PushService(k.svc)
        BY <1>7, <3>1
      <4> HIDE DEF k
      <4> QED
        BY <1>1, <1>3, <3>1, <4>1, PushFacts
    <3>2. CASE k.op \in {"Register", "Deregister"}
      <4>1. /\ Positions(k.svc) # {}
            /\ RegisterEvent(k.svc, k.cls) \/ DeregisterEvent(k.svc, k.cls)
            /\ k.op # "Register" => DeregisterEvent(k.svc, k.cls)
        BY <1>7, <3>2
      <4>2. held[k.svc] \in HeldStates
        BY <1>1, <1>3 DEF TypeOK, HeldStates
      <4>3. k.op = "Register" => held[k.svc] \in {"open", "closing"} \/ k.svc \in late'
        BY <1>4, <4>2 DEF HeldStates
      <4>4. /\ registry' \in Seq(Entry) /\ FirstRegistered(registry')
            /\ \A s \in Services : More(registry, registry', s, 0)
        BY <1>1, <1>3, <4>1, RegistrationFacts
      <4>5. k.op = "Register" => \A s \in Services :
              Registered(registry', s) => Registered(registry, s) \/ s = k.svc
        BY <1>1, <1>3, <4>1, RegistrationFacts
      <4>6. k.op = "Deregister" => \A s \in Services :
              Registered(registry', s) => Registered(registry, s)
        <5> SUFFICES ASSUME k.op = "Deregister", NEW s \in Services, Registered(registry', s)
                     PROVE  Registered(registry, s)
          OBVIOUS
        <5>1. DeregisterEvent(k.svc, k.cls) /\ registry' = [registry EXCEPT ![First(k.svc)].cls = @ \ k.cls]
          BY <1>7 DEF DeregisterEvent
        <5> QED
          BY <1>1, <1>3, <4>1, <5>1, DeregisterFewer
      <4> HIDE DEF k
      <4> QED
        BY <3>2, <4>3, <4>4, <4>5, <4>6
    <3>3. CASE k.op \notin {"Open", "Register", "Deregister"}
      <4>1. registry' = registry
        BY <1>7, <3>3
      <4>2. \A s \in Services : More(registry, registry', s, 0)
        BY <1>1, <4>1, EntriesFinite DEF More
      <4> QED
        BY <1>1, <3>3, <4>1, <4>2
    <3> QED
      BY <3>1, <3>2, <3>3
  <2>5. \A s \in Services :
          More(registry, registry', s, IF Making(c, "Open", s) /\ ~Pushed(s) THEN 1 ELSE 0)
    BY <2>2, <2>3, <2>4
  <2> HIDE DEF k
  <2> QED
    BY <1>1, <1>2, <1>5, <2>1, <2>4, <2>5, StayStep
<1> QED
  BY <1>6, <1>7 DEF Enter

LEMMA CreateStep ==
  ASSUME IInv, NEW c \in Callers, Create(c)
  PROVE  IInv'
<1>1. /\ TypeOK /\ CallsMade /\ registry \in Seq(Entry) /\ FirstRegistered(registry)
      /\ late \subseteq Services /\ toServer \in Seq(Call) /\ mutex \in Callers \cup {Nobody}
      /\ link \in {"none", "connecting", "up", "broken"}
  BY DEF IInv, TypeOK
<1>2. /\ cpc[c] = "create"
      /\ UNCHANGED <<calls, registry, toServer, toClient, wpc, erasing, late, events>>
      /\ link' \in {"none", "connecting", "up", "broken"}
  BY <1>1 DEF Create, workVars
<1>3. CASE Return(c, TRUE)
  BY <1>1, <1>2, <1>3, ReturnStep DEF IInv
<1>4. CASE cpc' = [cpc EXCEPT ![c] = "send"] /\ UNCHANGED <<mutex, call, mgrVars>>
  <2>1. \A s \in Services : Making(c, "Open", s) => Pushed(s)
    BY <1>2 DEF Making, Pushed
  <2>2. \A s \in Services : More(registry, registry', s, 0)
    BY <1>1, <1>2, EntriesFinite DEF More
  <2>3. \A s \in Services :
          More(registry, registry', s, IF Making(c, "Open", s) /\ ~Pushed(s) THEN 1 ELSE 0)
    BY <2>1, <2>2
  <2>4. UNCHANGED <<call, held, stale>> /\ mutex' \in Callers \cup {Nobody}
    BY <1>1, <1>4 DEF mgrVars
  <2> QED
    BY <1>1, <1>2, <1>4, <2>3, <2>4, StayStep
<1> QED
  BY <1>3, <1>4 DEF Create

\* The close that is sent was with its caller, who has returned.
LEMMA SendStep ==
  ASSUME IInv, NEW c \in Callers, Send(c)
  PROVE  IInv'
<1> DEFINE k == call[c]
<1>1. /\ TypeOK /\ toClient \in Seq(Call \cup Event) /\ CallsMade /\ ClosesApart
      /\ late \subseteq Services /\ toServer \in Seq(Call)
      /\ link \in {"none", "connecting", "up", "broken"}
  BY DEF IInv, TypeOK
<1>2. /\ cpc[c] = "send" /\ Return(c, link # "none")
      /\ UNCHANGED <<calls, registry, link, toClient, wpc, erasing, late, events>>
      /\ toServer' = IF link = "up" THEN Append(toServer, k) ELSE toServer
  BY DEF Send, workVars
<1>3. k \in Call /\ k.svc \in Services
  <2>1. k \in Call
    BY <1>1, <1>2 DEF CallsMade
  <2> QED
    BY <2>1 DEF Call
<1>4. toServer' \in Seq(Call)
  BY <1>1, <1>2, <1>3, AppendFacts
<1>5. /\ TypeOK' /\ toClient' \in Seq(Call \cup Event) /\ CallsMade' /\ ErasingAt'
      /\ FirstRegistered(registry)' /\ RegisteredHeld' /\ EntriesAccounted'
      /\ UNCHANGED toServer => ClosesApart'
  BY <1>1, <1>2, <1>4, ReturnStep
<1>6. CASE link = "up"
  <2>1. /\ \A d \in Callers, s \in Services : Making(d, "Close", s)' => d # c /\ Making(d, "Close", s)
        /\ \A s \in Services : held'[s] = held[s] \/ held[s] = "opening"
             \/ (Making(c, "Close", s) /\ held[s] = "closing" /\ held'[s] = "open")
    <3>1. (link # "none") \in BOOLEAN /\ "Close" \in Ops /\ cpc[c] # "idle"
      BY <1>2 DEF Ops
    <3> QED
      BY <1>1, <1>2, <3>1, ReturnFacts
  <2>2. k.op = "Close" => /\ Making(c, "Close", k.svc) /\ held[k.svc] = "closing"
                          /\ held' = held
                          /\ k.svc \notin Closes(toServer) \cup Closes(toClient)
    <3>1. k.op = "Close" => Making(c, "Close", k.svc)
      BY <1>2 DEF Making
    <3>2. k.op = "Close" => held' = held
      BY <1>2, <1>6 DEF Return, mgrVars
    <3> QED
      BY <1>1, <1>3, <3>1, <3>2 DEF CallsMade, ClosesApart
  <2>3. \A s \in Services : Making(c, "Close", s) => k.op = "Close" /\ s = k.svc
    BY DEF Making
  <2> HIDE DEF k
  <2>4. /\ CloseOnce(toServer')
        /\ Closes(toServer') \subseteq Closes(toServer) \cup {x \in {k.svc} : k.op = "Close"}
    BY <1>1, <1>2, <1>3, <1>6, <2>2, ClosesAppend DEF ClosesApart
  <2>5. Closes(toClient') = Closes(toClient) /\ CloseOnce(toClient')
    BY <1>1, <1>2 DEF ClosesApart
  <2>6. Closes(toServer') \cap Closes(toClient') = {}
    BY <1>1, <2>2, <2>4, <2>5 DEF ClosesApart
  <2>7. ASSUME NEW s \in Closes(toServer') \cup Closes(toClient')
        PROVE  held'[s] = "closing" /\ \A d \in Callers : ~Making(d, "Close", s)'
    <3>1. CASE s \in Closes(toServer) \cup Closes(toClient)
      <4>1. s \in Services /\ held[s] = "closing" /\ \A d \in Callers : ~Making(d, "Close", s)
        BY <1>1, <3>1, ClosesServices DEF ClosesApart
      <4> QED
        BY <2>1, <4>1
    <3>2. CASE s = k.svc /\ k.op = "Close"
      BY <1>1, <1>3, <2>1, <2>2, <3>2 DEF CallsMade
    <3> QED
      BY <2>4, <2>5, <2>7, <3>1, <3>2
  <2> QED
    BY <1>5, <2>4, <2>5, <2>6, <2>7 DEF IInv, ClosesApart
<1>7. CASE link # "up"
  BY <1>2, <1>5, <1>7 DEF IInv
<1> QED
  BY <1>6, <1>7

\* A step of the connection: the queues alone change, and only the closes in them
\* matter.
LEMMA QueueStep ==
  ASSUME IInv, toServer' \in Seq(Call), toClient' \in Seq(Call \cup Event),
         link' \in {"none", "connecting", "up", "broken"}, events' \in 0..MaxEvents,
         CloseOnce(toServer'), CloseOnce(toClient'),
         Closes(toServer') \cap Closes(toClient') = {},
         Closes(toServer') \cup Closes(toClient') \subseteq Closes(toServer) \cup Closes(toClient),
         UNCHANGED <<mutex, call, cpc, calls, registry, wpc, erasing, held, stale, late>>
  PROVE  IInv'
<1>1. TypeOK'
  BY DEF IInv, TypeOK
<1>2. CallsMade' /\ ErasingAt' /\ FirstRegistered(registry)' /\ RegisteredHeld'
  BY DEF IInv, CallsMade, Making, ErasingAt, RegisteredHeld
<1>3. EntriesAccounted'
  BY DEF IInv, EntriesAccounted, Positions, Pushed
<1>4. ClosesApart'
  BY DEF IInv, ClosesApart, Making
<1> QED
  BY <1>1, <1>2, <1>3, <1>4 DEF IInv

LEMMA ConnectionStep ==
  ASSUME IInv, Connected \/ Break \/ Eof
  PROVE  IInv'
<1>1. /\ toServer \in Seq(Call) /\ toClient \in Seq(Call \cup Event) /\ events \in 0..MaxEvents
      /\ ClosesApart
  BY DEF IInv, TypeOK
<1>2. /\ toServer' = toServer \/ toServer' = <<>>
      /\ link' \in {"none", "connecting", "up", "broken"}
      /\ UNCHANGED <<mutex, call, cpc, calls, registry, toClient, wpc, erasing, held, stale, late,
                     events>>
  BY DEF Connected, Break, Eof, callVars, workVars, mgrVars
<1>3. <<>> \in Seq(Call) /\ CloseOnce(<<>>) /\ Closes(<<>>) = {}
  BY DEF CloseOnce, Closes
<1>4. /\ toServer' \in Seq(Call) /\ CloseOnce(toServer')
      /\ Closes(toServer') \subseteq Closes(toServer)
  BY <1>1, <1>2, <1>3 DEF ClosesApart
<1> QED
  BY <1>1, <1>2, <1>4, QueueStep DEF ClosesApart

\* A close that is answered is in the other queue.
LEMMA ServiceStep ==
  ASSUME IInv, Service
  PROVE  IInv'
<1>1. /\ toServer \in Seq(Call) /\ toClient \in Seq(Call \cup Event) /\ ClosesApart
      /\ link \in {"none", "connecting", "up", "broken"} /\ events \in 0..MaxEvents
  BY DEF IInv, TypeOK
<1>2. UNCHANGED <<mutex, call, cpc, calls, registry, link, wpc, erasing, held, stale, late>>
  BY DEF Service, Answer, LoseCommand, Broadcast, callVars, workVars, mgrVars, linkVars
<1>3. ASSUME NEW i \in 1..Len(toServer), Answer(i)
      PROVE  IInv'
  <2> DEFINE k == toServer[i]
  <2>1. /\ toServer' = RemoveAt(toServer, i) /\ toClient' = Append(toClient, k)
        /\ k \in Call /\ k \in Call \cup Event /\ events' = events
    BY <1>1, <1>3 DEF Answer
  <2>2. /\ toServer' \in Seq(Call) /\ CloseOnce(toServer')
        /\ Closes(toServer') \subseteq Closes(toServer)
        /\ k.op = "Close" => k.svc \in Closes(toServer) /\ k.svc \notin Closes(toServer')
    BY <1>1, <2>1, ClosesRemove DEF ClosesApart
  <2> HIDE DEF k
  <2>3. k.op = "Close" => k.svc \notin Closes(toClient)
    BY <1>1, <2>2 DEF ClosesApart
  <2>4. /\ toClient' \in Seq(Call \cup Event) /\ CloseOnce(toClient')
        /\ Closes(toClient') \subseteq Closes(toClient) \cup {x \in {k.svc} : k.op = "Close"}
    BY <1>1, <2>1, <2>3, AppendFacts, ClosesAppend DEF ClosesApart
  <2>5. /\ Closes(toServer') \cap Closes(toClient') = {}
        /\ Closes(toServer') \cup Closes(toClient') \subseteq Closes(toServer) \cup Closes(toClient)
    BY <1>1, <2>2, <2>4 DEF ClosesApart
  <2> QED
    BY <1>1, <1>2, <2>1, <2>2, <2>4, <2>5, QueueStep
<1>4. ASSUME NEW i \in 1..Len(toServer), LoseCommand(i)
      PROVE  IInv'
  <2>1. toServer' = RemoveAt(toServer, i) /\ toClient' = toClient /\ events' = events
    BY <1>4 DEF LoseCommand
  <2>2. /\ toServer' \in Seq(Call) /\ CloseOnce(toServer')
        /\ Closes(toServer') \subseteq Closes(toServer)
    BY <1>1, <2>1, ClosesRemove DEF ClosesApart
  <2> QED
    BY <1>1, <1>2, <2>1, <2>2, QueueStep DEF ClosesApart
<1>5. ASSUME NEW class \in Classes, Broadcast(class)
      PROVE  IInv'
  <2> DEFINE e == [id |-> 0, op |-> "Event", svc |-> Nobody, cls |-> {class}]
  <2>1. toClient' = Append(toClient, e) /\ toServer' = toServer
    BY <1>5 DEF Broadcast, linkVars
  <2>2. e \in Call \cup Event /\ e.op # "Close"
    BY DEF Event
  <2>3. events' \in 0..MaxEvents
    BY <1>1, <1>5, SpiServicesAssumption DEF Broadcast
  <2> HIDE DEF e
  <2>4. /\ toClient' \in Seq(Call \cup Event) /\ CloseOnce(toClient')
        /\ Closes(toClient') \subseteq Closes(toClient)
    <3>1. Closes(toClient') \subseteq Closes(toClient) \cup {x \in {e.svc} : e.op = "Close"}
      BY <1>1, <2>1, <2>2, ClosesAppend DEF ClosesApart
    <3> QED
      BY <1>1, <2>1, <2>2, <3>1, AppendFacts, ClosesAppend DEF ClosesApart
  <2> QED
    BY <1>1, <1>2, <2>1, <2>3, <2>4, QueueStep DEF ClosesApart
<1> QED
  BY <1>3, <1>4, <1>5 DEF Service

\* The first result is posted and the others are dropped: a close answered once is
\* not posted again.
LEMMA ReadStep ==
  ASSUME IInv, NEW n \in 1..Len(toClient), PostCompletion(n) \/ PostEvents(n)
  PROVE  IInv'
<1> DEFINE r == Head(toClient)
<1>1. /\ TypeOK /\ CallsMade /\ ClosesApart /\ ErasingAt /\ RegisteredHeld /\ EntriesAccounted
      /\ toServer \in Seq(Call) /\ toClient \in Seq(Call \cup Event)
      /\ link \in {"none", "connecting", "up", "broken"} /\ events \in 0..MaxEvents
      /\ held \in [Services -> HeldStates]
  BY DEF IInv, TypeOK, HeldStates
<1>2. /\ wpc = "read" /\ toClient' = SubSeq(toClient, n + 1, Len(toClient))
      /\ UNCHANGED <<mutex, call, cpc, calls, registry, link, toServer, stale, late, events>>
      /\ \/ UNCHANGED <<held, wpc, erasing>>
         \/ /\ r.op = "Close" /\ held' = [held EXCEPT ![r.svc] = "free"]
            /\ wpc' = "erase" /\ erasing' = r.svc
  BY DEF PostCompletion, PostEvents, Read, callVars, workVars, mgrVars
<1>3. /\ toClient' \in Seq(Call \cup Event) /\ CloseOnce(toClient')
      /\ Closes(toClient') \subseteq Closes(toClient) /\ r \in Call \cup Event
      /\ r.op = "Close" => r.svc \in Closes(toClient) /\ r.svc \notin Closes(toClient')
  BY <1>1, <1>2, ClosesSuffix DEF ClosesApart
<1> HIDE DEF r
<1>4. CASE UNCHANGED <<held, wpc, erasing>>
  BY <1>1, <1>2, <1>3, <1>4, QueueStep DEF ClosesApart
<1>5. CASE /\ r.op = "Close" /\ held' = [held EXCEPT ![r.svc] = "free"]
           /\ wpc' = "erase" /\ erasing' = r.svc
  <2>1. /\ r.svc \in Services /\ held[r.svc] = "closing" /\ erasing = Nobody
        /\ \A c \in Callers : ~Making(c, "Close", r.svc)
    BY <1>1, <1>2, <1>3, <1>5, ClosesServices DEF ClosesApart, ErasingAt
  <2>2. \A c \in Callers : ~Making(c, "Open", r.svc)
    BY <1>1, <2>1 DEF CallsMade
  <2>3. /\ \A s \in Services : held'[s] = IF s = r.svc THEN "free" ELSE held[s]
        /\ held' \in [Services -> HeldStates] /\ Nobody \notin Services
    BY <1>1, <1>5, <2>1, SpiServicesAssumption DEF HeldStates
  <2>4. \A c, op, s : Making(c, op, s)' <=> Making(c, op, s)
    BY <1>2 DEF Making
  <2>5. TypeOK'
    BY <1>1, <1>2, <1>5, <2>1, <2>3 DEF TypeOK, HeldStates
  <2>6. CallsMade'
    BY <1>1, <1>2, <2>1, <2>2, <2>3, <2>4 DEF CallsMade
  <2>7. ClosesApart'
    <3>1. \A s \in Closes(toServer') \cup Closes(toClient') : s \in Services /\ s # r.svc
      BY <1>1, <1>2, <1>3, <1>5, ClosesServices DEF ClosesApart
    <3> QED
      BY <1>1, <1>2, <1>3, <2>3, <2>4, <3>1, ClosesKept DEF ClosesApart
  <2>8. ErasingAt' /\ FirstRegistered(registry)'
    BY <1>2, <1>5, <2>1, <2>3 DEF IInv, ErasingAt
  <2>9. RegisteredHeld'
    BY <1>1, <1>2, <1>5, <2>1, <2>3 DEF RegisteredHeld
  <2>10. EntriesAccounted'
    <3>1. \A s \in Services : Pushed(s)' <=> Pushed(s)
      BY <1>2 DEF Pushed
    <3>2. ~Pushed(r.svc)
      BY <2>2 DEF Pushed, Making
    <3>3. \A s \in Services : erasing # s
      BY <2>1, <2>3
    <3>4. \A s \in Services : Due(s) + 0 = Due(s)' + (IF erasing' = s THEN 1 ELSE 0)
      <4> SUFFICES ASSUME NEW s \in Services
                   PROVE  Due(s) + 0 = Due(s)' + (IF erasing' = s THEN 1 ELSE 0)
        OBVIOUS
      <4>1. stale[s] \in Nat
        BY <1>1 DEF TypeOK
      <4>2. CASE s = r.svc
        BY <1>2, <1>5, <2>1, <2>3, <3>1, <3>2, <4>1, <4>2 DEF Due
      <4>3. CASE s # r.svc
        BY <1>2, <1>5, <2>3, <3>1, <4>1, <4>3 DEF Due
      <4> QED
        BY <4>2, <4>3
    <3> QED
      BY <1>1, <1>2, <3>3, <3>4, Accounted
  <2> QED
    BY <1>3, <2>5, <2>6, <2>7, <2>8, <2>9, <2>10 DEF IInv
<1> QED
  BY <1>2, <1>4, <1>5

\* The entry erased is the first of its service, the one that was registered.
LEMMA EraseStep ==
  ASSUME IInv, EraseService
  PROVE  IInv'
<1>1. /\ TypeOK /\ CallsMade /\ ClosesApart /\ ErasingAt /\ RegisteredHeld /\ EntriesAccounted
      /\ registry \in Seq(Entry) /\ FirstRegistered(registry)
      /\ toClient \in Seq(Call \cup Event)
  BY DEF IInv, TypeOK
<1>2. /\ wpc = "erase" /\ CloseService(erasing) /\ wpc' = "read" /\ erasing' = Nobody
      /\ UNCHANGED <<mutex, call, cpc, calls, link, toServer, toClient, held, stale, late, events>>
  BY DEF EraseService, callVars, linkVars, mgrVars
<1>3. erasing \in Services /\ Nobody \notin Services
  BY <1>1, <1>2, SpiServicesAssumption DEF ErasingAt, TypeOK
<1>4. /\ registry' \in Seq(Entry) /\ FirstRegistered(registry')
      /\ \A t \in Services : Registered(registry', t) => Registered(registry, t) /\ t # erasing
      /\ \A t \in Services :
           More(registry, registry', t, IF t = erasing /\ Positions(erasing) # {} THEN -1 ELSE 0)
  BY <1>1, <1>2, <1>3, CloseFacts
<1>5. TypeOK' /\ ErasingAt'
  BY <1>1, <1>2, <1>4 DEF TypeOK, ErasingAt
<1>6. CallsMade' /\ ClosesApart'
  BY <1>1, <1>2 DEF CallsMade, ClosesApart, Making
<1>7. RegisteredHeld'
  BY <1>1, <1>2, <1>4 DEF RegisteredHeld
<1>8. EntriesAccounted'
  <2>1. \A s \in Services : Due(s)' = Due(s)
    BY <1>2 DEF Due, Pushed
  <2>2. Positions(erasing) # {}
    <3>1. Cardinality(Entries(registry, erasing)) = Due(erasing) + 1
      BY <1>1, <1>3, Accounted
    <3>2. Cardinality(Entries(registry, erasing)) # 0
      BY <1>1, <1>3, <3>1, DueType
    <3> QED
      BY <3>2, FS_EmptySet DEF Entries, Positions
  <2>3. ASSUME NEW s \in Services
        PROVE  Cardinality(Entries(registry', s)) = Due(s)' + (IF erasing' = s THEN 1 ELSE 0)
    <3>1. Cardinality(Entries(registry, s)) = Due(s) + (IF erasing = s THEN 1 ELSE 0)
      BY <1>1, Accounted
    <3>2. Due(s) \in Nat
      BY <1>1, DueType
    <3> QED
      BY <1>2, <1>3, <1>4, <2>1, <2>2, <3>1, <3>2 DEF More
  <2> QED
    BY <2>3, Accounted
<1> QED
  BY <1>1, <1>2, <1>4, <1>5, <1>6, <1>7, <1>8 DEF IInv

LEMMA StepIInv ==
  ASSUME IInv, [Next]_vars
  PROVE  IInv'
<1>1. CASE UNCHANGED vars
  <2>1. UNCHANGED <<mutex, call, cpc, calls, registry, link, toServer, toClient, wpc, erasing,
                    held, stale, late, events>>
    BY <1>1 DEF vars, callVars, linkVars, workVars, mgrVars
  <2> QED
    BY <2>1, QueueStep DEF IInv, TypeOK, ClosesApart
<1>2. CASE Manager
  BY <1>2, MakeCallStep DEF Manager
<1>3. ASSUME NEW c \in Callers, WFP(c) PROVE IInv'
  BY <1>3, EnterStep, CreateStep, SendStep DEF WFP
<1>4. CASE Worker
  BY <1>4, EraseStep, ReadStep DEF Worker
<1>5. CASE Service \/ Connected \/ Break \/ Eof
  BY <1>5, ServiceStep, ConnectionStep
<1> QED
  BY <1>1, <1>2, <1>3, <1>4, <1>5 DEF Next

-----------------------------------------------------------------------------
(* The theorems. *)

LEMMA IInvAlways == Spec => []IInv
<1>1. Init => IInv
  BY InitIInv
<1>2. IInv /\ [Next]_vars => IInv'
  BY StepIInv
<1> QED
  BY <1>1, <1>2, PTL DEF Spec

\* The state of the service provider has its type.
THEOREM TypeCorrect == Spec => []TypeOK
<1>1. IInv => TypeOK
  BY DEF IInv
<1> QED
  BY <1>1, IInvAlways, PTL

\* push, close_service and the failures between them keep one entry per handle the
\* manager has, one per open that failed and the one being erased, for any number of
\* calls: no close erases an entry of another open.
THEOREM RegistryAccounted == Spec => []EntriesAccounted
<1>1. IInv => EntriesAccounted
  BY DEF IInv
<1> QED
  BY <1>1, IInvAlways, PTL

\* send_events posts an event to a service at most once.
THEOREM EventPostedOnce == Spec => []EventOncePerService
<1>1. IInv => EventOncePerService
  <2> SUFFICES ASSUME FirstRegistered(registry), NEW class \in Classes,
                      NEW i \in Targets(class), NEW j \in Targets(class),
                      registry[i].svc = registry[j].svc
               PROVE  i = j
    BY DEF IInv, EventOncePerService
  <2>1. /\ i \in 1..Len(registry) /\ j \in 1..Len(registry)
        /\ registry[i].cls # {} /\ registry[j].cls # {}
    BY DEF Targets
  <2> QED
    BY <2>1 DEF FirstRegistered
<1> QED
  BY <1>1, IInvAlways, PTL

\* An event that send_events posts goes to a service whose handle the manager has not
\* had back, except for a registration that was overtaken by the close.
THEOREM NoEventToReleased == Spec => []NoEventAfterClose
<1>1. IInv => NoEventAfterClose
  <2> SUFFICES ASSUME IInv, wpc = "read", NEW class \in Classes, NEW i \in Targets(class)
               PROVE  held[registry[i].svc] # "free" \/ registry[i].svc \in late
    BY DEF NoEventAfterClose
  <2> DEFINE s == registry[i].svc
  <2>1. i \in 1..Len(registry) /\ registry[i].cls # {}
    BY DEF Targets
  <2>2. s \in Services
    <3>1. registry[i] \in Entry
      BY <2>1 DEF IInv, TypeOK
    <3> QED
      BY <3>1 DEF Entry
  <2>3. Registered(registry, s)
    BY <2>1 DEF Registered
  <2>4. erasing # s
    BY <2>2, SpiServicesAssumption DEF IInv, ErasingAt
  <2> HIDE DEF s
  <2>5. held[s] \in {"open", "closing"} \/ s \in late
    BY <2>2, <2>3, <2>4 DEF IInv, RegisteredHeld
  <2> QED
    BY <2>5 DEF s
<1> QED
  BY <1>1, IInvAlways, PTL

=============================================================================
