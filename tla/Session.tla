------------------------------- MODULE Session -------------------------------
(***************************************************************************)
(* What the anCRS service is to its clients, with nothing of pipes, queues *)
(* and threads: a request may be lost, but a command that is carried out   *)
(* is carried out once and in the order in which its client asked, and is  *)
(* answered after that.  While a client stays it gets an answer at most    *)
(* once, its answers to commands in that order, and those to WFPGetInfo    *)
(* requests, which are not carried out, in their order.  Only when it has  *)
(* left can its answers reach somebody else.                               *)
(***************************************************************************)
EXTENDS Naturals, Sequences

CONSTANTS Conns,  \* connections
          Asks    \* the requests clients can make: [id, conn, info]

VARIABLES asked,     \* requests made
          left,      \* connections whose client has left
          carried,   \* commands carried out, in order
          answered   \* the answers that arrived on a connection, in order

vars == <<asked, left, carried, answered>>

Init == asked = {} /\ left = {} /\ carried = <<>> /\ answered = [k \in Conns |-> <<>>]

Ask(r) ==
  /\ r.conn \notin left /\ \A q \in asked : q.id < r.id
  /\ asked' = asked \cup {r}
  /\ UNCHANGED <<left, carried, answered>>

Leave(k) ==
  /\ k \notin left
  /\ left' = left \cup {k}
  /\ UNCHANGED <<asked, carried, answered>>

CarryOut(r) ==
  /\ r \in asked /\ ~r.info
  /\ \A i \in 1..Len(carried) : carried[i].conn = r.conn => carried[i].id < r.id
  /\ carried' = Append(carried, r)
  /\ UNCHANGED <<asked, left, answered>>

Ready(r) == r \in asked /\ (r.info \/ \E i \in 1..Len(carried) : carried[i] = r)

Deliver(k, r) ==
  /\ k \notin left /\ Ready(r)
  /\ answered' = [answered EXCEPT ![k] = Append(@, r)]
  /\ UNCHANGED <<asked, left, carried>>

Answer(r) ==
  /\ \A i \in 1..Len(answered[r.conn]) :
       LET q == answered[r.conn][i]
       IN  q.conn = r.conn /\ q.info = r.info => q.id < r.id
  /\ Deliver(r.conn, r)

\* An answer for a client that has left reaches another one.
Stray(k, r) == r.conn \in left /\ Deliver(k, r)

Next ==
  \/ \E r \in Asks : Ask(r) \/ CarryOut(r) \/ Answer(r)
  \/ \E k \in Conns : Leave(k) \/ \E r \in Asks : Stray(k, r)

Spec == Init /\ [][Next]_vars
=============================================================================
