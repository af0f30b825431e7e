----------------------------- MODULE MCExecuter -----------------------------
(* Small instances of Executer: which requests the clients send. *)
EXTENDS Executer

MCTypes == {"Open", "Lock", "Unlock", "CancelAsyncRequest", "SetTraceLevel",
            "Close", "Deregister", "Execute", "Register"}

R(t, s, q) == [type |-> t, svc |-> s, req |-> q]

\* Cancels of one and of every request, among opens and closes of two services.
MixedRequests ==
  {R("CancelAsyncRequest", 1, 0), R("CancelAsyncRequest", 1, 2),
   R("Open", 1, 1), R("Open", 2, 2), R("Close", 1, 2), R("Close", 2, 2)}

\* One service that executes, cancels, and closes, which ends the process.
ExecuteRequests == {R("Execute", 2, 1), R("Close", 2, 1), R("CancelAsyncRequest", 2, 0)}

\* Opens and closes of two services.
OpenCloseRequests == {R("Open", 1, 1), R("Open", 2, 1), R("Close", 1, 1), R("Close", 2, 1)}

\* Clients close only what they have opened and not closed yet.
ClosesFollowOpens ==
  \A n \in 1..Len(accepted) : \A s \in Services :
    LET Count(t) == Cardinality({i \in 1..n : accepted[i].type = t /\ accepted[i].svc = s})
    IN  Count("Close") <= Count("Open")
=============================================================================
