--------------------------- MODULE WinLoopWatchers ---------------------------
(***************************************************************************)
(* Prepare, check and idle handles on Windows, win/loop-watcher.c: a list  *)
(* linked both ways, and the loop's pointer to the next handle to call,    *)
(* which uv_*_stop moves on when it takes that handle out.                 *)
(***************************************************************************)
EXTENDS Naturals, Sequences, FiniteSets

CONSTANTS Idlers, NoIdler

VARIABLES
  head,        \* loop->name_handles
  next_handle, \* loop->next_name_handle
  link,        \* per handle: name_next, name_prev, whether it is active
  wl_calling, wl_gone

wlVars == <<head, next_handle, link, wl_calling, wl_gone>>

Init ==
  /\ head = NoIdler /\ next_handle = NoIdler
  /\ link = [h \in Idlers |-> [next |-> NoIdler, prev |-> NoIdler, active |-> FALSE]]
  /\ wl_calling = NoIdler /\ wl_gone = {}

SetPrev(l, h, p) == IF h = NoIdler THEN l ELSE [l EXCEPT ![h].prev = p]
SetNext(l, h, n) == IF h = NoIdler THEN l ELSE [l EXCEPT ![h].next = n]

\* uv_name_start
Start(h) ==
  /\ h \notin wl_gone /\ ~link[h].active
  /\ link' = SetPrev([link EXCEPT ![h] = [next |-> head, prev |-> NoIdler, active |-> TRUE]],
                     head, h)
  /\ head' = h
  /\ UNCHANGED <<next_handle, wl_calling, wl_gone>>

\* Variant of Unlink: the pointer to the next handle is not moved on.
UnlinkKeepsNext(h) ==
  /\ head' = IF head = h THEN link[h].next ELSE head
  /\ link' = [SetPrev(SetNext(link, link[h].prev, link[h].next), link[h].next, link[h].prev)
              EXCEPT ![h].active = FALSE]
  /\ UNCHANGED next_handle

\* uv_name_stop of an active handle
Unlink(h) ==
  /\ head' = IF head = h THEN link[h].next ELSE head
  /\ next_handle' = IF next_handle = h THEN link[h].next ELSE next_handle
  /\ link' = [SetPrev(SetNext(link, link[h].prev, link[h].next), link[h].next, link[h].prev)
              EXCEPT ![h].active = FALSE]

Stop(h) == link[h].active /\ Unlink(h) /\ UNCHANGED <<wl_calling, wl_gone>>

\* uv_close
Close(h) ==
  /\ h \notin wl_gone /\ wl_gone' = wl_gone \cup {h}
  /\ IF link[h].active THEN Unlink(h) ELSE UNCHANGED <<head, next_handle, link>>
  /\ UNCHANGED wl_calling

\* uv_name_invoke
InvokeBegins ==
  /\ next_handle = NoIdler /\ wl_calling = NoIdler /\ next_handle' = head
  /\ UNCHANGED <<head, link, wl_calling, wl_gone>>

InvokeCalls ==
  /\ next_handle # NoIdler /\ wl_calling = NoIdler
  /\ wl_calling' = next_handle /\ next_handle' = link[next_handle].next
  /\ UNCHANGED <<head, link, wl_gone>>

CallbackReturns ==
  /\ wl_calling # NoIdler /\ wl_calling' = NoIdler
  /\ UNCHANGED <<head, next_handle, link, wl_gone>>

Next ==
  \/ \E h \in Idlers : Start(h) \/ Stop(h) \/ Close(h)
  \/ InvokeBegins \/ InvokeCalls \/ CallbackReturns

Spec == Init /\ [][Next]_wlVars

-----------------------------------------------------------------------------
\* The list from a handle on, by the next pointers of l.
Lists(l) ==
  LET on == {h \in Idlers : l[h].active} IN UNION {[1..n -> on] : n \in 0..Cardinality(on)}
At(s, i) == IF i \in DOMAIN s THEN s[i] ELSE NoIdler
Walks(l, s, h) == At(s, 1) = h /\ \A i \in DOMAIN s : l[s[i]].next = At(s, i + 1)
From(l, h) ==
  LET walks == {s \in Lists(l) : Walks(l, s, h)} IN
    IF walks = {} THEN <<>> ELSE CHOOSE s \in walks : TRUE

LW == INSTANCE LoopWatchers WITH
        order <- From(link, head), todo <- From(link, next_handle),
        calling <- wl_calling, gone <- wl_gone

\* docs/src/idle.rst, win/loop-watcher.c: whatever callbacks start, stop and close,
\* themselves and each other, a turn calls who was and stayed active, once.
WinWatchersSpec == LW!Spec
=============================================================================
