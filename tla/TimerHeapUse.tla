---------------------------- MODULE TimerHeapUse -----------------------------
(***************************************************************************)
(* Any sequence of insertions and removals on the heap of TimerHeap, with  *)
(* keys that do not change while a node is in it, as uv_timer_start and    *)
(* uv_timer_stop leave them: more nodes, and so more shapes of the heap,   *)
(* than the timers themselves are checked with.                            *)
(***************************************************************************)
EXTENDS Integers, FiniteSets

CONSTANTS HeapNodes,  \* a set of numbers, in the order of their keys
          NoNode

H == INSTANCE TimerHeap WITH Heaped <- HeapNodes, Nil <- NoNode

VARIABLES uheap, members

heapUseVars == <<uheap, members>>

Key == [n \in HeapNodes |-> [timeout |-> n \div 2, id |-> n]]

Init == uheap = H!Empty /\ members = {}

InsertNode(n) ==
  /\ n \notin members /\ members' = members \cup {n}
  /\ uheap' = H!Insert(uheap, Key, n)

RemoveNode(n) ==
  /\ n \in members /\ members' = members \ {n}
  /\ uheap' = H!Remove(uheap, Key, n)

Next == \E n \in HeapNodes : InsertNode(n) \/ RemoveNode(n)

Spec == Init /\ [][Next]_heapUseVars

-----------------------------------------------------------------------------
\* heap-inl.h: after any insertions and removals the heap holds what was inserted
\* and not removed, is complete and linked both ways, and has the least at its root.
HeapStaysSound == H!HeapOf(uheap, members, Key)
=============================================================================
