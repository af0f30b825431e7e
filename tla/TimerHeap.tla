------------------------------ MODULE TimerHeap ------------------------------
(***************************************************************************)
(* The binary min heap of libuv's timers, heap-inl.h, at the level of its  *)
(* pointers: each node has left, right and parent, the heap a root and a   *)
(* count.  A heap is a record of these; key[n] is what timer_less_than     *)
(* compares, the timeout and then the start id.                            *)
(***************************************************************************)
EXTENDS Integers, Sequences, FiniteSets

CONSTANTS Heaped,  \* the nodes: handle->heap_node of each timer
          Nil      \* NULL

Empty == [min |-> Nil, nelts |-> 0, left |-> [n \in Heaped |-> Nil],
          right |-> [n \in Heaped |-> Nil], parent |-> [n \in Heaped |-> Nil]]

Less(key, a, b) ==
  key[a].timeout < key[b].timeout
    \/ (key[a].timeout = key[b].timeout /\ key[a].id < key[b].id)

\* The turns from the root to the n-th node in level order: 0 is left, 1 right.
Path[n \in 1..Cardinality(Heaped) + 1] ==
  IF n < 2 THEN <<>> ELSE Append(Path[n \div 2], n % 2)

\* The n-th node in level order.
NodeAt(h, n) ==
  LET path == Path[n]
      node[k \in 0..Len(path)] ==
        IF k = 0 THEN h.min
        ELSE IF path[k] = 0 THEN h.left[node[k - 1]] ELSE h.right[node[k - 1]]
  IN  node[Len(path)]

\* x, unless it is NULL, gets the parent y.
SetParent(parent, x, y) == IF x = Nil THEN parent ELSE [parent EXCEPT ![x] = y]

\* Whoever pointed to the node old points to new: its parent, or the root.
Repoint(h, up, old, new) ==
  IF up = Nil THEN [h EXCEPT !.min = new]
  ELSE IF h.left[up] = old THEN [h EXCEPT !.left[up] = new]
  ELSE [h EXCEPT !.right[up] = new]

\* Variant of Swap: the sibling keeps its old parent.
SwapLosesSibling(h, p, c) ==
  LET left   == [h.left EXCEPT ![p] = h.left[c], ![c] = IF h.left[p] = c THEN p ELSE h.left[p]]
      right  == [h.right EXCEPT ![p] = h.right[c], ![c] = IF h.left[p] = c THEN h.right[p] ELSE p]
      parent == SetParent(SetParent([h.parent EXCEPT ![c] = h.parent[p], ![p] = c], left[p], p),
                          right[p], p)
  IN  Repoint([h EXCEPT !.left = left, !.right = right, !.parent = parent], parent[c], p, c)

\* heap_node_swap: the child c takes the place of its parent p.
Swap(h, p, c) ==
  LET onLeft  == h.left[p] = c
      sibling == IF onLeft THEN h.right[p] ELSE h.left[p]
      left    == [h.left EXCEPT ![p] = h.left[c], ![c] = IF onLeft THEN p ELSE h.left[p]]
      right   == [h.right EXCEPT ![p] = h.right[c], ![c] = IF onLeft THEN h.right[p] ELSE p]
      moved   == SetParent([h.parent EXCEPT ![c] = h.parent[p], ![p] = c], sibling, c)
      parent  == SetParent(SetParent(moved, left[p], p), right[p], p)
  IN  Repoint([h EXCEPT !.left = left, !.right = right, !.parent = parent], parent[c], p, c)

\* The node n goes up, or down, one swap at a time, no more often than there are nodes.
SiftUp(h, key, n) ==
  LET up[k \in 0..h.nelts] ==
        IF k = 0 THEN h
        ELSE LET g == up[k - 1]
             IN  IF g.parent[n] # Nil /\ Less(key, n, g.parent[n])
                   THEN Swap(g, g.parent[n], n) ELSE g
  IN  up[h.nelts]

SiftDown(h, key, n) ==
  LET down[k \in 0..h.nelts] ==
        IF k = 0 THEN h
        ELSE LET g == down[k - 1]
                 l == g.left[n]
                 r == g.right[n]
                 a == IF l # Nil /\ Less(key, l, n) THEN l ELSE n
                 smallest == IF r # Nil /\ Less(key, r, a) THEN r ELSE a
             IN  IF smallest = n THEN g ELSE Swap(g, n, smallest)
  IN  down[h.nelts]

\* heap_insert: at the left-most free place of the bottom row, and up.
Insert(h, key, n) ==
  LET at   == h.nelts + 1
      up   == IF at = 1 THEN Nil ELSE NodeAt(h, at \div 2)
      leaf == [h EXCEPT !.left[n] = Nil, !.right[n] = Nil, !.parent[n] = up, !.nelts = at]
  IN  SiftUp(IF up = Nil THEN [leaf EXCEPT !.min = n]
             ELSE IF at % 2 = 0 THEN [leaf EXCEPT !.left[up] = n]
             ELSE [leaf EXCEPT !.right[up] = n], key, n)

\* Without the last node, which nothing points to any more.
Unlinked(h, last) ==
  LET cut == Repoint(h, h.parent[last], last, Nil) IN [cut EXCEPT !.nelts = @ - 1]

\* The node n is replaced by last.
Replaced(h, n, last) ==
  LET taken == [h EXCEPT !.left[last] = h.left[n], !.right[last] = h.right[n],
                         !.parent = SetParent(SetParent([@ EXCEPT ![last] = h.parent[n]],
                                                        h.left[n], last), h.right[n], last)]
  IN  Repoint(taken, h.parent[n], n, last)

\* What a node outside the heap points to is never read: heap_insert sets it.
Forget(h, n) == [h EXCEPT !.left[n] = Nil, !.right[n] = Nil, !.parent[n] = Nil]

\* The last node fills the hole of n.
Filled(h, n, last) == Forget(Replaced(Unlinked(h, last), n, last), n)

\* Variant of Remove: the node that fills the hole only ever sinks.
RemoveSinks(h, key, n) ==
  LET last == NodeAt(h, h.nelts)
  IN  IF h.nelts = 0 THEN h
      ELSE IF last = n THEN Forget(Unlinked(h, n), n)
      ELSE SiftDown(Filled(h, n, last), key, last)

\* heap_remove: the last node fills the hole and goes down, or up, from there.
Remove(h, key, n) ==
  LET last == NodeAt(h, h.nelts)
  IN  IF h.nelts = 0 THEN h
      ELSE IF last = n THEN Forget(Unlinked(h, n), n)
      ELSE SiftUp(SiftDown(Filled(h, n, last), key, last), key, last)

-----------------------------------------------------------------------------
\* heap-inl.h:36-38: the heap of the nodes in members is a complete binary tree,
\* linked both ways, in which no node is less than its parent.
HeapOf(h, members, key) ==
  LET nodes == {NodeAt(h, k) : k \in 1..h.nelts}
      child(k) == IF k <= h.nelts THEN NodeAt(h, k) ELSE Nil
  IN  /\ h.nelts = Cardinality(members) /\ nodes = members
      /\ (h.min = Nil) = (members = {})
      /\ \A k \in 1..h.nelts :
           LET n == NodeAt(h, k)
           IN  /\ h.left[n] = child(2 * k) /\ h.right[n] = child(2 * k + 1)
               /\ h.parent[n] = (IF k = 1 THEN Nil ELSE NodeAt(h, k \div 2))
               /\ h.parent[n] # Nil => ~Less(key, n, h.parent[n])
=============================================================================
