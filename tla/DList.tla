-------------------------------- MODULE DList --------------------------------
(***************************************************************************)
(* The doubly linked lists of utlist.h that the pipeline keeps its         *)
(* instructions on.  A list is the pointer to its first node; the prev of  *)
(* that node is the last one, and the next of the last is NULL.  l is a    *)
(* record of the pointer (head) and of the memory the nodes are in (mem).  *)
(***************************************************************************)
EXTENDS Integers, Sequences, FiniteSets

CONSTANTS
  Cell,   \* the addresses of nodes
  NULL

ASSUME CellAssumption == IsFiniteSet(Cell) /\ NULL \notin Cell

(* DL_APPEND *)
DLAppend(l, add) ==
  IF l.head = NULL
  THEN [head |-> add, mem |-> [l.mem EXCEPT ![add].prev = add, ![add].next = NULL]]
  ELSE LET last == l.mem[l.head].prev
       IN  [l EXCEPT !.mem = [@ EXCEPT ![last].next = add, ![l.head].prev = add,
                                       ![add].prev = last, ![add].next = NULL]]

(* Mutant: the first node is not told that the last one is gone. *)
DLDelete_StaleTail(l, del) ==
  LET node == l.mem[del]
  IN  IF node.prev = del THEN [l EXCEPT !.head = NULL]
      ELSE IF del = l.head
      THEN [head |-> node.next, mem |-> [l.mem EXCEPT ![node.next].prev = node.prev]]
      ELSE IF node.next # NULL
      THEN [l EXCEPT !.mem = [@ EXCEPT ![node.prev].next = node.next,
                                       ![node.next].prev = node.prev]]
      ELSE [l EXCEPT !.mem = [@ EXCEPT ![node.prev].next = NULL]]

(* Mutant: the list still begins with the node that is deleted. *)
DLDelete_HeadKept(l, del) ==
  LET node == l.mem[del]
  IN  IF node.prev = del THEN [l EXCEPT !.head = NULL]
      ELSE IF del = l.head
      THEN [l EXCEPT !.mem[node.next].prev = node.prev]
      ELSE [l EXCEPT !.mem =
              [@ EXCEPT ![node.prev].next = node.next,
                        ![IF node.next # NULL THEN node.next ELSE l.head].prev = node.prev]]

(* DL_DELETE: the only node, the first of several, the last, one between. *)
DLDelete(l, del) ==
  LET node == l.mem[del]
  IN  IF node.prev = del THEN [l EXCEPT !.head = NULL]
      ELSE IF del = l.head
      THEN [head |-> node.next, mem |-> [l.mem EXCEPT ![node.next].prev = node.prev]]
      ELSE [l EXCEPT !.mem =
              [@ EXCEPT ![node.prev].next = node.next,
                        ![IF node.next # NULL THEN node.next ELSE l.head].prev = node.prev]]

-----------------------------------------------------------------------------
(* Where DL_FOREACH is after i steps from c.                               *)
At(mem, c) ==
  LET at[i \in 0..Cardinality(Cell)] ==
        IF i = 0 THEN c
        ELSE LET d == at[i - 1] IN IF d = NULL THEN NULL ELSE mem[d].next
  IN  at

(* The nodes that it visits, at most as many as there are.                 *)
Walk(mem, c) ==
  LET visits == {i \in 1..Cardinality(Cell) : At(mem, c)[i - 1] # NULL}
  IN  [i \in 1..Cardinality(visits) |-> At(mem, c)[i - 1]]

(* What a well made list is: every node is met once, points back at the    *)
(* one before it, and the first at the last.                               *)
WellMade(mem, head) ==
  head # NULL =>
    LET s == Walk(mem, head)
    IN  /\ \A i, j \in 1..Len(s) : i # j => s[i] # s[j]
        /\ mem[s[Len(s)]].next = NULL /\ mem[head].prev = s[Len(s)]
        /\ \A i \in 2..Len(s) : mem[s[i]].prev = s[i - 1]
=============================================================================
