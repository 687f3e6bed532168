-------------------------- MODULE InstListsProperties --------------------------
(* What the lists in memory must keep true. *)
EXTENDS InstLists, SequencesExt

Pointer == Cell \cup {NULL}
NodesFrom(c) == {Walk(mem, c)[i] : i \in 1..Len(Walk(mem, c))}
NumsOf(s) == [i \in 1..Len(s) |-> mem[s[i]].num]

(* Every pointer is NULL or an address, and a loop stands on a node that   *)
(* is allocated, whatever its body deleted and freed before.               *)
ListsTypeOK ==
  /\ mem \in [Cell -> [num : 0..MaxInst, prev : Pointer, next : Pointer]]
  /\ used \subseteq Cell /\ num \in 0..MaxInst
  /\ head \in [from : Pointer, to : Pointer]
  /\ mode \in {"run", "sort", "cleanFrom", "cleanTo", "end"}
  /\ iter \in used \cup {NULL}
  /\ {sort.p, sort.q, sort.tail} \subseteq used \cup {NULL}
  /\ sort.psize \in 0..MaxInst /\ sort.qsize \in 0..(2 * MaxInst)

(* Between two statements of a stage both lists are well made, they share  *)
(* no node, and the nodes allocated are those on a list: nothing is lost,  *)
(* freed too early or held twice (the loops of dis_execute, dis_issue and  *)
(* dis_dispatch).  Nothing at all is allocated after dis_cleanup.          *)
ListsHoldMemory ==
  /\ mode = "run" =>
       /\ WellMade(mem, head.from) /\ WellMade(mem, head.to)
       /\ NodesFrom(head.from) \cap NodesFrom(head.to) = {}
       /\ used = NodesFrom(head.from) \cup NodesFrom(head.to)
       /\ iter # NULL => iter \in NodesFrom(head.from)
  /\ mode = "end" => used = {}

(* While DL_SORT has the list in pieces, every node of it is in exactly    *)
(* one: the list built so far up to tail, what is left of the two runs,    *)
(* and the rest; and what it built is in order as far as the runs of this  *)
(* pass go, as the rest is for the runs of the pass before.                *)
Built ==
  LET s == Walk(mem, head.to)
  IN  IF sort.tail = NULL THEN <<>>
      ELSE SubSeq(s, 1, SelectInSeq(s, LAMBDA c : c = sort.tail))
Prefix(s, n) == SubSeq(s, 1, IF n < Len(s) THEN n ELSE Len(s))
LeftOfP == Prefix(Walk(mem, sort.p), sort.psize)
RestOfQ == Walk(mem, IF sort.at = "runs" THEN sort.p ELSE sort.q)
RunsOrdered(s, size) ==
  \A i, j \in 1..Len(s) :
    i < j /\ (i - 1) \div size = (j - 1) \div size => mem[s[i]].num < mem[s[j]].num
Pieces == IF sort.at = "take" THEN Built \o LeftOfP \o RestOfQ ELSE Built \o RestOfQ
SortKeepsNodes ==
  mode = "sort" =>
    /\ ToSet(Pieces) = used \ NodesFrom(head.from)
    /\ Cardinality(ToSet(Pieces)) = Len(Pieces)
    /\ sort.at = "runs" => /\ RunsOrdered(Built, 2 * sort.insize)
                           /\ RunsOrdered(RestOfQ, sort.insize)

-----------------------------------------------------------------------------
(* The lists implement InstQueues, which is what Scheduler.tla is written  *)
(* with: DL_APPEND is Append, DL_DELETE in a DL_FOREACH_SAFE loop takes    *)
(* out the element at a position and leaves the loop at the next, DL_SORT  *)
(* puts in trace order.  While it is at work the list is taken to be       *)
(* sorted already, and what is being freed to be gone.                     *)
InOrderOf(nums) ==
  [i \in 1..Cardinality(nums) |->
     CHOOSE n \in nums : Cardinality({m \in nums : m < n}) = i - 1]
FromSeq == IF mode \in {"run", "sort"} THEN NumsOf(Walk(mem, head.from)) ELSE <<>>
ToSeq ==
  CASE mode = "run"  -> NumsOf(Walk(mem, head.to))
    [] mode = "sort" -> InOrderOf({mem[c].num : c \in used \ NodesFrom(head.from)})
    [] OTHER -> <<>>
Position ==
  IF mode = "run" /\ iter # NULL
  THEN SelectInSeq(Walk(mem, head.from), LAMBDA c : c = iter) ELSE 0
Queues == INSTANCE InstQueues WITH
  Num <- 1..MaxInst, from <- FromSeq, to <- ToSeq, at <- Position
ImplementsQueues == Queues!Spec
=============================================================================
