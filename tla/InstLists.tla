------------------------------ MODULE InstLists ------------------------------
(***************************************************************************)
(* Two of the pipeline's lists as they are in memory: nodes that are       *)
(* allocated, linked, moved to the other list by a DL_FOREACH_SAFE loop    *)
(* that deletes and frees what it stands on, merge sorted in place by      *)
(* DL_SORT, and given back by dis_cleanup.  Every stage treats its lists   *)
(* this way; which node a stage moves is left open here.                   *)
(***************************************************************************)
EXTENDS DList

CONSTANT MaxInst   \* bound: instructions fetched

ASSUME InstAssumption == MaxInst \in Nat

VARIABLES
  mem,     \* what each address holds
  used,    \* the addresses allocated
  head,    \* the first node of each list
  num,     \* instructions fetched, g_inst_num
  mode,    \* "run", "sort", "cleanFrom", "cleanTo" or "end"
  iter,    \* the node a loop is at
  sort     \* the variables of DL_SORT; "runs" is its outer loop, "take" the merge

listVars == <<mem, used, head, num, mode, iter, sort>>

List(name) == [head |-> head[name], mem |-> mem]
Idle == mode = "run" /\ iter = NULL

(* calloc: any address that is free, one given back just now included.     *)
Calloc(c) == c \in Cell \ used
Blank(n) == [num |-> n, prev |-> NULL, next |-> NULL]

NoSort == [at |-> "off", p |-> NULL, q |-> NULL, tail |-> NULL,
           psize |-> 0, qsize |-> 0, insize |-> 0, nmerges |-> 0]

Init ==
  /\ mem = [c \in Cell |-> Blank(0)] /\ used = {}
  /\ head = [from |-> NULL, to |-> NULL]
  /\ num = 0 /\ mode = "run" /\ iter = NULL
  /\ sort = NoSort

(* dis_fetch and dis_dispatch_push_inst *)
FetchNode(c) ==
  /\ Idle /\ num < MaxInst /\ Calloc(c)
  /\ LET l == DLAppend([head |-> head.from, mem |-> [mem EXCEPT ![c] = Blank(num + 1)]], c)
     IN  mem' = l.mem /\ head' = [head EXCEPT !.from = l.head]
  /\ used' = used \cup {c} /\ num' = num + 1
  /\ UNCHANGED <<mode, iter, sort>>

-----------------------------------------------------------------------------
(* The loop of a stage.  tmp is read before the body of the loop is run.   *)
LoopStart ==
  /\ Idle /\ head.from # NULL
  /\ iter' = head.from
  /\ UNCHANGED <<mem, used, head, num, mode, sort>>

LoopSkip ==
  /\ mode = "run" /\ iter # NULL
  /\ iter' = mem[iter].next
  /\ UNCHANGED <<mem, used, head, num, mode, sort>>

(* The step of DL_FOREACH_SAFE, given the memory before and after the body *)
Step(old, new) == old[iter].next

(* dis_wback_push_inst, dis_exec_push_inst or the end of dis_dispatch: a   *)
(* node is allocated and appended, then the old one deleted and freed.     *)
LoopMove(c) ==
  /\ mode = "run" /\ iter # NULL /\ Calloc(c)
  /\ LET to   == DLAppend([head |-> head.to, mem |-> [mem EXCEPT ![c] = Blank(mem[iter].num)]], c)
         from == DLDelete([head |-> head.from, mem |-> to.mem], iter)
         freed == [from.mem EXCEPT ![iter] = Blank(0)]
     IN  /\ mem' = freed
         /\ head' = [from |-> from.head, to |-> to.head]
         /\ iter' = Step(mem, freed)
  /\ used' = (used \cup {c}) \ {iter}
  /\ UNCHANGED <<num, mode, sort>>

-----------------------------------------------------------------------------
(* DL_SORT.  A pass takes the list apart from p on and builds it again     *)
(* behind tail.                                                            *)
NewPass(first, insize) ==
  sort' = [NoSort EXCEPT !.at = "runs", !.p = first, !.insize = insize]

SortStart ==
  /\ Idle /\ head.to # NULL
  /\ NewPass(head.to, 1)
  /\ head' = [head EXCEPT !.to = NULL] /\ mode' = "sort"
  /\ UNCHANGED <<mem, used, num, iter>>

(* Mutant: the second run starts where the first one does. *)
RunEnd_One(p, n) == <<mem[p].next, 1>>

(* The for loop: q goes n nodes on from p, psize says how many there were. *)
RunEnd(p, n) ==
  LET s == Walk(mem, p)
  IN  IF Len(s) > n THEN <<s[n + 1], n>> ELSE <<NULL, Len(s)>>

SortRuns ==
  /\ sort.at = "runs" /\ sort.p # NULL
  /\ LET run == RunEnd(sort.p, sort.insize)
     IN  sort' = [sort EXCEPT !.at = "take", !.nmerges = @ + 1, !.q = run[1],
                              !.psize = run[2], !.qsize = sort.insize]
  /\ UNCHANGED <<mem, used, head, num, mode, iter>>

MoreToMerge == sort.psize > 0 \/ (sort.qsize > 0 /\ sort.q # NULL)

(* Mutant: the larger number of the two is taken first.                    *)
TakeP_Reversed ==
  /\ sort.psize # 0
  /\ sort.qsize = 0 \/ sort.q = NULL \/ mem[sort.p].num > mem[sort.q].num

(* Which run the next node is taken from: dis_cb_cmp never says 0. *)
TakeP ==
  /\ sort.psize # 0
  /\ sort.qsize = 0 \/ sort.q = NULL \/ mem[sort.p].num < mem[sort.q].num

SortTake ==
  /\ sort.at = "take" /\ MoreToMerge
  /\ LET e == IF TakeP THEN sort.p ELSE sort.q
         linked == [mem EXCEPT ![e].prev = sort.tail]
     IN  /\ mem' = IF sort.tail # NULL THEN [linked EXCEPT ![sort.tail].next = e] ELSE linked
         /\ head' = IF sort.tail # NULL THEN head ELSE [head EXCEPT !.to = e]
         /\ sort' = IF TakeP
                    THEN [sort EXCEPT !.p = mem[e].next, !.psize = @ - 1, !.tail = e]
                    ELSE [sort EXCEPT !.q = mem[e].next, !.qsize = @ - 1, !.tail = e]
  /\ UNCHANGED <<used, num, mode, iter>>

SortMerged ==
  /\ sort.at = "take" /\ ~MoreToMerge
  /\ sort' = [sort EXCEPT !.at = "runs", !.p = sort.q]
  /\ UNCHANGED <<mem, used, head, num, mode, iter>>

(* A pass that merged once leaves the list sorted. *)
SortPassEnd ==
  /\ sort.at = "runs" /\ sort.p = NULL
  /\ mem' = [mem EXCEPT ![head.to].prev = sort.tail, ![sort.tail].next = NULL]
  /\ IF sort.nmerges <= 1
     THEN /\ mode' = "run" /\ sort' = NoSort
          /\ UNCHANGED head
     ELSE /\ NewPass(head.to, 2 * sort.insize)
          /\ head' = [head EXCEPT !.to = NULL] /\ UNCHANGED mode
  /\ UNCHANGED <<used, num, iter>>

-----------------------------------------------------------------------------
(* dis_cleanup: each list is walked and every node of it freed. *)
CleanStart ==
  /\ Idle
  /\ mode' = "cleanFrom" /\ iter' = head.from
  /\ UNCHANGED <<mem, used, head, num, sort>>

CleanNode ==
  /\ mode \in {"cleanFrom", "cleanTo"} /\ iter # NULL
  /\ used' = used \ {iter}
  /\ mem' = [mem EXCEPT ![iter] = Blank(0)]
  /\ iter' = Step(mem, mem')
  /\ UNCHANGED <<head, num, mode, sort>>

CleanFromEnd ==
  /\ mode = "cleanFrom" /\ iter = NULL
  /\ mode' = "cleanTo" /\ iter' = head.to
  /\ head' = [head EXCEPT !.from = NULL]
  /\ UNCHANGED <<mem, used, num, sort>>

CleanToEnd ==
  /\ mode = "cleanTo" /\ iter = NULL
  /\ mode' = "end"
  /\ head' = [head EXCEPT !.to = NULL]
  /\ UNCHANGED <<mem, used, num, iter, sort>>

-----------------------------------------------------------------------------
Sort == SortStart \/ SortRuns \/ SortTake \/ SortMerged \/ SortPassEnd
Clean == CleanStart \/ CleanNode \/ CleanFromEnd \/ CleanToEnd
Loop == LoopStart \/ LoopSkip \/ (\E c \in Cell : LoopMove(c))

Next == (\E c \in Cell : FetchNode(c)) \/ Loop \/ Sort \/ Clean

Spec == Init /\ [][Next]_listVars
=============================================================================
