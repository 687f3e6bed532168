------------------------------ MODULE Scheduler ------------------------------
(***************************************************************************)
(* The dynamic instruction scheduler: the loop of dis_parse_tracefile      *)
(* (dis.c) and the five stages it calls each cycle (dis-pipeline.c):       *)
(* retire, execute, issue, dispatch, fetch, run youngest-state-last over   *)
(* four lists.  One iteration of a stage's loop is one action, so that     *)
(* what a stage leaves half done is visible.                               *)
(*                                                                         *)
(* An instruction is named by its position in list_inst; the number the    *)
(* program gives it (num) is that position minus one.                      *)
(***************************************************************************)
EXTENDS Integers, Sequences, FiniteSets

CONSTANTS
  N,             \* dis->n, the pipeline bandwidth (argument <N>)
  S,             \* dis->s, the size of the scheduling queue (argument <S>)
  Reg,           \* the architectural registers 0..127
  NoReg,         \* REG_INVALID_VALUE, the table's entry for no register
  NoValue,       \* REG_NO_VALUE, the -1 of a trace line
  TraceEntry,    \* the lines a trace file may hold
  MaxTrace,      \* bound: the longest trace
  HasL1,         \* TRUE iff dis->l1 is set (a block size was given)
  LookupLatency, \* the latencies a cache lookup may return
  CounterMod,    \* 2^width of dis_issue's counter (uint8_t: 256)
  CycleMod       \* 2^width of g_cycle_num (uint32_t: 2^32)

Entry == [type : 0..2, dreg : Reg \cup {NoValue}, sreg1 : Reg \cup {NoValue},
          sreg2 : Reg \cup {NoValue}, mem : Nat]

ASSUME BandwidthAssumption == N \in Nat /\ S \in Nat
ASSUME RegAssumption == NoReg \notin Reg /\ NoValue \notin Reg \cup {NoReg}
ASSUME TraceAssumption == TraceEntry \subseteq Entry /\ MaxTrace \in Nat
ASSUME CacheAssumption == HasL1 \in BOOLEAN /\ LookupLatency \subseteq Nat \ {0}
ASSUME WidthAssumption == CounterMod \in Nat \ {0} /\ CycleMod \in Nat \ {0}

VARIABLES
  stage,     \* where the main loop is
  pos,       \* the node a stage's DL_FOREACH is at, as a position of its list
  count,     \* the loop counter: i of dis_issue, inst_i of dis_fetch
  cycle,     \* g_cycle_num
  traceDone, \* trace_done
  listInst,  \* list_inst, with the data of every instruction fetched
  rmt,       \* the register map table
  regName,   \* g_reg_name, the last name given
  disp,      \* list_disp: instructions
  issue,     \* list_issue: nodes with private copies of the register data
  exec,      \* list_exec: the same nodes
  wback,     \* list_wback: instructions
  len        \* the length counters kept beside disp, issue and exec

lists == <<disp, issue, exec, wback, len>>
vars == <<stage, pos, count, cycle, traceDone, listInst, rmt, regName, lists>>

InstState == {"IF", "ID", "IS", "EX", "WB"}
Insts     == 1..Len(listInst)
State(k)  == listInst[k].state
At(k, st) == listInst[k].cycle[st]

(* The source registers an instruction really reads. *)
Sources(k) == {listInst[k].sreg1, listInst[k].sreg2} \cap Reg

(* g_latency *)
Latency(type) == <<1, 2, 5>>[type + 1]

(* Mutant: the size that dis_is_list_full has in a comment. *)
CanPush_ExecN(list) ==
  CASE list = "disp"  -> len.disp < 2 * N
    [] list = "issue" -> len.issue < S
    [] list = "exec"  -> len.exec < N

(* Mutant: a list is full when it has one more than its size. *)
CanPush_Inclusive(list) ==
  CASE list = "disp"  -> len.disp <= 2 * N
    [] list = "issue" -> len.issue <= S
    [] list = "exec"  -> len.exec <= 5 * N

(* dis_can_push_on_list *)
CanPush(list) ==
  CASE list = "disp"  -> len.disp < 2 * N
    [] list = "issue" -> len.issue < S
    [] list = "exec"  -> len.exec < 5 * N

(* dis_inst_set_state and the stamp of the cycle it happened in *)
Enter(insts, k, st) ==
  [insts EXCEPT ![k] = [@ EXCEPT !.state = st, !.cycle[st] = cycle]]

(* Mutant: the head of the list is deleted, not the node of the loop. *)
Without_Head(s, i) == Tail(s)

(* DL_DELETE *)
Without(s, i) == SubSeq(s, 1, i - 1) \o SubSeq(s, i + 1, Len(s))

(* DL_SORT with dis_cb_cmp: oldest instruction first, each node behind as  *)
(* many as are older.  A list that is in order stays as it is.             *)
Older(s, Num(_), j) == {m \in 1..Len(s) : Num(s[m]) < Num(s[j])}
Sorted(s, Num(_)) ==
  IF \A i, j \in 1..Len(s) : i < j => Num(s[i]) < Num(s[j]) THEN s
  ELSE [i \in 1..Len(s) |->
          s[CHOOSE j \in 1..Len(s) : Cardinality(Older(s, Num, j)) = i - 1]]

(* dis_inst_list_decrement_len *)
Dec(n) == IF n > 0 THEN n - 1 ELSE 0

NodeNum(node) == node.data
Self(k) == k

-----------------------------------------------------------------------------
Init ==
  /\ stage = "retire" /\ pos = 1 /\ count = 0
  /\ cycle = 0 /\ traceDone = FALSE
  /\ listInst = <<>>
  /\ rmt = [r \in Reg \cup {NoReg} |->
              [rnum |-> r, name |-> 0, ready |-> r # NoReg]]
  /\ regName = 0
  /\ disp = <<>> /\ issue = <<>> /\ exec = <<>> /\ wback = <<>>
  /\ len = [disp |-> 0, issue |-> 0, exec |-> 0]

(* The loop of the current stage ends; the next stage starts at its head.  *)
GoTo(st) == stage' = st /\ pos' = 1 /\ count' = 0

-----------------------------------------------------------------------------
(* dis_retire walks list_wback and only asserts; its removal is #if 0.     *)
Retire ==
  /\ stage = "retire"
  /\ GoTo("execute")
  /\ UNCHANGED <<cycle, traceDone, listInst, rmt, regName, lists>>

-----------------------------------------------------------------------------
(* dis_execute *)
(* Mutant: the lookup is looked for in the cycle EX is entered, when the   *)
(* execute stage is over.                                                  *)
LooksUp_TooEarly(k) ==
  /\ HasL1 /\ listInst[k].mem # 0
  /\ cycle = At(k, "EX")

(* Only in the first cycle after the one in which EX was entered. *)
LooksUp(k) ==
  /\ HasL1 /\ listInst[k].mem # 0
  /\ cycle - 1 = At(k, "EX")

(* dis_exec_cache_lookup adds what the cache answers to the latency (a     *)
(* uint8_t) of the instruction.                                            *)
AfterLookup(k, lat) ==
  IF LooksUp(k) THEN [listInst EXCEPT ![k].latency = (@ + lat) % 256] ELSE listInst

(* Mutant: the latency is counted one cycle short. *)
IsOver_OffByOne(insts, k) == cycle + 1 = insts[k].cycle["EX"] + insts[k].latency

(* dis_execute_is_over *)
IsOver(insts, k) == cycle = insts[k].cycle["EX"] + insts[k].latency

(* Mutant: every waiting source is woken. *)
Wakeup_AnyName(src, name) == [src EXCEPT !.ready = TRUE]

(* dis_exec_update_regs on one private copy of a source register *)
Wakeup(src, name) == IF src.name = name THEN [src EXCEPT !.ready = TRUE] ELSE src

(* Mutant: the table is updated without the test of the name. *)
UpdateRegs_NoNameTest(dreg, name) ==
  IF dreg \in Reg
  THEN /\ rmt' = [rmt EXCEPT ![dreg].ready = TRUE]
       /\ issue' = [i \in 1..Len(issue) |->
                      [issue[i] EXCEPT !.sreg1 = Wakeup(@, name),
                                       !.sreg2 = Wakeup(@, name)]]
  ELSE UNCHANGED <<rmt, issue>>

(* Mutant: the issue list is woken only if the table holds the name. *)
UpdateRegs_WakeupIfLatest(dreg, name) ==
  IF dreg \in Reg /\ rmt[dreg].name = name
  THEN /\ rmt' = [rmt EXCEPT ![dreg].ready = TRUE]
       /\ issue' = [i \in 1..Len(issue) |->
                      [issue[i] EXCEPT !.sreg1 = Wakeup(@, name),
                                       !.sreg2 = Wakeup(@, name)]]
  ELSE UNCHANGED <<rmt, issue>>

(* dis_exec_update_regs: the table is told only if no later instruction    *)
(* has renamed the register; the issue list is told in any case.           *)
UpdateRegs(dreg, name) ==
  IF dreg \in Reg
  THEN /\ rmt' = IF rmt[dreg].name = name THEN [rmt EXCEPT ![dreg].ready = TRUE] ELSE rmt
       /\ issue' = [i \in 1..Len(issue) |->
                      [issue[i] EXCEPT !.sreg1 = Wakeup(@, name),
                                       !.sreg2 = Wakeup(@, name)]]
  ELSE UNCHANGED <<rmt, issue>>

(* What the node at pos may be told: there is one answer when no lookup is *)
(* made.                                                                   *)
Answers == IF LooksUp(exec[pos].data) THEN LookupLatency ELSE {0}

(* One node of list_exec; lat is what a lookup returns, if there is one.   *)
ExecuteWait(lat) ==
  /\ stage = "execute" /\ pos <= Len(exec)
  /\ LET k == exec[pos].data
     IN  /\ ~IsOver(AfterLookup(k, lat), k)
         /\ listInst' = AfterLookup(k, lat)
  /\ pos' = pos + 1
  /\ UNCHANGED <<stage, count, cycle, traceDone, rmt, regName, lists>>

ExecuteComplete(lat) ==
  /\ stage = "execute" /\ pos <= Len(exec)
  /\ LET k == exec[pos].data
     IN  /\ IsOver(AfterLookup(k, lat), k)
         /\ listInst' = Enter(AfterLookup(k, lat), k, "WB")
         /\ wback' = Append(wback, k)
         /\ UpdateRegs(listInst[k].dreg, exec[pos].dreg.name)
  /\ exec' = Without(exec, pos)
  /\ len' = [len EXCEPT !.exec = Dec(@)]
  /\ UNCHANGED <<stage, pos, count, cycle, traceDone, regName, disp>>

ExecuteDone ==
  /\ stage = "execute" /\ pos > Len(exec)
  /\ GoTo("issue")
  /\ UNCHANGED <<cycle, traceDone, listInst, rmt, regName, lists>>

-----------------------------------------------------------------------------
(* dis_issue *)

(* Mutant: a source that is no register must be ready too. *)
OperandsReady_NoValidTest(node) == node.sreg1.ready /\ node.sreg2.ready

(* dis_issue_are_operands_ready *)
OperandsReady(node) ==
  /\ node.sreg1.rnum \in Reg => node.sreg1.ready
  /\ node.sreg2.rnum \in Reg => node.sreg2.ready

CanIssue(node) ==
  /\ State(node.data) = "IS"
  /\ CanPush("exec") /\ OperandsReady(node) /\ count < N

IssuePush ==
  /\ stage = "issue" /\ pos <= Len(issue) /\ CanIssue(issue[pos])
  /\ listInst' = Enter(listInst, issue[pos].data, "EX")
  /\ exec' = Append(exec, issue[pos])
  /\ issue' = Without(issue, pos)
  /\ len' = [len EXCEPT !.exec = @ + 1, !.issue = Dec(@)]
  /\ count' = (count + 1) % CounterMod
  /\ UNCHANGED <<stage, pos, cycle, traceDone, rmt, regName, disp, wback>>

IssueSkip ==
  /\ stage = "issue" /\ pos <= Len(issue) /\ ~CanIssue(issue[pos])
  /\ pos' = pos + 1
  /\ UNCHANGED <<stage, count, cycle, traceDone, listInst, rmt, regName, lists>>

IssueDone ==
  /\ stage = "issue" /\ pos > Len(issue)
  /\ GoTo("dispatch")
  /\ UNCHANGED <<cycle, traceDone, listInst, rmt, regName, lists>>

-----------------------------------------------------------------------------
(* dis_dispatch *)

(* Mutant: an instruction is not made to spend a cycle in ID. *)
CanDispatch_NoDelay(k) == State(k) \in {"IF", "ID"} /\ CanPush("issue")

(* Mutant: only an instruction whose sources are ready is moved, so that a *)
(* younger one may overtake it.                                            *)
CanDispatch_WhenReady(k) ==
  /\ State(k) = "ID" /\ CanPush("issue")
  /\ \A r \in Sources(k) : rmt[r].ready

CanDispatch(k) == State(k) = "ID" /\ CanPush("issue")

(* What a node is given for a source *)
Operand(r) == rmt[r]

(* dis_dispatch_rename_dreg: a new name, not ready *)
RenameDreg(dreg) ==
  IF dreg \in Reg
  THEN /\ regName' = regName + 1
       /\ rmt' = [rmt EXCEPT ![dreg] = [@ EXCEPT !.name = regName + 1, !.ready = FALSE]]
  ELSE UNCHANGED <<rmt, regName>>

(* The sources are copied from the table before the destination is renamed *)
(* and the destination after.  dis_dispatch_rename_sreg writes only to the *)
(* node of list_disp, which is then freed.                                 *)
DispatchMove ==
  /\ stage = "dispatch" /\ pos <= Len(disp) /\ CanDispatch(disp[pos])
  /\ LET k == disp[pos]
         d == listInst[k]
     IN  /\ listInst' = Enter(listInst, k, "IS")
         /\ RenameDreg(d.dreg)
         /\ issue' = Append(issue, [data |-> k, sreg1 |-> Operand(d.sreg1),
                                    sreg2 |-> Operand(d.sreg2), dreg |-> rmt'[d.dreg]])
  /\ disp' = Without(disp, pos)
  /\ len' = [len EXCEPT !.issue = @ + 1, !.disp = Dec(@)]
  /\ UNCHANGED <<stage, pos, count, cycle, traceDone, exec, wback>>

DispatchSkip ==
  /\ stage = "dispatch" /\ pos <= Len(disp) /\ ~CanDispatch(disp[pos])
  /\ pos' = pos + 1
  /\ UNCHANGED <<stage, count, cycle, traceDone, listInst, rmt, regName, lists>>

(* The issue list is sorted, then every instruction still in IF moves to   *)
(* ID.                                                                     *)
DispatchDone ==
  /\ stage = "dispatch" /\ pos > Len(disp)
  /\ issue' = Sorted(issue, NodeNum)
  /\ listInst' = [k \in Insts |->
       IF State(k) = "IF" /\ \E i \in 1..Len(disp) : disp[i] = k
       THEN [listInst[k] EXCEPT !.state = "ID", !.cycle["ID"] = cycle]
       ELSE listInst[k]]
  /\ GoTo("fetch")
  /\ UNCHANGED <<cycle, traceDone, rmt, regName, disp, exec, wback, len>>

-----------------------------------------------------------------------------
(* dis_fetch *)

(* Mutant: one instruction too many per cycle. *)
CanFetch_OneMore == count <= N /\ CanPush("disp")

CanFetch == count < N /\ CanPush("disp")

(* Mutant: -1 is kept as the number of a register. *)
RegField_Raw(r) == r
RegField(r) == IF r = NoValue THEN NoReg ELSE r

(* A type 2 instruction has no latency of its own when there is a cache.   *)
NewInst(e) ==
  [type |-> e.type, dreg |-> RegField(e.dreg), sreg1 |-> RegField(e.sreg1),
   sreg2 |-> RegField(e.sreg2), mem |-> e.mem,
   latency |-> IF e.type = 2 /\ HasL1 THEN 0 ELSE Latency(e.type),
   state |-> "IF",
   cycle |-> [st \in InstState |-> IF st = "IF" THEN cycle ELSE 0]]

FetchInst(e) ==
  /\ stage = "fetch" /\ ~traceDone /\ CanFetch
  /\ Len(listInst) < MaxTrace
  /\ listInst' = Append(listInst, NewInst(e))
  /\ disp' = Append(disp, Len(listInst) + 1)
  /\ len' = [len EXCEPT !.disp = @ + 1]
  /\ count' = count + 1
  /\ UNCHANGED <<stage, pos, cycle, traceDone, rmt, regName, issue, exec, wback>>

(* End of file: dis_fetch returns FALSE, before its sort. *)
FetchEOF ==
  /\ stage = "fetch" /\ ~traceDone /\ CanFetch
  /\ traceDone' = TRUE
  /\ GoTo("advance")
  /\ UNCHANGED <<cycle, listInst, rmt, regName, lists>>

FetchDone ==
  /\ stage = "fetch" /\ ~traceDone /\ ~CanFetch
  /\ disp' = Sorted(disp, Self)
  /\ GoTo("advance")
  /\ UNCHANGED <<cycle, traceDone, listInst, rmt, regName, issue, exec, wback, len>>

FetchSkip ==
  /\ stage = "fetch" /\ traceDone
  /\ GoTo("advance")
  /\ UNCHANGED <<cycle, traceDone, listInst, rmt, regName, lists>>

-----------------------------------------------------------------------------
(* dis_run_cycle: the counter moves while a list is not empty, and the     *)
(* loop stops when none is left, or when the counter wraps to zero.        *)

(* Mutant: the execute list is forgotten. *)
Busy_NoExec == len.disp # 0 \/ len.issue # 0

Busy == len.disp # 0 \/ len.issue # 0 \/ len.exec # 0
NextCycle == (cycle + 1) % CycleMod

Advance ==
  /\ stage = "advance" /\ Busy /\ NextCycle # 0
  /\ cycle' = NextCycle
  /\ GoTo("retire")
  /\ UNCHANGED <<traceDone, listInst, rmt, regName, lists>>

(* The loop is left; dis_print_inst_stats sorts the writeback list.        *)
Finish ==
  /\ stage = "advance" /\ ~(Busy /\ NextCycle # 0)
  /\ cycle' = IF Busy THEN NextCycle ELSE cycle
  /\ wback' = Sorted(wback, Self)
  /\ GoTo("done")
  /\ UNCHANGED <<traceDone, listInst, rmt, regName, disp, issue, exec, len>>

(* What dis_print_inst_entry_stats prints of an instruction: a stage lasts *)
(* from its stamp to the next one's, as the difference of two words; and   *)
(* the number of cycles dis_print_inst_stats prints.                       *)
Until(st) == CASE st = "IF" -> "ID" [] st = "ID" -> "IS" [] st = "IS" -> "EX" [] st = "EX" -> "WB"
Lasts(k, st) == IF st = "WB" THEN 1 ELSE (At(k, Until(st)) - At(k, st)) % CycleMod
NumCycles == cycle + 1

-----------------------------------------------------------------------------
Execute ==
  /\ stage = "execute" /\ pos <= Len(exec)
  /\ \E lat \in Answers : ExecuteWait(lat) \/ ExecuteComplete(lat)
Fetch == (\E e \in TraceEntry : FetchInst(e)) \/ FetchEOF \/ FetchDone \/ FetchSkip

Next ==
  \/ Retire \/ Execute \/ ExecuteDone
  \/ IssuePush \/ IssueSkip \/ IssueDone
  \/ DispatchMove \/ DispatchSkip \/ DispatchDone
  \/ Fetch \/ Advance \/ Finish

Spec == Init /\ [][Next]_vars

(* One thread runs the loop and nothing blocks it. *)
FairSpec == Spec /\ WF_vars(Next)
=============================================================================
