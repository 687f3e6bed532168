------------------------- MODULE SchedulerProperties -------------------------
(***************************************************************************)
(* What the scheduler must keep true.  None of the invariants below is a   *)
(* guard of a stage: each relates lists, table, stamps and states that     *)
(* different stages write at different times.                              *)
(***************************************************************************)
EXTENDS Scheduler

-----------------------------------------------------------------------------
RegData == [rnum : Reg \cup {NoReg}, name : Nat, ready : BOOLEAN]
Node == [data : Insts, sreg1 : RegData, sreg2 : RegData, dreg : RegData]
InstData ==
  [type : 0..2, dreg : Reg \cup {NoReg}, sreg1 : Reg \cup {NoReg},
   sreg2 : Reg \cup {NoReg}, mem : Nat, latency : 0..255,
   state : InstState, cycle : [InstState -> Nat]]
Stage == {"retire", "execute", "issue", "dispatch", "fetch", "advance", "done"}

(* The values of the simulator's state; a node always points at an         *)
(* instruction that was fetched, and a register number is that of a        *)
(* register or of the table's extra entry, never the -1 of the trace.  (Of *)
(* the writeback list once it is sorted for the report, DoneComplete says  *)
(* more.)                                                                  *)
TypeOK ==
  /\ stage \in Stage /\ pos \in Nat \ {0} /\ count \in Nat
  /\ cycle \in Nat /\ traceDone \in BOOLEAN
  /\ listInst \in Seq(InstData)
  /\ rmt \in [Reg \cup {NoReg} -> RegData] /\ regName \in Nat
  /\ disp \in Seq(Insts) /\ issue \in Seq(Node) /\ exec \in Seq(Node)
  /\ stage # "done" => wback \in Seq(Insts)
  /\ len \in [disp : Nat, issue : Nat, exec : Nat]

-----------------------------------------------------------------------------
(* The states an instruction has been in when it is in state st. *)
Passed(st) ==
  CASE st = "IF" -> {"IF"}
    [] st = "ID" -> {"IF", "ID"}
    [] st = "IS" -> {"IF", "ID", "IS"}
    [] st = "EX" -> {"IF", "ID", "IS", "EX"}
    [] st = "WB" -> InstState
Reached(k, st) == st \in Passed(State(k))
Dispatched == {k \in Insts : Reached(k, "IS")}

(* j produces the value k reads in r: the last instruction before k, in    *)
(* trace order, that writes r.                                             *)
Produces(j, k, r) ==
  /\ j < k /\ listInst[j].dreg = r
  /\ \A m \in (j + 1)..(k - 1) : listInst[m].dreg # r
Producers(k, r) == {j \in 1..(k - 1) : Produces(j, k, r)}

(* True dependences hold out of order: an instruction enters EX only when  *)
(* every instruction that produces one of its sources is in WB, no earlier *)
(* than the cycle it got there (dis_issue, after dis_exec_update_regs).    *)
RAWOrder ==
  \A k \in Insts : Reached(k, "EX") =>
    \A r \in Sources(k) : \A j \in Producers(k, r) :
      State(j) = "WB" /\ At(j, "WB") <= At(k, "EX")

(* The private ready bit of a source in the issue list is set exactly when *)
(* its producer is done, and a source that waits holds the name its        *)
(* producer will announce: no wakeup of dis_exec_update_regs is missed and *)
(* none reaches the wrong instruction.                                     *)
Alive(j, name) ==
  \/ \E i \in 1..Len(issue) : issue[i].data = j /\ issue[i].dreg.name = name
  \/ \E i \in 1..Len(exec) : exec[i].data = j /\ exec[i].dreg.name = name
SourceTracksProducer(k, src) ==
  src.rnum \in Reg =>
    /\ src.ready <=> \A j \in Producers(k, src.rnum) : State(j) = "WB"
    /\ ~src.ready => \E j \in Producers(k, src.rnum) : Alive(j, src.name)
NoLostWakeup ==
  \A i \in 1..Len(issue) :
    LET node == issue[i]
    IN  /\ node.sreg1.rnum = listInst[node.data].sreg1
        /\ node.sreg2.rnum = listInst[node.data].sreg2
        /\ SourceTracksProducer(node.data, node.sreg1)
        /\ SourceTracksProducer(node.data, node.sreg2)

(* The register map table speaks of the last dispatched writer of each     *)
(* register and of no older one, in whatever order writers of a register   *)
(* finish (the name test of dis_exec_update_regs).                         *)
RMTLatest ==
  \A r \in Reg :
    LET writers == {j \in Dispatched : listInst[j].dreg = r}
    IN  IF writers = {} THEN rmt[r].ready /\ rmt[r].name = 0
        ELSE \E j \in writers :
               /\ \A i \in writers : i <= j
               /\ rmt[r].ready <=> State(j) = "WB"
               /\ ~rmt[r].ready => Alive(j, rmt[r].name)

-----------------------------------------------------------------------------
(* Dispatch is in order, though nothing in dis_dispatch says so: it skips  *)
(* what it cannot move and goes on.  The dispatch and issue lists are in   *)
(* trace order at every step, so that the sorts of dis_fetch and           *)
(* dis_dispatch find nothing to do, and whatever was dispatched is older   *)
(* than whatever was not.                                                  *)
InOrder ==
  /\ \A i, j \in 1..Len(disp) : i < j => disp[i] < disp[j]
  /\ \A i, j \in 1..Len(issue) : i < j => issue[i].data < issue[j].data
  /\ \A j \in 1..Len(disp) :
       /\ \A i \in 1..Len(issue) : issue[i].data < disp[j]
       /\ \A i \in 1..Len(exec) : exec[i].data < disp[j]

(* Why: in list_disp the instructions in ID come before those in IF, and   *)
(* once the loop of dis_dispatch has passed a node it moves no other.      *)
DispatchPrefix ==
  /\ \A j \in 1..Len(disp) : State(disp[j]) \in {"IF", "ID"}
  /\ \A i, j \in 1..Len(disp) :
       i < j /\ State(disp[j]) = "ID" => State(disp[i]) = "ID"
  /\ stage = "dispatch" /\ pos > 1 =>
       len.issue >= S \/ \A j \in pos..Len(disp) : State(disp[j]) # "ID"

(* Every instruction is on the one list its state names, once, and each    *)
(* length counter, on which every admission and the end of the simulation  *)
(* depend, is the length of its list.                                      *)
DataOf(nodes) == {nodes[i].data : i \in 1..Len(nodes)}
ItemsOf(list) == {list[i] : i \in 1..Len(list)}
InState(sts) == {k \in Insts : State(k) \in sts}
ListsMatchStates ==
  /\ InState({"IF", "ID"}) = ItemsOf(disp) /\ Cardinality(ItemsOf(disp)) = Len(disp)
  /\ InState({"IS"}) = DataOf(issue) /\ Cardinality(DataOf(issue)) = Len(issue)
  /\ InState({"EX"}) = DataOf(exec) /\ Cardinality(DataOf(exec)) = Len(exec)
  /\ InState({"WB"}) = ItemsOf(wback) /\ Cardinality(ItemsOf(wback)) = Len(wback)
  /\ len = [disp |-> Len(disp), issue |-> Len(issue), exec |-> Len(exec)]

(* No more than N instructions enter a stage in one cycle.  dis_issue and  *)
(* dis_fetch count; dis_dispatch does not, and is held to N by what the    *)
(* other two did in the cycles before.                                     *)
Entering(st) == {k \in Insts : Reached(k, st) /\ At(k, st) = cycle}
DispatchWidth == stage # "done" => Cardinality(Entering("IS")) <= N

(* "It can move upto 'n' instrctions" (dis_issue, dis-pipeline.c:305-307). *)
IssueWidth == stage # "done" => Cardinality(Entering("EX")) <= N

(* Fully pipelined units of latency 1, 2 and 5 never fill the 5N places of *)
(* list_exec: with no cache, issue is never refused a place.               *)
ExecNeverFull == stage = "issue" /\ count < N => CanPush("exec")

-----------------------------------------------------------------------------
(* When the issue stage ends, an instruction whose producers are all done  *)
(* is left behind only when the width or list_exec is used up, and then    *)
(* only by older ones: producers that ended this very cycle count.         *)
IssueGreedy ==
  stage = "issue" /\ pos > Len(issue) =>
    \A k \in InState({"IS"}) :
      (\A r \in Sources(k) : \A j \in Producers(k, r) : State(j) = "WB") =>
        /\ Cardinality(Entering("EX")) = N \/ ~CanPush("exec")
        /\ \A j \in Entering("EX") : j < k

(* When the dispatch stage ends, no instruction that has had its cycle in  *)
(* ID is left while the scheduling queue has room; and an instruction is   *)
(* in IF for one cycle, whatever the queues hold.                          *)
DispatchGreedy ==
  /\ stage = "fetch" => len.issue = S \/ \A k \in InState({"ID"}) : At(k, "ID") = cycle
  /\ \A k \in Insts : Reached(k, "ID") => At(k, "ID") = At(k, "IF") + 1

(* An instruction leaves EX in the cycle its latency ends, never after it: *)
(* the test of dis_execute_is_over is an equality, and one missed cycle    *)
(* would leave the instruction in EX until the counter came round.         *)
OnTime ==
  /\ stage = "issue" /\ pos = 1 /\ count = 0 =>
       \A k \in InState({"EX"}) : cycle < At(k, "EX") + listInst[k].latency
  /\ \A k \in InState({"WB"}) : At(k, "WB") = At(k, "EX") + listInst[k].latency

(* "If cache is enabled, the latency for type2 insts are based on the      *)
(* cachee lookup results" (dis-pipeline.c:584-585): after its first cycle  *)
(* in EX an instruction of type 2 has a latency some lookup returned.      *)
TypeTwoLatency ==
  HasL1 /\ stage = "issue" /\ pos = 1 /\ count = 0 =>
    \A k \in InState({"EX"}) :
      listInst[k].type = 2 /\ At(k, "EX") < cycle => listInst[k].latency \in LookupLatency

(* The loop of dis_parse_tracefile is left only when the trace is used up  *)
(* and every instruction is written back, and the report has them all, in  *)
(* trace order.                                                            *)
DoneComplete ==
  stage = "done" =>
    /\ traceDone
    /\ InState({"WB"}) = Insts
    /\ wback = [k \in Insts |-> k]

(* What the report prints is a schedule a machine with these sizes can     *)
(* run: read from the printed starts and durations alone, no cycle has     *)
(* more than 2N instructions fetched and not dispatched or more than S     *)
(* waiting to issue, every stage takes time, and the number of cycles is   *)
(* that of the cycles in which some instruction was in flight              *)
(* (dis_print_inst_stats).                                                 *)
PrintedIn(st, c) == {k \in Insts : c \in At(k, st)..(At(k, st) + Lasts(k, st) - 1)}
ReportIsASchedule ==
  stage = "done" =>
    /\ \A c \in 0..(NumCycles - 1) :
         /\ Cardinality(PrintedIn("IF", c) \cup PrintedIn("ID", c)) <= 2 * N
         /\ Cardinality(PrintedIn("IS", c)) <= S
         /\ Insts # {} => \E st \in InstState : PrintedIn(st, c) # {}
    /\ \A k \in Insts : /\ \A st \in InstState : Lasts(k, st) > 0
                        /\ At(k, "WB") < NumCycles

-----------------------------------------------------------------------------
(* No instruction starves, and how long it takes: the k-th is written back *)
(* by the cycle 2 * k * Longest, whatever it waits for and whatever is in  *)
(* its way.  When the one before it is written back it is at most three    *)
(* cycles from EX, unless list_exec is full of younger ones, and those are *)
(* on their way out.  Longest is no less than any latency.                 *)
Latencies == {5} \cup {5 + lat : lat \in IF HasL1 THEN LookupLatency ELSE {}}
Longest == CHOOSE m \in Latencies : \A n \in Latencies : n <= m
KeepsPace ==
  \A k \in Insts : (IF State(k) = "WB" THEN At(k, "WB") ELSE cycle) <= 2 * k * Longest

(* No instruction starves: what is fetched is written back. *)
AllWrittenBack ==
  \A k \in 1..MaxTrace : k \in Insts ~> k \in Insts /\ State(k) = "WB"

(* The scheduler implements Dataflow: renaming, the queues and the widths  *)
(* decide when an instruction runs, and never let it run before the        *)
(* instructions it depends on.                                             *)
Phase(st) == CASE st = "EX" -> "running" [] st = "WB" -> "done" [] OTHER -> "waiting"
Abstract == INSTANCE Dataflow WITH
  program <- [k \in Insts |-> [dest |-> listInst[k].dreg, sources |-> Sources(k)]],
  phase   <- [k \in Insts |-> Phase(State(k))]
ImplementsDataflow == Abstract!FairSpec
=============================================================================
