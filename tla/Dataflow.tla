------------------------------ MODULE Dataflow ------------------------------
(***************************************************************************)
(* What the scheduler promises, with no lists, names, cycles or widths: a  *)
(* program arrives one instruction at a time, an instruction starts only   *)
(* when the instructions that produce its sources are done, and every      *)
(* instruction is done in the end.                                         *)
(***************************************************************************)
EXTENDS Integers, Sequences

CONSTANTS
  Reg,        \* registers
  NoReg,      \* the destination of an instruction that writes none
  MaxTrace    \* bound: the longest program

VARIABLES
  program,    \* the instructions so far: what each writes and what it reads
  phase       \* "waiting", "running" or "done", for each of them

Operation == [dest : Reg \cup {NoReg}, sources : SUBSET Reg]

(* Instruction j gives k the value of r: the last one before k to write r. *)
Produces(j, k, r) ==
  /\ j < k /\ program[j].dest = r
  /\ \A m \in (j + 1)..(k - 1) : program[m].dest # r

Init == program = <<>> /\ phase = <<>>

Arrive(op) ==
  /\ Len(program) < MaxTrace
  /\ program' = Append(program, op)
  /\ phase' = Append(phase, "waiting")

Start(k) ==
  /\ k \in DOMAIN phase /\ phase[k] = "waiting"
  /\ \A r \in program[k].sources, j \in 1..(k - 1) : Produces(j, k, r) => phase[j] = "done"
  /\ phase' = [phase EXCEPT ![k] = "running"]
  /\ UNCHANGED program

Complete(k) ==
  /\ k \in DOMAIN phase /\ phase[k] = "running"
  /\ phase' = [phase EXCEPT ![k] = "done"]
  /\ UNCHANGED program

Next ==
  \/ \E op \in Operation : Arrive(op)
  \/ \E k \in 1..MaxTrace : Start(k) \/ Complete(k)

Spec == Init /\ [][Next]_<<program, phase>>

(* Whatever may run does run, and ends. *)
FairSpec ==
  /\ Spec
  /\ \A k \in 1..MaxTrace : /\ WF_<<program, phase>>(Start(k))
                            /\ WF_<<program, phase>>(Complete(k))
=============================================================================
