------------------------------ MODULE InstQueues ------------------------------
(***************************************************************************)
(* What Scheduler.tla takes lists of instructions to be: sequences.  A     *)
(* stage's loop walks one of them, at a position, and passes instructions  *)
(* to another; the second is put in trace order from time to time.         *)
(***************************************************************************)
EXTENDS Integers, Sequences, SequencesExt

CONSTANT Num   \* the numbers instructions are given

VARIABLES
  from, to,   \* the two lists: instruction numbers
  at          \* the position the loop is at; 0 when none is running

vars == <<from, to, at>>

Init == from = <<>> /\ to = <<>> /\ at = 0

Fetch(n) == at = 0 /\ from' = Append(from, n) /\ UNCHANGED <<to, at>>

Next1 == IF at < Len(from) THEN at + 1 ELSE 0

Start == at = 0 /\ from # <<>> /\ at' = 1 /\ UNCHANGED <<from, to>>
Skip == at # 0 /\ at' = Next1 /\ UNCHANGED <<from, to>>

(* The one at the position goes; the one after it is at the position then. *)
Pass ==
  /\ at # 0
  /\ to' = Append(to, from[at])
  /\ from' = RemoveAt(from, at)
  /\ at' = IF at < Len(from) THEN at ELSE 0

(* The same numbers, none lost or repeated, in trace order. *)
Sort ==
  /\ at = 0 /\ UNCHANGED <<from, at>>
  /\ ToSet(to') = ToSet(to) /\ Len(to') = Len(to)
  /\ \A i, j \in 1..Len(to') : i < j => to'[i] < to'[j]

(* Everything is given back. *)
Clear == at = 0 /\ from' = <<>> /\ to' = <<>> /\ UNCHANGED at

Next == (\E n \in Num : Fetch(n)) \/ Start \/ Skip \/ Pass \/ Sort \/ Clear

Spec == Init /\ [][Next]_vars
=============================================================================
