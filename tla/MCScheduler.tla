----------------------------- MODULE MCScheduler -----------------------------
(* Small instances of the scheduler: alphabets of trace lines. *)
EXTENDS SchedulerProperties, TLC

CONSTANTS r1, r2   \* two registers

Line(type, dreg, sreg1, sreg2, mem) ==
  [type |-> type, dreg |-> dreg, sreg1 |-> sreg1, sreg2 |-> sreg2, mem |-> mem]

RegSymmetry == Permutations({r1, r2})

Swap(r) == IF r = r1 THEN r2 ELSE r1

(* Long and short writers of each register, writers that read what they    *)
(* write, and readers of one or both.                                      *)
DependenceLines ==
  UNION {{Line(0, r, NoValue, NoValue, 0), Line(2, r, NoValue, NoValue, 0),
          Line(1, r, r, NoValue, 0), Line(0, r, Swap(r), NoValue, 0),
          Line(1, NoValue, r, Swap(r), 0)} : r \in {r1, r2}}

(* One register: a long writer, a short one, a reader and one that does    *)
(* both.                                                                   *)
PressureLines ==
  {Line(2, r1, NoValue, NoValue, 0), Line(0, NoValue, r1, NoValue, 0),
   Line(1, r1, r1, NoValue, 0)}

(* Loads only, and one instruction that waits for none. *)
StreamLines == {Line(2, r1, NoValue, NoValue, 1), Line(0, NoValue, NoValue, NoValue, 0)}

(* A long writer and readers of what it writes, that wake together. *)
WakeLines == {Line(2, r1, NoValue, NoValue, 0), Line(0, NoValue, r1, NoValue, 0)}
=============================================================================
