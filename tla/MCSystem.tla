------------------------------- MODULE MCSystem -------------------------------
(* A small scheduler with small caches. *)
EXTENDS SystemProperties

CONSTANTS r1, r2

Line(type, dreg, sreg1, mem) ==
  [type |-> type, dreg |-> dreg, sreg1 |-> sreg1, sreg2 |-> NoValue, mem |-> mem]

(* Loads of three blocks of one set, one that waits for another load, a    *)
(* short instruction that waits for one, and an address on an instruction  *)
(* that is not of the memory type.                                         *)
LoadLines ==
  {Line(2, r1, NoValue, 4), Line(2, r1, NoValue, 8), Line(2, NoValue, r1, 12), Line(2, r2, r1, 5),
   Line(0, r1, r1, 0), Line(1, NoValue, r2, 8)}

(* One set of one block of 4 bytes in the L1, one set of two in the L2. *)
OneBlock == <<4, 8>>
Ways == <<1, 2>>
=============================================================================
