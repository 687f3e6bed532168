----------------------------- MODULE TraceReader -----------------------------
(***************************************************************************)
(* How dis_fetch reads a line: one fscanf("%x %u %d %d %d %x%c") on        *)
(* whatever is left of the file.  fscanf knows nothing of lines: it takes  *)
(* the next six words, and stops at one it cannot convert, which stays     *)
(* unread; the fields it did not reach keep what they held.                *)
(*                                                                         *)
(* A word is a record: what %x makes of it and what %d or %u does, each a  *)
(* sequence of one value or of none; and left, the words it leaves behind  *)
(* when it is read as a decimal (2b6420 is 2, and b6420 is left).          *)
(***************************************************************************)
EXTENDS Integers, Sequences, SequencesExt

Decimal(n)  == [hex |-> <<n>>, dec |-> <<n>>, left |-> <<>>]
Letters(v)  == [hex |-> <<v>>, dec |-> <<>>, left |-> <<>>]
Mixed(v, n) == [hex |-> <<v>>, dec |-> <<n>>, left |-> <<Letters(v)>>]
Junk        == [hex |-> <<>>, dec |-> <<>>, left |-> <<>>]

(* pc, inst_type, dreg, sreg1, sreg2, mem_addr *)
Fields == 1..6
IsHex(f) == f \in {1, 6}
Convert(f, word) == IF IsHex(f) THEN word.hex ELSE word.dec
LeftBy(f, word) == IF IsHex(f) THEN <<>> ELSE word.left

(* dis_fetch sets its locals to 0 when it is called, not for every line. *)
NoFields == [f \in Fields |-> 0]

(* One conversion, the f-th; nothing is converted after one that failed.   *)
(* A function, for TLC to evaluate the argument once.                      *)
Word == [hex : Seq(Nat), dec : Seq(Nat), left : Seq([hex : Seq(Nat), dec : Seq(Nat), left : {<<>>}])]
Reading == [count : 0..6, fields : [Fields -> Nat], rest : Seq(Word)]
ReadField[read \in Reading, f \in Fields] ==
  IF read.count # f - 1 \/ read.rest = <<>> THEN read
  ELSE IF Convert(f, Head(read.rest)) = <<>> THEN read
  ELSE [count |-> f,
        fields |-> [read.fields EXCEPT ![f] = Convert(f, Head(read.rest))[1]],
        rest |-> LeftBy(f, Head(read.rest)) \o Tail(read.rest)]

(* The fscanf: how many words were converted, the locals after it, and the *)
(* rest of the file.                                                       *)
Scan(file, locals) ==
  FoldLeft(LAMBDA read, f : ReadField[read, f],
           [count |-> 0, fields |-> locals, rest |-> file], [f \in Fields |-> f])

(* Mutants: only a full count is a line, the character after the sixth     *)
(* word included, which a last line may not have; the end of the file is   *)
(* taken for a count of zero like any other, which it is not.              *)
IsEOF_ShortCount(file, newline) ==
  Scan(file, NoFields).count < 6 \/ (Scan(file, NoFields).rest = <<>> /\ ~newline)
IsEOF_Never(file, newline) == FALSE

(* fscanf says EOF only if the file ends before the first word.  newline   *)
(* tells whether the last line of the file ends in one.                    *)
IsEOF(file, newline) == file = <<>>
=============================================================================
