------------------------------ MODULE MCFrontEnd ------------------------------
(* Small trace files and argument lists. *)
EXTENDS FrontEndProperties

(* Three entries; addresses of instructions begin with a digit, as those   *)
(* of the traces in docs/ do, and only loads have a memory address.  The   *)
(* registers are below 3, so that a type read from one is a type.          *)
Entries == << <<101, 0, 1, 2, 0, 0>>, <<102, 2, 2, 1, 0, 200>>, <<103, 1, 0, 2, 1, 0>> >>
WordsOf(e) ==
  <<Mixed(e[1], 2), Decimal(e[2]), Decimal(e[3]), Decimal(e[4]), Decimal(e[5]),
    IF e[6] = 0 THEN Decimal(0) ELSE Letters(e[6])>>
File(lines) == FlattenSeq([j \in DOMAIN lines |-> WordsOf(lines[j])])

(* The first whole of the entries are there, complete; newline tells       *)
(* whether the last line ends in one.                                      *)
Trace(file, entries, whole, ends) ==
  [words |-> file, lines |-> entries, whole |-> whole, newline |-> ends, opens |-> TRUE]

CompleteTraces ==
  {Trace(File(SubSeq(Entries, 1, len)), SubSeq(Entries, 1, len), len, ends) :
     len \in 0..3, ends \in BOOLEAN}

(* The last of the lines lacks its last words; so does one between; a line *)
(* has a word too many.                                                    *)
Cut(line, keep) == SubSeq(WordsOf(line), 1, keep)
CutTraces ==
  {Trace(File(SubSeq(Entries, 1, 2)) \o Cut(Entries[3], keep), Entries, 2, TRUE) : keep \in 1..5}
    \cup {Trace(WordsOf(Entries[1]) \o Cut(Entries[2], keep) \o WordsOf(Entries[3]), Entries, 1, TRUE) :
           keep \in {1, 4, 5}}
    \cup {Trace(WordsOf(Entries[1]) \o <<Decimal(1)>> \o WordsOf(Entries[2]), Entries, 1, TRUE)}
JunkTrace == Trace(WordsOf(Entries[1]) \o <<Junk>> \o WordsOf(Entries[2]), Entries, 1, TRUE)

Arguments(s, n, blk, assoc1, size2, assoc2, trace) ==
  [argc |-> TRUE, s |-> s, n |-> n, blk |-> blk, assoc1 |-> assoc1, size2 |-> size2,
   assoc2 |-> assoc2] @@ trace

(* The second line is of type 2 and has no address: behind a cache it is   *)
(* never over.                                                             *)
NoAddressEntries == << <<101, 0, 1, 2, 0, 0>>, <<102, 2, 2, 1, 0, 0>>, <<103, 1, 0, 2, 1, 0>> >>
NoAddressTrace == Trace(File(NoAddressEntries), NoAddressEntries, 3, TRUE)

(* Every trace with some widths, among them zero, and no cache; every kind *)
(* of caches with one trace, among them divisors that are 0 in 16 bits and *)
(* in 32; a line that is never over; no arguments; no file.                *)
OneTrace == CHOOSE t \in CompleteTraces : Len(t.lines) = 2 /\ t.newline
AllArgs ==
  {Arguments(size[1], size[2], 0, 0, 0, 0, t) :
     size \in {<<2, 2>>, <<1, 1>>, <<0, 1>>, <<2, 0>>},
     t \in CompleteTraces \cup CutTraces \cup {JunkTrace}}
  \cup {Arguments(2, 1, 4, assoc1, size2, assoc2, OneTrace) :
          assoc1 \in {0, 1, AssocMod}, size2 \in {0, 8}, assoc2 \in {0, 2}}
  \cup {Arguments(2, 1, WordMod \div 2, assoc1, size2, assoc2, OneTrace) :
          assoc1 \in {1, 2}, size2 \in {0, 8}, assoc2 \in {1, 2}}
  \cup {Arguments(size[1], size[2], blk, 1, size2, 1, NoAddressTrace) :
          size \in {<<2, 2>>, <<1, 1>>}, blk \in {0, 4}, size2 \in {0, 8}}
  \cup {[Arguments(2, 1, blk, 1, 8, 1, OneTrace) EXCEPT !.argc = FALSE] : blk \in {0, 4}}
  \cup {[Arguments(2, 1, blk, 1, 8, 1, OneTrace) EXCEPT !.opens = FALSE] : blk \in {0, 4}}
=============================================================================
