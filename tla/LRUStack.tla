------------------------------- MODULE LRUStack -------------------------------
(***************************************************************************)
(* What the caches promise, with no ages and no places: each set is a      *)
(* stack of blocks, the one used last on top; a block that is used goes to *)
(* the top, and a full set loses the block at the bottom, which goes to    *)
(* the next cache if it was written.                                       *)
(***************************************************************************)
EXTENDS Integers, Sequences

CONSTANTS
  NumSets(_),       \* sets of each cache
  UsedSets,         \* how many of them a block number can name
  Assoc,            \* blocks of a set of each cache
  Block,            \* block numbers
  RefType           \* kinds of request

VARIABLES
  second,   \* TRUE iff there is a second cache
  stack,    \* for each cache and set, its blocks, last used first
  answer    \* the latency of the last request

Level == IF second THEN {1, 2} ELSE {1}
SetOf(l, b) == b % UsedSets[l]
Held(s, b) == \E k \in DOMAIN s : s[k].block = b
WasWritten(s, b) == \E k \in DOMAIN s : s[k].block = b /\ s[k].written

(* How deep the entry is that b takes: its own, else the first free one    *)
(* below the stack, else that at the bottom.                               *)
Depth(l, s, b) ==
  IF Held(s, b) THEN CHOOSE k \in DOMAIN s : s[k].block = b
  ELSE IF Len(s) < Assoc[l] THEN Len(s) + 1 ELSE Len(s)

(* The set after block b was used: it is on top, and what was above it is  *)
(* one deeper.                                                             *)
Use(l, s, b, written) ==
  LET d == Depth(l, s, b)
  IN  [k \in 1..(IF d > Len(s) THEN d ELSE Len(s)) |->
         IF k = 1 THEN [block |-> b, written |-> written \/ WasWritten(s, b)]
         ELSE IF k <= d THEN s[k - 1] ELSE s[k]]
UseIn(l, cache, b, written) == [cache EXCEPT ![SetOf(l, b)] = Use(l, @, b, written)]

(* What a request for b pushes out of cache l, if it was written. *)
Dropped(l, s, b) ==
  IF Held(s, b) \/ Len(s) < Assoc[l] \/ ~s[Len(s)].written THEN {} ELSE {s[Len(s)].block}

Init ==
  /\ second \in BOOLEAN
  /\ stack = [l \in Level |-> [i \in 0..(NumSets(l) - 1) |-> <<>>]]
  /\ answer = 0

(* One cache: the answer tells a hit from a miss. *)
RequestOne(type, b) ==
  /\ ~second
  /\ answer' = IF Held(stack[1][SetOf(1, b)], b) THEN 5 ELSE 20
  /\ stack' = [stack EXCEPT ![1] = UseIn(1, @, b, type = "w")]

(* Two caches: on a miss of the first, what it drops is written to the     *)
(* second, then b is read from the second.                                 *)
RequestTwo(type, b) ==
  LET set == stack[1][SetOf(1, b)]
      out == Dropped(1, set, b)
      after == IF out = {} THEN stack[2]
                ELSE UseIn(2, stack[2], CHOOSE v \in out : TRUE, TRUE)
      hit == Held(set, b)
  IN  /\ second
      /\ answer' = IF hit THEN 5 ELSE IF Held(after[SetOf(2, b)], b) THEN 10 ELSE 20
      /\ stack' = [stack EXCEPT ![1] = UseIn(1, @, b, type = "w"),
                                ![2] = IF hit THEN @ ELSE UseIn(2, after, b, FALSE)]

Next ==
  /\ \E type \in RefType, b \in Block : RequestOne(type, b) \/ RequestTwo(type, b)
  /\ UNCHANGED second

Spec == Init /\ [][Next]_<<second, stack, answer>>
=============================================================================
