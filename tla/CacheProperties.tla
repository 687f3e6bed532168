--------------------------- MODULE CacheProperties ---------------------------
(* What the caches must keep true. *)
EXTENDS Cache, Sequences, TLC

Last == IF HasNext(1) THEN 2 ELSE 1

BlockData == [tag : Nat, valid : BOOLEAN, dirty : BOOLEAN, age : Nat]

(* Every set is a full row of blocks and the counters are counts. *)
CacheTypeOK ==
  /\ DOMAIN blocks = Level /\ DOMAIN stats = Level
  /\ \A l \in Level : /\ blocks[l] \in [SetId(l) -> [Way(l) -> BlockData]]
                      /\ stats[l] \in [DOMAIN NoStats -> Nat]
  /\ clock \in Nat /\ requests \in 0..MaxRequests
  /\ last.latency \in {0, 5, 10, 20}

Valid(l, i) == {w \in Way(l) : blocks[l][i][w].valid}

(* A block is in one place of its cache at most, and no two blocks of a    *)
(* set have the same age, so that the LRU choice never depends on the      *)
(* order of the scan.  Only a valid block is ever dirty.                   *)
OneCopy ==
  \A l \in Level : \A i \in SetId(l) :
    /\ \A v, w \in Valid(l, i) : v # w =>
         /\ blocks[l][i][v].tag # blocks[l][i][w].tag
         /\ blocks[l][i][v].age # blocks[l][i][w].age
    /\ \A w \in Way(l) \ Valid(l, i) : ~blocks[l][i][w].dirty

(* The statistics of a cache add up, and those of the L2 are what the L1   *)
(* sends it: a read for each miss, a write for each write back.            *)
StatsBalance ==
  /\ \A l \in Level :
       LET s == stats[l]
       IN  /\ s.reads = s.readHits + s.readMisses
           /\ s.writes = s.writeHits + s.writeMisses
           /\ s.traffic = s.readMisses + s.writeMisses + s.writeBacks
  /\ stats[1].reads + stats[1].writes = requests
  /\ HasNext(1) => /\ stats[2].reads = stats[1].readMisses + stats[1].writeMisses
                   /\ stats[2].writes = stats[1].writeBacks

(* The report names every block a cache holds once, and nothing for a      *)
(* place that is empty, although it looks blocks up by their age: two      *)
(* blocks of one age would be printed as one block twice.                  *)
ReportPrintsEach ==
  \A l \in Level : \A i \in SetId(l) :
    Printed(l, i) = [w \in Way(l) |-> IF w \in Valid(l, i) THEN w ELSE None]

-----------------------------------------------------------------------------
Holds(l, a) == TagMatch(blocks[l][Index(l, a)], Tag(l, a)) # None

(* The latency names the nearest cache that held the block when the        *)
(* request came: 5 for the L1, 10 for the L2, 20 for none; except that a   *)
(* block the L1 writes back to the L2 on the way may push the requested    *)
(* one out of it.                                                          *)
LatencyNamesLevel ==
  [][LET a == last'.addr
         inL2 == HasNext(1) /\ Holds(2, a)
     IN  /\ last'.latency = 5 <=> Holds(1, a)
         /\ last'.latency = 10 => inL2
         /\ last'.latency = 20 /\ inL2 => stats'[1].writeBacks > stats[1].writeBacks]_cacheVars

(* Written data does not vanish: a block that is dirty somewhere is still  *)
(* dirty somewhere after a request, unless the last cache wrote back a     *)
(* block, and no more blocks stop being dirty than it wrote back.          *)
DirtyBlocks(l) ==
  UNION {{Encode(l, blocks[l][i][w].tag, i) : w \in {v \in Way(l) : blocks[l][i][v].dirty}} :
         i \in SetId(l)}
Dirty == UNION {DirtyBlocks(l) : l \in Level}
DirtyKept ==
  [][Cardinality(Dirty \ Dirty') <= stats'[Last].writeBacks - stats[Last].writeBacks]_cacheVars

-----------------------------------------------------------------------------
(* The caches implement LRUStack: ages that are read from a clock, a first *)
(* free place, a first oldest place and a dirty bit that stays behind in   *)
(* it amount to stacks.                                                    *)
ValidIn(l, set) == {w \in Way(l) : set[w].valid}
NewerIn(l, set, w) == {v \in ValidIn(l, set) : set[v].age > set[w].age}
Rank(l, set, w) == Cardinality(NewerIn(l, set, w))
BlockEntry(l, i, set, w) ==
  [block |-> Encode(l, set[w].tag, i) \div BlkSize, written |-> set[w].dirty]
StackIn(l, i, set) ==
  [k \in 1..Cardinality(ValidIn(l, set)) |->
     BlockEntry(l, i, set, CHOOSE w \in ValidIn(l, set) : Rank(l, set, w) = k - 1)]
StacksOf(l, bs) == [i \in SetId(l) |-> StackIn(l, i, bs[i])]
Stacks == [l \in Level |-> StacksOf(l, blocks[l])]
Stack == INSTANCE LRUStack WITH
  Block  <- {a \div BlkSize : a \in Addr},
  second <- l2Present,
  stack  <- Stacks,
  answer <- last.latency
ImplementsLRU == Stack!Spec
=============================================================================
