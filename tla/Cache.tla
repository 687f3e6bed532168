-------------------------------- MODULE Cache --------------------------------
(***************************************************************************)
(* The data caches (dis-cache.c): an L1 and, if it has a size, an L2, both *)
(* set associative, LRU by age, write back and write allocate, which is    *)
(* what cache_init gives every cache.  A memory request runs to its end    *)
(* inside one call, so it is one action; the order of the nested calls     *)
(* (choose a block, write back the one evicted, read from the next level,  *)
(* fill) is the order in which the operators below are composed.           *)
(***************************************************************************)
EXTENDS Integers, FiniteSets

CONSTANTS
  L2Given,    \* which values l2_cache_size # 0 may have
  BlkSize,    \* blk_size, one for both caches
  Size,       \* size of each cache, in bytes
  Assoc,      \* set_assoc of each cache
  Addr,       \* the addresses referenced
  RefType,    \* {"r"} from the scheduler; "w" is the component's other kind
  MaxRequests     \* bound: how many requests are made

(* cache_tagstore_init *)
NumSets(l) == Size[l] \div (Assoc[l] * BlkSize)

(* Blocks for which the bits of an address are the quotient and remainder  *)
(* below: CacheAddr.tla says what happens with others.                     *)
PowerOf2(n) == \E k \in 0..30 : n = 2 ^ k

(* num_index_bits is a logarithm rounded down: of a number of sets that is *)
(* no power of two, only so many are ever named by an index.               *)
UsedSets == [l \in {1, 2} |->
  CHOOSE p \in {2 ^ k : k \in 0..30} : p <= NumSets(l) /\ NumSets(l) < 2 * p]

ASSUME LevelAssumption == L2Given \subseteq BOOLEAN /\ PowerOf2(BlkSize) /\ BlkSize > 1

(* A size is what atoi makes of an argument, an int. *)
MaxInt == 2147483647
ASSUME SizeAssumption ==
  \A l \in {1, 2} : Size[l] \in 0..MaxInt /\ Assoc[l] \in Nat \ {0} /\ NumSets(l) > 0
ASSUME RefAssumption == Addr \subseteq Nat /\ RefType \subseteq {"r", "w"} /\ MaxRequests \in Nat

VARIABLES
  l2Present, \* g_l2_present
  blocks,   \* tags and tag_data of each cache, by set and block
  stats,    \* the statistics of each cache
  clock,    \* the microseconds of util_get_curr_time
  requests,     \* how many requests were made
  last      \* the last request and the latency it was given

cacheVars == <<l2Present, blocks, stats, clock, requests, last>>

Way(l)    == 0..(Assoc[l] - 1)
SetId(l)  == 0..(NumSets(l) - 1)
Level == IF l2Present THEN {1, 2} ELSE {1}
HasNext(l) == l + 1 \in Level
None      == -1   \* CACHE_RV_ERR

(* cache_util_decode_mem_addr and cache_util_encode_mem_addr *)
Tag(l, a)   == (a \div BlkSize) \div UsedSets[l]
Index(l, a) == (a \div BlkSize) % UsedSets[l]
Encode(l, tag, i) == (tag * UsedSets[l] + i) * BlkSize

-----------------------------------------------------------------------------
(* The first block of those that satisfy P, or None. *)
First(ways, P(_)) ==
  IF \E w \in ways : P(w) THEN CHOOSE w \in ways : P(w) /\ \A v \in ways : P(v) => w <= v
  ELSE None

(* Mutant: only the first block of the set is compared. *)
TagMatch_FirstOnly(set, tag) == First({0}, LAMBDA w : set[w].valid /\ set[w].tag = tag)

(* cache_does_tag_match, cache_get_first_invalid_block: on one set *)
TagMatch(set, tag) == First(DOMAIN set, LAMBDA w : set[w].valid /\ set[w].tag = tag)
FirstInvalid(set)  == First(DOMAIN set, LAMBDA w : ~set[w].valid)

(* cache_get_lru_block: the first block of least age; it is only called    *)
(* when every block of the set is valid.                                   *)
LRUBlock(set) == First(DOMAIN set, LAMBDA w : \A v \in DOMAIN set : set[w].age <= set[v].age)

Fresh(set) == IF FirstInvalid(set) # None THEN FirstInvalid(set) ELSE LRUBlock(set)

(* Mutants: the time in the L1 is added to that in the L2; it is the time  *)
(* of an L1 hit in any cache.                                              *)
HitLatency_Sum(l) == IF l = 1 THEN 5 ELSE 15
HitLatency_Same(l) == 5

HitLatency(l) == IF l = 1 THEN 5 ELSE 10
MissLatency   == 20

-----------------------------------------------------------------------------
(* One cache is a record: its blocks and its statistics.  The operators    *)
(* return the record after one step of cache_evict_and_add_tag.            *)
Count(c, field) == [c EXCEPT !.stats[field] = @ + 1]

Refer(c, type) == Count(c, IF type = "r" THEN "reads" ELSE "writes")

(* Mutants: a hit leaves the age alone, which is FIFO; a read hit cleans   *)
(* the block.                                                              *)
Hit_NoAge(c, i, w, type, now) ==
  LET b == [c.blocks[i][w] EXCEPT !.dirty = @ \/ type = "w"]
  IN  Count([c EXCEPT !.blocks[i][w] = b], IF type = "r" THEN "readHits" ELSE "writeHits")
Hit_ReadCleans(c, i, w, type, now) ==
  LET b == [c.blocks[i][w] EXCEPT !.valid = TRUE, !.age = now, !.dirty = type = "w"]
  IN  Count([c EXCEPT !.blocks[i][w] = b], IF type = "r" THEN "readHits" ELSE "writeHits")

(* Tag match: the block is the newest now. *)
Hit(c, i, w, type, now) ==
  LET b == [c.blocks[i][w] EXCEPT !.valid = TRUE, !.age = now,
                                          !.dirty = @ \/ type = "w"]
  IN  Count([c EXCEPT !.blocks[i][w] = b], IF type = "r" THEN "readHits" ELSE "writeHits")

(* A missed block is put in place of block w.  Its dirty bit is the one    *)
(* the place had, set for a write: an evicted block was cleaned before.    *)
Fill(c, i, w, tag, type, now) ==
  LET b == [tag |-> tag, valid |-> TRUE, age |-> now,
            dirty |-> c.blocks[i][w].dirty \/ type = "w"]
  IN  Count(Count([c EXCEPT !.blocks[i][w] = b], "traffic"),
            IF type = "r" THEN "readMisses" ELSE "writeMisses")

(* Mutant: the write back is not counted as traffic. *)
Clean_NoTraffic(c, i, w) == Count([c EXCEPT !.blocks[i][w].dirty = FALSE], "writeBacks")

(* The end of cache_handle_dirty_tag_evicts: the block is clean, and       *)
(* counted as written back.                                                *)
Clean(c, i, w) ==
  Count(Count([c EXCEPT !.blocks[i][w].dirty = FALSE], "writeBacks"), "traffic")

(* cache_evict_and_add_tag on the last cache: a block that is missed comes *)
(* from memory, and a dirty one it replaces goes there.                    *)
AccessLast(l, c, a, type, now) ==
  LET i   == Index(l, a)
      set == c.blocks[i]
      hit == TagMatch(set, Tag(l, a))
      w   == Fresh(set)
      ready == IF set[w].dirty THEN Clean(Refer(c, type), i, w) ELSE Refer(c, type)
  IN  IF hit # None
      THEN [cache |-> Hit(Refer(c, type), i, hit, type, now), latency |-> HitLatency(l)]
      ELSE [cache |-> Fill(ready, i, w, Tag(l, a), type, now), latency |-> MissLatency]

(* cache_evict_and_add_tag on an L1 that has an L2.  The block for the new *)
(* tag is chosen, and if it is dirty written to L2, before L2 is read; the *)
(* age of the new block is the time the request came in.                   *)
AccessFront(front, next, a, type, now) ==
  LET i   == Index(1, a)
      set == front.blocks[i]
      hit == TagMatch(set, Tag(1, a))
      w   == Fresh(set)
      old == Encode(1, set[w].tag, i)
      next1 == IF set[w].dirty THEN AccessLast(2, next, old, "w", now + 1).cache ELSE next
      read  == AccessLast(2, next1, a, "r", now + 2)
      ready == IF set[w].dirty THEN Clean(Refer(front, type), i, w) ELSE Refer(front, type)
  IN  IF hit # None
      THEN [front |-> Hit(Refer(front, type), i, hit, type, now), next |-> next,
            latency |-> HitLatency(1)]
      ELSE [front |-> Fill(ready, i, w, Tag(1, a), type, now), next |-> read.cache,
            latency |-> read.latency]

-----------------------------------------------------------------------------
(* cache_init and cache_tagstore_init: everything is calloc'ed. *)
NoStats == [reads |-> 0, writes |-> 0, readHits |-> 0, writeHits |-> 0,
            readMisses |-> 0, writeMisses |-> 0, writeBacks |-> 0, traffic |-> 0]
Empty == [tag |-> 0, valid |-> FALSE, dirty |-> FALSE, age |-> 0]

CacheInit ==
  /\ l2Present \in L2Given
  /\ blocks = [l \in Level |-> [i \in SetId(l) |-> [w \in Way(l) |-> Empty]]]
  /\ stats = [l \in Level |-> NoStats]
  /\ clock = 0 /\ requests = 0
  /\ last = [type |-> "none", addr |-> 0, latency |-> 0]

Cache(l) == [blocks |-> blocks[l], stats |-> stats[l]]

(* cache_print_cache_data: each age of a set that is not 0, the age of a   *)
(* place never filled, is looked for among the blocks of the set, and the  *)
(* block that has it is printed.                                           *)
Printed(l, i) ==
  LET set == blocks[l][i]
  IN  [w \in Way(l) |-> First(Way(l), LAMBDA v : set[w].age # 0 /\ set[v].age = set[w].age)]

(* Mutant: the clock is read without a wait. *)
Elapsed_None == 0

(* What the readings of the clock in one request take, at least: a         *)
(* microsecond each (usleep(1) in util_get_curr_time).                     *)
Elapsed == 3

(* cache_handle_memory_request: it is always the L1 that is asked.  Each   *)
(* reading of the clock is later than the one before (usleep(1)).          *)
Request(type, a) ==
  /\ requests < MaxRequests
  /\ LET now  == clock + 1
         one  == AccessLast(1, Cache(1), a, type, now)
         both == AccessFront(Cache(1), Cache(2), a, type, now)
     IN  IF HasNext(1)
         THEN /\ blocks' = [blocks EXCEPT ![1] = both.front.blocks, ![2] = both.next.blocks]
              /\ stats' = [stats EXCEPT ![1] = both.front.stats, ![2] = both.next.stats]
              /\ last' = [type |-> type, addr |-> a, latency |-> both.latency]
         ELSE /\ blocks' = [blocks EXCEPT ![1] = one.cache.blocks]
              /\ stats' = [stats EXCEPT ![1] = one.cache.stats]
              /\ last' = [type |-> type, addr |-> a, latency |-> one.latency]
  /\ clock' = clock + Elapsed
  /\ requests' = requests + 1
  /\ UNCHANGED l2Present

CacheNext == \E type \in RefType, a \in Addr : Request(type, a)
CacheSpec == CacheInit /\ [][CacheNext]_cacheVars
=============================================================================
