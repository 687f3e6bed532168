----------------------------- MODULE CacheProofs -----------------------------
(***************************************************************************)
(* The caches, for every geometry: OneCopy, the statistics and the report, *)
(* what they answer and keep (LatencyNamesLevel, DirtyKept), and that the  *)
(* ages of the blocks amount to LRU stacks.                                *)
(***************************************************************************)
EXTENDS CacheProperties, WellFoundedInduction, FiniteSetTheorems,
        FunctionTheorems, TLAPS

(* A set of natural numbers has a least element. *)
LEMMA LeastElement ==
  ASSUME NEW T \in SUBSET Nat, T # {}
  PROVE  \E w \in T : \A v \in T : w <= v
<1> DEFINE R == OpToRel(<, Nat)
<1>1. IsWellFoundedOn(R, Nat)
  BY NatLessThanWellFounded
<1>2. ASSUME NEW x \in Nat, NEW y \in Nat, x < y PROVE <<x, y>> \in R
  BY <1>2 DEF OpToRel
<1> HIDE DEF R
<1>3. PICK x \in T : \A y \in T : ~(<<y, x>> \in R)
  BY <1>1, WFMin
<1>4. ASSUME NEW y \in T PROVE x <= y
  <2>1. ~(<<y, x>> \in R) /\ x \in Nat /\ y \in Nat
    BY <1>3
  <2>2. ~(y < x)
    BY <1>2, <2>1
  <2> QED BY <2>1, <2>2
<1> QED BY <1>4

(* Every number of sets an int can hold lies between a power of two and    *)
(* its double.                                                             *)
LEMMA PowersOfTwo ==
  /\ \A k \in 0..30 : 2^k \in Nat \ {0}
  /\ \A n \in Nat \ {0} : n <= MaxInt => \E k \in 0..30 : 2^k <= n /\ n < 2 * 2^k
<1> DEFINE pow == [k \in 0..30 |-> 2^k]
           Between(n, k) == pow[k] <= n /\ n < 2 * pow[k]
<1>1. /\ pow[0] = 1 /\ pow[1] = 2 /\ pow[2] = 4 /\ pow[3] = 8
      /\ pow[4] = 16 /\ pow[5] = 32 /\ pow[6] = 64 /\ pow[7] = 128
  OBVIOUS
<1>2. /\ pow[8] = 256 /\ pow[9] = 512 /\ pow[10] = 1024 /\ pow[11] = 2048
      /\ pow[12] = 4096 /\ pow[13] = 8192 /\ pow[14] = 16384 /\ pow[15] = 32768
  OBVIOUS
<1>3. /\ pow[16] = 65536 /\ pow[17] = 131072 /\ pow[18] = 262144 /\ pow[19] = 524288
      /\ pow[20] = 1048576 /\ pow[21] = 2097152 /\ pow[22] = 4194304 /\ pow[23] = 8388608
  OBVIOUS
<1>4. /\ pow[24] = 16777216 /\ pow[25] = 33554432 /\ pow[26] = 67108864 /\ pow[27] = 134217728
      /\ pow[28] = 268435456 /\ pow[29] = 536870912 /\ pow[30] = 1073741824
  OBVIOUS
<1> HIDE DEF pow
<1>5. \A k \in 0..30 : pow[k] \in Nat \ {0}
  BY <1>1, <1>2, <1>3, <1>4
<1>6. ASSUME NEW n \in Nat, n > 0, n <= MaxInt
      PROVE  \E k \in 0..30 : Between(n, k)
  <2>1. CASE n < 256
    <3>1. Between(n, 0) \/ Between(n, 1) \/ Between(n, 2) \/ Between(n, 3) \/ Between(n, 4) \/ Between(n, 5) \/ Between(n, 6) \/ Between(n, 7)
      BY <1>1, <1>6, <2>1
    <3> QED BY <3>1
  <2>2. CASE n >= 256 /\ n < 65536
    <3>1. Between(n, 8) \/ Between(n, 9) \/ Between(n, 10) \/ Between(n, 11) \/ Between(n, 12) \/ Between(n, 13) \/ Between(n, 14) \/ Between(n, 15)
      BY <1>2, <1>6, <2>2
    <3> QED BY <3>1
  <2>3. CASE n >= 65536 /\ n < 16777216
    <3>1. Between(n, 16) \/ Between(n, 17) \/ Between(n, 18) \/ Between(n, 19) \/ Between(n, 20) \/ Between(n, 21) \/ Between(n, 22) \/ Between(n, 23)
      BY <1>3, <1>6, <2>3
    <3> QED BY <3>1
  <2>4. CASE n >= 16777216
    <3>1. Between(n, 24) \/ Between(n, 25) \/ Between(n, 26) \/ Between(n, 27) \/ Between(n, 28) \/ Between(n, 29) \/ Between(n, 30)
      BY <1>4, <1>6, <2>4 DEF MaxInt
    <3> QED BY <3>1
  <2> QED BY <2>1, <2>2, <2>3, <2>4
<1> QED BY <1>5, <1>6 DEF pow

(* Every address has its set. *)
LEMMA Geometry ==
  ASSUME NEW l \in {1, 2}
  PROVE  /\ NumSets(l) \in Nat \ {0} /\ UsedSets[l] \in 1..NumSets(l)
         /\ Way(l) \subseteq Nat /\ 0 \in Way(l)
<1>1. BlkSize \in Nat \ {0}
  BY LevelAssumption, PowersOfTwo DEF PowerOf2
<1>2. Size[l] \in Nat /\ Size[l] <= MaxInt /\ Assoc[l] \in Nat \ {0} /\ NumSets(l) > 0
  <2>1. MaxInt \in Nat
    BY DEF MaxInt
  <2> QED BY <2>1, SizeAssumption
<1>3. Assoc[l] * BlkSize \in Nat \ {0}
  <2>1. \A a, b \in Nat \ {0} : a * b \in Nat \ {0}
    OBVIOUS
  <2> QED BY <1>1, <1>2, <2>1
<1>4. NumSets(l) \in Nat \ {0} /\ NumSets(l) <= MaxInt
  <2>1. \A a \in Nat, b \in Nat \ {0} : a \div b \in Nat /\ a \div b <= a
    OBVIOUS
  <2> DEFINE bytes == Assoc[l] * BlkSize
  <2> HIDE DEF bytes
  <2>0. MaxInt \in Nat
    BY SMT DEF MaxInt
  <2>2. Size[l] \div bytes \in Nat /\ Size[l] \div bytes <= Size[l]
    BY <1>2, <1>3, <2>0, <2>1 DEF bytes
  <2>3. NumSets(l) \in Nat /\ NumSets(l) <= Size[l]
    BY <2>2 DEF bytes, NumSets
  <2> QED BY <1>2, <2>0, <2>3
<1> DEFINE P == {2^k : k \in 0..30}
           Fits(p) == p <= NumSets(l) /\ NumSets(l) < 2 * p
<1>5. P \subseteq Nat \ {0} /\ \E p \in P : Fits(p)
  BY <1>4, PowersOfTwo
<1>6. UsedSets[l] = CHOOSE p \in P : Fits(p)
  BY DEF UsedSets
<1> HIDE DEF P
<1>7. UsedSets[l] \in P /\ Fits(UsedSets[l])
  BY <1>5, <1>6
<1>8. UsedSets[l] \in 1..NumSets(l)
  <2>1. UsedSets[l] \in Nat \ {0} /\ NumSets(l) \in Nat /\ UsedSets[l] <= NumSets(l)
    BY <1>4, <1>5, <1>7
  <2> QED BY <2>1
<1>9. Way(l) \subseteq Nat /\ 0 \in Way(l)
  BY <1>2 DEF Way
<1> QED BY <1>4, <1>8, <1>9

-----------------------------------------------------------------------------
(* The operators on one cache. *)
StatField == {"reads", "writes", "readHits", "writeHits", "readMisses", "writeMisses",
              "writeBacks", "traffic"}
Ref == {"r", "w"}
Rows(l) == [Way(l) -> BlockData]
Blocks(l) == [SetId(l) -> Rows(l)]
CacheData(l) == [blocks : Blocks(l), stats : [StatField -> Nat]]

LEMMA StatFields == DOMAIN NoStats = StatField /\ NoStats \in [StatField -> Nat]
BY DEF NoStats, StatField

(* Count adds one to one counter. *)
LEMMA CountEffect ==
  ASSUME NEW l, NEW c \in CacheData(l), NEW f \in StatField
  PROVE  /\ Count(c, f) \in CacheData(l)
         /\ Count(c, f).blocks = c.blocks
         /\ Count(c, f).stats[f] = c.stats[f] + 1
         /\ \A g \in StatField \ {f} : Count(c, f).stats[g] = c.stats[g]
<1> DEFINE s == [c.stats EXCEPT ![f] = @ + 1]
<1>1. c.stats \in [StatField -> Nat] /\ c.blocks \in Blocks(l)
  BY DEF CacheData
<1>2. Count(c, f) = [c EXCEPT !.stats = s]
  BY DEF Count
<1>3. s \in [StatField -> Nat] /\ s[f] = c.stats[f] + 1
      /\ \A g \in StatField \ {f} : s[g] = c.stats[g]
  BY <1>1
<1> HIDE DEF s
<1> QED BY <1>1, <1>2, <1>3 DEF CacheData

(* A block is put in its place. *)
LEMMA PutEffect ==
  ASSUME NEW l, NEW c \in CacheData(l), NEW i \in SetId(l), NEW w \in Way(l),
         NEW b \in BlockData
  PROVE  LET d == [c EXCEPT !.blocks[i][w] = b]
         IN  /\ d \in CacheData(l) /\ d.stats = c.stats
             /\ d.blocks[i] = [c.blocks[i] EXCEPT ![w] = b]
             /\ \A j \in SetId(l) \ {i} : d.blocks[j] = c.blocks[j]
<1> DEFINE row == [c.blocks[i] EXCEPT ![w] = b]
           bs  == [c.blocks EXCEPT ![i] = row]
<1>1. c.blocks \in Blocks(l) /\ c.stats \in [StatField -> Nat]
  BY DEF CacheData
<1>2. c.blocks[i] \in Rows(l)
  BY <1>1 DEF Blocks
<1>3. row \in Rows(l)
  BY <1>2 DEF Rows
<1>4. [c EXCEPT !.blocks[i][w] = b] = [c EXCEPT !.blocks = bs]
  OBVIOUS
<1> HIDE DEF row
<1>5. bs \in Blocks(l) /\ bs[i] = row /\ \A j \in SetId(l) \ {i} : bs[j] = c.blocks[j]
  BY <1>1, <1>3 DEF Blocks
<1> HIDE DEF bs
<1>6. LET d == [c EXCEPT !.blocks = bs]
      IN  d \in CacheData(l) /\ d.stats = c.stats /\ d.blocks = bs
  BY <1>1, <1>5 DEF CacheData
<1> QED BY <1>4, <1>5, <1>6 DEF row

-----------------------------------------------------------------------------
(* What holds of the blocks of a set at time t: an age is that of a        *)
(* request before t, and no tag or age is there twice; a place that was    *)
(* never filled has age 0 and is clean.                                    *)
SoundBlock(b, t) ==
  IF b.valid THEN b.age > 0 /\ b.age <= t ELSE b.age = 0 /\ ~b.dirty
SoundSet(set, t) ==
  /\ \A w \in DOMAIN set : SoundBlock(set[w], t)
  /\ \A v, w \in DOMAIN set :
       v # w /\ set[v].valid /\ set[w].valid => set[v].tag # set[w].tag /\ set[v].age # set[w].age
Sound(l, c, t) == \A i \in SetId(l) : SoundSet(c.blocks[i], t)

(* A set is still sound with a new block, used now, of a tag it has not. *)
LEMMA SoundPut ==
  ASSUME NEW l, NEW set \in Rows(l), NEW t \in Nat, NEW now \in Nat, t < now,
         SoundSet(set, t), NEW w \in Way(l), NEW b \in BlockData,
         b.valid, b.age = now,
         \A v \in Way(l) \ {w} : set[v].valid => set[v].tag # b.tag
  PROVE  SoundSet([set EXCEPT ![w] = b], now)
<1> DEFINE new == [set EXCEPT ![w] = b]
<1>1. DOMAIN set = Way(l) /\ DOMAIN new = Way(l)
      /\ \A v \in Way(l) : set[v] \in BlockData /\ new[v] = IF v = w THEN b ELSE set[v]
  BY DEF Rows
<1> HIDE DEF new
<1>2. \A v \in Way(l) : set[v].age \in Nat /\ set[v].valid \in BOOLEAN
  BY <1>1 DEF BlockData
<1>3. ASSUME NEW v \in Way(l)
      PROVE  SoundBlock(new[v], now)
  <2>1. CASE v = w
    BY <1>1, <2>1 DEF SoundBlock
  <2>2. CASE v # w
    BY <1>1, <1>2, <2>2 DEF SoundBlock, SoundSet
  <2> QED BY <2>1, <2>2
<1>4. ASSUME NEW v \in Way(l), NEW u \in Way(l), v # u, new[v].valid, new[u].valid
      PROVE  new[v].tag # new[u].tag /\ new[v].age # new[u].age
  <2>1. \A x \in Way(l) \ {w} : new[x].valid => new[x].age < now /\ new[x].tag # b.tag
    BY <1>1, <1>2 DEF SoundSet, SoundBlock
  <2>2. CASE v = w
    BY <1>1, <1>2, <1>4, <2>1, <2>2
  <2>3. CASE u = w
    BY <1>1, <1>2, <1>4, <2>1, <2>3
  <2>4. CASE v # w /\ u # w
    BY <1>1, <1>4, <2>4 DEF SoundSet
  <2> QED BY <2>2, <2>3, <2>4
<1>5. SoundSet(new, now)
  BY <1>1, <1>3, <1>4 DEF SoundSet
<1> QED BY <1>5 DEF new

(* And with one of its blocks clean. *)
LEMMA SoundClean ==
  ASSUME NEW l, NEW set \in Rows(l), NEW t \in Nat, SoundSet(set, t), NEW w \in Way(l)
  PROVE  SoundSet([set EXCEPT ![w] = [set[w] EXCEPT !.dirty = FALSE]], t)
<1> DEFINE b == [set[w] EXCEPT !.dirty = FALSE]
           new == [set EXCEPT ![w] = b]
<1>1. set[w] \in BlockData
  BY DEF Rows
<1>2. b.valid = set[w].valid /\ b.tag = set[w].tag /\ b.age = set[w].age /\ b.dirty = FALSE
  BY <1>1 DEF BlockData
<1> HIDE DEF b
<1>3. DOMAIN set = Way(l) /\ DOMAIN new = Way(l)
      /\ \A v \in Way(l) : new[v] = IF v = w THEN b ELSE set[v]
  BY DEF Rows
<1> HIDE DEF new
<1>4. /\ \A v \in Way(l) : SoundBlock(set[v], t) => SoundBlock(new[v], t)
      /\ \A v \in Way(l) : /\ new[v].valid = set[v].valid /\ new[v].tag = set[v].tag
                           /\ new[v].age = set[v].age
  BY <1>2, <1>3 DEF SoundBlock
<1>5. SoundSet(new, t)
  BY <1>3, <1>4 DEF SoundSet
<1> QED BY <1>5 DEF new, b

LEMMA SoundLater ==
  ASSUME NEW l, NEW c \in CacheData(l), NEW t \in Nat, NEW now \in Nat, t <= now,
         Sound(l, c, t)
  PROVE  Sound(l, c, now)
<1> SUFFICES ASSUME NEW i \in SetId(l) PROVE SoundSet(c.blocks[i], now)
  BY DEF Sound
<1>1. SoundSet(c.blocks[i], t)
  BY DEF Sound
<1>2. c.blocks[i] \in Rows(l)
  BY DEF CacheData, Blocks
<1>3. \A w \in DOMAIN c.blocks[i] : c.blocks[i][w].age \in Nat
  BY <1>2 DEF Rows, BlockData
<1> QED BY <1>1, <1>3 DEF SoundSet, SoundBlock

-----------------------------------------------------------------------------
(* A tag that is found is that of a valid block; one that is not found is  *)
(* that of none.                                                           *)
LEMMA TagMatchEffect ==
  ASSUME NEW l \in {1, 2}, NEW set \in Rows(l), NEW tag
  PROVE  \/ /\ TagMatch(set, tag) \in Way(l) /\ TagMatch(set, tag) # None
            /\ set[TagMatch(set, tag)].valid /\ set[TagMatch(set, tag)].tag = tag
         \/ /\ TagMatch(set, tag) = None
            /\ \A v \in Way(l) : set[v].valid => set[v].tag # tag
<1> DEFINE P(w) == set[w].valid /\ set[w].tag = tag
           T == {w \in Way(l) : P(w)}
<1>1. DOMAIN set = Way(l) /\ Way(l) \subseteq Nat
  BY Geometry DEF Rows
<1>2. TagMatch(set, tag) = IF \E w \in Way(l) : P(w)
                           THEN CHOOSE w \in Way(l) : P(w) /\ \A v \in Way(l) : P(v) => w <= v
                           ELSE None
  BY <1>1 DEF TagMatch, First
<1>3. CASE \E w \in Way(l) : P(w)
  <2>1. T \in SUBSET Nat /\ T # {}
    BY <1>1, <1>3
  <2>2. \E w \in T : \A v \in T : w <= v
    BY <2>1, LeastElement
  <2>3. \E w \in Way(l) : P(w) /\ \A v \in Way(l) : P(v) => w <= v
    BY <2>2
  <2> HIDE DEF P
  <2>4. TagMatch(set, tag) \in Way(l) /\ P(TagMatch(set, tag))
    BY <1>2, <1>3, <2>3
  <2>5. TagMatch(set, tag) # None
    BY <1>1, <2>4 DEF None
  <2> QED BY <2>4, <2>5 DEF P
<1>4. CASE ~\E w \in Way(l) : P(w)
  BY <1>2, <1>4
<1> QED BY <1>3, <1>4

LEMMA FirstInvalidEffect ==
  ASSUME NEW l \in {1, 2}, NEW set \in Rows(l), FirstInvalid(set) # None
  PROVE  FirstInvalid(set) \in Way(l) /\ ~set[FirstInvalid(set)].valid
<1> DEFINE P(w) == ~set[w].valid
           T == {w \in Way(l) : P(w)}
<1>1. DOMAIN set = Way(l) /\ Way(l) \subseteq Nat
  BY Geometry DEF Rows
<1>2. FirstInvalid(set) = IF \E w \in Way(l) : P(w)
                          THEN CHOOSE w \in Way(l) : P(w) /\ \A v \in Way(l) : P(v) => w <= v
                          ELSE None
  BY <1>1 DEF FirstInvalid, First
<1>3. \E w \in Way(l) : P(w)
  BY <1>2
<1>4. T \in SUBSET Nat /\ T # {}
  BY <1>1, <1>3
<1>5. \E w \in T : \A v \in T : w <= v
  BY <1>4, LeastElement
<1>6. \E w \in Way(l) : P(w) /\ \A v \in Way(l) : P(v) => w <= v
  BY <1>5
<1> HIDE DEF P
<1>7. FirstInvalid(set) \in Way(l) /\ P(FirstInvalid(set))
  BY <1>2, <1>3, <1>6
<1> QED BY <1>7 DEF P

LEMMA LRUBlockEffect ==
  ASSUME NEW l \in {1, 2}, NEW set \in Rows(l)
  PROVE  LRUBlock(set) \in Way(l) /\ \A v \in Way(l) : set[LRUBlock(set)].age <= set[v].age
<1> DEFINE P(w) == \A v \in Way(l) : set[w].age <= set[v].age
           T == {w \in Way(l) : P(w)}
           Ages == {set[w].age : w \in Way(l)}
<1>1. DOMAIN set = Way(l) /\ Way(l) \subseteq Nat /\ 0 \in Way(l)
  BY Geometry DEF Rows
<1>2. LRUBlock(set) = IF \E w \in Way(l) : P(w)
                      THEN CHOOSE w \in Way(l) : P(w) /\ \A v \in Way(l) : P(v) => w <= v
                      ELSE None
  BY <1>1 DEF LRUBlock, First
<1>3. \E w \in Way(l) : P(w)
  <2>1. \A w \in Way(l) : set[w].age \in Nat
    BY DEF Rows, BlockData
  <2>2. Ages \in SUBSET Nat /\ Ages # {}
    BY <1>1, <2>1
  <2>3. PICK a \in Ages : \A b \in Ages : a <= b
    BY <2>2, LeastElement
  <2> QED BY <2>3
<1>4. T \in SUBSET Nat /\ T # {}
  BY <1>1, <1>3
<1>5. \E w \in T : \A v \in T : w <= v
  BY <1>4, LeastElement
<1>6. \E w \in Way(l) : P(w) /\ \A v \in Way(l) : P(v) => w <= v
  BY <1>5
<1> HIDE DEF P
<1>7. LRUBlock(set) \in Way(l) /\ P(LRUBlock(set))
  BY <1>2, <1>3, <1>6
<1> QED BY <1>7 DEF P

LEMMA FreshEffect ==
  ASSUME NEW l \in {1, 2}, NEW set \in Rows(l)
  PROVE  Fresh(set) \in Way(l)
BY FirstInvalidEffect, LRUBlockEffect DEF Fresh

LEMMA AddressParts ==
  ASSUME NEW l \in {1, 2}, NEW a \in Nat
  PROVE  Tag(l, a) \in Nat /\ Index(l, a) \in SetId(l) /\ Index(l, a) < UsedSets[l]
<1>1. BlkSize \in Nat \ {0}
  BY LevelAssumption, PowersOfTwo DEF PowerOf2
<1> DEFINE u == UsedSets[l]
           n == NumSets(l)
<1>2. n \in Nat \ {0} /\ u \in 1..n
  BY Geometry
<1>3. \A x \in Nat, y \in Nat \ {0} : x \div y \in Nat /\ x % y \in 0..(y - 1)
  OBVIOUS
<1> HIDE DEF u, n
<1>4. u \in Nat \ {0} /\ u <= n
  BY <1>2
<1>5. a \div BlkSize \in Nat
  BY <1>1, <1>3
<1>6. (a \div BlkSize) \div u \in Nat /\ (a \div BlkSize) % u \in 0..(u - 1)
  BY <1>3, <1>4, <1>5
<1>7. \A x \in 0..(u - 1) : x \in 0..(n - 1) /\ x < u
  BY <1>2, <1>4
<1> QED BY <1>6, <1>7 DEF Tag, Index, SetId, u, n

LEMMA EncodeNat ==
  ASSUME NEW l \in {1, 2}, NEW tag \in Nat, NEW i \in SetId(l)
  PROVE  Encode(l, tag, i) \in Nat
<1>1. BlkSize \in Nat \ {0}
  BY LevelAssumption, PowersOfTwo DEF PowerOf2
<1> DEFINE u == UsedSets[l]
<1>2. u \in Nat /\ i \in Nat
  BY Geometry DEF SetId
<1>3. \A x, y \in Nat : x * y \in Nat
  OBVIOUS
<1> HIDE DEF u
<1>4. tag * u + i \in Nat
  BY <1>2, <1>3
<1> QED BY <1>1, <1>3, <1>4 DEF Encode, u

-----------------------------------------------------------------------------
(* The counters in F have one more. *)
More(s, r, F) == \A f \in StatField : r[f] = IF f \in F THEN s[f] + 1 ELSE s[f]

LEMMA CountMore ==
  ASSUME NEW l, NEW c \in CacheData(l), NEW f \in StatField
  PROVE  /\ Count(c, f) \in CacheData(l) /\ Count(c, f).blocks = c.blocks
         /\ More(c.stats, Count(c, f).stats, {f})
BY CountEffect DEF More

LEMMA ReferEffect ==
  ASSUME NEW l, NEW c \in CacheData(l), NEW type \in Ref
  PROVE  /\ Refer(c, type) \in CacheData(l) /\ Refer(c, type).blocks = c.blocks
         /\ More(c.stats, Refer(c, type).stats, {IF type = "r" THEN "reads" ELSE "writes"})
<1> DEFINE f == IF type = "r" THEN "reads" ELSE "writes"
<1>1. f \in StatField /\ Refer(c, type) = Count(c, f)
  BY DEF StatField, Refer
<1> HIDE DEF f
<1>2. More(c.stats, Refer(c, type).stats, {f})
  BY <1>1, CountEffect DEF More
<1> QED BY <1>1, <1>2, CountEffect DEF f

(* A hit: the block is the newest, and stays where it is. *)
LEMMA HitEffect ==
  ASSUME NEW l, NEW c \in CacheData(l), NEW t \in Nat, NEW now \in Nat, t < now,
         Sound(l, c, t), NEW i \in SetId(l), NEW w \in Way(l), c.blocks[i][w].valid,
         NEW type \in Ref
  PROVE  LET d == Hit(c, i, w, type, now)
         IN  /\ d \in CacheData(l) /\ Sound(l, d, now)
             /\ More(c.stats, d.stats, {IF type = "r" THEN "readHits" ELSE "writeHits"})
<1> DEFINE old == c.blocks[i][w]
           b == [old EXCEPT !.valid = TRUE, !.age = now, !.dirty = @ \/ type = "w"]
           f == IF type = "r" THEN "readHits" ELSE "writeHits"
           put == [c EXCEPT !.blocks[i][w] = b]
           d == Hit(c, i, w, type, now)
<1>1. c.blocks[i] \in Rows(l) /\ \A j \in SetId(l) : c.blocks[j] \in Rows(l)
  BY DEF CacheData, Blocks
<1>2. old \in BlockData
  BY <1>1 DEF Rows
<1>3. b \in BlockData /\ b.valid /\ b.age = now /\ b.tag = old.tag
  BY <1>2 DEF BlockData
<1>4. f \in StatField /\ d = Count(put, f)
  BY DEF StatField, Hit
<1> HIDE DEF b, f, d
<1>5. /\ put \in CacheData(l) /\ put.stats = c.stats
      /\ put.blocks[i] = [c.blocks[i] EXCEPT ![w] = b]
      /\ \A j \in SetId(l) \ {i} : put.blocks[j] = c.blocks[j]
  BY <1>3, PutEffect
<1> HIDE DEF put
<1>6. SoundSet(put.blocks[i], now)
  <2>1. SoundSet(c.blocks[i], t) /\ DOMAIN c.blocks[i] = Way(l)
    BY <1>1 DEF Sound, Rows
  <2>2. \A v \in Way(l) \ {w} : c.blocks[i][v].valid => c.blocks[i][v].tag # b.tag
    BY <1>3, <2>1 DEF SoundSet
  <2> QED BY <1>1, <1>3, <1>5, <2>1, <2>2, SoundPut
<1>7. Sound(l, put, now)
  BY <1>5, <1>6, SoundLater DEF Sound
<1>8. d \in CacheData(l) /\ d.blocks = put.blocks /\ More(put.stats, d.stats, {f})
  BY <1>4, <1>5, CountMore
<1>9. Sound(l, d, now)
  BY <1>7, <1>8 DEF Sound
<1> QED BY <1>5, <1>8, <1>9 DEF d, f

(* A missed block takes a place; its tag was nowhere in the set. *)
LEMMA FillEffect ==
  ASSUME NEW l, NEW c \in CacheData(l), NEW t \in Nat, NEW now \in Nat, t < now,
         Sound(l, c, t), NEW i \in SetId(l), NEW w \in Way(l), NEW tag \in Nat,
         \A v \in Way(l) : c.blocks[i][v].valid => c.blocks[i][v].tag # tag,
         NEW type \in Ref
  PROVE  LET d == Fill(c, i, w, tag, type, now)
         IN  /\ d \in CacheData(l) /\ Sound(l, d, now)
             /\ More(c.stats, d.stats,
                     {"traffic", IF type = "r" THEN "readMisses" ELSE "writeMisses"})
<1> DEFINE b == [tag |-> tag, valid |-> TRUE, age |-> now,
                 dirty |-> c.blocks[i][w].dirty \/ type = "w"]
           f == IF type = "r" THEN "readMisses" ELSE "writeMisses"
           put == [c EXCEPT !.blocks[i][w] = b]
           one == Count(put, "traffic")
           d == Fill(c, i, w, tag, type, now)
<1>1. c.blocks[i] \in Rows(l) /\ \A j \in SetId(l) : c.blocks[j] \in Rows(l)
  BY DEF CacheData, Blocks
<1>2. c.blocks[i][w].dirty \in BOOLEAN
  BY <1>1 DEF Rows, BlockData
<1>3. b \in BlockData /\ b.valid /\ b.age = now /\ b.tag = tag
  BY <1>2 DEF BlockData
<1>4. f \in StatField /\ "traffic" \in StatField /\ f # "traffic" /\ d = Count(one, f)
  BY DEF StatField, Fill
<1> HIDE DEF b, f, d, one
<1>5. /\ put \in CacheData(l) /\ put.stats = c.stats
      /\ put.blocks[i] = [c.blocks[i] EXCEPT ![w] = b]
      /\ \A j \in SetId(l) \ {i} : put.blocks[j] = c.blocks[j]
  <2>1. PICK e \in BlockData : e = b
    BY <1>3
  <2>2. put = [c EXCEPT !.blocks[i][w] = e]
    BY <2>1
  <2> HIDE DEF put
  <2>3. /\ put \in CacheData(l) /\ put.stats = c.stats
        /\ put.blocks[i] = [c.blocks[i] EXCEPT ![w] = e]
        /\ \A j \in SetId(l) \ {i} : put.blocks[j] = c.blocks[j]
    BY <2>2, PutEffect
  <2> QED BY <2>1, <2>3
<1> HIDE DEF put
<1>6. SoundSet(put.blocks[i], now)
  <2>1. SoundSet(c.blocks[i], t)
    BY DEF Sound
  <2> QED BY <1>1, <1>3, <1>5, <2>1, SoundPut
<1>7. Sound(l, put, now)
  BY <1>5, <1>6, SoundLater DEF Sound
<1>8. one \in CacheData(l) /\ one.blocks = put.blocks /\ More(put.stats, one.stats, {"traffic"})
  BY <1>4, <1>5, CountMore DEF one
<1>9. d \in CacheData(l) /\ d.blocks = one.blocks /\ More(one.stats, d.stats, {f})
  BY <1>4, <1>8, CountMore
<1>10. Sound(l, d, now)
  BY <1>7, <1>8, <1>9 DEF Sound
<1>11. More(c.stats, d.stats, {"traffic", f})
  BY <1>4, <1>5, <1>8, <1>9 DEF More
<1> QED BY <1>9, <1>10, <1>11 DEF d, f

(* A block that was written back is clean, and otherwise what it was. *)
LEMMA CleanEffect ==
  ASSUME NEW l, NEW c \in CacheData(l), NEW t \in Nat, Sound(l, c, t),
         NEW i \in SetId(l), NEW w \in Way(l)
  PROVE  LET d == Clean(c, i, w)
         IN  /\ d \in CacheData(l) /\ Sound(l, d, t)
             /\ \A v \in Way(l) : /\ d.blocks[i][v].valid = c.blocks[i][v].valid
                                  /\ d.blocks[i][v].tag = c.blocks[i][v].tag
             /\ More(c.stats, d.stats, {"writeBacks", "traffic"})
<1> DEFINE b == [c.blocks[i][w] EXCEPT !.dirty = FALSE]
           put == [c EXCEPT !.blocks[i][w] = b]
           one == Count(put, "writeBacks")
           d == Clean(c, i, w)
<1>1. c.blocks[i] \in Rows(l) /\ \A j \in SetId(l) : c.blocks[j] \in Rows(l)
  BY DEF CacheData, Blocks
<1>2. c.blocks[i][w] \in BlockData
  BY <1>1 DEF Rows
<1>3. b \in BlockData /\ b.valid = c.blocks[i][w].valid /\ b.tag = c.blocks[i][w].tag
  BY <1>2 DEF BlockData
<1>4. "writeBacks" \in StatField /\ "traffic" \in StatField /\ d = Count(one, "traffic")
  BY DEF StatField, Clean
<1>5. SoundSet([c.blocks[i] EXCEPT ![w] = b], t)
  BY <1>1, SoundClean DEF Sound
<1> HIDE DEF b, d
<1>6. /\ put \in CacheData(l) /\ put.stats = c.stats
      /\ put.blocks[i] = [c.blocks[i] EXCEPT ![w] = b]
      /\ \A j \in SetId(l) \ {i} : put.blocks[j] = c.blocks[j]
  BY <1>3, PutEffect
<1> HIDE DEF put
<1>7. Sound(l, put, t)
  BY <1>5, <1>6 DEF Sound
<1>8. \A v \in Way(l) : /\ put.blocks[i][v].valid = c.blocks[i][v].valid
                        /\ put.blocks[i][v].tag = c.blocks[i][v].tag
  BY <1>1, <1>3, <1>6 DEF Rows
<1>9. one \in CacheData(l) /\ one.blocks = put.blocks /\ More(put.stats, one.stats, {"writeBacks"})
  BY <1>4, <1>6, CountMore
<1> HIDE DEF one
<1>10. d \in CacheData(l) /\ d.blocks = one.blocks /\ More(one.stats, d.stats, {"traffic"})
  BY <1>4, <1>9, CountMore
<1>11. Sound(l, d, t)
  BY <1>7, <1>9, <1>10 DEF Sound
<1>12. More(c.stats, d.stats, {"writeBacks", "traffic"})
  BY <1>4, <1>6, <1>9, <1>10 DEF More
<1> QED BY <1>8, <1>9, <1>10, <1>11, <1>12 DEF d

-----------------------------------------------------------------------------
(* The counters after one request to one cache. *)
One(p) == IF p THEN 1 ELSE 0
Referred(s, r, type) ==
  r.reads = s.reads + One(type = "r") /\ r.writes = s.writes + One(type = "w")
HitTally(s, r, type) ==
  /\ Referred(s, r, type)
  /\ r.readHits = s.readHits + One(type = "r") /\ r.writeHits = s.writeHits + One(type = "w")
  /\ r.readMisses = s.readMisses /\ r.writeMisses = s.writeMisses
  /\ r.writeBacks = s.writeBacks /\ r.traffic = s.traffic
MissTally(s, r, type, wb) ==
  /\ Referred(s, r, type)
  /\ r.readHits = s.readHits /\ r.writeHits = s.writeHits
  /\ r.readMisses = s.readMisses + One(type = "r")
  /\ r.writeMisses = s.writeMisses + One(type = "w")
  /\ r.writeBacks = s.writeBacks + One(wb) /\ r.traffic = s.traffic + 1 + One(wb)
Balanced(s) ==
  /\ s.reads = s.readHits + s.readMisses /\ s.writes = s.writeHits + s.writeMisses
  /\ s.traffic = s.readMisses + s.writeMisses + s.writeBacks

LEMMA TallyBalance ==
  ASSUME NEW s \in [StatField -> Nat], NEW r \in [StatField -> Nat], NEW type \in Ref,
         NEW wb \in BOOLEAN, Balanced(s), HitTally(s, r, type) \/ MissTally(s, r, type, wb)
  PROVE  Balanced(r) /\ Referred(s, r, type)
<1>1. One(type = "r") \in Nat /\ One(type = "w") \in Nat /\ One(wb) \in Nat
      /\ One(type = "r") + One(type = "w") = 1
  BY DEF One, Ref
<1>2. \A f \in StatField : s[f] \in Nat /\ r[f] \in Nat
  OBVIOUS
<1>3. /\ s.reads \in Nat /\ s.writes \in Nat /\ s.readHits \in Nat /\ s.writeHits \in Nat
      /\ s.readMisses \in Nat /\ s.writeMisses \in Nat /\ s.writeBacks \in Nat
      /\ s.traffic \in Nat
  BY <1>2 DEF StatField
<1>4. CASE HitTally(s, r, type)
  BY <1>1, <1>3, <1>4 DEF HitTally, Referred, Balanced
<1>5. CASE MissTally(s, r, type, wb)
  BY <1>1, <1>3, <1>5 DEF MissTally, Referred, Balanced
<1> QED BY <1>4, <1>5

LEMMA HitCounts ==
  ASSUME NEW s \in [StatField -> Nat], NEW r \in [StatField -> Nat],
         NEW q \in [StatField -> Nat], NEW type \in Ref,
         More(s, q, {IF type = "r" THEN "reads" ELSE "writes"}),
         More(q, r, {IF type = "r" THEN "readHits" ELSE "writeHits"})
  PROVE  HitTally(s, r, type)
<1>1. CASE type = "r"
  BY <1>1 DEF More, HitTally, Referred, One, StatField
<1>2. CASE type = "w"
  BY <1>2 DEF More, HitTally, Referred, One, StatField
<1> QED BY <1>1, <1>2 DEF Ref

LEMMA MissCounts ==
  ASSUME NEW s \in [StatField -> Nat], NEW r \in [StatField -> Nat],
         NEW q \in [StatField -> Nat], NEW p \in [StatField -> Nat],
         NEW type \in Ref, NEW wb \in BOOLEAN,
         More(s, q, {IF type = "r" THEN "reads" ELSE "writes"}),
         IF wb THEN More(q, p, {"writeBacks", "traffic"}) ELSE p = q,
         More(p, r, {"traffic", IF type = "r" THEN "readMisses" ELSE "writeMisses"})
  PROVE  MissTally(s, r, type, wb)
<1>1. s.traffic \in Nat
  BY DEF StatField
<1>2. CASE type = "r" /\ wb
  BY <1>1, <1>2 DEF More, MissTally, Referred, One, StatField
<1>3. CASE type = "w" /\ wb
  BY <1>1, <1>3 DEF More, MissTally, Referred, One, StatField
<1>4. CASE type = "r" /\ ~wb
  BY <1>1, <1>4 DEF More, MissTally, Referred, One, StatField
<1>5. CASE type = "w" /\ ~wb
  BY <1>1, <1>5 DEF More, MissTally, Referred, One, StatField
<1> QED BY <1>2, <1>3, <1>4, <1>5 DEF Ref

-----------------------------------------------------------------------------
(* One request to one cache. *)
Found(l, c, a) == TagMatch(c.blocks[Index(l, a)], Tag(l, a)) # None
Written(l, c, a) == c.blocks[Index(l, a)][Fresh(c.blocks[Index(l, a)])].dirty
Replaced(l, c, a, type, now) ==
  LET i == Index(l, a)
      w == Fresh(c.blocks[i])
      ready == IF c.blocks[i][w].dirty THEN Clean(Refer(c, type), i, w) ELSE Refer(c, type)
  IN  Fill(ready, i, w, Tag(l, a), type, now)
Touched(l, c, a, type, now) ==
  LET i == Index(l, a)
  IN  Hit(Refer(c, type), i, TagMatch(c.blocks[i], Tag(l, a)), type, now)

LEMMA TouchedEffect ==
  ASSUME NEW l \in {1, 2}, NEW c \in CacheData(l), NEW t \in Nat, NEW now \in Nat, t < now,
         Sound(l, c, t), NEW a \in Nat, Found(l, c, a), NEW type \in Ref
  PROVE  LET d == Touched(l, c, a, type, now)
         IN  d \in CacheData(l) /\ Sound(l, d, now) /\ HitTally(c.stats, d.stats, type)
<1> DEFINE i == Index(l, a)
           w == TagMatch(c.blocks[i], Tag(l, a))
           c1 == Refer(c, type)
           d == Touched(l, c, a, type, now)
<1>1. i \in SetId(l) /\ c.blocks[i] \in Rows(l)
  <2>1. i \in SetId(l)
    BY AddressParts
  <2> QED BY <2>1 DEF CacheData, Blocks
<1>2. w \in Way(l) /\ c.blocks[i][w].valid
  <2>1. w # None
    BY DEF Found
  <2> QED BY <1>1, <2>1, TagMatchEffect
<1>3. d = Hit(c1, i, w, type, now)
  BY DEF Touched
<1> HIDE DEF i, w, d
<1>4. /\ c1 \in CacheData(l) /\ c1.blocks = c.blocks
      /\ More(c.stats, c1.stats, {IF type = "r" THEN "reads" ELSE "writes"})
  BY ReferEffect
<1> HIDE DEF c1
<1>5. Sound(l, c1, t) /\ c1.blocks[i][w].valid
  BY <1>2, <1>4 DEF Sound
<1>6. /\ d \in CacheData(l) /\ Sound(l, d, now)
      /\ More(c1.stats, d.stats, {IF type = "r" THEN "readHits" ELSE "writeHits"})
  BY <1>1, <1>2, <1>3, <1>4, <1>5, HitEffect
<1>7. HitTally(c.stats, d.stats, type)
  <2>1. /\ c.stats \in [StatField -> Nat] /\ c1.stats \in [StatField -> Nat]
        /\ d.stats \in [StatField -> Nat]
    BY <1>4, <1>6 DEF CacheData
  <2> QED BY <1>4, <1>6, <2>1, HitCounts
<1> QED BY <1>6, <1>7 DEF d

LEMMA ReplacedEffect ==
  ASSUME NEW l \in {1, 2}, NEW c \in CacheData(l), NEW t \in Nat, NEW now \in Nat, t < now,
         Sound(l, c, t), NEW a \in Nat, ~Found(l, c, a), NEW type \in Ref
  PROVE  LET d == Replaced(l, c, a, type, now)
         IN  /\ d \in CacheData(l) /\ Sound(l, d, now) /\ Written(l, c, a) \in BOOLEAN
             /\ MissTally(c.stats, d.stats, type, Written(l, c, a))
<1> DEFINE i == Index(l, a)
           w == Fresh(c.blocks[i])
           tag == Tag(l, a)
           wb == Written(l, c, a)
           c1 == Refer(c, type)
           c2 == IF wb THEN Clean(c1, i, w) ELSE c1
           d == Replaced(l, c, a, type, now)
<1>1. i \in SetId(l) /\ tag \in Nat
  BY AddressParts
<1>2. c.blocks[i] \in Rows(l)
  BY <1>1 DEF CacheData, Blocks
<1>3. w \in Way(l)
  BY <1>2, FreshEffect
<1>4. wb \in BOOLEAN
  <2>1. c.blocks[i][w] \in BlockData
    BY <1>2, <1>3 DEF Rows
  <2> QED BY <2>1 DEF Written, BlockData
<1>5. \A v \in Way(l) : c.blocks[i][v].valid => c.blocks[i][v].tag # tag
  <2>1. TagMatch(c.blocks[i], tag) = None
    BY DEF Found
  <2> QED BY <1>2, <2>1, TagMatchEffect
<1>6. d = Fill(c2, i, w, tag, type, now)
  BY DEF Replaced, Written
<1> HIDE DEF i, w, d, tag, wb
<1>7. /\ c1 \in CacheData(l) /\ c1.blocks = c.blocks
      /\ More(c.stats, c1.stats, {IF type = "r" THEN "reads" ELSE "writes"})
  BY ReferEffect
<1> HIDE DEF c1
<1>8. Sound(l, c1, t)
  BY <1>7 DEF Sound
<1>9. /\ c2 \in CacheData(l) /\ Sound(l, c2, t)
      /\ \A v \in Way(l) : c2.blocks[i][v].valid => c2.blocks[i][v].tag # tag
      /\ IF wb THEN More(c1.stats, c2.stats, {"writeBacks", "traffic"}) ELSE c2.stats = c1.stats
  <2>1. CASE wb
    <3> DEFINE e == Clean(c1, i, w)
    <3>1. /\ e \in CacheData(l) /\ Sound(l, e, t)
          /\ \A v \in Way(l) : /\ e.blocks[i][v].valid = c1.blocks[i][v].valid
                               /\ e.blocks[i][v].tag = c1.blocks[i][v].tag
          /\ More(c1.stats, e.stats, {"writeBacks", "traffic"})
      BY <1>1, <1>3, <1>7, <1>8, CleanEffect
    <3>2. c2 = e
      BY <2>1
    <3> HIDE DEF e, c2
    <3> QED BY <1>5, <1>7, <2>1, <3>1, <3>2
  <2>2. CASE ~wb
    BY <1>5, <1>7, <1>8, <2>2
  <2> QED BY <2>1, <2>2
<1> HIDE DEF c2
<1>10. /\ d \in CacheData(l) /\ Sound(l, d, now)
       /\ More(c2.stats, d.stats, {"traffic", IF type = "r" THEN "readMisses" ELSE "writeMisses"})
  BY <1>1, <1>3, <1>6, <1>9, FillEffect
<1>11. MissTally(c.stats, d.stats, type, wb)
  <2>1. /\ c.stats \in [StatField -> Nat] /\ c1.stats \in [StatField -> Nat]
        /\ c2.stats \in [StatField -> Nat] /\ d.stats \in [StatField -> Nat]
    BY <1>7, <1>9, <1>10 DEF CacheData
  <2> QED BY <1>4, <1>7, <1>9, <1>10, <2>1, MissCounts
<1> QED BY <1>4, <1>10, <1>11 DEF d, wb

(* The last cache. *)
LEMMA AccessLastIs ==
  ASSUME NEW l, NEW c, NEW a, NEW type, NEW now
  PROVE  AccessLast(l, c, a, type, now) =
           IF Found(l, c, a)
           THEN [cache |-> Touched(l, c, a, type, now), latency |-> HitLatency(l)]
           ELSE [cache |-> Replaced(l, c, a, type, now), latency |-> MissLatency]
BY DEF AccessLast, Found, Touched, Replaced

LEMMA AccessLastEffect ==
  ASSUME NEW l \in {1, 2}, NEW c \in CacheData(l), NEW t \in Nat, NEW now \in Nat, t < now,
         Sound(l, c, t), NEW a \in Nat, NEW type \in Ref
  PROVE  LET d == AccessLast(l, c, a, type, now).cache
         IN  /\ d \in CacheData(l) /\ Sound(l, d, now)
             /\ Balanced(c.stats) => Balanced(d.stats)
             /\ Referred(c.stats, d.stats, type)
<1> DEFINE d == AccessLast(l, c, a, type, now).cache
<1>1. CASE Found(l, c, a)
  <2>1. d = Touched(l, c, a, type, now)
    BY <1>1, AccessLastIs
  <2> HIDE DEF d
  <2>2. d \in CacheData(l) /\ Sound(l, d, now) /\ HitTally(c.stats, d.stats, type)
    BY <1>1, <2>1, TouchedEffect
  <2>3. c.stats \in [StatField -> Nat] /\ d.stats \in [StatField -> Nat]
    BY <2>2 DEF CacheData
  <2>4. Balanced(c.stats) => Balanced(d.stats)
    BY <2>2, <2>3, TallyBalance
  <2> QED BY <2>2, <2>4 DEF d, HitTally
<1>2. CASE ~Found(l, c, a)
  <2>1. d = Replaced(l, c, a, type, now)
    BY <1>2, AccessLastIs
  <2> HIDE DEF d
  <2>2. /\ d \in CacheData(l) /\ Sound(l, d, now) /\ Written(l, c, a) \in BOOLEAN
        /\ MissTally(c.stats, d.stats, type, Written(l, c, a))
    BY <1>2, <2>1, ReplacedEffect
  <2>3. c.stats \in [StatField -> Nat] /\ d.stats \in [StatField -> Nat]
    BY <2>2 DEF CacheData
  <2>4. Balanced(c.stats) => Balanced(d.stats)
    BY <2>2, <2>3, TallyBalance
  <2> QED BY <2>2, <2>4 DEF d, MissTally
<1> QED BY <1>1, <1>2

-----------------------------------------------------------------------------
(* The L1 that has an L2: a block it writes back, and the read of the one  *)
(* it misses, are requests to the L2.                                      *)
Old(c, a) == LET i == Index(1, a) IN Encode(1, c.blocks[i][Fresh(c.blocks[i])].tag, i)
AfterWrite(front, next, a, now) ==
  IF Written(1, front, a) THEN AccessLast(2, next, Old(front, a), "w", now + 1).cache ELSE next
Feeds(s1, s2) == s2.reads = s1.readMisses + s1.writeMisses /\ s2.writes = s1.writeBacks

LEMMA AccessFrontIs ==
  ASSUME NEW front, NEW next, NEW a, NEW type, NEW now
  PROVE  AccessFront(front, next, a, type, now) =
           IF Found(1, front, a)
           THEN [front |-> Touched(1, front, a, type, now), next |-> next,
                 latency |-> HitLatency(1)]
           ELSE LET read == AccessLast(2, AfterWrite(front, next, a, now), a, "r", now + 2)
                IN  [front |-> Replaced(1, front, a, type, now), next |-> read.cache,
                     latency |-> read.latency]
BY DEF AccessFront, Found, Touched, Replaced, AfterWrite, Written, Old

LEMMA OldNat ==
  ASSUME NEW front \in CacheData(1), NEW a \in Nat
  PROVE  Old(front, a) \in Nat
<1> DEFINE i == Index(1, a)
           w == Fresh(front.blocks[i])
<1>1. i \in SetId(1)
  BY AddressParts
<1>2. front.blocks[i] \in Rows(1)
  BY <1>1 DEF CacheData, Blocks
<1>3. w \in Way(1)
  BY <1>2, FreshEffect
<1>4. front.blocks[i][w].tag \in Nat
  BY <1>2, <1>3 DEF Rows, BlockData
<1> QED BY <1>1, <1>4, EncodeNat DEF Old

LEMMA AccessFrontEffect ==
  ASSUME NEW front \in CacheData(1), NEW next \in CacheData(2), NEW t \in Nat, NEW now \in Nat,
         t < now, Sound(1, front, t), Sound(2, next, t), NEW a \in Nat, NEW type \in Ref,
         Balanced(front.stats), Balanced(next.stats), Feeds(front.stats, next.stats)
  PROVE  LET d == AccessFront(front, next, a, type, now)
         IN  /\ d.front \in CacheData(1) /\ Sound(1, d.front, now)
             /\ d.next \in CacheData(2) /\ Sound(2, d.next, now + 2)
             /\ Balanced(d.front.stats) /\ Balanced(d.next.stats)
             /\ Feeds(d.front.stats, d.next.stats) /\ Referred(front.stats, d.front.stats, type)
<1> DEFINE d == AccessFront(front, next, a, type, now)
           f == d.front
           n == d.next
<1>1. CASE Found(1, front, a)
  <2>1. f = Touched(1, front, a, type, now) /\ n = next
    BY <1>1, AccessFrontIs
  <2> HIDE DEF d, f, n
  <2>2. f \in CacheData(1) /\ Sound(1, f, now) /\ HitTally(front.stats, f.stats, type)
    BY <1>1, <2>1, TouchedEffect
  <2>3. front.stats \in [StatField -> Nat] /\ f.stats \in [StatField -> Nat]
    BY <2>2 DEF CacheData
  <2>4. Balanced(f.stats)
    BY <2>2, <2>3, TallyBalance
  <2>5. Sound(2, n, now + 2)
    BY <2>1, SoundLater
  <2>6. Feeds(f.stats, n.stats)
    BY <2>1, <2>2 DEF HitTally, Feeds
  <2> QED BY <2>1, <2>2, <2>4, <2>5, <2>6 DEF HitTally, f, n, d
<1>2. CASE ~Found(1, front, a)
  <2> DEFINE wb == Written(1, front, a)
             mid == AfterWrite(front, next, a, now)
  <2>1. f = Replaced(1, front, a, type, now) /\ n = AccessLast(2, mid, a, "r", now + 2).cache
    BY <1>2, AccessFrontIs
  <2> HIDE DEF d, f, n
  <2>2. /\ f \in CacheData(1) /\ Sound(1, f, now) /\ wb \in BOOLEAN
        /\ MissTally(front.stats, f.stats, type, wb)
    BY <1>2, <2>1, ReplacedEffect
  <2>3. /\ mid \in CacheData(2) /\ Sound(2, mid, now + 1) /\ Balanced(mid.stats)
        /\ mid.stats.reads = next.stats.reads
        /\ mid.stats.writes = next.stats.writes + One(wb)
    <3>1. next.stats.reads \in Nat /\ next.stats.writes \in Nat
      BY DEF CacheData, StatField
    <3>2. CASE wb
      <4> DEFINE m == AccessLast(2, next, Old(front, a), "w", now + 1).cache
      <4>1. /\ m \in CacheData(2) /\ Sound(2, m, now + 1)
            /\ Balanced(next.stats) => Balanced(m.stats)
            /\ Referred(next.stats, m.stats, "w")
        <5>1. Old(front, a) \in Nat /\ "w" \in Ref
          BY OldNat DEF Ref
        <5> HIDE DEF m
        <5>2. now + 1 \in Nat /\ t < now + 1
          OBVIOUS
        <5> QED BY <5>1, <5>2, AccessLastEffect DEF m
      <4>2. mid = m
        BY <3>2 DEF AfterWrite
      <4> HIDE DEF m, mid, wb
      <4> QED BY <3>1, <3>2, <4>1, <4>2 DEF Referred, One
    <3>3. CASE ~wb
      <4>1. mid = next
        BY <3>3 DEF AfterWrite
      <4>2. Sound(2, next, now + 1)
        BY SoundLater
      <4> HIDE DEF mid, wb
      <4> QED BY <3>1, <3>3, <4>1, <4>2 DEF One
    <3> QED BY <2>2, <3>2, <3>3
  <2> HIDE DEF mid, wb
  <2>4. /\ n \in CacheData(2) /\ Sound(2, n, now + 2) /\ Balanced(n.stats)
        /\ Referred(mid.stats, n.stats, "r")
    <3>1. now + 1 \in Nat /\ now + 2 \in Nat /\ now + 1 < now + 2 /\ "r" \in Ref
      BY DEF Ref
    <3> QED BY <2>1, <2>3, <3>1, AccessLastEffect
  <2>5. front.stats \in [StatField -> Nat] /\ f.stats \in [StatField -> Nat]
    BY <2>2 DEF CacheData
  <2>6. Balanced(f.stats)
    BY <2>2, <2>5, TallyBalance
  <2>7. Feeds(f.stats, n.stats)
    <3>1. n.stats.reads = next.stats.reads + 1 /\ n.stats.writes = next.stats.writes + One(wb)
      <4>1. next.stats.reads \in Nat /\ next.stats.writes \in Nat /\ One(wb) \in Nat
        BY DEF CacheData, StatField, One
      <4> QED BY <2>3, <2>4, <4>1 DEF Referred, One
    <3>2. front.stats.readMisses \in Nat /\ front.stats.writeMisses \in Nat
      BY <2>5 DEF StatField
    <3>3. One(type = "r") \in Nat /\ One(type = "w") \in Nat /\ One(type = "r") + One(type = "w") = 1
      BY DEF One, Ref
    <3>4. /\ f.stats.readMisses = front.stats.readMisses + One(type = "r")
          /\ f.stats.writeMisses = front.stats.writeMisses + One(type = "w")
          /\ f.stats.writeBacks = front.stats.writeBacks + One(wb)
      BY <2>2 DEF MissTally
    <3> QED BY <3>1, <3>2, <3>3, <3>4 DEF Feeds
  <2> QED BY <2>2, <2>4, <2>6, <2>7 DEF MissTally, f, n, d
<1> QED BY <1>1, <1>2

-----------------------------------------------------------------------------
(* The invariant: each cache is sound at the time of the last reading of   *)
(* the clock, its counters add up, and those of the L2 are fed by the L1.  *)
CacheOK(l) ==
  /\ Cache(l) \in CacheData(l) /\ Sound(l, Cache(l), clock) /\ Balanced(stats[l])
CacheInv ==
  /\ l2Present \in BOOLEAN /\ DOMAIN blocks = Level /\ DOMAIN stats = Level
  /\ clock \in Nat /\ requests \in 0..MaxRequests /\ last.latency \in {0, 5, 10, 20}
  /\ \A l \in Level : CacheOK(l)
  /\ stats[1].reads + stats[1].writes = requests
  /\ HasNext(1) => Feeds(stats[1], stats[2])

LEMMA Levels == /\ Level \subseteq {1, 2} /\ 1 \in Level
                /\ HasNext(1) <=> Level = {1, 2}
                /\ ~HasNext(1) <=> Level = {1}
BY DEF Level, HasNext

LEMMA InitCacheInv == CacheInit => CacheInv
<1> SUFFICES ASSUME CacheInit PROVE CacheInv
  OBVIOUS
<1>1. ASSUME NEW l \in Level
      PROVE  CacheOK(l)
  <2>1. blocks[l] = [i \in SetId(l) |-> [w \in Way(l) |-> Empty]] /\ stats[l] = NoStats
    BY DEF CacheInit
  <2>2. Empty \in BlockData /\ ~Empty.valid /\ Empty.age = 0 /\ ~Empty.dirty
    BY DEF Empty, BlockData
  <2>3. [w \in Way(l) |-> Empty] \in Rows(l)
    BY <2>2 DEF Rows
  <2>4. blocks[l] \in Blocks(l)
    BY <2>1, <2>3 DEF Blocks
  <2>5. Cache(l) \in CacheData(l)
    BY <2>1, <2>4, StatFields DEF Cache, CacheData
  <2>6. Sound(l, Cache(l), clock)
    <3>1. SoundSet([w \in Way(l) |-> Empty], clock)
      BY <2>2 DEF SoundSet, SoundBlock
    <3> QED BY <2>1, <3>1 DEF Sound, Cache
  <2>7. Balanced(stats[l])
    BY <2>1 DEF NoStats, Balanced
  <2> QED BY <2>5, <2>6, <2>7 DEF CacheOK
<1>2. l2Present \in BOOLEAN /\ DOMAIN blocks = Level /\ DOMAIN stats = Level
  BY LevelAssumption DEF CacheInit
<1>3. clock \in Nat /\ requests \in 0..MaxRequests /\ last.latency \in {0, 5, 10, 20}
  BY RefAssumption DEF CacheInit
<1>4. stats[1].reads + stats[1].writes = requests
  BY Levels DEF CacheInit, NoStats
<1>5. HasNext(1) => Feeds(stats[1], stats[2])
  BY Levels DEF CacheInit, NoStats, Feeds
<1> QED BY <1>1, <1>2, <1>3, <1>4, <1>5 DEF CacheInv

(* A cache is its two fields. *)
LEMMA CacheFields ==
  ASSUME NEW l, NEW c \in CacheData(l), NEW b, NEW s, b = c.blocks, s = c.stats
  PROVE  [blocks |-> b, stats |-> s] = c
BY DEF CacheData

LEMMA LatencyValues ==
  /\ \A l, c, a, type, now : AccessLast(l, c, a, type, now).latency \in {5, 10, 20}
  /\ \A front, next, a, type, now :
       AccessFront(front, next, a, type, now).latency \in {5, 10, 20}
<1>1. \A l : HitLatency(l) \in {5, 10, 20} /\ MissLatency \in {5, 10, 20}
  BY DEF HitLatency, MissLatency
<1>2. \A l, c, a, type, now : AccessLast(l, c, a, type, now).latency \in {5, 10, 20}
  BY <1>1, AccessLastIs
<1>3. ASSUME NEW front, NEW next, NEW a, NEW type, NEW now
      PROVE  AccessFront(front, next, a, type, now).latency \in {5, 10, 20}
  BY <1>1, <1>2, AccessFrontIs
<1> QED BY <1>2, <1>3

LEMMA RequestCacheInv ==
  ASSUME CacheInv, NEW type \in RefType, NEW a \in Addr, Request(type, a)
  PROVE  CacheInv' /\ Referred(stats[1], stats'[1], type)
<1> DEFINE now == clock + 1
<1>1. type \in Ref /\ a \in Nat /\ MaxRequests \in Nat
  BY RefAssumption DEF Ref
<1>2. /\ clock \in Nat /\ now \in Nat /\ clock < now
      /\ clock' \in Nat /\ clock' = clock + 3 /\ now <= clock' /\ now + 2 <= clock'
      /\ requests \in Nat /\ requests' = requests + 1 /\ requests' \in 0..MaxRequests
      /\ l2Present' = l2Present
  BY <1>1 DEF CacheInv, Request, Elapsed
<1>3. Level' = Level /\ HasNext(1)' = HasNext(1)
  BY <1>2 DEF Level, HasNext
<1>4. 1 \in Level /\ CacheOK(1)
  BY Levels DEF CacheInv
<1>5. stats[1] = Cache(1).stats /\ stats[1].reads \in Nat /\ stats[1].writes \in Nat
  BY <1>4 DEF CacheOK, Cache, CacheData, StatField
<1>6. CASE HasNext(1)
  <2> DEFINE d == AccessFront(Cache(1), Cache(2), a, type, now)
             f == d.front
             n == d.next
  <2>1. 2 \in Level /\ CacheOK(2) /\ stats[2] = Cache(2).stats
    BY <1>6, Levels DEF CacheInv, Cache
  <2>2. /\ f \in CacheData(1) /\ Sound(1, f, now)
        /\ n \in CacheData(2) /\ Sound(2, n, now + 2)
        /\ Balanced(f.stats) /\ Balanced(n.stats)
        /\ Feeds(f.stats, n.stats) /\ Referred(stats[1], f.stats, type)
    <3>1. Balanced(Cache(1).stats) /\ Balanced(Cache(2).stats)
          /\ Feeds(Cache(1).stats, Cache(2).stats)
      BY <1>4, <1>5, <1>6, <2>1 DEF CacheOK, CacheInv
    <3>2. /\ Cache(1) \in CacheData(1) /\ Sound(1, Cache(1), clock)
          /\ Cache(2) \in CacheData(2) /\ Sound(2, Cache(2), clock)
      BY <1>4, <2>1 DEF CacheOK
    <3> HIDE DEF now
    <3> QED BY <1>1, <1>2, <1>5, <3>1, <3>2, AccessFrontEffect
  <2>3. /\ blocks' = [blocks EXCEPT ![1] = f.blocks, ![2] = n.blocks]
        /\ stats' = [stats EXCEPT ![1] = f.stats, ![2] = n.stats]
        /\ last'.latency = d.latency
    BY <1>6 DEF Request
  <2>4. d.latency \in {5, 10, 20}
    BY LatencyValues
  <2> HIDE DEF d, f, n, now
  <2>5. /\ blocks'[1] = f.blocks /\ blocks'[2] = n.blocks /\ DOMAIN blocks' = Level
        /\ stats'[1] = f.stats /\ stats'[2] = n.stats /\ DOMAIN stats' = Level
    BY <1>4, <2>1, <2>3 DEF CacheInv
  <2>6. Cache(1)' = f /\ Cache(2)' = n
    BY <2>2, <2>5, CacheFields DEF Cache
  <2>7. CacheOK(1)' /\ CacheOK(2)'
    <3>1. Sound(1, f, clock') /\ Sound(2, n, clock')
      <4>1. now + 2 \in Nat
        BY <1>2
      <4> QED BY <1>2, <2>2, <4>1, SoundLater
    <3> QED BY <2>2, <2>5, <2>6, <3>1 DEF CacheOK
  <2>8. \A l \in Level' : CacheOK(l)'
    BY <1>3, <1>6, <2>7, Levels
  <2>9. (stats[1].reads + stats[1].writes = requests)'
    <3>1. /\ One(type = "r") \in Nat /\ One(type = "w") \in Nat
          /\ One(type = "r") + One(type = "w") = 1
      BY <1>1 DEF One, Ref
    <3>2. /\ stats'[1].reads = stats[1].reads + One(type = "r")
          /\ stats'[1].writes = stats[1].writes + One(type = "w")
      BY <2>2, <2>5 DEF Referred
    <3>3. stats[1].reads + stats[1].writes = requests
      BY DEF CacheInv
    <3> QED BY <1>2, <1>5, <3>1, <3>2, <3>3
  <2>10. Feeds(stats[1], stats[2])'
    BY <2>2, <2>5 DEF Feeds
  <2>11. CacheInv'
    BY <1>2, <1>3, <2>3, <2>4, <2>5, <2>8, <2>9, <2>10 DEF CacheInv
  <2> QED BY <2>2, <2>5, <2>11
<1>7. CASE ~HasNext(1)
  <2> DEFINE d == AccessLast(1, Cache(1), a, type, now)
             f == d.cache
  <2>1. /\ f \in CacheData(1) /\ Sound(1, f, now)
        /\ Balanced(f.stats) /\ Referred(stats[1], f.stats, type)
    <3>1. Balanced(Cache(1).stats) /\ Cache(1) \in CacheData(1) /\ Sound(1, Cache(1), clock)
      BY <1>4, <1>5 DEF CacheOK
    <3> HIDE DEF now
    <3> QED BY <1>1, <1>2, <1>5, <3>1, AccessLastEffect
  <2>2. /\ blocks' = [blocks EXCEPT ![1] = f.blocks]
        /\ stats' = [stats EXCEPT ![1] = f.stats]
        /\ last'.latency = d.latency
    BY <1>7 DEF Request
  <2>3. d.latency \in {5, 10, 20}
    BY LatencyValues
  <2> HIDE DEF d, f, now
  <2>4. /\ blocks'[1] = f.blocks /\ DOMAIN blocks' = Level
        /\ stats'[1] = f.stats /\ DOMAIN stats' = Level
    BY <1>4, <2>2 DEF CacheInv
  <2>5. Cache(1)' = f
    BY <2>1, <2>4, CacheFields DEF Cache
  <2>6. CacheOK(1)'
    <3>1. Sound(1, f, clock')
      BY <1>2, <2>1, SoundLater
    <3> QED BY <2>1, <2>4, <2>5, <3>1 DEF CacheOK
  <2>7. \A l \in Level' : CacheOK(l)'
    BY <1>3, <1>7, <2>6, Levels
  <2>8. (stats[1].reads + stats[1].writes = requests)'
    BY <1>1, <1>2, <1>5, <2>1, <2>4 DEF Referred, One, Ref, CacheInv
  <2>9. CacheInv'
    BY <1>2, <1>3, <1>7, <2>2, <2>3, <2>4, <2>7, <2>8 DEF CacheInv
  <2> QED BY <2>1, <2>4, <2>9
<1> QED BY <1>6, <1>7

LEMMA NextCacheInv == CacheInv /\ [CacheNext]_cacheVars => CacheInv'
<1> SUFFICES ASSUME CacheInv, [CacheNext]_cacheVars PROVE CacheInv'
  OBVIOUS
<1>1. CASE CacheNext
  BY <1>1, RequestCacheInv DEF CacheNext
<1>2. CASE UNCHANGED cacheVars
  BY <1>2 DEF cacheVars, CacheInv, CacheOK, Cache, Level, HasNext
<1> QED BY <1>1, <1>2

LEMMA CacheInvHolds == CacheSpec => []CacheInv
BY InitCacheInv, NextCacheInv, PTL DEF CacheSpec

(* A request, as it acts on the records of the caches. *)
LEMMA RequestIs ==
  ASSUME CacheInv, NEW type \in RefType, NEW a \in Addr, Request(type, a)
  PROVE  /\ type \in Ref /\ a \in Nat /\ clock \in Nat
         /\ Cache(1) \in CacheData(1) /\ Sound(1, Cache(1), clock)
         /\ last' = [type |-> type, addr |-> a, latency |-> last'.latency]
         /\ HasNext(1)' = HasNext(1) /\ Level' = Level /\ l2Present' = l2Present
         /\ HasNext(1) =>
              /\ Cache(2) \in CacheData(2) /\ Sound(2, Cache(2), clock)
              /\ Cache(1)' = AccessFront(Cache(1), Cache(2), a, type, clock + 1).front
              /\ Cache(2)' = AccessFront(Cache(1), Cache(2), a, type, clock + 1).next
              /\ last'.latency = AccessFront(Cache(1), Cache(2), a, type, clock + 1).latency
         /\ ~HasNext(1) =>
              /\ Cache(1)' = AccessLast(1, Cache(1), a, type, clock + 1).cache
              /\ last'.latency = AccessLast(1, Cache(1), a, type, clock + 1).latency
<1>1. type \in Ref /\ a \in Nat
  BY RefAssumption DEF Ref
<1>2. l2Present' = l2Present /\ Level' = Level /\ HasNext(1)' = HasNext(1)
  BY DEF Request, Level, HasNext
<1>3. /\ clock \in Nat /\ Cache(1) \in CacheData(1) /\ Sound(1, Cache(1), clock)
      /\ DOMAIN blocks = Level /\ DOMAIN stats = Level
  BY Levels DEF CacheInv, CacheOK
<1>4. CASE HasNext(1)
  <2> DEFINE d == AccessFront(Cache(1), Cache(2), a, type, clock + 1)
  <2>1. /\ blocks' = [blocks EXCEPT ![1] = d.front.blocks, ![2] = d.next.blocks]
        /\ stats' = [stats EXCEPT ![1] = d.front.stats, ![2] = d.next.stats]
        /\ last' = [type |-> type, addr |-> a, latency |-> d.latency]
    BY <1>4 DEF Request
  <2>2. CacheOK(2)
    BY <1>4, Levels DEF CacheInv
  <2>3. Cache(2) \in CacheData(2) /\ Sound(2, Cache(2), clock)
    BY <2>2 DEF CacheOK
  <2>4. d.front \in CacheData(1) /\ d.next \in CacheData(2)
    <3>1. Balanced(Cache(1).stats) /\ Balanced(Cache(2).stats)
          /\ Feeds(Cache(1).stats, Cache(2).stats)
      BY <1>4, <2>2, Levels DEF CacheInv, CacheOK, Cache
    <3>2. clock + 1 \in Nat /\ clock < clock + 1
      BY <1>3
    <3> QED BY <1>1, <1>3, <2>3, <3>1, <3>2, AccessFrontEffect
  <2> HIDE DEF d
  <2>5. /\ blocks'[1] = d.front.blocks /\ blocks'[2] = d.next.blocks
        /\ stats'[1] = d.front.stats /\ stats'[2] = d.next.stats
    BY <1>3, <1>4, <2>1, Levels
  <2>6. Cache(1)' = d.front /\ Cache(2)' = d.next
    BY <2>4, <2>5, CacheFields DEF Cache
  <2>7. last'.latency = d.latency /\ last' = [type |-> type, addr |-> a, latency |-> last'.latency]
    BY <2>1
  <2> QED BY <1>1, <1>2, <1>3, <1>4, <2>3, <2>6, <2>7 DEF d
<1>5. CASE ~HasNext(1)
  <2> DEFINE d == AccessLast(1, Cache(1), a, type, clock + 1)
  <2>1. /\ blocks' = [blocks EXCEPT ![1] = d.cache.blocks]
        /\ stats' = [stats EXCEPT ![1] = d.cache.stats]
        /\ last' = [type |-> type, addr |-> a, latency |-> d.latency]
    BY <1>5 DEF Request
  <2>2. d.cache \in CacheData(1)
    <3>1. clock + 1 \in Nat /\ clock < clock + 1
      BY <1>3
    <3> QED BY <1>1, <1>3, <3>1, AccessLastEffect
  <2> HIDE DEF d
  <2>3. blocks'[1] = d.cache.blocks /\ stats'[1] = d.cache.stats
    BY <1>3, <1>5, <2>1, Levels
  <2>4. Cache(1)' = d.cache
    BY <2>2, <2>3, CacheFields DEF Cache
  <2>5. last'.latency = d.latency /\ last' = [type |-> type, addr |-> a, latency |-> last'.latency]
    BY <2>1
  <2> QED BY <1>1, <1>2, <1>3, <1>5, <2>4, <2>5 DEF d
<1> QED BY <1>4, <1>5

(* The misses of one request to one cache, and what they cost. *)
LEMMA LastMisses ==
  ASSUME NEW l \in {1, 2}, NEW c \in CacheData(l), NEW t \in Nat, NEW now \in Nat, t < now,
         Sound(l, c, t), NEW a \in Nat, NEW type \in Ref
  PROVE  LET d == AccessLast(l, c, a, type, now)
         IN  /\ d.cache.stats.readMisses =
                  c.stats.readMisses + One(type = "r" /\ ~Found(l, c, a))
             /\ d.latency = IF Found(l, c, a) THEN HitLatency(l) ELSE MissLatency
<1>1. c.stats.readMisses \in Nat
  BY DEF CacheData, StatField
<1>2. CASE Found(l, c, a)
  <2>1. HitTally(c.stats, Touched(l, c, a, type, now).stats, type)
    BY <1>2, TouchedEffect
  <2>2. Touched(l, c, a, type, now).stats.readMisses = c.stats.readMisses
    BY <2>1 DEF HitTally
  <2> QED BY <1>1, <1>2, <2>2, AccessLastIs DEF One
<1>3. CASE ~Found(l, c, a)
  <2>1. MissTally(c.stats, Replaced(l, c, a, type, now).stats, type, Written(l, c, a))
    BY <1>3, ReplacedEffect
  <2>2. Replaced(l, c, a, type, now).stats.readMisses = c.stats.readMisses + One(type = "r")
    BY <2>1 DEF MissTally
  <2> QED BY <1>1, <1>3, <2>2, AccessLastIs DEF One
<1> QED BY <1>2, <1>3

(* A read costs 20 when the last cache misses it too, and 10 or 20 when    *)
(* the L1 does.                                                            *)
LEMMA ReadMisses ==
  ASSUME CacheInv, "r" \in RefType, NEW a \in Addr, Request("r", a)
  PROVE  /\ Last' = Last /\ last'.latency \in {5, 10, 20}
         /\ stats[1].readMisses \in Nat /\ stats[Last].readMisses \in Nat
         /\ stats'[1].readMisses = stats[1].readMisses + One(last'.latency \in {10, 20})
         /\ stats'[Last].readMisses = stats[Last].readMisses + One(last'.latency = 20)
<1>1. /\ "r" \in Ref /\ "w" \in Ref /\ a \in Nat /\ clock \in Nat
      /\ Cache(1) \in CacheData(1) /\ Sound(1, Cache(1), clock)
      /\ HasNext(1)' = HasNext(1)
  BY RequestIs DEF Ref
<1>2. HitLatency(1) = 5 /\ HitLatency(2) = 10 /\ MissLatency = 20
  BY DEF HitLatency, MissLatency
<1>3. /\ Last' = Last /\ clock + 1 \in Nat /\ clock < clock + 1
      /\ stats[1] = Cache(1).stats /\ stats'[1] = Cache(1)'.stats
      /\ stats[2] = Cache(2).stats /\ stats'[2] = Cache(2)'.stats
  BY <1>1 DEF Last, Cache
<1>4. stats[1].readMisses \in Nat
  BY <1>1, <1>3 DEF CacheData, StatField
<1>5. CASE ~HasNext(1)
  <2>1. /\ Cache(1)' = AccessLast(1, Cache(1), a, "r", clock + 1).cache
        /\ last'.latency = AccessLast(1, Cache(1), a, "r", clock + 1).latency
    BY <1>5, RequestIs
  <2>2. /\ Cache(1)'.stats.readMisses = Cache(1).stats.readMisses + One(~Found(1, Cache(1), a))
        /\ last'.latency = IF Found(1, Cache(1), a) THEN 5 ELSE 20
    BY <1>1, <1>2, <1>3, <2>1, LastMisses
  <2> QED BY <1>3, <1>4, <1>5, <2>2 DEF Last, One
<1>6. CASE HasNext(1)
  <2> DEFINE front == Cache(1)
             next == Cache(2)
             mid == AfterWrite(front, next, a, clock + 1)
  <2>1. /\ next \in CacheData(2) /\ Sound(2, next, clock)
        /\ Cache(1)' = AccessFront(front, next, a, "r", clock + 1).front
        /\ Cache(2)' = AccessFront(front, next, a, "r", clock + 1).next
        /\ last'.latency = AccessFront(front, next, a, "r", clock + 1).latency
    BY <1>6, RequestIs
  <2>2. Last = 2 /\ stats[2].readMisses \in Nat
    BY <1>3, <1>6, <2>1 DEF Last, CacheData, StatField
  <2>3. CASE Found(1, front, a)
    <3>1. Cache(1)' = Touched(1, front, a, "r", clock + 1) /\ Cache(2)' = next /\ last'.latency = 5
      BY <1>2, <2>1, <2>3, AccessFrontIs
    <3>2. HitTally(front.stats, Cache(1)'.stats, "r")
      BY <1>1, <1>3, <2>3, <3>1, TouchedEffect
    <3> QED BY <1>3, <1>4, <2>2, <3>1, <3>2 DEF HitTally, One
  <2>4. CASE ~Found(1, front, a)
    <3>1. /\ Cache(1)' = Replaced(1, front, a, "r", clock + 1)
          /\ Cache(2)' = AccessLast(2, mid, a, "r", clock + 1 + 2).cache
          /\ last'.latency = AccessLast(2, mid, a, "r", clock + 1 + 2).latency
      BY <2>1, <2>4, AccessFrontIs
    <3>2. /\ Cache(1)'.stats.readMisses = front.stats.readMisses + 1
          /\ Written(1, front, a) \in BOOLEAN
      <4>1. /\ MissTally(front.stats, Cache(1)'.stats, "r", Written(1, front, a))
            /\ Written(1, front, a) \in BOOLEAN
        BY <1>1, <1>3, <2>4, <3>1, ReplacedEffect
      <4> QED BY <4>1 DEF MissTally, One
    <3>3. /\ clock + 2 \in Nat /\ clock < clock + 2 /\ clock + 3 \in Nat /\ clock + 2 < clock + 3
          /\ clock + 1 + 1 = clock + 2 /\ clock + 1 + 2 = clock + 3
      BY <1>1
    <3>4. /\ mid \in CacheData(2) /\ Sound(2, mid, clock + 2)
          /\ mid.stats.readMisses = next.stats.readMisses
      <4>1. CASE Written(1, front, a)
        <5>1. mid = AccessLast(2, next, Old(front, a), "w", clock + 2).cache /\ Old(front, a) \in Nat
          BY <1>1, <3>3, <4>1, OldNat DEF AfterWrite
        <5> HIDE DEF mid
        <5>2. mid \in CacheData(2) /\ Sound(2, mid, clock + 2)
          BY <1>1, <2>1, <3>3, <5>1, AccessLastEffect
        <5>3. mid.stats.readMisses = next.stats.readMisses + One("w" = "r" /\ ~Found(2, next, Old(front, a)))
          BY <1>1, <2>1, <3>3, <5>1, LastMisses
        <5> QED BY <1>3, <2>2, <5>2, <5>3 DEF One
      <4>2. CASE ~Written(1, front, a)
        <5>1. mid = next
          BY <4>2 DEF AfterWrite
        <5>2. Sound(2, next, clock + 2)
          BY <1>1, <2>1, <3>3, SoundLater
        <5> HIDE DEF mid
        <5> QED BY <2>1, <5>1, <5>2
      <4> QED BY <3>2, <4>1, <4>2
    <3> HIDE DEF mid
    <3>5. /\ Cache(2)'.stats.readMisses = mid.stats.readMisses + One(~Found(2, mid, a))
          /\ last'.latency = IF Found(2, mid, a) THEN 10 ELSE 20
      BY <1>1, <1>2, <3>1, <3>3, <3>4, LastMisses
    <3> QED BY <1>3, <1>4, <2>2, <3>2, <3>4, <3>5 DEF One
  <2> QED BY <2>3, <2>4
<1> QED BY <1>5, <1>6

-----------------------------------------------------------------------------
(* The caches keep their shape, and their answers are the three latencies, *)
(* for every geometry and sequence of requests.                            *)
THEOREM CacheTypesHold == CacheSpec => []CacheTypeOK
<1>1. CacheInv => CacheTypeOK
  <2> SUFFICES ASSUME CacheInv PROVE CacheTypeOK
    OBVIOUS
  <2>1. ASSUME NEW l \in Level
        PROVE  /\ blocks[l] \in [SetId(l) -> [Way(l) -> BlockData]]
               /\ stats[l] \in [DOMAIN NoStats -> Nat]
    <3>1. Cache(l) \in CacheData(l)
      BY DEF CacheInv, CacheOK
    <3> QED BY <3>1, StatFields DEF Cache, CacheData, Blocks, Rows
  <2> QED BY <2>1 DEF CacheInv, CacheTypeOK
<1> QED BY <1>1, CacheInvHolds, PTL

(* A block is in one place of its cache at most, no two blocks of a set    *)
(* have the same age and only a valid block is dirty (cache_evict_and_add_ *)
(* tag): for every geometry of one cache or two, and every sequence of     *)
(* reads and writes.                                                       *)
THEOREM OneCopyHolds == CacheSpec => []OneCopy
<1>1. CacheInv => OneCopy
  <2> SUFFICES ASSUME CacheInv, NEW l \in Level, NEW i \in SetId(l)
               PROVE  /\ \A v, w \in Valid(l, i) : v # w =>
                           /\ blocks[l][i][v].tag # blocks[l][i][w].tag
                           /\ blocks[l][i][v].age # blocks[l][i][w].age
                      /\ \A w \in Way(l) \ Valid(l, i) : ~blocks[l][i][w].dirty
    BY DEF OneCopy
  <2>1. SoundSet(blocks[l][i], clock) /\ DOMAIN blocks[l][i] = Way(l)
    BY DEF CacheInv, CacheOK, Sound, Cache, CacheData, Blocks, Rows
  <2> QED BY <2>1 DEF SoundSet, SoundBlock, Valid
<1> QED BY <1>1, CacheInvHolds, PTL

(* The statistics add up, and those of the L2 are what the L1 sends it.    *)
THEOREM StatsAddUp == CacheSpec => []StatsBalance
<1>1. CacheInv => StatsBalance
  BY DEF CacheInv, CacheOK, Balanced, Feeds, StatsBalance
<1> QED BY <1>1, CacheInvHolds, PTL

(* The report, which looks blocks up by their age, names each block once   *)
(* (cache_print_cache_data).                                               *)
THEOREM ReportNamesEach == CacheSpec => []ReportPrintsEach
<1>1. CacheInv => ReportPrintsEach
  <2> SUFFICES ASSUME CacheInv, NEW l \in Level, NEW i \in SetId(l)
               PROVE  Printed(l, i) = [w \in Way(l) |-> IF w \in Valid(l, i) THEN w ELSE None]
    BY DEF ReportPrintsEach
  <2> DEFINE set == blocks[l][i]
  <2>1. SoundSet(set, clock) /\ set \in Rows(l)
    BY DEF CacheInv, CacheOK, Sound, Cache, CacheData, Blocks
  <2>2. l \in {1, 2} /\ Way(l) \subseteq Nat
    BY Levels, Geometry
  <2>3. ASSUME NEW w \in Way(l)
        PROVE  First(Way(l), LAMBDA v : set[w].age # 0 /\ set[v].age = set[w].age)
                 = IF w \in Valid(l, i) THEN w ELSE None
    <3>1. \A v \in Way(l) : (set[w].age # 0 /\ set[v].age = set[w].age)
                               <=> (w \in Valid(l, i) /\ v = w)
      BY <2>1 DEF SoundSet, SoundBlock, Valid, Rows, BlockData
    <3> HIDE DEF set
    <3>2. CASE w \in Valid(l, i)
      <4> DEFINE P(v) == set[w].age # 0 /\ set[v].age = set[w].age
      <4>1. \A v \in Way(l) : P(v) <=> v = w
        BY <3>1, <3>2
      <4> HIDE DEF P
      <4>2. (CHOOSE v \in Way(l) : P(v) /\ \A u \in Way(l) : P(u) => v <= u) = w
        BY <2>2, <4>1
      <4> QED BY <3>2, <4>1, <4>2 DEF First, P
    <3>3. CASE w \notin Valid(l, i)
      BY <3>1, <3>3 DEF First
    <3> QED BY <3>2, <3>3
  <2> QED BY <2>3 DEF Printed
<1> QED BY <1>1, CacheInvHolds, PTL

(* Quotients and remainders. *)
LEMMA Division ==
  ASSUME NEW n \in Nat, NEW d \in Nat \ {0}
  PROVE  n = (n \div d) * d + (n % d) /\ n \div d \in Nat /\ n % d \in 0..(d - 1)
OBVIOUS

LEMMA DivisionUnique ==
  ASSUME NEW q \in Nat, NEW d \in Nat \ {0}, NEW r \in 0..(d - 1)
  PROVE  (q * d + r) \div d = q /\ (q * d + r) % d = r
<1>1. PICK n \in Nat : n = q * d + r
  OBVIOUS
<1>2. PICK p \in Nat, s \in 0..(d - 1) : p = n \div d /\ s = n % d /\ n = p * d + s
  BY Division
<1>3. ASSUME NEW x \in Nat, NEW y \in Nat, x < y PROVE x * d + d <= y * d
  <2>1. PICK k \in Nat \ {0} : y = x + k
    <3>1. y - x \in Nat \ {0} /\ y = x + (y - x)
      BY <1>3
    <3> QED BY <3>1
  <2>2. y * d = x * d + k * d
    BY <2>1
  <2>3. k * d >= d
    OBVIOUS
  <2>4. x * d \in Nat /\ k * d \in Nat
    OBVIOUS
  <2> QED BY <2>2, <2>3, <2>4
<1>4. p * d \in Nat /\ q * d \in Nat
  OBVIOUS
<1>5. ~(p < q)
  <2>1. SUFFICES ASSUME p < q PROVE FALSE
    OBVIOUS
  <2>2. p * d + d <= q * d
    BY <1>3, <2>1
  <2> QED BY <1>1, <1>2, <1>4, <2>2
<1>6. ~(q < p)
  <2>1. SUFFICES ASSUME q < p PROVE FALSE
    OBVIOUS
  <2>2. q * d + d <= p * d
    BY <1>3, <2>1
  <2> QED BY <1>1, <1>2, <1>4, <2>2
<1>7. p = q
  BY <1>5, <1>6
<1>8. s = r
  BY <1>1, <1>2, <1>4, <1>7
<1> QED BY <1>1, <1>2, <1>7, <1>8

(* A tag and the index of a set in use name one block, and the address     *)
(* encoded from them is that of the block.                                 *)
LEMMA EncodeParts ==
  ASSUME NEW l \in {1, 2}, NEW tag \in Nat, NEW i \in 0..(UsedSets[l] - 1)
  PROVE  /\ Encode(l, tag, i) \in Nat
         /\ Encode(l, tag, i) \div BlkSize = tag * UsedSets[l] + i
         /\ Tag(l, Encode(l, tag, i)) = tag /\ Index(l, Encode(l, tag, i)) = i
<1>1. BlkSize \in Nat \ {0} /\ UsedSets[l] \in Nat \ {0}
  <2>1. BlkSize \in Nat \ {0}
    BY LevelAssumption, PowersOfTwo DEF PowerOf2
  <2>2. NumSets(l) \in Nat /\ UsedSets[l] \in 1..NumSets(l)
    BY Geometry
  <2> QED BY <2>1, <2>2
<1>2. PICK u \in Nat \ {0} : u = UsedSets[l]
  BY <1>1
<1>3. PICK n \in Nat : n = tag * u + i
  <2>1. tag * u \in Nat /\ i \in Nat
    BY <1>2
  <2> QED BY <2>1
<1>4. n \div u = tag /\ n % u = i
  BY <1>2, <1>3, DivisionUnique
<1>5. n * BlkSize \in Nat /\ (n * BlkSize) \div BlkSize = n
  <2>1. 0 \in 0..(BlkSize - 1) /\ n * BlkSize \in Nat /\ n * BlkSize + 0 = n * BlkSize
    BY <1>1
  <2>2. (n * BlkSize + 0) \div BlkSize = n
    BY <1>1, <2>1, DivisionUnique
  <2> QED BY <2>1, <2>2
<1>6. Encode(l, tag, i) = n * BlkSize
  BY <1>2, <1>3 DEF Encode
<1> QED BY <1>2, <1>3, <1>4, <1>5, <1>6 DEF Tag, Index

(* And the tag and index of an address are those of its block.             *)
LEMMA PartsEncode ==
  ASSUME NEW l \in {1, 2}, NEW a \in Nat
  PROVE  /\ a \div BlkSize \in Nat /\ Tag(l, a) \in Nat
         /\ Index(l, a) \in SetId(l) /\ Index(l, a) \in 0..(UsedSets[l] - 1)
         /\ Tag(l, a) * UsedSets[l] + Index(l, a) = a \div BlkSize
         /\ Encode(l, Tag(l, a), Index(l, a)) = (a \div BlkSize) * BlkSize
<1>1. BlkSize \in Nat \ {0} /\ UsedSets[l] \in Nat \ {0}
  <2>1. BlkSize \in Nat \ {0}
    BY LevelAssumption, PowersOfTwo DEF PowerOf2
  <2>2. NumSets(l) \in Nat /\ UsedSets[l] \in 1..NumSets(l)
    BY Geometry
  <2> QED BY <2>1, <2>2
<1>2. PICK n \in Nat : n = a \div BlkSize
  BY <1>1, Division
<1>3. n = (n \div UsedSets[l]) * UsedSets[l] + (n % UsedSets[l]) /\ n % UsedSets[l] \in 0..(UsedSets[l] - 1)
  BY <1>1, Division
<1>4. Tag(l, a) = n \div UsedSets[l] /\ Index(l, a) = n % UsedSets[l]
  BY <1>2 DEF Tag, Index
<1>5. Tag(l, a) \in Nat /\ Index(l, a) \in SetId(l)
  BY AddressParts
<1> QED BY <1>2, <1>3, <1>4, <1>5 DEF Encode

(* Two addresses of one tag and set are in one block. *)
LEMMA PartsNameBlock ==
  ASSUME NEW l \in {1, 2}, NEW a \in Nat, NEW b \in Nat
  PROVE  (Tag(l, a) = Tag(l, b) /\ Index(l, a) = Index(l, b)) <=> a \div BlkSize = b \div BlkSize
<1>1. ASSUME Tag(l, a) = Tag(l, b), Index(l, a) = Index(l, b) PROVE a \div BlkSize = b \div BlkSize
  BY <1>1, PartsEncode
<1>2. ASSUME a \div BlkSize = b \div BlkSize PROVE Tag(l, a) = Tag(l, b) /\ Index(l, a) = Index(l, b)
  BY <1>2 DEF Tag, Index
<1> QED BY <1>1, <1>2

-----------------------------------------------------------------------------
(* One request to one cache, block by block: the block requested is in its *)
(* place, used now, and dirty if it is written or was; the rest of the     *)
(* cache is what it was.                                                   *)
WayOf(l, c, a) ==
  LET set == c.blocks[Index(l, a)]
  IN  IF Found(l, c, a) THEN TagMatch(set, Tag(l, a)) ELSE Fresh(set)
InPlace(l, c, a, type, now) ==
  [tag |-> Tag(l, a), valid |-> TRUE, age |-> now,
   dirty |-> type = "w" \/ (Found(l, c, a) /\ c.blocks[Index(l, a)][WayOf(l, c, a)].dirty)]
Becomes(l, c, a, type, now, d) ==
  /\ d.blocks[Index(l, a)] =
       [c.blocks[Index(l, a)] EXCEPT ![WayOf(l, c, a)] = InPlace(l, c, a, type, now)]
  /\ \A j \in SetId(l) \ {Index(l, a)} : d.blocks[j] = c.blocks[j]

LEMMA PlaceIs ==
  ASSUME NEW l \in {1, 2}, NEW c \in CacheData(l), NEW a \in Nat
  PROVE  /\ Index(l, a) \in SetId(l) /\ Tag(l, a) \in Nat
         /\ c.blocks[Index(l, a)] \in Rows(l) /\ WayOf(l, c, a) \in Way(l)
         /\ Found(l, c, a) => /\ c.blocks[Index(l, a)][WayOf(l, c, a)].valid
                              /\ c.blocks[Index(l, a)][WayOf(l, c, a)].tag = Tag(l, a)
         /\ ~Found(l, c, a) => /\ \A v \in Way(l) : c.blocks[Index(l, a)][v].valid =>
                                     c.blocks[Index(l, a)][v].tag # Tag(l, a)
                               /\ WayOf(l, c, a) = Fresh(c.blocks[Index(l, a)])
<1> DEFINE i == Index(l, a)
<1>1. i \in SetId(l) /\ Tag(l, a) \in Nat
  BY AddressParts
<1>2. c.blocks[i] \in Rows(l)
  BY <1>1 DEF CacheData, Blocks
<1>3. CASE Found(l, c, a)
  BY <1>1, <1>2, <1>3, TagMatchEffect DEF Found, WayOf
<1>4. CASE ~Found(l, c, a)
  BY <1>1, <1>2, <1>4, TagMatchEffect, FreshEffect DEF Found, WayOf
<1> QED BY <1>1, <1>2, <1>3, <1>4

(* What became of the block of the access. *)
LEMMA TouchedBlocks ==
  ASSUME NEW l \in {1, 2}, NEW c \in CacheData(l), NEW a \in Nat, Found(l, c, a),
         NEW type \in Ref, NEW now \in Nat
  PROVE  Becomes(l, c, a, type, now, Touched(l, c, a, type, now))
<1> DEFINE i == Index(l, a)
           w == WayOf(l, c, a)
           c1 == Refer(c, type)
           b == [c.blocks[i][w] EXCEPT !.valid = TRUE, !.age = now, !.dirty = @ \/ type = "w"]
           put == [c1 EXCEPT !.blocks[i][w] = b]
           d == Touched(l, c, a, type, now)
<1>1. /\ i \in SetId(l) /\ c.blocks[i] \in Rows(l) /\ w \in Way(l)
      /\ c.blocks[i][w].tag = Tag(l, a)
  BY PlaceIs
<1>2. c1 \in CacheData(l) /\ c1.blocks = c.blocks
  BY ReferEffect
<1>3. c.blocks[i][w] \in BlockData
  BY <1>1 DEF Rows
<1>4. b = InPlace(l, c, a, type, now) /\ b \in BlockData
  <2>1. /\ b.tag = Tag(l, a) /\ b.valid = TRUE /\ b.age = now
        /\ b.dirty = (c.blocks[i][w].dirty \/ type = "w") /\ b \in BlockData
    BY <1>1, <1>3 DEF BlockData
  <2>2. b = [tag |-> Tag(l, a), valid |-> TRUE, age |-> now,
             dirty |-> c.blocks[i][w].dirty \/ type = "w"]
    <3>1. PICK x \in BlockData : x = b
      BY <2>1
    <3>2. x = [tag |-> x.tag, valid |-> x.valid, age |-> x.age, dirty |-> x.dirty]
      BY DEF BlockData
    <3> HIDE DEF b
    <3> QED BY <2>1, <3>1, <3>2
  <2> QED BY <2>1, <2>2 DEF InPlace
<1>5. w = TagMatch(c.blocks[i], Tag(l, a))
  BY DEF WayOf
<1>6. d = Count(put, IF type = "r" THEN "readHits" ELSE "writeHits")
  BY <1>2, <1>5 DEF Touched, Hit
<1> HIDE DEF b, c1, d, i, w
<1>7. /\ put \in CacheData(l) /\ put.blocks[i] = [c1.blocks[i] EXCEPT ![w] = b]
      /\ \A j \in SetId(l) \ {i} : put.blocks[j] = c1.blocks[j]
  BY <1>1, <1>2, <1>4, PutEffect
<1> HIDE DEF put
<1>8. d.blocks = put.blocks
  <2>1. "readHits" \in StatField /\ "writeHits" \in StatField
    BY DEF StatField
  <2> QED BY <1>6, <1>7, <2>1, CountEffect
<1> QED BY <1>2, <1>4, <1>7, <1>8 DEF Becomes, i, w, d
LEMMA ReplacedBlocks ==
  ASSUME NEW l \in {1, 2}, NEW c \in CacheData(l), NEW t \in Nat, Sound(l, c, t),
         NEW a \in Nat, ~Found(l, c, a), NEW type \in Ref, NEW now \in Nat
  PROVE  Becomes(l, c, a, type, now, Replaced(l, c, a, type, now))
<1> DEFINE i == Index(l, a)
           w == WayOf(l, c, a)
           tag == Tag(l, a)
           c1 == Refer(c, type)
           c2 == IF c.blocks[i][w].dirty THEN Clean(c1, i, w) ELSE c1
           b == [tag |-> tag, valid |-> TRUE, age |-> now,
                 dirty |-> c2.blocks[i][w].dirty \/ type = "w"]
           put == [c2 EXCEPT !.blocks[i][w] = b]
           d == Replaced(l, c, a, type, now)
<1>1. /\ i \in SetId(l) /\ c.blocks[i] \in Rows(l) /\ w \in Way(l) /\ tag \in Nat
      /\ w = Fresh(c.blocks[i])
  BY PlaceIs
<1>2. c1 \in CacheData(l) /\ c1.blocks = c.blocks
  BY ReferEffect
<1>3. c.blocks[i][w] \in BlockData
  BY <1>1 DEF Rows
<1>4. d = Count(Count(put, "traffic"), IF type = "r" THEN "readMisses" ELSE "writeMisses")
  BY <1>1 DEF Replaced, Fill
<1> HIDE DEF c1, d, i, w, tag
<1>5. /\ c2 \in CacheData(l) /\ ~c2.blocks[i][w].dirty
      /\ \A v \in Way(l) \ {w} : c2.blocks[i][v] = c1.blocks[i][v]
      /\ \A j \in SetId(l) \ {i} : c2.blocks[j] = c1.blocks[j]
  <2>1. CASE c.blocks[i][w].dirty
    <3> DEFINE e == [c.blocks[i][w] EXCEPT !.dirty = FALSE]
               p == [c1 EXCEPT !.blocks[i][w] = e]
    <3>1. e \in BlockData /\ ~e.dirty
      BY <1>3 DEF BlockData
    <3>2. p = [c1 EXCEPT !.blocks[i][w].dirty = FALSE]
      BY <1>2
    <3> HIDE DEF e
    <3>3. /\ p \in CacheData(l) /\ p.blocks[i] = [c1.blocks[i] EXCEPT ![w] = e]
          /\ \A j \in SetId(l) \ {i} : p.blocks[j] = c1.blocks[j]
      BY <1>1, <1>2, <3>1, PutEffect
    <3>4. c2 = Count(Count(p, "writeBacks"), "traffic")
      BY <2>1, <3>2 DEF Clean
    <3> HIDE DEF p, c2
    <3>5. "writeBacks" \in StatField /\ "traffic" \in StatField
      BY DEF StatField
    <3>6. c2 \in CacheData(l) /\ c2.blocks = p.blocks
      BY <3>3, <3>4, <3>5, CountEffect
    <3> QED BY <1>1, <1>2, <3>1, <3>3, <3>6 DEF Rows
  <2>2. CASE ~c.blocks[i][w].dirty
    BY <1>2, <2>2
  <2> QED BY <2>1, <2>2
<1> HIDE DEF c2
<1>6. b = InPlace(l, c, a, type, now) /\ b \in BlockData
  <2>1. b = [tag |-> tag, valid |-> TRUE, age |-> now, dirty |-> type = "w"]
    BY <1>5
  <2>2. InPlace(l, c, a, type, now) = [tag |-> tag, valid |-> TRUE, age |-> now, dirty |-> type = "w"]
    BY DEF InPlace, tag
  <2>3. b \in BlockData
    BY <1>1, <2>1 DEF BlockData
  <2> QED BY <2>1, <2>2, <2>3
<1> HIDE DEF b
<1>7. /\ put \in CacheData(l) /\ put.blocks[i] = [c2.blocks[i] EXCEPT ![w] = b]
      /\ \A j \in SetId(l) \ {i} : put.blocks[j] = c2.blocks[j]
  BY <1>1, <1>5, <1>6, PutEffect
<1> HIDE DEF put
<1>8. d.blocks = put.blocks
  <2>1. "readMisses" \in StatField /\ "writeMisses" \in StatField /\ "traffic" \in StatField
    BY DEF StatField
  <2>2. Count(put, "traffic") \in CacheData(l) /\ Count(put, "traffic").blocks = put.blocks
    BY <1>7, <2>1, CountEffect
  <2> QED BY <1>4, <2>1, <2>2, CountEffect
<1>9. [c2.blocks[i] EXCEPT ![w] = b] = [c.blocks[i] EXCEPT ![w] = b]
  <2>1. c2.blocks[i] \in Rows(l)
    BY <1>1, <1>5 DEF CacheData, Blocks
  <2> QED BY <1>1, <1>2, <1>5, <2>1 DEF Rows
<1> QED BY <1>2, <1>5, <1>6, <1>7, <1>8, <1>9 DEF Becomes, i, w, d

(* What a request to the last cache makes of its blocks, and its answer.   *)
LEMMA AccessLastBlocks ==
  ASSUME NEW l \in {1, 2}, NEW c \in CacheData(l), NEW t \in Nat, Sound(l, c, t),
         NEW a \in Nat, NEW type \in Ref, NEW now \in Nat
  PROVE  /\ Becomes(l, c, a, type, now, AccessLast(l, c, a, type, now).cache)
         /\ AccessLast(l, c, a, type, now).latency =
              IF Found(l, c, a) THEN HitLatency(l) ELSE MissLatency
<1>1. CASE Found(l, c, a)
  BY <1>1, AccessLastIs, TouchedBlocks
<1>2. CASE ~Found(l, c, a)
  BY <1>2, AccessLastIs, ReplacedBlocks
<1> QED BY <1>1, <1>2

(* After a request for a block, another block is found only where it was.  *)
LEMMA FoundBefore ==
  ASSUME NEW l \in {1, 2}, NEW c \in CacheData(l), NEW d \in CacheData(l), NEW a \in Nat,
         NEW type, NEW now, Becomes(l, c, a, type, now, d),
         NEW b \in Nat, b \div BlkSize # a \div BlkSize, Found(l, d, b)
  PROVE  Found(l, c, b)
<1> DEFINE i == Index(l, b)
           w == WayOf(l, d, b)
<1>1. i \in SetId(l) /\ c.blocks[i] \in Rows(l)
  BY PlaceIs
<1>2. w \in Way(l) /\ d.blocks[i][w].valid /\ d.blocks[i][w].tag = Tag(l, b)
  BY PlaceIs
<1>3. c.blocks[i][w].valid /\ c.blocks[i][w].tag = Tag(l, b)
  <2>1. CASE i # Index(l, a)
    BY <1>1, <1>2, <2>1 DEF Becomes
  <2>2. CASE i = Index(l, a)
    <3>1. d.blocks[i] = [c.blocks[i] EXCEPT ![WayOf(l, c, a)] = InPlace(l, c, a, type, now)]
      BY <2>2 DEF Becomes
    <3>2. Tag(l, a) # Tag(l, b)
      BY <2>2, PartsNameBlock
    <3>3. InPlace(l, c, a, type, now).tag = Tag(l, a)
      BY DEF InPlace
    <3>4. w # WayOf(l, c, a)
      BY <1>1, <1>2, <3>1, <3>2, <3>3 DEF Rows
    <3> QED BY <1>1, <1>2, <3>1, <3>4 DEF Rows
  <2> QED BY <2>1, <2>2
<1> QED BY <1>1, <1>2, <1>3, TagMatchEffect DEF Found

(* The block an L1 writes back is another than the one it is asked for.    *)
LEMMA OldIsAnother ==
  ASSUME NEW c \in CacheData(1), NEW t \in Nat, Sound(1, c, t), NEW a \in Nat,
         ~Found(1, c, a), Written(1, c, a)
  PROVE  /\ Old(c, a) \in Nat /\ Old(c, a) \div BlkSize # a \div BlkSize
         /\ Tag(1, Old(c, a)) = c.blocks[Index(1, a)][Fresh(c.blocks[Index(1, a)])].tag
         /\ Index(1, Old(c, a)) = Index(1, a)
<1> DEFINE i == Index(1, a)
           w == Fresh(c.blocks[i])
<1>1. /\ i \in SetId(1) /\ i \in 0..(UsedSets[1] - 1) /\ c.blocks[i] \in Rows(1) /\ w \in Way(1)
      /\ \A v \in Way(1) : c.blocks[i][v].valid => c.blocks[i][v].tag # Tag(1, a)
  BY PlaceIs, PartsEncode
<1>2. c.blocks[i][w].dirty /\ c.blocks[i][w].tag \in Nat
  BY <1>1 DEF Written, Rows, BlockData
<1>3. c.blocks[i][w].valid
  <2>1. SoundBlock(c.blocks[i][w], t)
    BY <1>1 DEF Sound, SoundSet, Rows
  <2> QED BY <1>2, <2>1 DEF SoundBlock
<1>4. c.blocks[i][w].tag # Tag(1, a)
  BY <1>1, <1>3
<1>5. Old(c, a) = Encode(1, c.blocks[i][w].tag, i)
  BY DEF Old
<1>6. Old(c, a) \in Nat /\ Tag(1, Old(c, a)) = c.blocks[i][w].tag /\ Index(1, Old(c, a)) = i
  BY <1>1, <1>2, <1>5, EncodeParts
<1>7. Old(c, a) \div BlkSize # a \div BlkSize
  BY <1>4, <1>6, PartsNameBlock
<1> QED BY <1>6, <1>7

(* The request to the L2 that a miss of the L1 comes to: the L2 as it is   *)
(* after the block written back.                                           *)
LEMMA AfterWriteEffect ==
  ASSUME NEW front \in CacheData(1), NEW next \in CacheData(2), NEW t \in Nat,
         Sound(1, front, t), Sound(2, next, t), NEW a \in Nat, ~Found(1, front, a)
  PROVE  LET mid == AfterWrite(front, next, a, t + 1)
         IN  /\ mid \in CacheData(2) /\ Sound(2, mid, t + 2)
             /\ Written(1, front, a) \in BOOLEAN
             /\ Written(1, front, a) =>
                  /\ Old(front, a) \in Nat /\ Old(front, a) \div BlkSize # a \div BlkSize
                  /\ Becomes(2, next, Old(front, a), "w", t + 2, mid)
             /\ ~Written(1, front, a) => mid = next
<1> DEFINE mid == AfterWrite(front, next, a, t + 1)
           wb == Written(1, front, a)
<1>1. wb \in BOOLEAN
  <2>1. /\ front.blocks[Index(1, a)] \in Rows(1)
        /\ Fresh(front.blocks[Index(1, a)]) \in Way(1)
    BY PlaceIs
  <2> QED BY <2>1 DEF Written, Rows, BlockData
<1>2. t + 2 \in Nat /\ t < t + 2 /\ "w" \in Ref
  BY DEF Ref
<1>3. CASE wb
  <2> DEFINE old == Old(front, a)
             d == AccessLast(2, next, old, "w", t + 2).cache
  <2>1. old \in Nat /\ old \div BlkSize # a \div BlkSize
    BY <1>3, OldIsAnother
  <2>2. mid = d
    <3>1. (t + 1) + 1 = t + 2
      OBVIOUS
    <3> QED BY <1>3, <3>1 DEF AfterWrite
  <2> HIDE DEF old, mid
  <2>3. d \in CacheData(2) /\ Sound(2, d, t + 2)
    BY <1>2, <2>1, AccessLastEffect
  <2>4. Becomes(2, next, old, "w", t + 2, d)
    BY <1>2, <2>1, AccessLastBlocks
  <2> QED BY <1>1, <1>3, <2>1, <2>2, <2>3, <2>4 DEF old, mid
<1>4. CASE ~wb
  <2>1. mid = next
    BY <1>4 DEF AfterWrite
  <2>2. Sound(2, next, t + 2)
    BY <1>2, SoundLater
  <2> HIDE DEF mid
  <2> QED BY <1>1, <1>4, <2>1, <2>2 DEF mid
<1> QED BY <1>1, <1>3, <1>4

LEMMA RequestNamesLevel ==
  ASSUME CacheInv, NEW type \in RefType, NEW a \in Addr, Request(type, a)
  PROVE  LET inL2 == HasNext(1) /\ Holds(2, a)
         IN  /\ last'.addr = a
             /\ last'.latency = 5 <=> Holds(1, a)
             /\ last'.latency = 10 => inL2
             /\ last'.latency = 20 /\ inL2 => stats'[1].writeBacks > stats[1].writeBacks
<1>1. /\ type \in Ref /\ a \in Nat /\ clock \in Nat
      /\ Cache(1) \in CacheData(1) /\ Sound(1, Cache(1), clock)
      /\ last' = [type |-> type, addr |-> a, latency |-> last'.latency]
  BY RequestIs
<1>2. Holds(1, a) = Found(1, Cache(1), a) /\ Holds(2, a) = Found(2, Cache(2), a)
  BY DEF Holds, Found, Cache
<1>3. HitLatency(1) = 5 /\ HitLatency(2) = 10 /\ MissLatency = 20
  BY DEF HitLatency, MissLatency
<1>4. last'.addr = a
  BY <1>1
<1>5. CASE ~HasNext(1)
  <2>1. last'.latency = IF Found(1, Cache(1), a) THEN HitLatency(1) ELSE MissLatency
    <3>1. clock + 1 \in Nat
      BY <1>1
    <3>2. last'.latency = AccessLast(1, Cache(1), a, type, clock + 1).latency
      BY <1>5, RequestIs
    <3> QED BY <1>1, <3>1, <3>2, AccessLastBlocks
  <2> QED BY <1>2, <1>3, <1>4, <1>5, <2>1
<1>6. CASE HasNext(1) /\ Found(1, Cache(1), a)
  <2>1. last'.latency = 5
    <3>1. last'.latency = AccessFront(Cache(1), Cache(2), a, type, clock + 1).latency
      BY <1>6, RequestIs
    <3> QED BY <1>3, <1>6, <3>1, AccessFrontIs
  <2> QED BY <1>2, <1>4, <1>6, <2>1
<1>7. CASE HasNext(1) /\ ~Found(1, Cache(1), a)
  <2> DEFINE front == Cache(1)
             next == Cache(2)
             mid == AfterWrite(front, next, a, clock + 1)
             wb == Written(1, front, a)
  <2>1. /\ next \in CacheData(2) /\ Sound(2, next, clock)
        /\ Cache(1)' = AccessFront(front, next, a, type, clock + 1).front
        /\ last'.latency = AccessFront(front, next, a, type, clock + 1).latency
    BY <1>7, RequestIs
  <2>2. /\ mid \in CacheData(2) /\ Sound(2, mid, clock + 2) /\ wb \in BOOLEAN
        /\ wb => /\ Old(front, a) \in Nat /\ Old(front, a) \div BlkSize # a \div BlkSize
                 /\ Becomes(2, next, Old(front, a), "w", clock + 2, mid)
        /\ ~wb => mid = next
    BY <1>1, <1>7, <2>1, AfterWriteEffect
  <2>3. /\ last'.latency = AccessLast(2, mid, a, "r", clock + 3).latency
        /\ Cache(1)' = Replaced(1, front, a, type, clock + 1)
    <3>1. (clock + 1) + 2 = clock + 3
      BY <1>1
    <3> QED BY <1>7, <2>1, <3>1, AccessFrontIs
  <2>4. last'.latency = IF Found(2, mid, a) THEN 10 ELSE 20
    <3>1. clock + 2 \in Nat /\ clock + 3 \in Nat /\ "r" \in Ref
      BY <1>1 DEF Ref
    <3> HIDE DEF mid
    <3> QED BY <1>1, <1>3, <2>2, <2>3, <3>1, AccessLastBlocks
  <2>5. wb => stats'[1].writeBacks = stats[1].writeBacks + 1 /\ stats[1].writeBacks \in Nat
    <3>1. SUFFICES ASSUME wb
                   PROVE  stats'[1].writeBacks = stats[1].writeBacks + 1 /\ stats[1].writeBacks \in Nat
      OBVIOUS
    <3>2. clock + 1 \in Nat /\ clock < clock + 1
      BY <1>1
    <3>3. MissTally(front.stats, Replaced(1, front, a, type, clock + 1).stats, type, wb)
      BY <1>1, <1>7, <3>2, ReplacedEffect
    <3>4. front.stats = stats[1] /\ Cache(1)'.stats = stats'[1]
      BY DEF Cache
    <3>5. stats'[1].writeBacks = stats[1].writeBacks + One(wb)
      BY <2>3, <3>3, <3>4 DEF MissTally
    <3>6. stats[1].writeBacks \in Nat
      BY <1>1, <3>4 DEF CacheData, StatField
    <3> QED BY <3>1, <3>5, <3>6 DEF One
  <2> HIDE DEF mid, wb
  <2>6. Found(2, mid, a) => Found(2, next, a)
    BY <1>1, <2>1, <2>2, FoundBefore
  <2>7. ~wb => mid = next
    BY <2>2
  <2> QED BY <1>2, <1>4, <1>7, <2>4, <2>5, <2>6, <2>7
<1> QED BY <1>5, <1>6, <1>7

(* The latency names the nearest cache that held the block when the        *)
(* request came (cache_handle_memory_request, cache_evict_and_add_tag),    *)
(* for every geometry.                                                     *)
THEOREM LatencyIsLevel == CacheSpec => LatencyNamesLevel
<1>1. CacheInv /\ [CacheNext]_cacheVars =>
        [LET a == last'.addr
             inL2 == HasNext(1) /\ Holds(2, a)
         IN  /\ last'.latency = 5 <=> Holds(1, a)
             /\ last'.latency = 10 => inL2
             /\ last'.latency = 20 /\ inL2 => stats'[1].writeBacks > stats[1].writeBacks]_cacheVars
  BY RequestNamesLevel DEF CacheNext
<1> QED BY <1>1, CacheInvHolds, PTL DEF CacheSpec, LatencyNamesLevel
-----------------------------------------------------------------------------
(* The dirty blocks of a cache. *)
DirtyIn(l, c) ==
  UNION {{Encode(l, c.blocks[i][w].tag, i) : w \in {v \in Way(l) : c.blocks[i][v].dirty}} :
         i \in SetId(l)}
(* The dirty block a request replaces. *)
Ousted(l, c, a) ==
  LET i == Index(l, a)
  IN  IF ~Found(l, c, a) /\ Written(l, c, a)
      THEN {Encode(l, c.blocks[i][Fresh(c.blocks[i])].tag, i)} ELSE {}

LEMMA InDirty ==
  ASSUME NEW l, NEW c, NEW i \in SetId(l), NEW w \in Way(l), c.blocks[i][w].dirty
  PROVE  Encode(l, c.blocks[i][w].tag, i) \in DirtyIn(l, c)
BY DEF DirtyIn

LEMMA DirtyStays ==
  ASSUME NEW l \in {1, 2}, NEW c \in CacheData(l), NEW d, NEW a \in Nat,
         NEW type, NEW now, Becomes(l, c, a, type, now, d)
  PROVE  /\ DirtyIn(l, c) \ Ousted(l, c, a) \subseteq DirtyIn(l, d)
         /\ type = "w" => (a \div BlkSize) * BlkSize \in DirtyIn(l, d)
<1> DEFINE i == Index(l, a)
           w == WayOf(l, c, a)
           b == InPlace(l, c, a, type, now)
<1>1. /\ i \in SetId(l) /\ c.blocks[i] \in Rows(l) /\ w \in Way(l)
      /\ Found(l, c, a) => c.blocks[i][w].tag = Tag(l, a)
      /\ ~Found(l, c, a) => w = Fresh(c.blocks[i])
  BY PlaceIs
<1>2. /\ d.blocks[i][w] = b /\ \A v \in Way(l) \ {w} : d.blocks[i][v] = c.blocks[i][v]
      /\ \A j \in SetId(l) \ {i} : d.blocks[j] = c.blocks[j]
  BY <1>1 DEF Becomes, Rows
<1>3. b.tag = Tag(l, a) /\ b.dirty = (type = "w" \/ (Found(l, c, a) /\ c.blocks[i][w].dirty))
  BY DEF InPlace
<1> HIDE DEF b
<1>4. ASSUME type = "w" PROVE (a \div BlkSize) * BlkSize \in DirtyIn(l, d)
  <2>1. d.blocks[i][w].dirty
    BY <1>2, <1>3, <1>4
  <2>2. Encode(l, d.blocks[i][w].tag, i) \in DirtyIn(l, d)
    BY <1>1, <2>1, InDirty
  <2> QED BY <1>2, <1>3, <2>2, PartsEncode
<1>5. ASSUME NEW x \in DirtyIn(l, c), x \notin Ousted(l, c, a)
      PROVE  x \in DirtyIn(l, d)
  <2>1. PICK j \in SetId(l), v \in Way(l) : c.blocks[j][v].dirty /\ x = Encode(l, c.blocks[j][v].tag, j)
    BY <1>5 DEF DirtyIn
  <2>2. CASE j # i \/ v # w
    <3>1. d.blocks[j][v] = c.blocks[j][v]
      BY <1>2, <2>2
    <3> HIDE DEF i, w
    <3> QED BY <2>1, <3>1, InDirty
  <2>3. CASE j = i /\ v = w
    <3>1. Found(l, c, a)
      <4>1. SUFFICES ASSUME ~Found(l, c, a) PROVE FALSE
        OBVIOUS
      <4>2. w = Fresh(c.blocks[i]) /\ Written(l, c, a)
        BY <1>1, <2>1, <2>3, <4>1 DEF Written
      <4> QED BY <1>5, <2>1, <2>3, <4>1, <4>2 DEF Ousted
    <3>2. d.blocks[i][w].dirty /\ d.blocks[i][w].tag = c.blocks[i][w].tag
      <4>1. c.blocks[i][w].tag = Tag(l, a)
        BY <1>1, <3>1
      <4> QED BY <1>2, <1>3, <2>1, <2>3, <3>1, <4>1
    <3>3. Encode(l, d.blocks[i][w].tag, i) \in DirtyIn(l, d)
      BY <1>1, <3>2, InDirty
    <3> QED BY <2>1, <2>3, <3>2, <3>3
  <2> QED BY <2>2, <2>3
<1> QED BY <1>4, <1>5

(* As many blocks stop being dirty in the last cache as it writes back.    *)
LEMMA LastKeepsDirty ==
  ASSUME NEW l \in {1, 2}, NEW c \in CacheData(l), NEW t \in Nat, NEW now \in Nat, t < now,
         Sound(l, c, t), NEW a \in Nat, NEW type \in Ref
  PROVE  LET d == AccessLast(l, c, a, type, now).cache
         IN  /\ DirtyIn(l, c) \ Ousted(l, c, a) \subseteq DirtyIn(l, d)
             /\ type = "w" => (a \div BlkSize) * BlkSize \in DirtyIn(l, d)
             /\ c.stats.writeBacks \in Nat
             /\ IsFiniteSet(Ousted(l, c, a)) /\ Cardinality(Ousted(l, c, a)) \in Nat
             /\ d.stats.writeBacks = c.stats.writeBacks + Cardinality(Ousted(l, c, a))
<1> DEFINE d == AccessLast(l, c, a, type, now).cache
           x == Encode(l, c.blocks[Index(l, a)][Fresh(c.blocks[Index(l, a)])].tag, Index(l, a))
<1>1. Becomes(l, c, a, type, now, d)
  BY AccessLastBlocks
<1>2. c.stats.writeBacks \in Nat
  BY DEF CacheData, StatField
<1>3. /\ IsFiniteSet({}) /\ Cardinality({}) = 0
      /\ IsFiniteSet({x}) /\ Cardinality({x}) = 1
  BY FS_EmptySet, FS_Singleton
<1>4. /\ IsFiniteSet(Ousted(l, c, a)) /\ Cardinality(Ousted(l, c, a)) \in Nat
      /\ d.stats.writeBacks = c.stats.writeBacks + Cardinality(Ousted(l, c, a))
  <2>1. CASE Found(l, c, a)
    <3>1. d = Touched(l, c, a, type, now) /\ Ousted(l, c, a) = {}
      BY <2>1, AccessLastIs DEF Ousted
    <3> HIDE DEF d
    <3>2. d.stats.writeBacks = c.stats.writeBacks
      BY <2>1, <3>1, TouchedEffect DEF HitTally
    <3> QED BY <1>2, <1>3, <3>1, <3>2
  <2>2. CASE ~Found(l, c, a)
    <3>1. d = Replaced(l, c, a, type, now)
          /\ Ousted(l, c, a) = IF Written(l, c, a) THEN {x} ELSE {}
      BY <2>2, AccessLastIs DEF Ousted
    <3> HIDE DEF d, x
    <3>2. Written(l, c, a) \in BOOLEAN
          /\ d.stats.writeBacks = c.stats.writeBacks + One(Written(l, c, a))
      BY <2>2, <3>1, ReplacedEffect DEF MissTally
    <3> QED BY <1>2, <1>3, <3>1, <3>2 DEF One
  <2> QED BY <2>1, <2>2
<1> HIDE DEF d
<1>5. /\ DirtyIn(l, c) \ Ousted(l, c, a) \subseteq DirtyIn(l, d)
      /\ type = "w" => (a \div BlkSize) * BlkSize \in DirtyIn(l, d)
  BY <1>1, DirtyStays
<1> QED BY <1>2, <1>4, <1>5 DEF d

(* What is not in Dirty' is among the blocks the last cache replaced.      *)
LEMMA RequestKeepsDirty ==
  ASSUME CacheInv, NEW type \in RefType, NEW a \in Addr, Request(type, a)
  PROVE  Cardinality(Dirty \ Dirty') <= stats'[Last].writeBacks - stats[Last].writeBacks
<1>1. /\ type \in Ref /\ a \in Nat /\ clock \in Nat
      /\ Cache(1) \in CacheData(1) /\ Sound(1, Cache(1), clock)
      /\ Level' = Level
  BY RequestIs
<1>2. /\ clock + 1 \in Nat /\ clock < clock + 1 /\ clock + 2 \in Nat /\ clock < clock + 2
      /\ clock + 3 \in Nat /\ clock + 2 < clock + 3
      /\ (clock + 1) + 1 = clock + 2 /\ (clock + 1) + 2 = clock + 3
  BY <1>1
<1>3. \A l : DirtyBlocks(l) = DirtyIn(l, Cache(l)) /\ DirtyBlocks(l)' = DirtyIn(l, Cache(l)')
             /\ stats[l] = Cache(l).stats /\ stats'[l] = Cache(l)'.stats
  BY DEF DirtyBlocks, DirtyIn, Cache
<1>4. ASSUME NEW lost, IsFiniteSet(lost), Dirty \ Dirty' \subseteq lost
      PROVE  /\ Cardinality(Dirty \ Dirty') \in Nat /\ Cardinality(lost) \in Nat
             /\ Cardinality(Dirty \ Dirty') <= Cardinality(lost)
  <2>1. IsFiniteSet(Dirty \ Dirty') /\ Cardinality(Dirty \ Dirty') <= Cardinality(lost)
    BY <1>4, FS_Subset
  <2> QED BY <1>4, <2>1, FS_CardinalityType
<1>5. CASE ~HasNext(1)
  <2> DEFINE c == Cache(1)
             d == AccessLast(1, c, a, type, clock + 1).cache
             lost == Ousted(1, c, a)
  <2>1. Cache(1)' = d
    BY <1>5, RequestIs
  <2>2. /\ DirtyIn(1, c) \ lost \subseteq DirtyIn(1, d) /\ c.stats.writeBacks \in Nat
        /\ IsFiniteSet(lost) /\ Cardinality(lost) \in Nat
        /\ d.stats.writeBacks = c.stats.writeBacks + Cardinality(lost)
    BY <1>1, <1>2, LastKeepsDirty
  <2>3. Last = 1 /\ Dirty = DirtyBlocks(1) /\ Dirty' = DirtyBlocks(1)'
    BY <1>1, <1>5, Levels DEF Last, Dirty
  <2> HIDE DEF d, lost, c
  <2>4. Dirty \ Dirty' \subseteq lost
    BY <1>3, <2>1, <2>2, <2>3 DEF c
  <2>5. /\ Cardinality(Dirty \ Dirty') \in Nat
        /\ Cardinality(Dirty \ Dirty') <= Cardinality(lost)
    BY <1>4, <2>2, <2>4
  <2>6. Cardinality(Dirty \ Dirty') <= d.stats.writeBacks - c.stats.writeBacks
    BY <2>2, <2>5
  <2> QED BY <1>3, <2>1, <2>3, <2>6 DEF c
<1>6. CASE HasNext(1) /\ Found(1, Cache(1), a)
  <2>1. Cache(1)' = Touched(1, Cache(1), a, type, clock + 1) /\ Cache(2)' = Cache(2)
    <3>1. /\ Cache(1)' = AccessFront(Cache(1), Cache(2), a, type, clock + 1).front
          /\ Cache(2)' = AccessFront(Cache(1), Cache(2), a, type, clock + 1).next
      BY <1>6, RequestIs
    <3> QED BY <1>6, <3>1, AccessFrontIs
  <2>2. Becomes(1, Cache(1), a, type, clock + 1, Cache(1)')
    BY <1>1, <1>2, <1>6, <2>1, TouchedBlocks
  <2>3. DirtyIn(1, Cache(1)) \subseteq DirtyIn(1, Cache(1)')
    <3>1. Ousted(1, Cache(1), a) = {}
      BY <1>6 DEF Ousted
    <3> QED BY <1>1, <2>2, <3>1, DirtyStays
  <2>4. Last = 2 /\ Dirty = DirtyBlocks(1) \cup DirtyBlocks(2)
        /\ Dirty' = DirtyBlocks(1)' \cup DirtyBlocks(2)'
    BY <1>1, <1>6, Levels DEF Last, Dirty
  <2>5. Dirty \ Dirty' \subseteq {}
    BY <1>3, <2>1, <2>3, <2>4
  <2>6. stats'[2].writeBacks = stats[2].writeBacks /\ stats[2].writeBacks \in Nat
    <3>1. Cache(2) \in CacheData(2)
      BY <1>6, RequestIs
    <3>2. Cache(2).stats.writeBacks \in Nat
      BY <3>1 DEF CacheData, StatField
    <3> QED BY <1>3, <2>1, <3>2
  <2>7. IsFiniteSet({}) /\ Cardinality({}) = 0
    BY FS_EmptySet
  <2>8. Cardinality(Dirty \ Dirty') = 0
    <3>1. Dirty \ Dirty' = {}
      BY <2>5
    <3> QED BY <2>7, <3>1
  <2>9. Cardinality(Dirty \ Dirty') <= stats'[2].writeBacks - stats[2].writeBacks
    BY <2>6, <2>8
  <2> QED BY <2>4, <2>9
<1>7. CASE HasNext(1) /\ ~Found(1, Cache(1), a)
  <2> DEFINE front == Cache(1)
             next == Cache(2)
             mid == AfterWrite(front, next, a, clock + 1)
             old == Old(front, a)
             wb == Written(1, front, a)
             f == Replaced(1, front, a, type, clock + 1)
             n == AccessLast(2, mid, a, "r", clock + 3).cache
             lost2 == IF wb THEN Ousted(2, next, old) ELSE {}
             lost3 == Ousted(2, mid, a)
  <2>1. /\ next \in CacheData(2) /\ Sound(2, next, clock)
        /\ Cache(1)' = f /\ Cache(2)' = n
    <3>1. /\ Cache(2) \in CacheData(2) /\ Sound(2, Cache(2), clock)
          /\ Cache(1)' = AccessFront(Cache(1), Cache(2), a, type, clock + 1).front
          /\ Cache(2)' = AccessFront(Cache(1), Cache(2), a, type, clock + 1).next
      BY <1>7, RequestIs
    <3> QED BY <1>2, <1>7, <3>1, AccessFrontIs
  <2>2. /\ mid \in CacheData(2) /\ Sound(2, mid, clock + 2) /\ wb \in BOOLEAN
        /\ wb => old \in Nat
        /\ wb => mid = AccessLast(2, next, old, "w", clock + 2).cache
        /\ ~wb => mid = next
    <3>1. /\ mid \in CacheData(2) /\ Sound(2, mid, clock + 2) /\ wb \in BOOLEAN
          /\ wb => old \in Nat
          /\ ~wb => mid = next
      BY <1>1, <1>7, <2>1, AfterWriteEffect
    <3>2. wb => mid = AccessLast(2, next, old, "w", clock + 2).cache
      BY <1>2 DEF AfterWrite
    <3> QED BY <3>1, <3>2
  <2>3. DirtyIn(1, front) \ (IF wb THEN {old} ELSE {}) \subseteq DirtyIn(1, f)
    <3>1. Becomes(1, front, a, type, clock + 1, f)
      BY <1>1, <1>2, <1>7, ReplacedBlocks
    <3>2. Ousted(1, front, a) = IF wb THEN {old} ELSE {}
      BY <1>7 DEF Ousted, Old
    <3> HIDE DEF f
    <3> QED BY <1>1, <3>1, <3>2, DirtyStays
  <2>4. wb => (old \div BlkSize) * BlkSize = old
    <3>1. SUFFICES ASSUME wb PROVE (old \div BlkSize) * BlkSize = old
      OBVIOUS
    <3>2. /\ old \in Nat /\ Index(1, old) = Index(1, a)
          /\ Tag(1, old) = front.blocks[Index(1, a)][Fresh(front.blocks[Index(1, a)])].tag
      BY <1>1, <1>7, <3>1, OldIsAnother
    <3>3. old = Encode(1, Tag(1, old), Index(1, old))
      BY <3>2 DEF Old
    <3> QED BY <3>2, <3>3, PartsEncode
  <2>5. /\ DirtyIn(2, next) \ lost2 \subseteq DirtyIn(2, mid)
        /\ wb => old \in DirtyIn(2, mid)
        /\ next.stats.writeBacks \in Nat
        /\ IsFiniteSet(lost2) /\ Cardinality(lost2) \in Nat
        /\ mid.stats.writeBacks = next.stats.writeBacks + Cardinality(lost2)
    <3>1. CASE wb
      <4>1. PICK ty \in Ref : ty = "w"
        BY DEF Ref
      <4>2. PICK m : m = AccessLast(2, next, old, "w", clock + 2).cache
        OBVIOUS
      <4>3. PICK u \in Nat : u = clock + 2 /\ clock < u
        BY <1>2
      <4>4. m = AccessLast(2, next, old, ty, u).cache /\ old \in Nat
        BY <2>2, <3>1, <4>1, <4>2, <4>3
      <4> HIDE DEF mid, old, next, wb, f, n, lost2, lost3, front
      <4>5. next \in CacheData(2) /\ Sound(2, next, clock) /\ clock \in Nat
        BY <1>1, <2>1
      <4>6. /\ DirtyIn(2, next) \ Ousted(2, next, old) \subseteq DirtyIn(2, m)
            /\ (old \div BlkSize) * BlkSize \in DirtyIn(2, m)
            /\ next.stats.writeBacks \in Nat
            /\ IsFiniteSet(Ousted(2, next, old)) /\ Cardinality(Ousted(2, next, old)) \in Nat
            /\ m.stats.writeBacks = next.stats.writeBacks + Cardinality(Ousted(2, next, old))
        BY <4>1, <4>3, <4>4, <4>5, LastKeepsDirty
      <4> QED BY <2>2, <2>4, <3>1, <4>2, <4>6 DEF lost2
    <3>2. CASE ~wb
      <4>1. mid = next /\ lost2 = {}
        BY <2>2, <3>2
      <4>2. IsFiniteSet({}) /\ Cardinality({}) = 0
        BY FS_EmptySet
      <4>3. next.stats.writeBacks \in Nat
        BY <2>1 DEF CacheData, StatField
      <4> HIDE DEF mid, next, lost2
      <4> QED BY <3>2, <4>1, <4>2, <4>3
    <3> QED BY <2>2, <3>1, <3>2
  <2>6. /\ DirtyIn(2, mid) \ lost3 \subseteq DirtyIn(2, n)
        /\ IsFiniteSet(lost3) /\ Cardinality(lost3) \in Nat
        /\ n.stats.writeBacks = mid.stats.writeBacks + Cardinality(lost3)
    <3>1. "r" \in Ref
      BY DEF Ref
    <3>2. PICK s \in Nat, u \in Nat : s = clock + 2 /\ u = clock + 3 /\ s < u
      BY <1>2
    <3>3. n = AccessLast(2, mid, a, "r", u).cache /\ Sound(2, mid, s) /\ mid \in CacheData(2)
      BY <2>2, <3>2
    <3>4. PICK ty \in Ref : ty = "r"
      BY <3>1
    <3>5. PICK w, m : w = n /\ m = mid
      OBVIOUS
    <3> HIDE DEF mid, n, old, next, wb, f, lost2, front
    <3>6. w = AccessLast(2, m, a, ty, u).cache /\ Sound(2, m, s) /\ m \in CacheData(2) /\ a \in Nat
      BY <1>1, <3>3, <3>4, <3>5
    <3>7. /\ DirtyIn(2, m) \ Ousted(2, m, a) \subseteq DirtyIn(2, w)
          /\ IsFiniteSet(Ousted(2, m, a)) /\ Cardinality(Ousted(2, m, a)) \in Nat
          /\ w.stats.writeBacks = m.stats.writeBacks + Cardinality(Ousted(2, m, a))
      BY <3>2, <3>6, LastKeepsDirty
    <3> QED BY <3>7, <3>5 DEF lost3
  <2>7. Last = 2 /\ Dirty = DirtyBlocks(1) \cup DirtyBlocks(2)
        /\ Dirty' = DirtyBlocks(1)' \cup DirtyBlocks(2)'
    BY <1>1, <1>7, Levels DEF Last, Dirty
  <2> HIDE DEF mid, n, f, wb, old, lost2, lost3
  <2>8. Dirty \ Dirty' \subseteq lost2 \cup lost3
    <3>1. Dirty = DirtyIn(1, front) \cup DirtyIn(2, next)
          /\ Dirty' = DirtyIn(1, f) \cup DirtyIn(2, n)
      BY <1>3, <2>1, <2>7
    <3> HIDE DEF front, next
    <3> QED BY <2>3, <2>5, <2>6, <3>1
  <2>9. /\ IsFiniteSet(lost2 \cup lost3)
        /\ Cardinality(lost2 \cup lost3) <= Cardinality(lost2) + Cardinality(lost3)
    <3>1. /\ IsFiniteSet(lost2 \cup lost3) /\ IsFiniteSet(lost2 \cap lost3)
          /\ Cardinality(lost2 \cup lost3) =
               Cardinality(lost2) + Cardinality(lost3) - Cardinality(lost2 \cap lost3)
      BY <2>5, <2>6, FS_Union, FS_Intersection
    <3>2. Cardinality(lost2 \cap lost3) \in Nat
      BY <3>1, FS_CardinalityType
    <3> QED BY <2>5, <2>6, <3>1, <3>2
  <2>10. Cardinality(Dirty \ Dirty') <= n.stats.writeBacks - next.stats.writeBacks
    <3>1. /\ Cardinality(Dirty \ Dirty') \in Nat /\ Cardinality(lost2 \cup lost3) \in Nat
          /\ Cardinality(Dirty \ Dirty') <= Cardinality(lost2 \cup lost3)
      BY <1>4, <2>8, <2>9
    <3> HIDE DEF next
    <3> QED BY <2>5, <2>6, <2>9, <3>1
  <2> QED BY <1>3, <2>1, <2>7, <2>10
<1> QED BY <1>5, <1>6, <1>7

(* Written data does not vanish: no more blocks stop being dirty than the  *)
(* last cache writes back (cache_handle_dirty_tag_evicts), for every       *)
(* geometry and sequence of reads and writes.                              *)
THEOREM DirtyIsKept == CacheSpec => DirtyKept
<1>1. CacheInv /\ [CacheNext]_cacheVars =>
        [Cardinality(Dirty \ Dirty') <= stats'[Last].writeBacks - stats[Last].writeBacks]_cacheVars
  BY RequestKeepsDirty DEF CacheNext
<1> QED BY <1>1, CacheInvHolds, PTL DEF CacheSpec, DirtyKept
-----------------------------------------------------------------------------
(* A set as a stack: the depth of a block is given by how many are newer.  *)
LEMMA WaysFinite ==
  ASSUME NEW l \in {1, 2}
  PROVE  IsFiniteSet(Way(l)) /\ Cardinality(Way(l)) = Assoc[l] /\ Assoc[l] \in Nat \ {0}
<1>1. Assoc[l] \in Nat \ {0}
  BY SizeAssumption
<1>2. PICK n \in Nat \ {0} : n = Assoc[l]
  BY <1>1
<1>3. IsFiniteSet(0..(n - 1)) /\ Cardinality(0..(n - 1)) = IF 0 > n - 1 THEN 0 ELSE (n - 1) - 0 + 1
  <2>1. n - 1 \in Int /\ 0 \in Int
    OBVIOUS
  <2> QED BY <2>1, FS_Interval
<1>4. Way(l) = 0..(n - 1)
  BY <1>2 DEF Way
<1>5. Cardinality(0..(n - 1)) = n
  BY <1>3
<1> QED BY <1>1, <1>2, <1>3, <1>4, <1>5

LEMMA RankBounds ==
  ASSUME NEW l \in {1, 2}, NEW set \in Rows(l), NEW t \in Nat, SoundSet(set, t)
  PROVE  /\ IsFiniteSet(ValidIn(l, set)) /\ Cardinality(ValidIn(l, set)) \in Nat
         /\ Cardinality(ValidIn(l, set)) <= Assoc[l]
         /\ \A w \in Way(l) : /\ IsFiniteSet(NewerIn(l, set, w)) /\ Rank(l, set, w) \in Nat
                              /\ Rank(l, set, w) <= Cardinality(ValidIn(l, set))
         /\ \A w \in ValidIn(l, set) : Rank(l, set, w) < Cardinality(ValidIn(l, set))
         /\ \A w \in Way(l) \ ValidIn(l, set) : Rank(l, set, w) = Cardinality(ValidIn(l, set))
         /\ \A v, w \in ValidIn(l, set) : v # w /\ ~(set[v].age > set[w].age) => set[w].age > set[v].age
         /\ \A w \in Way(l), v \in ValidIn(l, set) :
              set[v].age > set[w].age => Rank(l, set, v) < Rank(l, set, w)
<1> DEFINE V == ValidIn(l, set)
           N(w) == NewerIn(l, set, w)
<1>1. IsFiniteSet(V) /\ Cardinality(V) \in Nat /\ Cardinality(V) <= Assoc[l]
  <2>1. V \subseteq Way(l)
    BY DEF ValidIn
  <2> HIDE DEF V
  <2> QED BY <2>1, WaysFinite, FS_Subset, FS_CardinalityType
<1>2. DOMAIN set = Way(l) /\ \A w \in Way(l) : set[w].age \in Nat
  BY DEF Rows, BlockData
<1>3. ASSUME NEW w \in Way(l)
      PROVE  IsFiniteSet(N(w)) /\ Cardinality(N(w)) \in Nat /\ Cardinality(N(w)) <= Cardinality(V)
  <2>1. N(w) \subseteq V
    BY DEF NewerIn
  <2> HIDE DEF N, V
  <2> QED BY <1>1, <2>1, FS_Subset, FS_CardinalityType
<1>4. ASSUME NEW S, NEW T \in SUBSET S, S \subseteq V, T # S
      PROVE  Cardinality(T) < Cardinality(S)
  <2>1. IsFiniteSet(S)
    BY <1>1, <1>4, FS_Subset
  <2>2. IsFiniteSet(T) /\ Cardinality(T) <= Cardinality(S)
        /\ (Cardinality(T) = Cardinality(S) => T = S)
    BY <2>1, FS_Subset
  <2>3. Cardinality(T) \in Nat /\ Cardinality(S) \in Nat
    BY <2>1, <2>2, FS_CardinalityType
  <2> QED BY <1>4, <2>2, <2>3
<1>5. ASSUME NEW w \in V PROVE Cardinality(N(w)) < Cardinality(V)
  <2>1. N(w) \subseteq V /\ w \notin N(w)
    BY <1>2 DEF NewerIn, ValidIn
  <2> HIDE DEF N, V
  <2>2. N(w) # V /\ N(w) \in SUBSET V
    BY <1>5, <2>1
  <2> QED BY <1>4, <2>2
<1>6. ASSUME NEW w \in Way(l), w \notin V PROVE N(w) = V
  <2>1. ~set[w].valid
    BY <1>6 DEF ValidIn
  <2>2. set[w].age = 0
    BY <1>2, <2>1 DEF SoundSet, SoundBlock
  <2>3. \A v \in V : set[v].age > 0
    BY <1>2 DEF SoundSet, SoundBlock, ValidIn
  <2> QED BY <2>2, <2>3 DEF NewerIn
<1>7. ASSUME NEW v \in V, NEW w \in V, v # w, ~(set[v].age > set[w].age)
      PROVE  set[w].age > set[v].age
  <2>1. v \in Way(l) /\ w \in Way(l) /\ set[v].valid /\ set[w].valid
    BY DEF ValidIn
  <2>2. set[v].age # set[w].age
    BY <1>2, <1>7, <2>1 DEF SoundSet
  <2> HIDE DEF V
  <2> QED BY <1>2, <1>7, <2>1, <2>2
<1>8. ASSUME NEW w \in Way(l), NEW v \in V, set[v].age > set[w].age
      PROVE  Cardinality(N(v)) < Cardinality(N(w))
  <2>1. v \in Way(l)
    BY DEF ValidIn
  <2>2. N(v) \subseteq N(w) /\ v \in N(w) /\ v \notin N(v) /\ N(w) \subseteq V
    BY <1>2, <1>8, <2>1 DEF NewerIn, ValidIn
  <2> HIDE DEF N, V
  <2>3. N(v) \in SUBSET N(w) /\ N(v) # N(w)
    BY <2>2
  <2> QED BY <1>4, <2>2, <2>3
<1> HIDE DEF V
<1>9. \A w \in Way(l) : Rank(l, set, w) = Cardinality(N(w))
  BY DEF Rank
<1>10. V \subseteq Way(l)
  BY DEF ValidIn, V
<1> HIDE DEF N
<1>11. \A w \in Way(l) : IsFiniteSet(NewerIn(l, set, w)) <=> IsFiniteSet(N(w))
  BY DEF N
<1> QED BY <1>1, <1>3, <1>5, <1>6, <1>7, <1>8, <1>9, <1>10, <1>11 DEF V

(* Every depth is that of one block. *)
LEMMA RankOnto ==
  ASSUME NEW l \in {1, 2}, NEW set \in Rows(l), NEW t \in Nat, SoundSet(set, t)
  PROVE  /\ \A v, w \in ValidIn(l, set) : Rank(l, set, v) = Rank(l, set, w) => v = w
         /\ \A k \in 1..Cardinality(ValidIn(l, set)) :
              \E w \in ValidIn(l, set) : Rank(l, set, w) = k - 1
<1> DEFINE V == ValidIn(l, set)
           n == Cardinality(V)
           f == [w \in V |-> Rank(l, set, w)]
           D == 0..(n - 1)
<1>1. V \subseteq Way(l)
  BY DEF ValidIn
<1>2. IsFiniteSet(V) /\ n \in Nat /\ \A w \in V : Rank(l, set, w) \in Nat /\ Rank(l, set, w) < n
  BY <1>1, RankBounds
<1>3. \A v, w \in V : v # w => set[v].age > set[w].age \/ set[w].age > set[v].age
  BY RankBounds
<1>4. \A v, w \in V : set[v].age > set[w].age => Rank(l, set, v) < Rank(l, set, w)
  BY <1>1, RankBounds
<1> HIDE DEF V
<1>5. \A v, w \in V : Rank(l, set, v) = Rank(l, set, w) => v = w
  BY <1>2, <1>3, <1>4
<1> HIDE DEF n
<1>6. f \in Injection(V, D)
  <2>1. f \in [V -> D]
    BY <1>2
  <2> QED BY <1>5, <2>1 DEF Injection, IsInjective
<1>7. IsFiniteSet(D) /\ Cardinality(D) = n
  <2>1. IsFiniteSet(D) /\ Cardinality(D) = IF 0 > n - 1 THEN 0 ELSE (n - 1) - 0 + 1
    <3>1. 0 \in Int /\ n - 1 \in Int
      BY <1>2
    <3> QED BY <3>1, FS_Interval
  <2> QED BY <1>2, <2>1
<1> DEFINE R == {f[w] : w \in V}
<1>8. R \subseteq D
  BY <1>2
<1>9. f \in Surjection(V, R) /\ f \in Injection(V, R)
  <2>1. f \in [V -> R]
    OBVIOUS
  <2> QED BY <1>5, <2>1 DEF Injection, Surjection, IsInjective
<1>10. Cardinality(R) = n /\ IsFiniteSet(R)
  <2>1. f \in Bijection(V, R)
    BY <1>9 DEF Bijection
  <2> HIDE DEF f, R
  <2>2. ExistsBijection(V, R)
    BY <2>1 DEF ExistsBijection
  <2> QED BY <1>2, <2>1, <2>2, FS_Bijection, FS_SameCardinalityBij DEF n
<1> HIDE DEF R, D
<1>11. R = D
  BY <1>7, <1>8, <1>10, FS_Subset
<1>12. ASSUME NEW k \in 1..n PROVE \E w \in V : Rank(l, set, w) = k - 1
  <2>1. k - 1 \in R
    BY <1>2, <1>11 DEF D
  <2> QED BY <2>1 DEF R
<1> QED BY <1>5, <1>12 DEF V, n
(* What is at each depth. *)
LEMMA StackAt ==
  ASSUME NEW l \in {1, 2}, NEW set \in Rows(l), NEW t \in Nat, SoundSet(set, t), NEW i
  PROVE  /\ DOMAIN StackIn(l, i, set) = 1..Cardinality(ValidIn(l, set))
         /\ Len(StackIn(l, i, set)) = Cardinality(ValidIn(l, set))
         /\ Cardinality(ValidIn(l, set)) \in Nat
         /\ \A w \in ValidIn(l, set) :
              /\ Rank(l, set, w) + 1 \in 1..Cardinality(ValidIn(l, set))
              /\ StackIn(l, i, set)[Rank(l, set, w) + 1] = BlockEntry(l, i, set, w)
         /\ \A k \in 1..Cardinality(ValidIn(l, set)) :
              \E w \in ValidIn(l, set) : k = Rank(l, set, w) + 1
<1> DEFINE V == ValidIn(l, set)
           n == Cardinality(V)
           r(w) == Rank(l, set, w)
           s == StackIn(l, i, set)
<1>1. V \subseteq Way(l)
  BY DEF ValidIn
<1>2. n \in Nat /\ \A w \in V : r(w) \in Nat /\ r(w) < n
  BY <1>1, RankBounds
<1>3. /\ \A v, w \in V : r(v) = r(w) => v = w
      /\ \A k \in 1..n : \E w \in V : r(w) = k - 1
  BY RankOnto
<1>4. s = [k \in 1..n |-> BlockEntry(l, i, set, CHOOSE v \in V : r(v) = k - 1)]
  BY DEF StackIn
<1> HIDE DEF V, n, r, s
<1>5. DOMAIN s = 1..n /\ Len(s) = n
  BY <1>2, <1>4
<1>6. ASSUME NEW w \in V PROVE r(w) + 1 \in 1..n /\ s[r(w) + 1] = BlockEntry(l, i, set, w)
  <2>1. r(w) + 1 \in 1..n /\ (r(w) + 1) - 1 = r(w)
    BY <1>2
  <2>2. (CHOOSE v \in V : r(v) = r(w)) = w
    BY <1>3
  <2> QED BY <1>4, <2>1, <2>2
<1>7. ASSUME NEW k \in 1..n PROVE \E w \in V : k = r(w) + 1
  <2>1. PICK w \in V : r(w) = k - 1
    BY <1>3
  <2> QED BY <1>2, <2>1
<1> QED BY <1>2, <1>5, <1>6, <1>7 DEF V, n, r, s

(* A block that is put in a place, used now, goes on top; those above the  *)
(* one that was in the place go down.                                      *)
LEMMA Promote ==
  ASSUME NEW l \in {1, 2}, NEW set \in Rows(l), NEW t \in Nat, SoundSet(set, t),
         NEW w \in Way(l), NEW b \in BlockData, NEW now \in Nat, t < now,
         b.valid, b.age = now, NEW new \in Rows(l),
         \A v \in Way(l) : new[v] = IF v = w THEN b ELSE set[v],
         SoundSet(new, now), NEW i
  PROVE  LET p == Rank(l, set, w) + 1
             s == StackIn(l, i, set)
         IN  StackIn(l, i, new) =
               [k \in 1..(IF p > Len(s) THEN p ELSE Len(s)) |->
                  IF k = 1 THEN BlockEntry(l, i, new, w) ELSE IF k <= p THEN s[k - 1] ELSE s[k]]
<1> DEFINE V == ValidIn(l, set)
           n == Cardinality(V)
           V2 == ValidIn(l, new)
           m == Cardinality(V2)
           s == StackIn(l, i, set)
           s2 == StackIn(l, i, new)
           r == Rank(l, set, w)
           p == r + 1
<1>1. DOMAIN set = Way(l) /\ DOMAIN new = Way(l) /\ V \subseteq Way(l)
      /\ \A v \in Way(l) : /\ set[v] \in BlockData
                           /\ new[v] = IF v = w THEN b ELSE set[v]
  BY DEF Rows, ValidIn
<1>2. \A v \in Way(l) : set[v].age \in Nat /\ set[v].valid \in BOOLEAN
  BY <1>1 DEF BlockData
<1>3. \A v \in V : set[v].age <= t /\ set[v].age < now /\ set[v].valid
  BY <1>1, <1>2 DEF SoundSet, SoundBlock, ValidIn
<1>4. V2 = V \cup {w}
  BY <1>1 DEF ValidIn
<1>5. /\ IsFiniteSet(V) /\ n \in Nat /\ r \in Nat /\ r <= n
      /\ w \in V => r < n
      /\ w \notin V => r = n
  BY <1>1, RankBounds
<1>6. m = IF w \in V THEN n ELSE n + 1
  <2>1. w \in V => V2 = V
    BY <1>4
  <2> HIDE DEF V, V2
  <2>2. w \notin V => m = n + 1
    BY <1>4, <1>5, FS_AddElement
  <2> QED BY <2>1, <2>2
<1>7. Rank(l, new, w) = 0
  <2>1. NewerIn(l, new, w) = {}
    <3>1. \A v \in V2 : ~(new[v].age > new[w].age)
      <4>1. new[w].age = now
        BY <1>1
      <4>2. \A v \in V \ {w} : new[v].age = set[v].age /\ set[v].age \in Nat
        BY <1>1, <1>2
      <4> HIDE DEF V, V2
      <4> QED BY <1>3, <1>4, <4>1, <4>2
    <3> QED BY <3>1 DEF NewerIn
  <2> QED BY <2>1, FS_EmptySet DEF Rank
<1>8. ASSUME NEW v \in V, v # w, set[v].age > set[w].age
      PROVE  Rank(l, new, v) = Rank(l, set, v) + 1 /\ Rank(l, set, v) < r
  <2>1. v \in Way(l) /\ Rank(l, set, v) < r
    BY <1>1, <1>8, RankBounds
  <2>2. w \notin NewerIn(l, set, v)
    BY <1>1, <1>2, <1>8, <2>1 DEF NewerIn
  <2>3. NewerIn(l, new, v) = NewerIn(l, set, v) \cup {w}
    <3>1. \A u \in Way(l) : u \in NewerIn(l, new, v) <=> u \in V2 /\ new[u].age > new[v].age
      BY DEF NewerIn
    <3>2. \A u \in Way(l) : u \in NewerIn(l, set, v) <=> u \in V /\ set[u].age > set[v].age
      BY DEF NewerIn
    <3>3. NewerIn(l, new, v) \subseteq Way(l) /\ NewerIn(l, set, v) \subseteq Way(l)
      BY <1>1, <1>4 DEF NewerIn
    <3>4. new[w].age > new[v].age /\ new[v] = set[v]
      BY <1>1, <1>3, <1>8, <2>1
    <3> HIDE DEF V, V2
    <3>5. ASSUME NEW u \in Way(l)
          PROVE  u \in NewerIn(l, new, v) <=> u \in NewerIn(l, set, v) \cup {w}
      BY <1>1, <1>4, <3>1, <3>2, <3>4
    <3> QED BY <3>3, <3>5
  <2>4. IsFiniteSet(NewerIn(l, set, v))
    BY <2>1, RankBounds
  <2>5. Cardinality(NewerIn(l, new, v)) = Cardinality(NewerIn(l, set, v)) + 1
    <3>1. PICK A : A = NewerIn(l, set, v) /\ IsFiniteSet(A) /\ w \notin A
      BY <2>2, <2>4
    <3>2. Cardinality(A \cup {w}) = Cardinality(A) + 1
      BY <3>1, FS_AddElement
    <3> QED BY <2>3, <3>1, <3>2
  <2>6. Rank(l, new, v) = Rank(l, set, v) + 1
    BY <2>5 DEF Rank
  <2> QED BY <2>1, <2>6
<1>9. ASSUME NEW v \in V, v # w, ~(set[v].age > set[w].age)
      PROVE  Rank(l, new, v) = Rank(l, set, v) /\ Rank(l, set, v) > r /\ w \in V
  <2>1. w \in V
    BY <1>1, <1>2, <1>3, <1>9 DEF SoundSet, SoundBlock, ValidIn
  <2>2. set[w].age > set[v].age
    BY <1>9, <2>1, RankBounds
  <2>3. r < Rank(l, set, v)
    BY <1>1, <2>1, <2>2, RankBounds
  <2>4. NewerIn(l, new, v) = NewerIn(l, set, v)
    <3>1. V2 = V /\ v \in Way(l)
      BY <1>1, <1>4, <2>1
    <3>2. \A u \in V : new[u].age > new[v].age <=> set[u].age > set[v].age
      BY <1>1, <1>3, <1>9, <2>2, <3>1
    <3> QED BY <3>1, <3>2 DEF NewerIn
  <2>5. Rank(l, set, v) \in Nat
    BY <1>1, RankBounds
  <2> QED BY <1>5, <2>1, <2>3, <2>4, <2>5 DEF Rank
<1>10. /\ Len(s) = n /\ DOMAIN s = 1..n
       /\ \A v \in V : Rank(l, set, v) \in Nat /\ s[Rank(l, set, v) + 1] = BlockEntry(l, i, set, v)
       /\ DOMAIN s2 = 1..m
       /\ \A v \in V2 : /\ Rank(l, new, v) + 1 \in 1..m
                        /\ s2[Rank(l, new, v) + 1] = BlockEntry(l, i, new, v)
       /\ \A k \in 1..m : \E v \in V2 : k = Rank(l, new, v) + 1
  <2>1. /\ Len(s) = n /\ DOMAIN s = 1..n
        /\ \A v \in V : s[Rank(l, set, v) + 1] = BlockEntry(l, i, set, v)
    BY StackAt
  <2>2. /\ DOMAIN s2 = 1..m
        /\ \A v \in V2 : /\ Rank(l, new, v) + 1 \in 1..m
                         /\ s2[Rank(l, new, v) + 1] = BlockEntry(l, i, new, v)
        /\ \A k \in 1..m : \E v \in V2 : k = Rank(l, new, v) + 1
    BY StackAt
  <2>3. \A v \in V : Rank(l, set, v) \in Nat
    BY <1>1, RankBounds
  <2> QED BY <2>1, <2>2, <2>3
<1>11. \A v \in V \ {w} : BlockEntry(l, i, new, v) = BlockEntry(l, i, set, v)
  BY <1>1 DEF BlockEntry
<1>12. m = IF p > n THEN p ELSE n
  BY <1>5, <1>6
<1>13. s2 = [k \in 1..m |-> s2[k]]
  BY <1>10 DEF StackIn
<1> HIDE DEF V, n, V2, m, s, s2, r
<1>14. ASSUME NEW k \in 1..m
       PROVE  s2[k] = IF k = 1 THEN BlockEntry(l, i, new, w) ELSE IF k <= p THEN s[k - 1] ELSE s[k]
  <2>1. PICK v \in V2 : k = Rank(l, new, v) + 1
    BY <1>10
  <2>2. s2[k] = BlockEntry(l, i, new, v)
    BY <1>10, <2>1
  <2>3. CASE v = w
    BY <1>7, <2>1, <2>2, <2>3
  <2>4. CASE v # w /\ set[v].age > set[w].age
    <3>1. v \in V /\ Rank(l, set, v) \in Nat
      BY <1>4, <1>10, <2>4
    <3>2. k = Rank(l, set, v) + 2 /\ Rank(l, set, v) < r
      <4>1. Rank(l, new, v) = Rank(l, set, v) + 1 /\ Rank(l, set, v) < r
        BY <1>8, <2>4, <3>1
      <4> QED BY <2>1, <3>1, <4>1
    <3>3. k # 1 /\ k <= p /\ k - 1 = Rank(l, set, v) + 1
      BY <1>5, <3>1, <3>2
    <3>4. s[k - 1] = BlockEntry(l, i, set, v)
      BY <1>10, <3>1, <3>3
    <3> QED BY <1>11, <2>2, <2>4, <3>1, <3>3, <3>4
  <2>5. CASE v # w /\ ~(set[v].age > set[w].age)
    <3>1. v \in V /\ Rank(l, set, v) \in Nat
      BY <1>4, <1>10, <2>5
    <3>2. k = Rank(l, set, v) + 1 /\ Rank(l, set, v) > r
      BY <1>9, <2>1, <2>5, <3>1
    <3>3. k # 1 /\ ~(k <= p)
      BY <1>5, <3>1, <3>2
    <3>4. s[k] = BlockEntry(l, i, set, v)
      BY <1>10, <3>1, <3>2
    <3> QED BY <1>11, <2>2, <2>5, <3>1, <3>3, <3>4
  <2> QED BY <2>3, <2>4, <2>5
<1>15. Len(s) = n
  BY <1>10
<1>16. s2 = [k \in 1..m |-> IF k = 1 THEN BlockEntry(l, i, new, w) ELSE IF k <= p THEN s[k - 1] ELSE s[k]]
  BY <1>13, <1>14
<1> QED BY <1>12, <1>15, <1>16 DEF s, s2, r
(* With no place free every block of a set is valid. *)
LEMMA NoneInvalid ==
  ASSUME NEW l \in {1, 2}, NEW set \in Rows(l), FirstInvalid(set) = None
  PROVE  \A w \in Way(l) : set[w].valid
<1> DEFINE P(w) == ~set[w].valid
           T == {w \in Way(l) : P(w)}
<1>1. DOMAIN set = Way(l) /\ Way(l) \subseteq Nat
  BY Geometry DEF Rows
<1>2. FirstInvalid(set) = IF \E w \in Way(l) : P(w)
                          THEN CHOOSE w \in Way(l) : P(w) /\ \A v \in Way(l) : P(v) => w <= v
                          ELSE None
  BY <1>1 DEF FirstInvalid, First
<1>3. ASSUME \E w \in Way(l) : P(w) PROVE FALSE
  <2>1. T \in SUBSET Nat /\ T # {}
    BY <1>1, <1>3
  <2>2. \E w \in T : \A v \in T : w <= v
    BY <2>1, LeastElement
  <2>3. \E w \in Way(l) : P(w) /\ \A v \in Way(l) : P(v) => w <= v
    BY <2>2
  <2> HIDE DEF P
  <2>4. FirstInvalid(set) \in Way(l)
    BY <1>2, <1>3, <2>3
  <2> QED BY <1>1, <2>4 DEF None
<1> QED BY <1>3

(* The place chosen for a missed block is the first one below the stack,   *)
(* or the one at its bottom.                                               *)
LEMMA FreshDepth ==
  ASSUME NEW l \in {1, 2}, NEW set \in Rows(l), NEW t \in Nat, SoundSet(set, t)
  PROVE  LET n == Cardinality(ValidIn(l, set))
         IN  /\ n \in Nat /\ n <= Assoc[l]
             /\ Rank(l, set, Fresh(set)) + 1 = IF n < Assoc[l] THEN n + 1 ELSE n
             /\ n < Assoc[l] <=> Fresh(set) \notin ValidIn(l, set)
<1> DEFINE V == ValidIn(l, set)
           n == Cardinality(V)
           w == Fresh(set)
<1>1. /\ n \in Nat /\ n <= Assoc[l] /\ w \in Way(l) /\ V \subseteq Way(l)
      /\ IsFiniteSet(Way(l)) /\ Cardinality(Way(l)) = Assoc[l] /\ Assoc[l] \in Nat
  BY RankBounds, FreshEffect, WaysFinite DEF ValidIn
<1>2. CASE FirstInvalid(set) # None
  <2>1. w \notin V
    BY <1>2, FirstInvalidEffect DEF Fresh, ValidIn
  <2>2. Rank(l, set, w) = n
    BY <1>1, <2>1, RankBounds
  <2>3. n # Assoc[l]
    <3>1. SUFFICES ASSUME n = Assoc[l] PROVE FALSE
      OBVIOUS
    <3> HIDE DEF V, w
    <3>2. V = Way(l)
      BY <1>1, <3>1, FS_Subset
    <3> QED BY <1>1, <2>1, <3>2
  <2> HIDE DEF V, w, n
  <2> QED BY <1>1, <2>1, <2>2, <2>3 DEF V, w, n
<1>3. CASE FirstInvalid(set) = None
  <2>1. V = Way(l) /\ w = LRUBlock(set)
    BY <1>3, NoneInvalid DEF ValidIn, Fresh
  <2>2. \A v \in Way(l) : set[w].age <= set[v].age
    BY <2>1, LRUBlockEffect
  <2>3. NewerIn(l, set, w) = V \ {w}
    <3>1. \A v \in Way(l) : set[v].age \in Nat
      BY DEF Rows, BlockData
    <3>2. \A v \in V \ {w} : set[v].age > set[w].age
      <4>1. \A v \in V \ {w} : ~(set[v].age > set[w].age) => set[w].age > set[v].age
        BY <1>1, <2>1, RankBounds
      <4> HIDE DEF V, w
      <4> QED BY <1>1, <2>2, <3>1, <4>1
    <3>3. ~(set[w].age > set[w].age)
      BY <1>1, <3>1
    <3> HIDE DEF w
    <3> QED BY <3>2, <3>3 DEF NewerIn
  <2>4. Cardinality(V \ {w}) = n - 1 /\ n = Assoc[l]
    <3> HIDE DEF V, w
    <3> QED BY <1>1, <2>1, FS_RemoveElement
  <2>5. Rank(l, set, w) = n - 1
    BY <2>3, <2>4 DEF Rank
  <2> HIDE DEF V, w, n
  <2> QED BY <1>1, <2>1, <2>4, <2>5 DEF V, w, n
<1> QED BY <1>2, <1>3

(* A block is in the stack iff it is in the cache, as deep as its age says *)
(* and written iff it is dirty.                                            *)
LEMMA EntryBlock ==
  ASSUME NEW l \in {1, 2}, NEW c \in CacheData(l), NEW a \in Nat, NEW w \in Way(l)
  PROVE  LET i == Index(l, a)
             set == c.blocks[i]
         IN  BlockEntry(l, i, set, w).block = a \div BlkSize <=> set[w].tag = Tag(l, a)
<1> DEFINE i == Index(l, a)
           set == c.blocks[i]
           e == Encode(l, set[w].tag, i)
<1>1. set \in Rows(l) /\ i \in 0..(UsedSets[l] - 1)
  BY PlaceIs, PartsEncode
<1>2. set[w].tag \in Nat
  BY <1>1 DEF Rows, BlockData
<1>3. e \in Nat /\ Tag(l, e) = set[w].tag /\ Index(l, e) = i
  BY <1>1, <1>2, EncodeParts
<1>4. BlockEntry(l, i, set, w).block = e \div BlkSize
  BY DEF BlockEntry
<1> HIDE DEF e, set
<1>5. (Tag(l, e) = Tag(l, a) /\ Index(l, e) = Index(l, a)) <=> e \div BlkSize = a \div BlkSize
  BY <1>3, PartsNameBlock
<1> QED BY <1>3, <1>4, <1>5 DEF set

LEMMA DepthIs ==
  ASSUME NEW l \in {1, 2}, NEW c \in CacheData(l), NEW t \in Nat, Sound(l, c, t), NEW a \in Nat
  PROVE  LET set == c.blocks[Index(l, a)]
             s == StackIn(l, Index(l, a), set)
             b == a \div BlkSize
         IN  /\ Stack!Held(s, b) <=> Found(l, c, a)
             /\ Stack!WasWritten(s, b) <=> Found(l, c, a) /\ set[WayOf(l, c, a)].dirty
             /\ Stack!Depth(l, s, b) = Rank(l, set, WayOf(l, c, a)) + 1
<1> DEFINE i == Index(l, a)
           set == c.blocks[i]
           V == ValidIn(l, set)
           n == Cardinality(V)
           s == StackIn(l, i, set)
           b == a \div BlkSize
           w == WayOf(l, c, a)
           p == Rank(l, set, w) + 1
<1>1. /\ i \in SetId(l) /\ set \in Rows(l) /\ w \in Way(l)
      /\ Found(l, c, a) => set[w].valid /\ set[w].tag = Tag(l, a)
      /\ ~Found(l, c, a) => /\ \A v \in Way(l) : set[v].valid => set[v].tag # Tag(l, a)
                            /\ w = Fresh(set)
  BY PlaceIs
<1>2. SoundSet(set, t)
  BY <1>1 DEF Sound
<1>3. /\ DOMAIN s = 1..n /\ Len(s) = n /\ n \in Nat
      /\ \A v \in V : Rank(l, set, v) + 1 \in 1..n /\ s[Rank(l, set, v) + 1] = BlockEntry(l, i, set, v)
      /\ \A k \in 1..n : \E v \in V : k = Rank(l, set, v) + 1
  <2> HIDE DEF set, i, w
  <2> QED BY <1>1, <1>2, StackAt
<1>4. V \subseteq Way(l) /\ \A v \in V : set[v].valid
  BY DEF ValidIn
<1>5. \A v \in V : BlockEntry(l, i, set, v).block = b <=> set[v].tag = Tag(l, a)
  BY <1>4, EntryBlock
<1>6. \A v \in V : BlockEntry(l, i, set, v).written = set[v].dirty
  BY DEF BlockEntry
<1>7. ASSUME Found(l, c, a)
      PROVE  /\ w \in V /\ p \in 1..n /\ s[p].block = b /\ s[p].written = set[w].dirty
             /\ \A k \in 1..n : s[k].block = b => k = p
  <2>1. w \in V
    BY <1>1, <1>7 DEF ValidIn
  <2>2. \A v \in V : set[v].tag = Tag(l, a) => v = w
    <3>1. DOMAIN set = Way(l)
      BY <1>1 DEF Rows
    <3>2. set[w].tag = Tag(l, a) /\ set[w].valid
      BY <1>1, <1>7
    <3> HIDE DEF set, w, V
    <3> QED BY <1>1, <1>2, <1>4, <3>1, <3>2 DEF SoundSet
  <2> HIDE DEF s, V, n, b, set, w
  <2>3. p \in 1..n /\ s[p] = BlockEntry(l, i, set, w)
    BY <1>3, <2>1
  <2>4. s[p].block = b /\ s[p].written = set[w].dirty
    BY <1>1, <1>5, <1>6, <1>7, <2>1, <2>3
  <2>5. ASSUME NEW k \in 1..n, s[k].block = b PROVE k = p
    <3>1. PICK v \in V : k = Rank(l, set, v) + 1
      BY <1>3
    <3>2. s[k] = BlockEntry(l, i, set, v)
      BY <1>3, <3>1
    <3>3. set[v].tag = Tag(l, a)
      BY <1>5, <2>5, <3>2
    <3> QED BY <2>2, <3>1, <3>3
  <2> QED BY <2>1, <2>3, <2>4, <2>5
<1>8. ASSUME ~Found(l, c, a) PROVE \A k \in 1..n : s[k].block # b
  <2> HIDE DEF s, V, n, b, set, w
  <2>1. ASSUME NEW k \in 1..n, s[k].block = b PROVE FALSE
    <3>1. PICK v \in V : k = Rank(l, set, v) + 1
      BY <1>3
    <3>2. s[k] = BlockEntry(l, i, set, v)
      BY <1>3, <3>1
    <3>3. set[v].tag = Tag(l, a)
      BY <1>5, <2>1, <3>2
    <3> QED BY <1>1, <1>4, <1>8, <3>3
  <2> QED BY <2>1
<1>9. Stack!Held(s, b) <=> Found(l, c, a)
  <2> HIDE DEF s, b, p, n
  <2> QED BY <1>3, <1>7, <1>8 DEF Stack!Held
<1>10. Stack!WasWritten(s, b) <=> Found(l, c, a) /\ set[w].dirty
  <2> HIDE DEF s, b, p, n, set, w
  <2> QED BY <1>3, <1>7, <1>8 DEF Stack!WasWritten
<1>11. Stack!Depth(l, s, b) = p
  <2>1. CASE Found(l, c, a)
    <3> HIDE DEF s, b, p, n
    <3>1. (CHOOSE k \in DOMAIN s : s[k].block = b) = p
      BY <1>3, <1>7, <2>1
    <3> QED BY <1>9, <2>1, <3>1 DEF Stack!Depth
  <2>2. CASE ~Found(l, c, a)
    <3>1. p = IF n < Assoc[l] THEN n + 1 ELSE n
      BY <1>1, <1>2, <2>2, FreshDepth
    <3> HIDE DEF s, b, p, n
    <3> QED BY <1>3, <1>9, <2>2, <3>1 DEF Stack!Depth
  <2> QED BY <2>1, <2>2
<1> QED BY <1>9, <1>10, <1>11
(* A request to one cache is a use of the block in its stack. *)
LEMMA StackIsUsed ==
  ASSUME NEW l \in {1, 2}, NEW c \in CacheData(l), NEW d \in CacheData(l),
         NEW t \in Nat, NEW now \in Nat, t < now, Sound(l, c, t), Sound(l, d, now),
         NEW a \in Nat, NEW type \in Ref, Becomes(l, c, a, type, now, d)
  PROVE  StacksOf(l, d.blocks) = Stack!UseIn(l, StacksOf(l, c.blocks), a \div BlkSize, type = "w")
<1> DEFINE i == Index(l, a)
           set == c.blocks[i]
           new == d.blocks[i]
           b == a \div BlkSize
           w == WayOf(l, c, a)
           s == StackIn(l, i, set)
           bl == InPlace(l, c, a, type, now)
           written == type = "w"
<1>1. i \in SetId(l) /\ set \in Rows(l) /\ w \in Way(l) /\ new \in Rows(l) /\ Tag(l, a) \in Nat
  BY PlaceIs DEF CacheData, Blocks
<1>2. SoundSet(set, t) /\ SoundSet(new, now)
  BY <1>1 DEF Sound
<1>3. /\ \A v \in Way(l) : new[v] = IF v = w THEN bl ELSE set[v]
      /\ \A j \in SetId(l) \ {i} : d.blocks[j] = c.blocks[j]
  BY <1>1 DEF Becomes, Rows
<1>4. bl.valid /\ bl.age = now /\ bl.tag = Tag(l, a)
      /\ bl.dirty = (written \/ (Found(l, c, a) /\ set[w].dirty))
  BY DEF InPlace
<1>5. bl \in BlockData
  BY <1>1, <1>3 DEF Rows
<1>6. StackIn(l, i, new) =
        [k \in 1..(IF Rank(l, set, w) + 1 > Len(s) THEN Rank(l, set, w) + 1 ELSE Len(s)) |->
           IF k = 1 THEN BlockEntry(l, i, new, w) ELSE IF k <= Rank(l, set, w) + 1 THEN s[k - 1] ELSE s[k]]
  <2> HIDE DEF set, new, bl, i, w
  <2> QED BY <1>1, <1>2, <1>3, <1>4, <1>5, Promote
<1>7. /\ Stack!WasWritten(s, b) <=> Found(l, c, a) /\ set[w].dirty
      /\ Stack!Depth(l, s, b) = Rank(l, set, w) + 1
  BY DepthIs
<1>8. BlockEntry(l, i, new, w) = [block |-> b, written |-> written \/ Stack!WasWritten(s, b)]
  <2>1. BlockEntry(l, i, new, w).block = b
    BY <1>1, <1>3, <1>4, EntryBlock
  <2>2. new[w].dirty = (written \/ Stack!WasWritten(s, b))
    <3>1. new[w].dirty = (written \/ (Found(l, c, a) /\ set[w].dirty))
      BY <1>1, <1>3, <1>4
    <3>2. Found(l, c, a) /\ set[w].dirty <=> Stack!WasWritten(s, b)
      BY <1>7
    <3> HIDE DEF s, b, set, new, w
    <3>3. Stack!WasWritten(s, b) \in BOOLEAN
      BY DEF Stack!WasWritten
    <3>4. Found(l, c, a) /\ set[w].dirty = TRUE => Stack!WasWritten(s, b)
      BY <3>2
    <3> QED BY <3>1, <3>2, <3>3
  <2>3. BlockEntry(l, i, new, w) =
          [block |-> BlockEntry(l, i, new, w).block, written |-> new[w].dirty]
    BY DEF BlockEntry
  <2> QED BY <2>1, <2>2, <2>3
<1>9. StackIn(l, i, new) = Stack!Use(l, s, b, written)
  <2> HIDE DEF s, new, b, set, w, i
  <2> QED BY <1>6, <1>7, <1>8 DEF Stack!Use
<1>10. Stack!SetOf(l, b) = i
  BY DEF Stack!SetOf, Index
<1>11. StacksOf(l, c.blocks)[i] = s
  BY <1>1 DEF StacksOf
<1>12. Stack!UseIn(l, StacksOf(l, c.blocks), b, written) =
         [StacksOf(l, c.blocks) EXCEPT ![i] = StackIn(l, i, new)]
  <2> HIDE DEF s, new, b, i
  <2> QED BY <1>9, <1>10, <1>11 DEF Stack!UseIn
<1>13. [StacksOf(l, c.blocks) EXCEPT ![i] = StackIn(l, i, new)] = StacksOf(l, d.blocks)
  <2> HIDE DEF i
  <2>1. \A j \in SetId(l) \ {i} : StackIn(l, j, d.blocks[j]) = StackIn(l, j, c.blocks[j])
    BY <1>3
  <2> QED BY <1>1, <2>1 DEF StacksOf
<1> QED BY <1>12, <1>13

(* What a miss drops from the L1, if it was written, is what is written    *)
(* back to the L2.                                                         *)
LEMMA DroppedIs ==
  ASSUME NEW c \in CacheData(1), NEW t \in Nat, Sound(1, c, t), NEW a \in Nat, ~Found(1, c, a)
  PROVE  Stack!Dropped(1, StackIn(1, Index(1, a), c.blocks[Index(1, a)]), a \div BlkSize) =
           IF Written(1, c, a) THEN {Old(c, a) \div BlkSize} ELSE {}
<1> DEFINE i == Index(1, a)
           set == c.blocks[i]
           V == ValidIn(1, set)
           n == Cardinality(V)
           s == StackIn(1, i, set)
           b == a \div BlkSize
           w == Fresh(set)
<1>1. i \in SetId(1) /\ set \in Rows(1) /\ w \in Way(1)
  BY PlaceIs
<1>2. SoundSet(set, t)
  BY <1>1 DEF Sound
<1>3. /\ Len(s) = n /\ n \in Nat
      /\ \A v \in V : s[Rank(1, set, v) + 1] = BlockEntry(1, i, set, v)
  <2> HIDE DEF set, i
  <2> QED BY <1>1, <1>2, StackAt
<1>4. /\ Rank(1, set, w) + 1 = IF n < Assoc[1] THEN n + 1 ELSE n
      /\ n < Assoc[1] <=> w \notin V
  <2> HIDE DEF set
  <2> QED BY <1>1, <1>2, FreshDepth
<1>5. ~Stack!Held(s, b)
  BY DepthIs
<1>6. Written(1, c, a) = set[w].dirty /\ set[w].dirty \in BOOLEAN
  BY <1>1 DEF Written, Rows, BlockData
<1>7. CASE n < Assoc[1]
  <2>1. ~set[w].dirty
    <3>1. ~set[w].valid
      BY <1>1, <1>4, <1>7 DEF ValidIn
    <3> QED BY <1>1, <1>2, <3>1 DEF SoundSet, SoundBlock, Rows
  <2>2. Stack!Dropped(1, s, b) = {}
    <3> HIDE DEF s, b, n
    <3> QED BY <1>3, <1>7 DEF Stack!Dropped
  <2> QED BY <1>6, <2>1, <2>2
<1>8. CASE ~(n < Assoc[1])
  <2>1. s[n] = BlockEntry(1, i, set, w)
    <3>1. w \in V /\ Rank(1, set, w) + 1 = n
      BY <1>4, <1>8
    <3> HIDE DEF s, V, n, w, set
    <3> QED BY <1>3, <3>1
  <2>2. s[n].block = Old(c, a) \div BlkSize /\ s[n].written = set[w].dirty
    BY <2>1 DEF BlockEntry, Old
  <2>3. Stack!Dropped(1, s, b) = IF set[w].dirty THEN {Old(c, a) \div BlkSize} ELSE {}
    <3> HIDE DEF s, b, n, w, set
    <3> QED BY <1>3, <1>5, <1>6, <1>8, <2>2 DEF Stack!Dropped
  <2> QED BY <1>6, <2>3
<1> QED BY <1>7, <1>8
-----------------------------------------------------------------------------
(* The set a block number names, and whether it holds the block. *)
LEMMA SetIs ==
  ASSUME NEW l \in {1, 2}, NEW c \in CacheData(l), NEW t \in Nat, Sound(l, c, t), NEW a \in Nat
  PROVE  LET b == a \div BlkSize
             s == StacksOf(l, c.blocks)[Stack!SetOf(l, b)]
         IN  /\ s = StackIn(l, Index(l, a), c.blocks[Index(l, a)])
             /\ Stack!Held(s, b) <=> Found(l, c, a)
<1>1. /\ Stack!Held(StackIn(l, Index(l, a), c.blocks[Index(l, a)]), a \div BlkSize)
           <=> Found(l, c, a)
      /\ Index(l, a) \in SetId(l)
  BY DepthIs, PlaceIs
<1>2. Stack!SetOf(l, a \div BlkSize) = Index(l, a)
  BY DEF Stack!SetOf, Index
<1>3. StacksOf(l, c.blocks)[Index(l, a)] = StackIn(l, Index(l, a), c.blocks[Index(l, a)])
  BY <1>1 DEF StacksOf
<1> QED BY <1>1, <1>2, <1>3

(* The stacks of the state are those of its caches. *)
LEMMA StacksAre ==
  /\ Stack!Level = Level
  /\ Stacks = [l \in Level |-> StacksOf(l, Cache(l).blocks)]
  /\ Stacks' = [l \in Level' |-> StacksOf(l, Cache(l)'.blocks)]
BY DEF Stack!Level, Level, Stacks, Cache

LEMMA OneImplements ==
  ASSUME CacheInv, NEW type \in RefType, NEW a \in Addr, Request(type, a), ~HasNext(1)
  PROVE  Stack!RequestOne(type, a \div BlkSize)
<1> DEFINE b == a \div BlkSize
           d == AccessLast(1, Cache(1), a, type, clock + 1)
<1>1. /\ type \in Ref /\ a \in Nat /\ clock \in Nat /\ 1 \in {1, 2}
      /\ Cache(1) \in CacheData(1) /\ Sound(1, Cache(1), clock)
      /\ Level' = Level /\ Cache(1)' = d.cache /\ last'.latency = d.latency
  BY RequestIs
<1>2. clock + 1 \in Nat /\ clock < clock + 1
  BY <1>1
<1>3. d.cache \in CacheData(1) /\ Sound(1, d.cache, clock + 1)
  BY <1>1, <1>2, AccessLastEffect
<1>4. /\ Becomes(1, Cache(1), a, type, clock + 1, d.cache)
      /\ d.latency = IF Found(1, Cache(1), a) THEN 5 ELSE 20
  BY <1>1, <1>2, AccessLastBlocks DEF HitLatency, MissLatency
<1> HIDE DEF d
<1>5. StacksOf(1, d.cache.blocks) = Stack!UseIn(1, StacksOf(1, Cache(1).blocks), b, type = "w")
  BY <1>1, <1>2, <1>3, <1>4, StackIsUsed
<1>6. Stack!Held(StacksOf(1, Cache(1).blocks)[Stack!SetOf(1, b)], b) <=> Found(1, Cache(1), a)
  BY <1>1, SetIs
<1>7. Level = {1} /\ ~l2Present
  BY DEF Level, HasNext
<1>8. Stacks[1] = StacksOf(1, Cache(1).blocks) /\ DOMAIN Stacks = {1}
      /\ Stacks = [l \in {1} |-> Stacks[l]]
  BY <1>7, StacksAre
<1>9. Stacks' = [l \in {1} |-> StacksOf(l, Cache(l)'.blocks)]
  BY <1>1, <1>7, StacksAre
<1> HIDE DEF b
<1>10. Stacks' = [Stacks EXCEPT ![1] = Stack!UseIn(1, Stacks[1], b, type = "w")]
  BY <1>1, <1>5, <1>8, <1>9
<1>11. last'.latency = IF Stack!Held(Stacks[1][Stack!SetOf(1, b)], b) THEN 5 ELSE 20
  BY <1>1, <1>4, <1>6, <1>8
<1> QED BY <1>7, <1>10, <1>11 DEF Stack!RequestOne, b
(* A hit in the first of two caches leaves the second alone. *)
LEMMA HitImplements ==
  ASSUME CacheInv, NEW type \in RefType, NEW a \in Addr, Request(type, a), HasNext(1),
         Found(1, Cache(1), a)
  PROVE  Stack!RequestTwo(type, a \div BlkSize)
<1> DEFINE b == a \div BlkSize
           d == Touched(1, Cache(1), a, type, clock + 1)
<1>1. /\ type \in Ref /\ a \in Nat /\ clock \in Nat /\ 1 \in {1, 2}
      /\ Cache(1) \in CacheData(1) /\ Sound(1, Cache(1), clock) /\ Level' = Level
  BY RequestIs
<1>2. clock + 1 \in Nat /\ clock < clock + 1
  BY <1>1
<1>3. /\ Cache(1)' = d /\ Cache(2)' = Cache(2) /\ last'.latency = 5
  <2>1. /\ Cache(1)' = AccessFront(Cache(1), Cache(2), a, type, clock + 1).front
        /\ Cache(2)' = AccessFront(Cache(1), Cache(2), a, type, clock + 1).next
        /\ last'.latency = AccessFront(Cache(1), Cache(2), a, type, clock + 1).latency
    BY RequestIs
  <2> QED BY <2>1, AccessFrontIs DEF HitLatency
<1>4. d \in CacheData(1) /\ Sound(1, d, clock + 1)
  BY <1>1, <1>2, TouchedEffect
<1>5. Becomes(1, Cache(1), a, type, clock + 1, d)
  BY <1>1, <1>2, TouchedBlocks
<1> HIDE DEF d
<1>6. StacksOf(1, d.blocks) = Stack!UseIn(1, StacksOf(1, Cache(1).blocks), b, type = "w")
  BY <1>1, <1>2, <1>4, <1>5, StackIsUsed
<1>7. Stack!Held(StacksOf(1, Cache(1).blocks)[Stack!SetOf(1, b)], b)
  BY <1>1, SetIs
<1>8. Level = {1, 2} /\ l2Present
  BY DEF Level, HasNext
<1>9. /\ Stacks[1] = StacksOf(1, Cache(1).blocks)
      /\ Stacks[2] = StacksOf(2, Cache(2).blocks)
      /\ Stacks = [l \in {1, 2} |-> Stacks[l]]
  BY <1>8, StacksAre
<1>10. Stacks' = [l \in {1, 2} |-> StacksOf(l, Cache(l)'.blocks)]
  BY <1>1, <1>8, StacksAre
<1> HIDE DEF b
<1>11. Stacks' = [Stacks EXCEPT ![1] = Stack!UseIn(1, Stacks[1], b, type = "w"), ![2] = Stacks[2]]
  BY <1>3, <1>6, <1>9, <1>10
<1>12. Stack!Held(Stacks[1][Stack!SetOf(1, b)], b)
  BY <1>7, <1>9
<1> QED BY <1>3, <1>8, <1>11, <1>12 DEF Stack!RequestTwo, b

(* A miss of the first: the second is written what the first drops, then   *)
(* read.                                                                   *)
LEMMA MissImplements ==
  ASSUME CacheInv, NEW type \in RefType, NEW a \in Addr, Request(type, a), HasNext(1),
         ~Found(1, Cache(1), a)
  PROVE  Stack!RequestTwo(type, a \div BlkSize)
<1> DEFINE b == a \div BlkSize
           front == Cache(1)
           next == Cache(2)
           d == Replaced(1, front, a, type, clock + 1)
           mid == AfterWrite(front, next, a, clock + 1)
           read == AccessLast(2, mid, a, "r", clock + 3)
           wb == Written(1, front, a)
           set == Stacks[1][Stack!SetOf(1, b)]
           out == Stack!Dropped(1, set, b)
           after == IF out = {} THEN Stacks[2]
                    ELSE Stack!UseIn(2, Stacks[2], CHOOSE v \in out : TRUE, TRUE)
<1>1. /\ type \in Ref /\ "r" \in Ref /\ "w" \in Ref /\ a \in Nat /\ clock \in Nat
      /\ 1 \in {1, 2} /\ 2 \in {1, 2}
      /\ front \in CacheData(1) /\ Sound(1, front, clock) /\ Level' = Level
      /\ next \in CacheData(2) /\ Sound(2, next, clock)
  BY RequestIs DEF Ref
<1>2. /\ clock + 1 \in Nat /\ clock < clock + 1 /\ clock + 2 \in Nat /\ clock < clock + 2
      /\ clock + 3 \in Nat /\ clock + 2 < clock + 3 /\ (clock + 1) + 2 = clock + 3
  BY <1>1
<1>3. Cache(1)' = d /\ Cache(2)' = read.cache /\ last'.latency = read.latency
  <2>1. /\ Cache(1)' = AccessFront(front, next, a, type, clock + 1).front
        /\ Cache(2)' = AccessFront(front, next, a, type, clock + 1).next
        /\ last'.latency = AccessFront(front, next, a, type, clock + 1).latency
    BY RequestIs
  <2> QED BY <1>2, <2>1, AccessFrontIs
<1>4. /\ d \in CacheData(1) /\ Sound(1, d, clock + 1)
      /\ Becomes(1, front, a, type, clock + 1, d)
  <2>1. d \in CacheData(1) /\ Sound(1, d, clock + 1)
    BY <1>1, <1>2, ReplacedEffect
  <2>2. Becomes(1, front, a, type, clock + 1, d)
    BY <1>1, <1>2, ReplacedBlocks
  <2> QED BY <2>1, <2>2
<1>5. /\ mid \in CacheData(2) /\ Sound(2, mid, clock + 2) /\ wb \in BOOLEAN
      /\ wb => Old(front, a) \in Nat /\ Becomes(2, next, Old(front, a), "w", clock + 2, mid)
      /\ ~wb => mid = next
  BY <1>1, AfterWriteEffect
<1>6. /\ Level = {1, 2} /\ l2Present
  BY DEF Level, HasNext
<1>7. /\ Stacks[1] = StacksOf(1, front.blocks) /\ Stacks[2] = StacksOf(2, next.blocks)
      /\ Stacks = [l \in {1, 2} |-> Stacks[l]]
  BY <1>6, StacksAre
<1>8. /\ set = StackIn(1, Index(1, a), front.blocks[Index(1, a)])
      /\ ~Stack!Held(set, b)
  BY <1>1, <1>7, SetIs
<1>9. out = IF wb THEN {Old(front, a) \div BlkSize} ELSE {}
  BY <1>1, <1>8, DroppedIs
<1>10. Stacks' = [l \in {1, 2} |-> StacksOf(l, Cache(l)'.blocks)]
  BY <1>1, <1>6, StacksAre
<1> HIDE DEF d, mid, front, next, wb, set, out
<1>11. read.cache \in CacheData(2) /\ Sound(2, read.cache, clock + 3)
  BY <1>1, <1>2, <1>5, AccessLastEffect
<1>12. /\ Becomes(2, mid, a, "r", clock + 3, read.cache)
       /\ read.latency = IF Found(2, mid, a) THEN 10 ELSE 20
  <2>1. PICK u \in Nat, v \in Nat, ty \in Ref : u = clock + 2 /\ v = clock + 3 /\ u < v /\ ty = "r"
    BY <1>1, <1>2 DEF Ref
  <2>2. read = AccessLast(2, mid, a, ty, v) /\ mid \in CacheData(2) /\ Sound(2, mid, u) /\ a \in Nat
    BY <1>1, <1>5, <2>1
  <2> HIDE DEF read
  <2>3. /\ Becomes(2, mid, a, ty, v, read.cache)
        /\ read.latency = IF Found(2, mid, a) THEN HitLatency(2) ELSE MissLatency
    BY <2>1, <2>2, AccessLastBlocks
  <2> QED BY <2>1, <2>3 DEF HitLatency, MissLatency
<1> HIDE DEF read
<1>13. StacksOf(1, d.blocks) = Stack!UseIn(1, StacksOf(1, front.blocks), b, type = "w")
  BY <1>1, <1>2, <1>4, StackIsUsed
<1>14. after = StacksOf(2, mid.blocks)
  <2>1. CASE wb
    <3> DEFINE v == Old(front, a) \div BlkSize
    <3>1. StacksOf(2, mid.blocks) = Stack!UseIn(2, StacksOf(2, next.blocks), v, "w" = "w")
      BY <1>1, <1>2, <1>5, <2>1, StackIsUsed
    <3> HIDE DEF v
    <3>2. out = {v} /\ out # {}
      BY <1>9, <2>1 DEF v
    <3>3. (CHOOSE u \in out : TRUE) = v
      BY <3>2
    <3> QED BY <1>7, <3>1, <3>2, <3>3
  <2>2. CASE ~wb
    BY <1>5, <1>7, <1>9, <2>2
  <2> QED BY <2>1, <2>2
<1>15. StacksOf(2, read.cache.blocks) = Stack!UseIn(2, StacksOf(2, mid.blocks), b, FALSE)
  <2>1. StacksOf(2, read.cache.blocks) = Stack!UseIn(2, StacksOf(2, mid.blocks), b, "r" = "w")
    BY <1>1, <1>2, <1>5, <1>11, <1>12, StackIsUsed
  <2>2. ("r" = "w") = FALSE
    OBVIOUS
  <2> QED BY <2>1, <2>2
<1>16. Stack!Held(after[Stack!SetOf(2, b)], b) <=> Found(2, mid, a)
  BY <1>1, <1>2, <1>5, <1>14, SetIs
<1> HIDE DEF b, after
<1>17. Stacks' = [Stacks EXCEPT ![1] = Stack!UseIn(1, Stacks[1], b, type = "w"),
                                ![2] = Stack!UseIn(2, after, b, FALSE)]
  BY <1>3, <1>7, <1>10, <1>13, <1>14, <1>15
<1>18. last'.latency = IF Stack!Held(after[Stack!SetOf(2, b)], b) THEN 10 ELSE 20
  BY <1>3, <1>12, <1>16
<1> QED BY <1>6, <1>8, <1>17, <1>18 DEF Stack!RequestTwo, b, after, out, set
LEMMA InitImplements == CacheInit => Stack!Init
<1> SUFFICES ASSUME CacheInit PROVE Stack!Init
  OBVIOUS
<1>1. l2Present \in BOOLEAN /\ last.latency = 0
  BY LevelAssumption DEF CacheInit
<1>2. ASSUME NEW l \in Level, NEW i \in SetId(l)
      PROVE  StackIn(l, i, blocks[l][i]) = <<>>
  <2>1. \A w \in Way(l) : ~blocks[l][i][w].valid
    BY DEF CacheInit, Empty
  <2>2. ValidIn(l, blocks[l][i]) = {}
    BY <2>1 DEF ValidIn
  <2>3. Cardinality(ValidIn(l, blocks[l][i])) = 0
    BY <2>2, FS_EmptySet
  <2>4. DOMAIN StackIn(l, i, blocks[l][i]) = {}
    BY <2>3 DEF StackIn
  <2>5. StackIn(l, i, blocks[l][i]) =
          [k \in DOMAIN StackIn(l, i, blocks[l][i]) |-> StackIn(l, i, blocks[l][i])[k]]
    BY DEF StackIn
  <2> QED BY <2>4, <2>5
<1>3. Stacks = [l \in Level |-> [i \in SetId(l) |-> <<>>]]
  BY <1>2 DEF Stacks, StacksOf
<1> QED BY <1>1, <1>3, StacksAre DEF Stack!Init, SetId

(* The caches implement the stacks of blocks: every step of a cache - ages *)
(* read from a clock, the first free place, the first oldest one, the      *)
(* dirty bit that stays behind in it, the block written back before the    *)
(* read of the L2 (cache_evict_and_add_tag and what it calls) - is a step  *)
(* of LRUStack, for every geometry of one cache or two.                    *)
THEOREM CachesAreStacks == CacheSpec => ImplementsLRU
<1>1. CacheInv /\ [CacheNext]_cacheVars => [Stack!Next]_<<l2Present, Stacks, last.latency>>
  <2> SUFFICES ASSUME CacheInv, [CacheNext]_cacheVars
               PROVE  [Stack!Next]_<<l2Present, Stacks, last.latency>>
    OBVIOUS
  <2>1. CASE UNCHANGED cacheVars
    BY <2>1 DEF cacheVars, Stacks, Level
  <2>2. ASSUME NEW type \in RefType, NEW a \in Addr, Request(type, a) PROVE Stack!Next
    <3>1. Stack!RequestOne(type, a \div BlkSize) \/ Stack!RequestTwo(type, a \div BlkSize)
      <4>1. CASE ~HasNext(1)
        BY <2>2, <4>1, OneImplements
      <4>2. CASE HasNext(1) /\ Found(1, Cache(1), a)
        BY <2>2, <4>2, HitImplements
      <4>3. CASE HasNext(1) /\ ~Found(1, Cache(1), a)
        BY <2>2, <4>3, MissImplements
      <4> QED BY <4>1, <4>2, <4>3
    <3>2. l2Present' = l2Present
      BY <2>2 DEF Request
    <3> QED BY <3>1, <3>2 DEF Stack!Next
  <2> QED BY <2>1, <2>2 DEF CacheNext
<1> QED BY <1>1, InitImplements, CacheInvHolds, PTL DEF CacheSpec, ImplementsLRU, Stack!Spec
=============================================================================
