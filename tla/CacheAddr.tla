------------------------------ MODULE CacheAddr ------------------------------
(***************************************************************************)
(* How an address becomes a tag and an index, and back, bit by bit         *)
(* (dis-cache-utils.c).  A word is the set of its bits that are 1, so that *)
(* &, | and ~ are intersection, union and complement; W is the width of    *)
(* uint32_t.  Cache.tla uses quotients and remainders instead: this module *)
(* is where that is shown to be the same.                                  *)
(***************************************************************************)
EXTENDS Integers, FiniteSetsExt

CONSTANTS
  W,          \* bits of a word (32)
  BlkSizes,   \* block sizes given
  SetCounts   \* numbers of sets that result

ASSUME WidthAssumption == W \in Nat \ {0}
ASSUME GeometryAssumption ==
  BlkSizes \subseteq 1..(2 ^ W - 1) /\ SetCounts \subseteq 1..(2 ^ W - 1)

VARIABLES
  step,       \* "init", "decode", "encode" or "done"
  blkSize, numSets,   \* the configuration
  bits,       \* num_tag_bits, num_index_bits, num_offset_bits
  addr,       \* ref_addr
  line,       \* what it is decoded to
  back        \* the address encoded from the line

addrVars == <<step, blkSize, numSets, bits, addr, line, back>>

Bit == 0..(W - 1)
BitsOf(n) == {i \in Bit : (n \div 2 ^ i) % 2 = 1}
Value(word) == MapThenSumSet(LAMBDA i : 2 ^ i, word)
ShiftRight(word, n) == {i - n : i \in {j \in word : j >= n}}
ShiftLeft(word, n) == {i + n : i \in {j \in word : j + n < W}}

(* util_log_base_2: how often the number can be halved *)
Log2[n \in Nat] == IF n <= 1 THEN 0 ELSE 1 + Log2[n \div 2]

(* util_get_msb_mask, util_get_lsb_mask, util_get_field_mask.  A mask of   *)
(* no bits is a shift by the width of the word, which C leaves undefined:  *)
(* the shifter of the machine may take the count modulo the width and keep *)
(* every bit, or shift every bit out.                                      *)
NoBitsMask == {{}, Bit}
MSBMask(n) == IF n = 0 THEN NoBitsMask ELSE {(W - n)..(W - 1)}

(* Mutant: a mask one bit too wide. *)
LSBMask_Inclusive(n) == IF n = 0 THEN NoBitsMask ELSE {0..n}

LSBMask(n) == IF n = 0 THEN NoBitsMask ELSE {0..(n - 1)}
FieldMask(from, to) == {lsb \ below : lsb \in LSBMask(to + 1), below \in LSBMask(from)}

-----------------------------------------------------------------------------
Init ==
  /\ step = "init"
  /\ blkSize \in BlkSizes /\ numSets \in SetCounts
  /\ bits = [tag |-> 0, index |-> 0, offset |-> 0]
  /\ addr \in 0..(2 ^ W - 1)
  /\ line = [tag |-> 0, index |-> 0, offset |-> 0]
  /\ back = 0

(* The widths cache_tagstore_init works out. *)
TagstoreInit ==
  /\ step = "init" /\ Log2[blkSize] + Log2[numSets] < W
  /\ bits' = [tag |-> W - Log2[numSets] - Log2[blkSize],
              index |-> Log2[numSets], offset |-> Log2[blkSize]]
  /\ step' = "decode"
  /\ UNCHANGED <<blkSize, numSets, addr, line, back>>

(* cache_util_decode_mem_addr *)
Decode ==
  /\ step = "decode"
  /\ \E tagMask \in MSBMask(bits.tag), offsetMask \in LSBMask(bits.offset),
        indexMask \in FieldMask(bits.offset, bits.offset + bits.index - 1) :
       line' = [tag |-> Value(ShiftRight(BitsOf(addr) \cap tagMask, W - bits.tag)),
                index |-> Value(ShiftRight(BitsOf(addr) \cap indexMask, bits.offset)),
                offset |-> Value(BitsOf(addr) \cap offsetMask)]
  /\ step' = "encode"
  /\ UNCHANGED <<blkSize, numSets, bits, addr, back>>

(* cache_util_encode_mem_addr, as cache_handle_dirty_tag_evicts calls it   *)
(* for the block a tag and an index name                                   *)
EncodeAddr ==
  /\ step = "encode"
  /\ back' = Value(ShiftLeft(BitsOf(line.tag), bits.index + bits.offset)
                   \cup ShiftLeft(BitsOf(line.index), bits.offset))
  /\ step' = "done"
  /\ UNCHANGED <<blkSize, numSets, bits, addr, line>>

Next == TagstoreInit \/ Decode \/ EncodeAddr
Spec == Init /\ [][Next]_addrVars

-----------------------------------------------------------------------------
(* The masks of cache_util_decode_mem_addr compute the quotients and       *)
(* remainders of the number of the block: the set is the block number      *)
(* modulo the sets, when their number is a power of two.                   *)
DecodeIsDivision ==
  step \in {"encode", "done"} /\ numSets = 2 ^ bits.index /\ blkSize = 2 ^ bits.offset =>
    /\ line.tag = (addr \div blkSize) \div numSets
    /\ line.index = (addr \div blkSize) % numSets
    /\ line.offset = addr % blkSize

(* "<addr> = <tag, index, block_offset>" (dis-cache-utils.c:381-383): the  *)
(* address written back for a line is the address of the block the line    *)
(* was decoded from, for any number of sets, so that no two blocks share   *)
(* a tag and an index.                                                     *)
LineNamesBlock ==
  step = "done" /\ blkSize = 2 ^ bits.offset => back = (addr \div blkSize) * blkSize

(* The index of a line is the number of a set that was allocated. *)
IndexInRange == step \in {"encode", "done"} => line.index < numSets
=============================================================================
