------------------------------- MODULE FrontEnd -------------------------------
(***************************************************************************)
(* The life of the program (dis.c): main sets up, takes its arguments,     *)
(* wires the caches, reads the trace in the loop of dis_parse_tracefile,   *)
(* and gives everything back on every way out.  What happens to an         *)
(* instruction between fetch and writeback is Scheduler.tla; here it just  *)
(* moves on, from list to list, some time.                                 *)
(***************************************************************************)
EXTENDS TraceReader, FiniteSets

CONSTANTS
  NULL,
  Args,      \* the argument lists the program may be called with
  AssocMod,  \* 2^width of set_assoc (uint16_t: 65536)
  WordMod,   \* 2^width of blk_size and of its products (uint32_t)
  MaxInst    \* bound: instructions fetched

ASSUME ArgsAssumption ==
  /\ \A a \in Args :
       /\ a.argc \in BOOLEAN /\ a.opens \in BOOLEAN /\ a.newline \in BOOLEAN
       /\ {a.s, a.n, a.blk, a.assoc1, a.size2, a.assoc2} \subseteq Nat
       /\ a.blk < WordMod
  /\ AssocMod \in Nat \ {0} /\ WordMod \in Nat \ {0} /\ MaxInst \in Nat
  /\ NULL \notin {"l1", "l2"}

VARIABLES
  pc,       \* where main is
  args,     \* the arguments: argc tells whether there are eight
  dis,      \* l1 and l2 of struct dis_input: NULL or the name of a cache
  caches,   \* next_cache and tagstore of the two caches
  l2Present,  \* g_l2_present
  heap,     \* the blocks of memory allocated, and the trace file when open
  twice,    \* TRUE iff something was freed that was not allocated
  words,    \* what is left of the trace file
  fields,   \* the locals of dis_fetch
  i,        \* inst_i of dis_fetch
  traceDone, \* trace_done
  insts,    \* what list_inst holds: the fields of each instruction
  on,       \* the list each instruction's node is on
  status    \* what main returns

config == <<args, dis, caches, l2Present>>
reader == <<words, fields, i, traceDone, insts>>
frontVars == <<pc, config, heap, twice, reader, on, status>>

Lists == {"disp", "issue", "exec", "wback"}
Header(l) == <<"list", l>>
Headers == {Header(l) : l \in Lists \cup {"inst"}}
Arrays == {"lru_block_id", "index", "tags", "tag_data", "set_ref_count"}

Tagstore(c) == {<<c, a>> : a \in Arrays}
OnList(l) == {k \in DOMAIN insts : on[k] = l}
NodesOn(l) == {<<"node", l, k>> : k \in OnList(l)}
InstNodes == {<<"node", "inst", k>> : k \in DOMAIN insts}
Data == {<<"data", k>> : k \in DOMAIN insts}

Free(blocks) == heap' = heap \ blocks /\ twice' = (twice \/ ~(blocks \subseteq heap))
Allocate(blocks) == heap' = heap \cup blocks /\ UNCHANGED twice

-----------------------------------------------------------------------------
Init ==
  /\ pc = "init" /\ args \in Args
  /\ dis = [l1 |-> NULL, l2 |-> NULL]
  /\ caches = [c \in {"l1", "l2"} |-> [next |-> NULL, tagstore |-> FALSE]]
  /\ l2Present = FALSE /\ heap = {} /\ twice = FALSE
  /\ words = <<>> /\ fields = NoFields /\ i = 0 /\ traceDone = FALSE
  /\ insts = <<>> /\ on = <<>> /\ status = NULL

(* dis_init *)
DisInit ==
  /\ pc = "init" /\ pc' = "parse"
  /\ dis' = [l1 |-> "l1", l2 |-> "l2"]
  /\ Allocate({<<"rmt">>} \cup Headers)
  /\ UNCHANGED <<args, caches, l2Present, reader, on, status>>

-----------------------------------------------------------------------------
(* dis_parse_input *)

(* Another number of arguments: nothing is set up. *)
ParseFails ==
  /\ pc = "parse" /\ ~args.argc
  /\ pc' = "cleanFile" /\ status' = -1
  /\ UNCHANGED <<config, heap, twice, reader, on>>

ParseNoCache ==
  /\ pc = "parse" /\ args.argc /\ args.blk = 0
  /\ dis' = [l1 |-> NULL, l2 |-> NULL]
  /\ pc' = "open"
  /\ UNCHANGED <<args, caches, l2Present, heap, twice, reader, on, status>>

(* Mutant: dis->l2 is left alone when the L2 has no size. *)
Configured_KeepL2 == [l1 |-> "l1", l2 |-> "l2"]

(* dis->l2 is the cache only if it has a size. *)
Configured == [l1 |-> "l1", l2 |-> IF args.size2 # 0 THEN "l2" ELSE NULL]

(* cache_init, then cache_tagstore_init for the L1, and for the L2 if it   *)
(* has a size.  The size of a cache is divided by its associativity, which *)
(* is kept in 16 bits, times the size of a block, in 32 bits: when either  *)
(* loses all its bits the program ends there.                              *)
ZeroDivisor(assoc) == ((assoc % AssocMod) * args.blk) % WordMod = 0
DividesByZero == ZeroDivisor(args.assoc1) \/ (args.size2 # 0 /\ ZeroDivisor(args.assoc2))
ParseCaches ==
  /\ pc = "parse" /\ args.argc /\ args.blk # 0 /\ ~DividesByZero
  /\ l2Present' = (args.size2 # 0)
  /\ dis' = Configured
  /\ caches' = [l1 |-> [next |-> IF l2Present' THEN "l2" ELSE NULL, tagstore |-> TRUE],
                l2 |-> [next |-> NULL, tagstore |-> args.size2 # 0]]
  /\ Allocate(Tagstore("l1") \cup (IF args.size2 # 0 THEN Tagstore("l2") ELSE {}))
  /\ pc' = "open"
  /\ UNCHANGED <<args, reader, on, status>>

ParseCrashes ==
  /\ pc = "parse" /\ args.argc /\ args.blk # 0 /\ DividesByZero
  /\ pc' = "crashed"
  /\ UNCHANGED <<config, heap, twice, reader, on, status>>

-----------------------------------------------------------------------------
(* dis_parse_tracefile *)

(* main does not look at what dis_parse_tracefile returns. *)
OpenFails ==
  /\ pc = "open" /\ ~args.opens
  /\ pc' = "cleanFile" /\ status' = 0
  /\ UNCHANGED <<config, heap, twice, reader, on>>

Open ==
  /\ pc = "open" /\ args.opens
  /\ words' = args.words
  /\ Allocate({<<"file">>})
  /\ pc' = "stages"
  /\ UNCHANGED <<config, fields, i, traceDone, insts, on, status>>

(* An instruction of type 2 without an address behind a cache has no       *)
(* latency, and dis_execute_is_over is never true of it (dis_fetch).       *)
NeverOver(k) == insts[k][2] = 2 /\ insts[k][6] = 0 /\ dis.l1 # NULL

(* The other stages: an instruction goes to the next list, if that has     *)
(* room, in a node of its own, and the old node is freed.                  *)
NextList == [disp |-> "issue", issue |-> "exec", exec |-> "wback"]
Room(l) ==
  CASE l = "disp"  -> Cardinality(OnList(l)) < 2 * args.n
    [] l = "issue" -> Cardinality(OnList(l)) < args.s
    [] l = "exec"  -> Cardinality(OnList(l)) < 5 * args.n
    [] l = "wback" -> TRUE
Move(k) ==
  /\ pc = "stages" /\ on[k] # "wback" /\ Room(NextList[on[k]])
  /\ ~(on[k] = "exec" /\ NeverOver(k))
  /\ on' = [on EXCEPT ![k] = NextList[@]]
  /\ heap' = (heap \ {<<"node", on[k], k>>}) \cup {<<"node", NextList[on[k]], k>>}
  /\ UNCHANGED <<pc, config, twice, reader, status>>

(* The fetch stage begins: the locals of dis_fetch are new. *)
FetchCall ==
  /\ pc = "stages"
  /\ IF traceDone THEN pc' = "test" /\ UNCHANGED <<fields, i>>
     ELSE pc' = "fetch" /\ fields' = NoFields /\ i' = 0
  /\ UNCHANGED <<config, heap, twice, words, traceDone, insts, on, status>>

MayFetch == i < args.n /\ Room("disp")

(* A line, or what fscanf makes of the words there are. *)
FetchLine ==
  /\ pc = "fetch" /\ MayFetch /\ ~IsEOF(words, args.newline) /\ Len(insts) < MaxInst
  /\ LET read == Scan(words, fields)
         k == Len(insts) + 1
     IN  /\ words' = read.rest /\ fields' = read.fields
         /\ insts' = Append(insts, read.fields)
         /\ on' = Append(on, "disp")
         /\ Allocate({<<"data", k>>, <<"node", "inst", k>>, <<"node", "disp", k>>})
  /\ i' = i + 1
  /\ UNCHANGED <<pc, config, traceDone, status>>

FetchEOF ==
  /\ pc = "fetch" /\ MayFetch /\ IsEOF(words, args.newline)
  /\ traceDone' = TRUE /\ pc' = "test"
  /\ UNCHANGED <<config, heap, twice, words, fields, i, insts, on, status>>

FetchReturn ==
  /\ pc = "fetch" /\ ~MayFetch
  /\ pc' = "test"
  /\ UNCHANGED <<config, heap, twice, reader, on, status>>

(* dis_run_cycle *)
Busy == \E k \in DOMAIN insts : on[k] # "wback"
Again ==
  /\ pc = "test" /\ Busy
  /\ pc' = "stages"
  /\ UNCHANGED <<config, heap, twice, reader, on, status>>

(* The loop is left when nothing is in flight, and also, whatever is, when *)
(* the cycle counter comes round to 0.  The counter itself is not kept:    *)
(* any test may be the one.                                                *)
LeaveLoop ==
  /\ pc = "test" /\ pc' = "cleanFile" /\ status' = 0
  /\ UNCHANGED <<config, heap, twice, reader, on>>
LoopDrained == ~Busy /\ LeaveLoop
CounterWraps == Busy /\ LeaveLoop
LoopEnds == LoopDrained \/ CounterWraps

-----------------------------------------------------------------------------
(* dis_cleanup *)
CleanFile ==
  /\ pc = "cleanFile" /\ pc' = "cleanCaches"
  /\ Free(IF <<"file">> \in heap THEN {<<"file">>} ELSE {})
  /\ UNCHANGED <<config, reader, on, status>>

(* cache_cleanup and cache_tagstore_cleanup: a cache without a tagstore    *)
(* has nothing to free.                                                    *)
Held(c) == IF c # NULL /\ caches[c].tagstore THEN Tagstore(c) ELSE {}
CleanCaches ==
  /\ pc = "cleanCaches" /\ pc' = "cleanTable"
  /\ IF dis.l1 # NULL
     THEN /\ Free(Held(dis.l1) \cup Held(dis.l2))
          /\ dis' = [l1 |-> NULL, l2 |-> NULL]
          /\ caches' = [c \in {"l1", "l2"} |->
                          IF c \in {dis.l1, dis.l2} THEN [next |-> NULL, tagstore |-> FALSE]
                          ELSE caches[c]]
     ELSE UNCHANGED <<heap, twice, dis, caches>>
  /\ UNCHANGED <<args, l2Present, reader, on, status>>

CleanTable ==
  /\ pc = "cleanTable" /\ pc' = "cleanLists"
  /\ Free({<<"rmt">>})
  /\ UNCHANGED <<config, reader, on, status>>

(* Mutant: the data an instruction's nodes share is freed with each.       *)
ListBlocks_Data == (UNION {NodesOn(l) : l \in Lists}) \cup {Header(l) : l \in Lists} \cup Data

(* The nodes of the four lists, without the data they point at, which is   *)
(* list_inst's to free.                                                    *)
ListBlocks == (UNION {NodesOn(l) : l \in Lists}) \cup {Header(l) : l \in Lists}

CleanLists ==
  /\ pc = "cleanLists" /\ pc' = "cleanInsts"
  /\ Free(ListBlocks)
  /\ UNCHANGED <<config, reader, on, status>>

CleanInsts ==
  /\ pc = "cleanInsts" /\ pc' = "exit"
  /\ Free(InstNodes \cup Data \cup {Header("inst")})
  /\ UNCHANGED <<config, reader, on, status>>

-----------------------------------------------------------------------------
Parse == ParseFails \/ ParseNoCache \/ ParseCaches \/ ParseCrashes
Fetch == FetchCall \/ FetchLine \/ FetchEOF \/ FetchReturn
Cleanup == CleanFile \/ CleanCaches \/ CleanTable \/ CleanLists \/ CleanInsts
Main == DisInit \/ Parse \/ OpenFails \/ Open \/ Fetch \/ Again \/ LoopEnds \/ Cleanup

Moves == \E k \in DOMAIN insts : Move(k)
Next == Main \/ Moves
Spec == Init /\ [][Next]_frontVars

(* One thread runs main and nothing blocks it.  As long as every           *)
(* instruction is over some time and the queue has places, cycles that     *)
(* have room for some instruction move one on, which is what               *)
(* AllWrittenBack shows of the scheduler.  The cycle counter comes round   *)
(* in the end; that is supposed only where the loop cannot drain.          *)
NeverDrains == args.s = 0 \/ \E k \in DOMAIN insts : NeverOver(k)
FairSpec ==
  Spec /\ WF_frontVars(Main)
       /\ SF_frontVars(~NeverDrains /\ Moves)
       /\ SF_frontVars(NeverDrains /\ CounterWraps)
=============================================================================
