---------------------------- MODULE FrontEndProofs ----------------------------
(* CachesWired, whatever the arguments, the trace and the widths. *)
EXTENDS FrontEndProperties, SequenceTheorems, TLAPS

(* Why CachesWired holds: before the arguments are read nothing is wired,  *)
(* so that a run without caches, which skips cache_init, finds             *)
(* g_l2_present and next_cache as the program started with them; and once  *)
(* read, nothing but dis_cleanup touches the wiring.                       *)
Before ==
  pc \in {"init", "parse"} =>
    l2Present = FALSE /\ caches["l1"].next = NULL

Wired ==
  /\ dis.l2 # NULL <=> l2Present
  /\ caches["l1"].next = dis.l2
  /\ \A c \in {dis.l1, dis.l2} \ {NULL} : caches[c].tagstore
  /\ dis.l2 # NULL => dis.l1 # NULL

InUse == {"open", "stages", "fetch", "test", "cleanFile"}
WiredInv == Before /\ (pc \in InUse /\ args.argc => Wired)

-----------------------------------------------------------------------------
LEMMA WiredInit == Init => WiredInv
  BY DEF Init, WiredInv, Before, InUse

(* Every step that leaves the wiring alone, and does not go from before    *)
(* the arguments to after them.                                            *)
LEMMA WiredKept ==
  ASSUME WiredInv, UNCHANGED config,
         pc' \in {"init", "parse"} => pc \in {"init", "parse"},
         pc' \in InUse /\ args.argc => pc \in InUse
  PROVE  WiredInv'
<1>1. UNCHANGED <<args, dis, caches, l2Present>>
  BY DEF config
<1>2. Before'
  BY <1>1 DEF WiredInv, Before
<1>3. ASSUME pc' \in InUse, args'.argc
      PROVE  Wired'
  <2>1. Wired
    BY <1>1, <1>3 DEF WiredInv
  <2> QED
    BY <2>1, <1>1 DEF Wired
<1> QED
  BY <1>2, <1>3 DEF WiredInv, InUse

LEMMA WiredDisInit ==
  ASSUME WiredInv, DisInit
  PROVE  WiredInv'
BY DEF DisInit, WiredInv, Before, InUse

(* dis_parse_input, by the three ways out of it that go on. *)
LEMMA WiredParse ==
  ASSUME WiredInv, Parse
  PROVE  WiredInv'
<1>1. CASE ParseFails
  <2>1. /\ pc' = "cleanFile" /\ ~args.argc
        /\ UNCHANGED args
    BY <1>1 DEF ParseFails, config
  <2> QED
    BY <2>1 DEF WiredInv, Before, InUse
<1>2. CASE ParseNoCache
  <2>1. /\ pc = "parse" /\ pc' = "open"
        /\ dis' = [l1 |-> NULL, l2 |-> NULL]
        /\ UNCHANGED <<caches, l2Present>>
    BY <1>2 DEF ParseNoCache
  <2>2. Wired'
    BY <2>1 DEF WiredInv, Before, Wired
  <2> QED
    BY <2>1, <2>2 DEF WiredInv, Before
<1>3. CASE ParseCaches
  <2>1. /\ pc' = "open"
        /\ l2Present' = (args.size2 # 0)
        /\ dis' = [l1 |-> "l1", l2 |-> IF args.size2 # 0 THEN "l2" ELSE NULL]
        /\ caches' = [l1 |-> [next |-> IF l2Present' THEN "l2" ELSE NULL, tagstore |-> TRUE],
                      l2 |-> [next |-> NULL, tagstore |-> args.size2 # 0]]
    BY <1>3 DEF ParseCaches, Configured
  <2>2. Wired'
    <3>1. CASE args.size2 # 0
      <4>1. l2Present'
        BY <2>1, <3>1
      <4>2. dis'.l1 = "l1" /\ dis'.l2 = "l2" /\ "l2" # NULL
        BY <2>1, <3>1, ArgsAssumption
      <4>3. caches'["l1"].next = "l2" /\ caches'["l1"].tagstore /\ caches'["l2"].tagstore
        BY <2>1, <3>1, <4>1
      <4> QED
        BY <4>1, <4>2, <4>3, ArgsAssumption DEF Wired
    <3>2. CASE args.size2 = 0
      <4>1. ~l2Present'
        BY <2>1, <3>2
      <4>2. dis'.l1 = "l1" /\ dis'.l2 = NULL
        BY <2>1, <3>2
      <4>3. caches'["l1"].next = NULL /\ caches'["l1"].tagstore
        BY <2>1, <3>2, <4>1
      <4> QED
        BY <4>1, <4>2, <4>3 DEF Wired
    <3> QED
      BY <3>1, <3>2
  <2> QED
    BY <2>1, <2>2 DEF WiredInv, Before
<1>4. CASE ParseCrashes
  BY <1>4 DEF ParseCrashes, WiredInv, Before, InUse
<1> QED
  BY <1>1, <1>2, <1>3, <1>4 DEF Parse

(* dis_parse_tracefile reads the wiring and never writes it. *)
LEMMA WiredLoop ==
  ASSUME WiredInv, OpenFails \/ Open \/ Fetch \/ Again \/ LoopEnds \/ Moves
  PROVE  WiredInv'
<1>1. CASE OpenFails
  BY <1>1, WiredKept DEF OpenFails, InUse
<1>2. CASE Open
  BY <1>2, WiredKept DEF Open, InUse
<1>3. CASE Fetch
  <2>1. CASE FetchCall
    BY <2>1, WiredKept DEF FetchCall, InUse
  <2>2. CASE FetchLine
    <3>1. pc = "fetch" /\ pc' = pc /\ UNCHANGED config
      BY <2>2 DEF FetchLine
    <3> QED
      BY <3>1, WiredKept DEF InUse
  <2>3. CASE FetchEOF
    BY <2>3, WiredKept DEF FetchEOF, InUse
  <2>4. CASE FetchReturn
    BY <2>4, WiredKept DEF FetchReturn, InUse
  <2> QED
    BY <1>3, <2>1, <2>2, <2>3, <2>4 DEF Fetch
<1>4. CASE Again
  BY <1>4, WiredKept DEF Again, InUse
<1>5. CASE LoopEnds
  BY <1>5, WiredKept DEF LoopEnds, LoopDrained, CounterWraps, LeaveLoop, InUse
<1>6. CASE Moves
  <2>1. PICK k \in DOMAIN insts : Move(k)
    BY <1>6 DEF Moves
  <2>2. pc = "stages" /\ pc' = pc /\ UNCHANGED config
    BY <2>1 DEF Move
  <2> QED
    BY <2>2, WiredKept DEF InUse
<1> QED
  BY <1>1, <1>2, <1>3, <1>4, <1>5, <1>6

(* dis_cleanup undoes the wiring only when main is past using it. *)
LEMMA WiredCleanup ==
  ASSUME WiredInv, Cleanup
  PROVE  WiredInv'
<1>1. pc' \in {"cleanCaches", "cleanTable", "cleanLists", "cleanInsts", "exit"}
  BY DEF Cleanup, CleanFile, CleanCaches, CleanTable, CleanLists, CleanInsts
<1> QED
  BY <1>1 DEF WiredInv, Before, InUse

(* The three places that tell whether there is an L2 agree, and a cache    *)
(* they lead to has a tagstore, from the end of dis_parse_input until      *)
(* dis_cleanup frees the caches.                                           *)
THEOREM WiringAgrees == Spec => []CachesWired
<1>1. Init => WiredInv
  BY WiredInit
<1>2. WiredInv /\ [Next]_frontVars => WiredInv'
  <2> SUFFICES ASSUME WiredInv, [Next]_frontVars PROVE WiredInv'
    OBVIOUS
  <2>1. CASE DisInit
    BY <2>1, WiredDisInit
  <2>2. CASE Parse
    BY <2>2, WiredParse
  <2>3. CASE OpenFails \/ Open \/ Fetch \/ Again \/ LoopEnds \/ Moves
    BY <2>3, WiredLoop
  <2>4. CASE Cleanup
    BY <2>4, WiredCleanup
  <2>5. CASE UNCHANGED frontVars
    BY <2>5, WiredKept DEF frontVars, InUse
  <2> QED
    BY <2>1, <2>2, <2>3, <2>4, <2>5 DEF Next, Main
<1>3. WiredInv => CachesWired
  BY DEF WiredInv, Wired, InUse, CachesWired
<1> QED
  BY <1>1, <1>2, <1>3, PTL DEF Spec

-----------------------------------------------------------------------------
(* MemoryBalanced, whatever the arguments, the trace and the widths.  It   *)
(* needs to be known for each place in main what the heap holds: the map   *)
(* table and the headers of the lists once dis_init is done, the arrays of *)
(* the caches that are wired, and what instructions are kept in.           *)
Table == IF pc \in {"init", "cleanLists", "cleanInsts", "exit"} THEN {} ELSE {<<"rmt">>}
HeadersLeft ==
  IF pc \in {"init", "exit"} THEN {}
  ELSE IF pc = "cleanInsts" THEN {Header("inst")} ELSE Headers
Tagstores == Held(dis.l1) \cup Held(dis.l2)
ListNodes == UNION {NodesOn(l) : l \in Lists}
NodesLeft == IF pc \in {"cleanInsts", "exit"} THEN {} ELSE ListNodes
DataLeft == IF pc = "exit" THEN {} ELSE InstNodes \cup Data
Owned == Table \cup HeadersLeft \cup Tagstores \cup NodesLeft \cup DataLeft
OpenFile == <<"file">>

(* dis_cleanup goes to the L2 only if there is an L1; the caches have no   *)
(* arrays before cache_init, and dis->l1 leads nowhere after the caches    *)
(* are freed.                                                              *)
CachesOwned ==
  /\ dis.l1 \in {NULL, "l1"} /\ dis.l2 \in {NULL, "l2"}
  /\ dis.l1 = NULL => dis.l2 = NULL
  /\ DOMAIN caches = {"l1", "l2"}
  /\ pc \in {"init", "parse"} => \A c \in {"l1", "l2"} : ~caches[c].tagstore
  /\ pc \in {"cleanTable", "cleanLists", "cleanInsts", "exit"} => dis.l1 = NULL

OnLists ==
  /\ \E T : insts \in Seq(T)
  /\ on \in Seq(Lists) /\ Len(on) = Len(insts)

MemInv ==
  /\ ~twice
  /\ heap \ {OpenFile} = Owned
  /\ OpenFile \in heap => pc \in {"stages", "fetch", "test", "cleanFile"}
  /\ CachesOwned /\ OnLists
Running ==
  {"parse", "open", "stages", "fetch", "test", "cleanFile", "cleanCaches", "crashed"}

LEMMA BlockKinds ==
  /\ <<"rmt">>[1] = "rmt" /\ OpenFile[1] = "file"
  /\ \A b \in Headers : b[1] = "list"
  /\ \A l : Header(l)[1] = "list" /\ Header(l)[2] = l
  /\ \A c : \A b \in Tagstore(c) : b[1] = c
  /\ \A b \in ListNodes : b[1] = "node" /\ b[2] \in Lists
  /\ \A b \in InstNodes : b[1] = "node" /\ b[2] = "inst"
  /\ \A b \in Data : b[1] = "data"
<1>1. <<"rmt">>[1] = "rmt" /\ OpenFile[1] = "file"
  BY DEF OpenFile
<1>2. \A l : Header(l)[1] = "list" /\ Header(l)[2] = l
  BY DEF Header
<1>3. \A b \in Headers : b[1] = "list"
  BY <1>2 DEF Headers
<1>4. \A c : \A b \in Tagstore(c) : b[1] = c
  BY DEF Tagstore
<1>5. \A b \in ListNodes : b[1] = "node" /\ b[2] \in Lists
  BY DEF ListNodes, NodesOn
<1>6. \A b \in InstNodes : b[1] = "node" /\ b[2] = "inst"
  BY DEF InstNodes
<1>7. \A b \in Data : b[1] = "data"
  BY DEF Data
<1> QED BY <1>1, <1>2, <1>3, <1>4, <1>5, <1>6, <1>7

LEMMA CacheBlocks ==
  ASSUME CachesOwned
  PROVE  \A b \in Tagstores : b[1] \in {"l1", "l2"}
<1>1. \A c \in {NULL, "l1", "l2"} : \A b \in Held(c) : b[1] \in {"l1", "l2"}
  BY BlockKinds DEF Held
<1> QED BY <1>1 DEF Tagstores, CachesOwned

LEMMA MemInit == Init => MemInv
<1> SUFFICES ASSUME Init PROVE MemInv
  OBVIOUS
<1>1. insts = <<>> /\ on = <<>> /\ heap = {} /\ twice = FALSE /\ pc = "init"
  BY DEF Init
<1>2. OnLists
  BY <1>1, EmptySeq DEF OnLists
<1>3. CachesOwned /\ Tagstores = {}
  BY DEF Init, CachesOwned, Tagstores, Held
<1>4. Owned = {}
  BY <1>1, <1>3 DEF Owned, Table, HeadersLeft, NodesLeft, DataLeft, ListNodes, NodesOn, OnList,
                    InstNodes, Data
<1> QED BY <1>1, <1>2, <1>3, <1>4 DEF MemInv

(* Steps that allocate and free nothing, between dis_init and the cleanup  *)
(* of the map table.                                                       *)
LEMMA OwnedStays ==
  ASSUME UNCHANGED <<dis, caches, insts, on>>
  PROVE  Tagstores' = Tagstores /\ ListNodes' = ListNodes /\ InstNodes' = InstNodes /\ Data' = Data
BY DEF Tagstores, Held, ListNodes, NodesOn, OnList, InstNodes, Data

LEMMA MemKept ==
  ASSUME MemInv, UNCHANGED <<dis, caches, heap, twice, insts, on>>,
         pc \in Running, pc' \in Running, pc' = "parse" => pc = "parse",
         OpenFile \in heap => pc' \in {"stages", "fetch", "test", "cleanFile"}
  PROVE  MemInv'
<1>1. Owned' = Owned
  BY OwnedStays DEF Owned, Table, HeadersLeft, NodesLeft, DataLeft, Running
<1>2. OnLists' /\ CachesOwned'
  BY DEF MemInv, OnLists, CachesOwned, Running
<1> QED BY <1>1, <1>2 DEF MemInv, OpenFile
LEMMA MemDisInit ==
  ASSUME MemInv, DisInit
  PROVE  MemInv'
<1>1. /\ pc = "init" /\ pc' = "parse" /\ dis' = [l1 |-> "l1", l2 |-> "l2"]
      /\ heap' = heap \cup {<<"rmt">>} \cup Headers /\ twice' = twice
      /\ UNCHANGED <<caches, insts, on>>
  BY DEF DisInit, Allocate, reader
<1>2. \A c \in {NULL, "l1", "l2"} : c # NULL => ~caches[c].tagstore
  BY <1>1 DEF MemInv, CachesOwned
<1>3. Tagstores = {} /\ Tagstores' = {}
  <2>1. dis.l1 \in {NULL, "l1", "l2"} /\ dis.l2 \in {NULL, "l1", "l2"}
    BY DEF MemInv, CachesOwned
  <2>2. dis'.l1 \in {NULL, "l1", "l2"} /\ dis'.l2 \in {NULL, "l1", "l2"}
    BY <1>1
  <2>3. caches' = caches
    BY <1>1
  <2> QED BY <1>2, <2>1, <2>2, <2>3 DEF Tagstores, Held
<1>4. ListNodes' = ListNodes /\ InstNodes' = InstNodes /\ Data' = Data
  BY <1>1 DEF ListNodes, NodesOn, OnList, InstNodes, Data
<1>5. Owned' = Owned \cup {<<"rmt">>} \cup Headers
  BY <1>1, <1>3, <1>4 DEF Owned, Table, HeadersLeft, NodesLeft, DataLeft
<1>6. OpenFile # <<"rmt">> /\ OpenFile \notin Headers
  BY BlockKinds
<1>7. CachesOwned' /\ OnLists'
  BY <1>1, ArgsAssumption DEF MemInv, CachesOwned, OnLists
<1>8. OpenFile \notin heap /\ OpenFile' = OpenFile
  BY <1>1 DEF MemInv, OpenFile
<1>9. heap' \ {OpenFile} = Owned' /\ OpenFile \notin heap'
  BY <1>1, <1>5, <1>6, <1>8 DEF MemInv
<1> QED BY <1>1, <1>7, <1>8, <1>9 DEF MemInv

LEMMA MemParseCaches ==
  ASSUME MemInv, ParseCaches
  PROVE  MemInv'
<1> DEFINE second == IF args.size2 # 0 THEN Tagstore("l2") ELSE {}
<1>1. /\ pc = "parse" /\ pc' = "open" /\ dis' = Configured
      /\ caches' = [l1 |-> [next |-> IF l2Present' THEN "l2" ELSE NULL, tagstore |-> TRUE],
                    l2 |-> [next |-> NULL, tagstore |-> args.size2 # 0]]
      /\ heap' = heap \cup (Tagstore("l1") \cup second) /\ twice' = twice
      /\ UNCHANGED <<insts, on>>
  BY DEF ParseCaches, Allocate, reader
<1>2. Tagstores = {}
  <2>1. dis.l1 \in {NULL, "l1", "l2"} /\ dis.l2 \in {NULL, "l1", "l2"}
    BY DEF MemInv, CachesOwned
  <2>2. \A c \in {NULL, "l1", "l2"} : c # NULL => ~caches[c].tagstore
    BY <1>1 DEF MemInv, CachesOwned
  <2> QED BY <2>1, <2>2 DEF Tagstores, Held
<1>3. dis'.l1 = "l1" /\ dis'.l2 = (IF args.size2 # 0 THEN "l2" ELSE NULL)
  BY <1>1 DEF Configured
<1>4. /\ caches'["l1"].tagstore /\ (caches'["l2"].tagstore <=> args.size2 # 0)
      /\ DOMAIN caches' = {"l1", "l2"}
  BY <1>1
<1>5. NULL # "l1" /\ NULL # "l2"
  BY ArgsAssumption
<1>6. Tagstores' = Tagstore("l1") \cup second
  <2>1. Tagstores' = (IF dis'.l1 # NULL /\ caches'[dis'.l1].tagstore THEN Tagstore(dis'.l1) ELSE {})
                     \cup (IF dis'.l2 # NULL /\ caches'[dis'.l2].tagstore THEN Tagstore(dis'.l2) ELSE {})
    BY DEF Tagstores, Held, Tagstore
  <2> QED BY <1>3, <1>4, <1>5, <2>1
<1>7. ListNodes' = ListNodes /\ InstNodes' = InstNodes /\ Data' = Data
  BY <1>1 DEF ListNodes, NodesOn, OnList, InstNodes, Data
<1>8. Owned' = Owned \cup (Tagstore("l1") \cup second)
  <2> HIDE DEF second
  <2> QED BY <1>1, <1>2, <1>6, <1>7 DEF Owned, Table, HeadersLeft, NodesLeft, DataLeft
<1>9. OpenFile \notin Tagstore("l1") \cup second
  BY BlockKinds
<1>10. CachesOwned' /\ OnLists'
  BY <1>1, <1>3, <1>4, <1>5 DEF MemInv, CachesOwned, OnLists
<1>11. OpenFile \notin heap /\ OpenFile' = OpenFile
  BY <1>1 DEF MemInv, OpenFile
<1> HIDE DEF second
<1>12. heap' \ {OpenFile} = Owned' /\ OpenFile \notin heap'
  BY <1>1, <1>8, <1>9, <1>11 DEF MemInv
<1> QED BY <1>1, <1>10, <1>11, <1>12 DEF MemInv

LEMMA MemParse ==
  ASSUME MemInv, Parse
  PROVE  MemInv'
<1>1. CASE ParseFails
  BY <1>1, MemKept DEF ParseFails, MemInv, config, reader, Running
<1>2. CASE ParseNoCache
  <2>1. /\ pc = "parse" /\ pc' = "open" /\ dis' = [l1 |-> NULL, l2 |-> NULL]
        /\ UNCHANGED <<caches, heap, twice, insts, on>>
    BY <1>2 DEF ParseNoCache, reader
  <2>2. Tagstores = {} /\ Tagstores' = {}
    <3>1. dis.l1 \in {NULL, "l1", "l2"} /\ dis.l2 \in {NULL, "l1", "l2"}
      BY DEF MemInv, CachesOwned
    <3>2. \A c \in {NULL, "l1", "l2"} : c # NULL => ~caches[c].tagstore
      BY <2>1 DEF MemInv, CachesOwned
    <3> QED BY <2>1, <3>1, <3>2 DEF Tagstores, Held
  <2>3. ListNodes' = ListNodes /\ InstNodes' = InstNodes /\ Data' = Data
    BY <2>1 DEF ListNodes, NodesOn, OnList, InstNodes, Data
  <2>4. Owned' = Owned
    BY <2>1, <2>2, <2>3 DEF Owned, Table, HeadersLeft, NodesLeft, DataLeft
  <2>5. CachesOwned' /\ OnLists'
    BY <2>1 DEF MemInv, CachesOwned, OnLists
  <2> QED BY <2>1, <2>4, <2>5 DEF MemInv, OpenFile
<1>3. CASE ParseCaches
  BY <1>3, MemParseCaches
<1>4. CASE ParseCrashes
  BY <1>4, MemKept DEF ParseCrashes, MemInv, config, reader, Running
<1> QED BY <1>1, <1>2, <1>3, <1>4 DEF Parse

LEMMA MemOpen ==
  ASSUME MemInv, Open
  PROVE  MemInv'
<1>1. /\ pc = "open" /\ pc' = "stages" /\ heap' = heap \cup {OpenFile} /\ twice' = twice
      /\ UNCHANGED <<dis, caches, insts, on>>
  BY DEF Open, Allocate, config, OpenFile
<1>2. Owned' = Owned
  BY <1>1, OwnedStays DEF Owned, Table, HeadersLeft, NodesLeft, DataLeft
<1>3. CachesOwned' /\ OnLists'
  BY <1>1 DEF MemInv, CachesOwned, OnLists
<1>4. OpenFile' = OpenFile
  BY DEF OpenFile
<1> QED BY <1>1, <1>2, <1>3, <1>4 DEF MemInv
(* The list an instruction's node is on, when one of them goes on. *)
LEMMA MemMove ==
  ASSUME MemInv, NEW k \in DOMAIN insts, Move(k)
  PROVE  MemInv'
<1> DEFINE next == NextList[on[k]]
           old == <<"node", on[k], k>>
           new == <<"node", next, k>>
<1>1. /\ pc = "stages" /\ pc' = pc /\ on[k] # "wback" /\ on' = [on EXCEPT ![k] = next]
      /\ heap' = (heap \ {old}) \cup {new} /\ twice' = twice
      /\ UNCHANGED <<dis, caches, insts>>
  BY DEF Move, config, reader
<1>2. on \in Seq(Lists) /\ k \in 1..Len(on) /\ on[k] \in Lists
  <2>1. DOMAIN insts = 1..Len(on)
    BY LenProperties DEF MemInv, OnLists
  <2> QED BY <2>1, ElementOfSeq DEF MemInv, OnLists
<1>3. next \in Lists /\ next # on[k]
  BY <1>1, <1>2 DEF Lists, NextList
<1>4. on' \in Seq(Lists) /\ Len(on') = Len(on) /\ \A m \in DOMAIN insts : on'[m] = (IF m = k THEN next ELSE on[m])
  <2>1. DOMAIN insts = 1..Len(on)
    BY LenProperties DEF MemInv, OnLists
  <2>2. on' \in Seq(Lists) /\ Len(on') = Len(on)
    BY <1>1, <1>2, <1>3, ExceptSeq
  <2>3. DOMAIN on = 1..Len(on)
    BY <1>2, LenProperties
  <2> QED BY <1>1, <2>1, <2>2, <2>3
<1> HIDE DEF next
<1>5. ListNodes = {<<"node", on[m], m>> : m \in DOMAIN insts}
      /\ ListNodes' = {<<"node", on'[m], m>> : m \in DOMAIN insts}
  <2>1. \A m \in DOMAIN insts : on[m] \in Lists /\ on'[m] \in Lists
    <3>1. DOMAIN insts = 1..Len(on)
      BY LenProperties DEF MemInv, OnLists
    <3> QED BY <1>2, <1>4, <3>1, ElementOfSeq
  <2>2. insts' = insts
    BY <1>1
  <2>3. \A l \in Lists : NodesOn(l) = {<<"node", l, m>> : m \in {n \in DOMAIN insts : on[n] = l}}
    BY DEF NodesOn, OnList
  <2>4. \A l \in Lists : NodesOn(l)' = {<<"node", l, m>> : m \in {n \in DOMAIN insts : on'[n] = l}}
    BY <2>2 DEF NodesOn, OnList
  <2>5. ListNodes = {<<"node", on[m], m>> : m \in DOMAIN insts}
    BY <2>1, <2>3 DEF ListNodes
  <2>6. ListNodes' = {<<"node", on'[m], m>> : m \in DOMAIN insts}
    BY <2>1, <2>4 DEF ListNodes, Lists
  <2> QED BY <2>5, <2>6
<1>6. ListNodes' = (ListNodes \ {old}) \cup {new}
  BY <1>3, <1>4, <1>5
<1>7. InstNodes' = InstNodes /\ Data' = Data /\ Tagstores' = Tagstores
  BY <1>1 DEF InstNodes, Data, Tagstores, Held
<1>8. Table' = Table /\ HeadersLeft' = HeadersLeft
  BY <1>1 DEF Table, HeadersLeft
<1>9. old \notin Table \cup HeadersLeft \cup Tagstores \cup InstNodes \cup Data
  <2>1. old[1] = "node" /\ old[2] \in Lists
    BY <1>2
  <2>2. "inst" \notin Lists
    BY DEF Lists
  <2>3. old \notin Tagstores
    BY <2>1, CacheBlocks DEF MemInv
  <2> QED BY <1>1, <2>1, <2>2, <2>3, BlockKinds DEF Table, HeadersLeft
<1>10. Owned' = (Owned \ {old}) \cup {new}
  BY <1>1, <1>6, <1>7, <1>8, <1>9 DEF Owned, NodesLeft, DataLeft
<1>11. OpenFile # old /\ OpenFile # new /\ OpenFile' = OpenFile
  BY DEF OpenFile
<1>12. CachesOwned' /\ OnLists'
  BY <1>1, <1>4 DEF MemInv, CachesOwned, OnLists
<1> QED BY <1>1, <1>10, <1>11, <1>12 DEF MemInv

(* A line read is an instruction on the dispatch list, its data and the    *)
(* two nodes that point at it.                                             *)
LEMMA MemFetchLine ==
  ASSUME MemInv, FetchLine
  PROVE  MemInv'
<1>0. PICK k : k = Len(insts) + 1
  OBVIOUS
<1> DEFINE line == Scan(words, fields).fields
           added == {<<"data", k>>, <<"node", "inst", k>>, <<"node", "disp", k>>}
<1>1. /\ pc = "fetch" /\ pc' = pc /\ insts' = Append(insts, line) /\ on' = Append(on, "disp")
      /\ heap' = heap \cup added /\ twice' = twice
      /\ UNCHANGED <<dis, caches>>
  BY <1>0 DEF FetchLine, Allocate, config
<1> HIDE DEF line
<1>2. PICK T : insts \in Seq(T)
  BY DEF MemInv, OnLists
<1>3. insts \in Seq(T \cup {line})
  BY <1>2, SeqDef, LenProperties, ElementOfSeq
<1>4. insts' \in Seq(T \cup {line}) /\ Len(insts') = Len(insts) + 1
  BY <1>1, <1>3, AppendProperties
<1>5. /\ on \in Seq(Lists) /\ on' \in Seq(Lists) /\ Len(on') = Len(on) + 1 /\ Len(on) = Len(insts)
      /\ Len(insts) \in Nat
      /\ \A m \in 1..Len(on) : on'[m] = on[m]
      /\ on'[k] = "disp"
  BY <1>0, <1>1, <1>2, AppendProperties, LenProperties DEF MemInv, OnLists, Lists
<1>6. DOMAIN insts = 1..Len(insts) /\ DOMAIN insts' = DOMAIN insts \cup {k} /\ k \notin DOMAIN insts
  BY <1>0, <1>3, <1>4, <1>5, LenProperties
<1>7. OnLists'
  BY <1>4, <1>5 DEF OnLists
<1>8. InstNodes' = InstNodes \cup {<<"node", "inst", k>>} /\ Data' = Data \cup {<<"data", k>>}
  BY <1>6 DEF InstNodes, Data
<1>9. ListNodes' = ListNodes \cup {<<"node", "disp", k>>}
  <2>1. \A m \in DOMAIN insts : on[m] \in Lists /\ on'[m] = on[m]
    BY <1>5, <1>6, ElementOfSeq
  <2>2. "disp" \in Lists
    BY DEF Lists
  <2>3. \A l \in Lists : NodesOn(l) = {<<"node", l, m>> : m \in {n \in DOMAIN insts : on[n] = l}}
    BY DEF NodesOn, OnList
  <2>4. \A l \in Lists : NodesOn(l)' = {<<"node", l, m>> : m \in {n \in DOMAIN insts' : on'[n] = l}}
    BY DEF NodesOn, OnList
  <2>5. ListNodes = {<<"node", on[m], m>> : m \in DOMAIN insts}
    BY <2>1, <2>3 DEF ListNodes
  <2>6. \A m \in DOMAIN insts' : on'[m] \in Lists
    BY <1>5, <1>6, <2>1, <2>2
  <2>7. ListNodes' = UNION {NodesOn(l)' : l \in Lists}
    BY DEF ListNodes, Lists
  <2>8. ListNodes' = {<<"node", on'[m], m>> : m \in DOMAIN insts'}
    BY <2>4, <2>6, <2>7
  <2>9. ListNodes' = {<<"node", on'[m], m>> : m \in DOMAIN insts} \cup {<<"node", on'[k], k>>}
    BY <1>6, <2>8
  <2>10. {<<"node", on'[m], m>> : m \in DOMAIN insts} = ListNodes
    BY <2>1, <2>5
  <2> QED BY <1>5, <2>9, <2>10
<1>10. Tagstores' = Tagstores /\ Table' = Table /\ HeadersLeft' = HeadersLeft
  BY <1>1 DEF Tagstores, Held, Table, HeadersLeft
<1>11. Owned' = Owned \cup added
  BY <1>1, <1>8, <1>9, <1>10 DEF Owned, NodesLeft, DataLeft
<1>12. OpenFile \notin added /\ OpenFile' = OpenFile
  BY DEF OpenFile
<1>13. CachesOwned'
  BY <1>1 DEF MemInv, CachesOwned
<1> QED BY <1>1, <1>7, <1>11, <1>12, <1>13 DEF MemInv

LEMMA MemLoop ==
  ASSUME MemInv, OpenFails \/ Open \/ Fetch \/ Again \/ LoopEnds \/ Moves
  PROVE  MemInv'
<1>1. CASE OpenFails
  BY <1>1, MemKept DEF OpenFails, MemInv, config, reader, Running
<1>2. CASE Open
  BY <1>2, MemOpen
<1>3. CASE FetchCall
  BY <1>3, MemKept DEF FetchCall, MemInv, config, Running
<1>4. CASE FetchLine
  BY <1>4, MemFetchLine
<1>5. CASE FetchEOF
  BY <1>5, MemKept DEF FetchEOF, MemInv, config, Running
<1>6. CASE FetchReturn
  BY <1>6, MemKept DEF FetchReturn, MemInv, config, reader, Running
<1>7. CASE Again
  BY <1>7, MemKept DEF Again, MemInv, config, reader, Running
<1>8. CASE LoopEnds
  BY <1>8, MemKept DEF LoopEnds, LoopDrained, CounterWraps, LeaveLoop, MemInv, config,
                        reader, Running
<1>9. CASE Moves
  BY <1>9, MemMove DEF Moves
<1> QED BY <1>1, <1>2, <1>3, <1>4, <1>5, <1>6, <1>7, <1>8, <1>9 DEF Fetch
(* What dis_cleanup gives back is there, all of it, and nothing that is    *)
(* given back later goes with it.                                          *)
LEMMA Freed ==
  ASSUME MemInv, NEW blocks \in SUBSET Owned, Free(blocks), OpenFile \notin heap
  PROVE  heap' = Owned \ blocks /\ ~twice'
BY DEF MemInv, Free

LEMMA MemCleanFile ==
  ASSUME MemInv, CleanFile
  PROVE  MemInv'
<1>1. /\ pc = "cleanFile" /\ pc' = "cleanCaches" /\ heap' = heap \ {OpenFile} /\ ~twice'
      /\ UNCHANGED <<dis, caches, insts, on>>
  BY DEF CleanFile, Free, config, reader, MemInv, OpenFile
<1>2. Owned' = Owned
  BY <1>1, OwnedStays DEF Owned, Table, HeadersLeft, NodesLeft, DataLeft
<1>3. CachesOwned' /\ OnLists' /\ OpenFile' = OpenFile
  BY <1>1 DEF MemInv, CachesOwned, OnLists, OpenFile
<1> QED BY <1>1, <1>2, <1>3 DEF MemInv

LEMMA MemCleanCaches ==
  ASSUME MemInv, CleanCaches
  PROVE  MemInv'
<1>1. pc = "cleanCaches" /\ pc' = "cleanTable" /\ UNCHANGED <<insts, on>>
  BY DEF CleanCaches, reader
<1>2. ListNodes' = ListNodes /\ InstNodes' = InstNodes /\ Data' = Data
  BY <1>1 DEF ListNodes, NodesOn, OnList, InstNodes, Data
<1>3. Tagstores' = {} /\ dis'.l1 = NULL /\ dis'.l2 = NULL /\ DOMAIN caches' = {"l1", "l2"}
  <2>1. dis'.l1 = NULL /\ dis'.l2 = NULL
    BY DEF CleanCaches, MemInv, CachesOwned
  <2>2. DOMAIN caches' = {"l1", "l2"}
    BY DEF CleanCaches, MemInv, CachesOwned
  <2>3. Tagstores' = {}
    BY <2>1 DEF Tagstores, Held
  <2> QED BY <2>1, <2>2, <2>3
<1>4. OpenFile \notin heap
  BY <1>1 DEF MemInv
<1>5. heap' = Owned \ Tagstores /\ ~twice'
  <2>1. CASE dis.l1 # NULL
    <3>1. Free(Tagstores)
      BY <2>1 DEF CleanCaches, Tagstores
    <3> QED BY <1>4, <3>1, Freed DEF Owned
  <2>2. CASE dis.l1 = NULL
    <3>1. dis.l2 = NULL
      BY <2>2 DEF MemInv, CachesOwned
    <3>2. Tagstores = {}
      BY <2>2, <3>1 DEF Tagstores, Held
    <3> QED BY <1>4, <2>2, <3>2 DEF CleanCaches, MemInv
  <2> QED BY <2>1, <2>2
<1>6. \A b \in Tagstores : b \notin Table \cup HeadersLeft \cup NodesLeft \cup DataLeft
  BY <1>1, BlockKinds, CacheBlocks DEF MemInv, Table, HeadersLeft, NodesLeft, DataLeft
<1>7. Owned' = Owned \ Tagstores
  BY <1>1, <1>2, <1>3, <1>6 DEF Owned, Table, HeadersLeft, NodesLeft, DataLeft
<1>8. CachesOwned' /\ OnLists' /\ OpenFile' = OpenFile
  BY <1>1, <1>3 DEF MemInv, CachesOwned, OnLists, OpenFile
<1>9. OpenFile \notin heap'
  BY <1>4, <1>5 DEF MemInv
<1> QED BY <1>5, <1>7, <1>8, <1>9 DEF MemInv

LEMMA MemCleanTable ==
  ASSUME MemInv, CleanTable
  PROVE  MemInv'
<1>1. /\ pc = "cleanTable" /\ pc' = "cleanLists" /\ Free({<<"rmt">>})
      /\ UNCHANGED <<dis, caches, insts, on>>
  BY DEF CleanTable, config, reader
<1>2. OpenFile \notin heap
  BY <1>1 DEF MemInv
<1>3. heap' = Owned \ {<<"rmt">>} /\ ~twice'
  BY <1>1, <1>2, Freed DEF Owned, Table
<1>4. <<"rmt">> \notin HeadersLeft \cup Tagstores \cup NodesLeft \cup DataLeft
  BY <1>1, BlockKinds, CacheBlocks DEF MemInv, HeadersLeft, NodesLeft, DataLeft
<1>5. Owned' = Owned \ {<<"rmt">>}
  BY <1>1, <1>4, OwnedStays DEF Owned, Table, HeadersLeft, NodesLeft, DataLeft
<1>6. CachesOwned' /\ OnLists' /\ OpenFile' = OpenFile
  BY <1>1 DEF MemInv, CachesOwned, OnLists, OpenFile
<1> QED BY <1>2, <1>3, <1>5, <1>6 DEF MemInv

LEMMA MemCleanLists ==
  ASSUME MemInv, CleanLists
  PROVE  MemInv'
<1>1. /\ pc = "cleanLists" /\ pc' = "cleanInsts" /\ Free(ListBlocks)
      /\ UNCHANGED <<dis, caches, insts, on>>
  BY DEF CleanLists, config, reader
<1>2. OpenFile \notin heap
  BY <1>1 DEF MemInv
<1>3. ListBlocks = ListNodes \cup {Header(l) : l \in Lists}
      /\ Headers = {Header(l) : l \in Lists} \cup {Header("inst")}
  BY DEF ListBlocks, ListNodes, Headers
<1>4. heap' = Owned \ ListBlocks /\ ~twice'
  BY <1>1, <1>2, <1>3, Freed DEF Owned, HeadersLeft, NodesLeft
<1>5. /\ Tagstores = {} /\ Table = {} /\ HeadersLeft = Headers /\ NodesLeft = ListNodes
      /\ DataLeft = InstNodes \cup Data
  BY <1>1 DEF Tagstores, Held, Table, HeadersLeft, NodesLeft, DataLeft, MemInv, CachesOwned
<1>6. Header("inst") \notin ListBlocks
  BY <1>3, BlockKinds DEF Lists
<1>7. \A b \in InstNodes \cup Data : b \notin ListBlocks
  BY <1>3, BlockKinds DEF Lists
<1>8. Owned' = {Header("inst")} \cup InstNodes \cup Data
  <2>1. Header("inst")' = Header("inst")
    BY DEF Header
  <2> QED BY <1>1, <1>5, <2>1, OwnedStays DEF Owned, Table, HeadersLeft, NodesLeft, DataLeft
<1>9. Owned' = Owned \ ListBlocks
  BY <1>3, <1>5, <1>6, <1>7, <1>8 DEF Owned
<1>10. CachesOwned' /\ OnLists' /\ OpenFile' = OpenFile
  BY <1>1 DEF MemInv, CachesOwned, OnLists, OpenFile
<1> QED BY <1>2, <1>4, <1>9, <1>10 DEF MemInv

LEMMA MemCleanInsts ==
  ASSUME MemInv, CleanInsts
  PROVE  MemInv'
<1>1. /\ pc = "cleanInsts" /\ pc' = "exit" /\ Free(InstNodes \cup Data \cup {Header("inst")})
      /\ UNCHANGED <<dis, caches, insts, on>>
  BY DEF CleanInsts, config, reader
<1>2. OpenFile \notin heap
  BY <1>1 DEF MemInv
<1>3. Owned = InstNodes \cup Data \cup {Header("inst")}
  BY <1>1 DEF Owned, Tagstores, Held, Table, HeadersLeft, NodesLeft, DataLeft, MemInv, CachesOwned
<1>4. heap' = {} /\ ~twice'
  BY <1>1, <1>2, <1>3, Freed
<1>5. Tagstores' = {}
  BY <1>1 DEF Tagstores, Held, MemInv, CachesOwned
<1>6. Owned' = {}
  BY <1>1, <1>5 DEF Owned, Table, HeadersLeft, NodesLeft, DataLeft
<1>7. CachesOwned' /\ OnLists'
  BY <1>1 DEF MemInv, CachesOwned, OnLists
<1> QED BY <1>4, <1>6, <1>7 DEF MemInv

LEMMA NextMemInv ==
  ASSUME MemInv, [Next]_frontVars
  PROVE  MemInv'
<1>1. CASE DisInit
  BY <1>1, MemDisInit
<1>2. CASE Parse
  BY <1>2, MemParse
<1>3. CASE OpenFails \/ Open \/ Fetch \/ Again \/ LoopEnds \/ Moves
  BY <1>3, MemLoop
<1>4. CASE Cleanup
  BY <1>4, MemCleanFile, MemCleanCaches, MemCleanTable, MemCleanLists, MemCleanInsts DEF Cleanup
<1>5. CASE UNCHANGED frontVars
  <2>1. UNCHANGED <<pc, dis, caches, heap, twice, insts, on>>
    BY <1>5 DEF frontVars, config, reader
  <2>2. Owned' = Owned
    BY <2>1, OwnedStays DEF Owned, Table, HeadersLeft, NodesLeft, DataLeft
  <2> QED BY <2>1, <2>2 DEF MemInv, CachesOwned, OnLists, OpenFile
<1> QED BY <1>1, <1>2, <1>3, <1>4, <1>5 DEF Next, Main

(* On every way out, a loop that the cycle counter ends with instructions  *)
(* on every list among them, all memory is given back and the file is      *)
(* closed, and nothing is given back twice, though an instruction's data   *)
(* is reached from two lists (dis_cleanup); and while the pipeline runs    *)
(* every node of its lists is allocated.                                   *)
THEOREM MemoryBalances == Spec => []MemoryBalanced
<1>1. Init => MemInv
  BY MemInit
<1>2. MemInv /\ [Next]_frontVars => MemInv'
  BY NextMemInv
<1>3. MemInv => MemoryBalanced
  <2> SUFFICES ASSUME MemInv PROVE MemoryBalanced
    OBVIOUS
  <2>1. ASSUME pc = "exit" PROVE heap = {}
    <3>1. Tagstores = {}
      BY <2>1 DEF Tagstores, Held, MemInv, CachesOwned
    <3>2. Owned = {}
      BY <2>1, <3>1 DEF Owned, Table, HeadersLeft, NodesLeft, DataLeft
    <3> QED BY <2>1, <3>2 DEF MemInv
  <2>2. ASSUME pc \in {"stages", "fetch", "test"}
        PROVE  (UNION {NodesOn(l) : l \in Lists}) \cup InstNodes \cup Data \subseteq heap
    BY <2>2 DEF MemInv, Owned, NodesLeft, DataLeft, ListNodes
  <2> QED BY <2>1, <2>2 DEF MemInv, MemoryBalanced
<1> QED BY <1>1, <1>2, <1>3, PTL DEF Spec
=============================================================================
