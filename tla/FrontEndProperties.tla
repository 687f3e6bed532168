-------------------------- MODULE FrontEndProperties --------------------------
(* What the life of the program must keep true. *)
EXTENDS FrontEnd

(* Memory balances on every way out, after a bad call, an unreadable file  *)
(* or a loop that left instructions on its lists: at the end nothing is    *)
(* allocated and the file is closed, and nothing was freed twice although  *)
(* an instruction's data is reached from two lists (dis_cleanup); and      *)
(* until then every node a list holds is allocated.                        *)
MemoryBalanced ==
  /\ ~twice
  /\ pc = "exit" => heap = {}
  /\ pc \in {"stages", "fetch", "test"} =>
       (UNION {NodesOn(l) : l \in Lists}) \cup InstNodes \cup Data \subseteq heap

(* The program holds three opinions on whether there is an L2: dis->l2,    *)
(* which dis_parse_input sets and the report and dis_cleanup read;         *)
(* g_l2_present, by which a miss finds it; and next_cache, by which a      *)
(* write back does.  Once the arguments are read they agree, and any cache *)
(* they lead to has a tagstore.                                            *)
CachesWired ==
  pc \in {"open", "stages", "fetch", "test", "cleanFile"} /\ args.argc =>
    /\ dis.l2 # NULL <=> l2Present
    /\ caches["l1"].next = dis.l2
    /\ \A c \in {dis.l1, dis.l2} \ {NULL} : caches[c].tagstore
    /\ dis.l2 # NULL => dis.l1 # NULL

(* The file is read line by line as far as its lines are complete: the     *)
(* instructions fetched are its first lines, each once, and a line cut     *)
(* short spoils none before it; when every line is complete, nothing else  *)
(* is fetched, and all of them have been when the loop drained, whether or *)
(* not the last line ends in a newline, however often fetch was refused    *)
(* and went on in a later cycle (dis_fetch).  A loop that the counter      *)
(* ended, with instructions in flight, may have left lines unread.         *)
Complete == args.whole = Len(args.lines)
LinesReadExactly ==
  /\ \A k \in DOMAIN insts : k <= args.whole => insts[k] = args.lines[k]
  /\ args.opens /\ Complete => Len(insts) <= Len(args.lines)
  /\ pc = "exit" /\ ~Busy /\ args.argc /\ args.opens /\ Complete /\ args.n > 0 =>
       insts = args.lines

-----------------------------------------------------------------------------
(* The program ends, whatever the sizes and however lines are cut short,   *)
(* as long as fscanf can read something at each word of the file; and      *)
(* unless S is 0 or an instruction is never over, it does without the      *)
(* cycle counter coming round, which FairSpec supposes only of those.      *)
Readable == \A j \in 1..Len(args.words) : args.words[j] # Junk
ProgramEnds == Readable ~> pc \in {"exit", "crashed"}
=============================================================================
