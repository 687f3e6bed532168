--------------------------- MODULE DependenceProofs ---------------------------
(***************************************************************************)
(* True dependences hold out of order, for every bandwidth, queue size,    *)
(* register set and trace: no instruction enters EX before the             *)
(* instructions that produce its sources are in WB, no wakeup is missed    *)
(* or misdirected, and the register map table speaks of the last writer;   *)
(* and so the scheduler implements Dataflow.                               *)
(***************************************************************************)
EXTENDS SchedulerProofs

-----------------------------------------------------------------------------
(* The inductive invariant.  The three properties rest on each other, and  *)
(* on what makes a name identify its instruction: names only grow, a new   *)
(* one is larger than every one in use, and no two instructions in flight  *)
(* that write a register have the same.                                    *)
Names == {issue[i].dreg.name : i \in 1..Len(issue)}
           \cup {exec[i].dreg.name : i \in 1..Len(exec)}
Writer(j) == listInst[j].dreg \in Reg
NamesGiven ==
  /\ \A x \in Names : x <= regName
  /\ \A r \in Reg \cup {NoReg} : rmt[r].rnum = r /\ rmt[r].name <= regName
NamesUnique ==
  \A x \in Names : \A i, j \in Insts :
    Writer(i) /\ Writer(j) /\ Alive(i, x) /\ Alive(j, x) => i = j

(* Whatever was dispatched is older than whatever was not: InOrder without *)
(* the lists, for instructions in WB too.                                  *)
DispatchedOlder ==
  \A j, k \in Insts : Reached(j, "IS") /\ ~Reached(k, "IS") => j < k

(* No instruction is in WB before its time: g_cycle_num grows until it     *)
(* wraps to zero, which ends the loop.                                     *)
StampsPast ==
  /\ cycle < CycleMod
  /\ stage # "done" => \A j \in Insts : State(j) = "WB" => At(j, "WB") <= cycle

DepInv ==
  /\ NamesGiven /\ NamesUnique /\ DispatchedOlder /\ StampsPast
  /\ RMTLatest /\ NoLostWakeup /\ RAWOrder

-----------------------------------------------------------------------------
LEMMA PassedStates ==
  \A st \in InstState : /\ "IS" \in Passed(st) <=> st \in {"IS", "EX", "WB"}
                        /\ "EX" \in Passed(st) <=> st \in {"EX", "WB"}
BY DEF Passed, InstState

(* What instructions read and who produces it do not change. *)
LEMMA ProducersStay ==
  ASSUME Len(listInst) \in Nat, Len(listInst') \in Nat, Len(listInst') >= Len(listInst),
         \A m \in Insts : SameLine(m),
         NEW k \in Insts, NEW r
  PROVE  Producers(k, r)' = Producers(k, r) /\ Sources(k)' = Sources(k)
<1>1. \A j \in 1..(k - 1) : j \in Insts /\ \A m \in (j + 1)..(k - 1) : m \in Insts
  BY DEF Insts
<1>2. \A j \in 1..(k - 1) : Produces(j, k, r)' <=> Produces(j, k, r)
  BY <1>1 DEF Produces, SameLine
<1>3. Producers(k, r)' = Producers(k, r)
  BY <1>2 DEF Producers
<1>4. Sources(k)' = Sources(k)
  BY DEF Sources, SameLine
<1> QED BY <1>3, <1>4

(* A producer is an older instruction that writes the register, and there  *)
(* is one at most.                                                         *)
LEMMA OneProducer ==
  ASSUME Len(listInst) \in Nat, NEW k \in Insts, NEW r
  PROVE  /\ \A j \in Producers(k, r) : j \in Insts /\ j < k /\ listInst[j].dreg = r
         /\ \A i, j \in Producers(k, r) : i = j
<1>1. ASSUME NEW i \in Producers(k, r), NEW j \in Producers(k, r), i < j
      PROVE  FALSE
  <2>1. /\ i \in 1..(k - 1) /\ j \in 1..(k - 1) /\ k \in Nat
        /\ listInst[j].dreg = r /\ \A m \in (i + 1)..(k - 1) : listInst[m].dreg # r
    BY DEF Producers, Produces, Insts
  <2>2. j \in (i + 1)..(k - 1)
    BY <1>1, <2>1
  <2> QED BY <2>1, <2>2
<1>2. \A j \in Producers(k, r) : j \in Insts /\ j < k /\ listInst[j].dreg = r
  BY DEF Producers, Produces, Insts
<1> QED BY <1>1, <1>2 DEF Insts

(* An instruction in flight is in IS or EX, has one name, and every one in *)
(* IS or EX has a name.                                                    *)
LEMMA AliveInFlight ==
  ASSUME IInv, ListInv
  PROVE  /\ \A j, x : Alive(j, x) => /\ j \in Insts /\ State(j) \in {"IS", "EX"}
                                     /\ x \in Names /\ x \in Nat
         /\ \A j, x, y : Alive(j, x) /\ Alive(j, y) => x = y
         /\ \A i \in 1..Len(issue) : Alive(issue[i].data, issue[i].dreg.name)
         /\ \A i \in 1..Len(exec) : Alive(exec[i].data, exec[i].dreg.name)
<1>1. /\ \A i \in 1..Len(issue) : issue[i] \in Node
      /\ \A i \in 1..Len(exec) : exec[i] \in Node
  BY ElementOfSeq DEF IInv, TypeOK
<1>2. /\ \A i \in 1..Len(issue) : /\ issue[i].data \in Insts /\ issue[i].dreg.name \in Nat
                                  /\ State(issue[i].data) = "IS"
      /\ \A i \in 1..Len(exec) : /\ exec[i].data \in Insts /\ exec[i].dreg.name \in Nat
                                 /\ State(exec[i].data) = "EX"
  <2>1. /\ \A i \in 1..Len(issue) : issue[i].data \in Insts /\ issue[i].dreg.name \in Nat
        /\ \A i \in 1..Len(exec) : exec[i].data \in Insts /\ exec[i].dreg.name \in Nat
    BY <1>1 DEF Node, RegData
  <2> QED BY <2>1 DEF ListInv, Placed, DataOf
<1>3. \A j, x : Alive(j, x) => /\ j \in Insts /\ State(j) \in {"IS", "EX"}
                               /\ x \in Names /\ x \in Nat
  BY <1>2 DEF Alive, Names
<1>4. ASSUME NEW j, NEW x, NEW y, Alive(j, x), Alive(j, y)
      PROVE  x = y
  <2>1. OnceIn(issue) /\ OnceIn(exec)
    BY OrderedOnce DEF ListInv
  <2>2. CASE State(j) = "IS"
    BY <1>2, <1>4, <2>1, <2>2 DEF Alive, OnceIn
  <2>3. CASE State(j) = "EX"
    BY <1>2, <1>4, <2>1, <2>3 DEF Alive, OnceIn
  <2> QED BY <1>3, <1>4, <2>2, <2>3
<1>5. /\ \A i \in 1..Len(issue) : Alive(issue[i].data, issue[i].dreg.name)
      /\ \A i \in 1..Len(exec) : Alive(exec[i].data, exec[i].dreg.name)
  BY DEF Alive
<1> QED BY <1>3, <1>4, <1>5

-----------------------------------------------------------------------------
(* A source that tracks its producer goes on doing so while its ready bit  *)
(* does not change and its producers neither end nor lose their names.     *)
LEMMA TrackStays ==
  ASSUME Len(listInst) \in Nat, NEW k \in Insts, NEW src,
         SourceTracksProducer(k, src),
         \A r : Producers(k, r)' = Producers(k, r),
         \A j \in Insts : State(j)' = "WB" <=> State(j) = "WB",
         \A j, x : Alive(j, x) => Alive(j, x)'
  PROVE  SourceTracksProducer(k, src)'
<1>1. \A r : \A j \in Producers(k, r) : j \in Insts
  BY OneProducer
<1> QED BY <1>1 DEF SourceTracksProducer

(* A node of the issue list whose two sources are those of its instruction *)
(* and track their producers.                                              *)
NodeTracks(node) ==
  /\ node.sreg1.rnum = listInst[node.data].sreg1
  /\ node.sreg2.rnum = listInst[node.data].sreg2
  /\ SourceTracksProducer(node.data, node.sreg1)
  /\ SourceTracksProducer(node.data, node.sreg2)

LEMMA NodeStays ==
  ASSUME Len(listInst) \in Nat, Len(listInst') \in Nat, Len(listInst') >= Len(listInst),
         \A m \in Insts : SameLine(m),
         NEW node, node.data \in Insts, NodeTracks(node),
         \A j \in Insts : State(j)' = "WB" <=> State(j) = "WB",
         \A j, x : Alive(j, x) => Alive(j, x)'
  PROVE  NodeTracks(node)'
<1> DEFINE k == node.data
<1>1. \A r : Producers(k, r)' = Producers(k, r)
  BY ProducersStay
<1>2. SourceTracksProducer(k, node.sreg1)' /\ SourceTracksProducer(k, node.sreg2)'
  BY <1>1, TrackStays DEF NodeTracks
<1>3. listInst'[k].sreg1 = listInst[k].sreg1 /\ listInst'[k].sreg2 = listInst[k].sreg2
  BY DEF SameLine
<1> QED BY <1>2, <1>3 DEF NodeTracks

LEMMA WakeupStays ==
  ASSUME IInv, NoLostWakeup,
         Len(listInst) \in Nat, Len(listInst') \in Nat, Len(listInst') >= Len(listInst),
         \A m \in Insts : SameLine(m),
         \A j \in Insts : State(j)' = "WB" <=> State(j) = "WB",
         \A j, x : Alive(j, x) => Alive(j, x)',
         \A i \in 1..Len(issue') : \E m \in 1..Len(issue) : issue'[i] = issue[m]
  PROVE  NoLostWakeup'
<1>1. ASSUME NEW i \in 1..Len(issue')
      PROVE  NodeTracks(issue[i])'
  <2>1. PICK m \in 1..Len(issue) : issue'[i] = issue[m]
    OBVIOUS
  <2>2. issue[m].data \in Insts
    <3>1. issue[m] \in Node
      BY ElementOfSeq DEF IInv, TypeOK
    <3> QED BY <3>1 DEF Node
  <2>3. NodeTracks(issue[m])
    BY DEF NoLostWakeup, NodeTracks
  <2> QED BY <2>1, <2>2, <2>3, NodeStays DEF NodeTracks
<1> QED BY <1>1 DEF NoLostWakeup, NodeTracks

(* The table goes on speaking of the last writers while nobody is          *)
(* dispatched or ends.                                                     *)
LEMMA TableStays ==
  ASSUME RMTLatest, rmt' = rmt, Dispatched' = Dispatched,
         \A m \in Insts : SameLine(m),
         \A j \in Insts : State(j)' = "WB" <=> State(j) = "WB",
         \A j, x : Alive(j, x) => Alive(j, x)'
  PROVE  RMTLatest'
<1>1. \A j \in Dispatched : j \in Insts /\ listInst'[j].dreg = listInst[j].dreg
  BY DEF Dispatched, SameLine
<1> SUFFICES ASSUME NEW r \in Reg
             PROVE  LET writers == {j \in Dispatched' : listInst'[j].dreg = r}
                    IN  IF writers = {} THEN rmt'[r].ready /\ rmt'[r].name = 0
                        ELSE \E j \in writers :
                               /\ \A i \in writers : i <= j
                               /\ rmt'[r].ready <=> State(j)' = "WB"
                               /\ ~rmt'[r].ready => Alive(j, rmt[r].name)'
  BY DEF RMTLatest
<1> DEFINE writers == {j \in Dispatched : listInst[j].dreg = r}
<1>2. {j \in Dispatched' : listInst'[j].dreg = r} = writers
  BY <1>1
<1>3. CASE writers = {}
  BY <1>2, <1>3 DEF RMTLatest
<1>4. CASE writers # {}
  <2>1. PICK j \in writers : /\ \A i \in writers : i <= j
                             /\ rmt[r].ready <=> State(j) = "WB"
                             /\ ~rmt[r].ready => Alive(j, rmt[r].name)
    BY <1>4 DEF RMTLatest
  <2>2. j \in Insts
    BY <1>1
  <2>3. ~rmt'[r].ready => Alive(j, rmt[r].name)'
    BY <2>1
  <2> QED BY <1>2, <2>1, <2>2, <2>3
<1> QED BY <1>3, <1>4

(* Dependences hold while nobody enters EX. *)
LEMMA RAWStays ==
  ASSUME RAWOrder, Len(listInst) \in Nat, Len(listInst') \in Nat,
         Len(listInst') >= Len(listInst), \A m \in Insts : SameLine(m),
         \A m \in Insts' : Reached(m, "EX")' =>
           m \in Insts /\ Reached(m, "EX") /\ At(m, "EX")' = At(m, "EX"),
         \A j \in Insts : State(j) = "WB" => State(j)' = "WB" /\ At(j, "WB")' = At(j, "WB")
  PROVE  RAWOrder'
<1> SUFFICES ASSUME NEW k \in Insts', Reached(k, "EX")', NEW r \in Sources(k)',
                    NEW j \in Producers(k, r)'
             PROVE  State(j)' = "WB" /\ At(j, "WB")' <= At(k, "EX")'
  BY DEF RAWOrder
<1>1. k \in Insts /\ Reached(k, "EX") /\ At(k, "EX")' = At(k, "EX")
  OBVIOUS
<1>2. r \in Sources(k) /\ j \in Producers(k, r)
  BY <1>1, ProducersStay
<1>3. j \in Insts
  BY <1>1, <1>2, OneProducer
<1>4. State(j) = "WB" /\ At(j, "WB") <= At(k, "EX")
  BY <1>1, <1>2 DEF RAWOrder
<1> QED BY <1>1, <1>3, <1>4

-----------------------------------------------------------------------------
(* The effect of a stamp on states and stamps. *)
LEMMA OneEntersStates ==
  ASSUME IInv, NEW k \in Insts, NEW st \in InstState, OneEnters(k, st)
  PROVE  /\ Len(listInst) \in Nat /\ Len(listInst') = Len(listInst) /\ Insts' = Insts
         /\ \A m \in Insts : SameLine(m)
         /\ State(k)' = st /\ At(k, st)' = cycle
         /\ \A s \in InstState \ {st} : At(k, s)' = At(k, s)
         /\ \A m \in Insts \ {k} : State(m)' = State(m) /\ \A s : At(m, s)' = At(m, s)
<1>1. Len(listInst) \in Nat /\ Len(listInst') = Len(listInst) /\ Insts' = Insts
  BY LenProperties DEF IInv, TypeOK, OneEnters, Insts
<1>2. listInst[k] \in InstData
  BY ElementOfSeq DEF IInv, TypeOK, Insts
<1>3. listInst[k].cycle \in [InstState -> Nat]
  BY <1>2 DEF InstData
<1>4. /\ State(k)' = st /\ At(k, st)' = cycle
      /\ \A s \in InstState \ {st} : At(k, s)' = At(k, s)
  BY <1>3 DEF OneEnters, Enters, State, At
<1>5. \A m \in Insts \ {k} : State(m)' = State(m) /\ \A s : At(m, s)' = At(m, s)
  BY DEF OneEnters, Same, State, At
<1>6. \A m \in Insts : SameLine(m)
  BY DEF OneEnters, Enters, Same
<1> QED BY <1>1, <1>4, <1>5, <1>6

LEMMA StatesKnown == IInv => \A m \in Insts : State(m) \in InstState
<1> SUFFICES ASSUME IInv, NEW m \in Insts PROVE State(m) \in InstState
  OBVIOUS
<1>1. listInst[m] \in InstData
  BY ElementOfSeq DEF IInv, TypeOK, Insts
<1> QED BY <1>1 DEF InstData, State

(* Steps that touch neither the table nor the nodes in flight, and after   *)
(* which an instruction is in the state it was in, or in ID where it was   *)
(* in IF.                                                                  *)
LEMMA DepStay ==
  ASSUME IInv, ListInv, DepInv, UNCHANGED <<rmt, regName, issue, exec>>,
         Len(listInst') = Len(listInst),
         \A m \in Insts : Same(m) \/ (State(m) = "IF" /\ Enters(m, "ID")),
         cycle' \in Nat, cycle' < CycleMod,
         stage' # "done" => stage # "done" /\ cycle' >= cycle
  PROVE  DepInv'
<1>1. Len(listInst) \in Nat /\ cycle \in Nat /\ Insts' = Insts
  BY LenProperties DEF IInv, TypeOK, Insts
<1>2. \A m \in Insts : State(m) \in InstState /\ listInst[m] \in InstData
  BY StatesKnown, ElementOfSeq DEF IInv, TypeOK, Insts
<1>3. ASSUME NEW m \in Insts
      PROVE  /\ SameLine(m)
             /\ State(m)' \in InstState
             /\ \A st \in {"IS", "EX", "WB"} : State(m)' = st <=> State(m) = st
             /\ \A st \in {"IS", "EX", "WB"} : At(m, st)' = At(m, st)
  <2>1. CASE Same(m)
    BY <1>2, <2>1 DEF Same, State, At
  <2>2. CASE State(m) = "IF" /\ Enters(m, "ID")
    <3>1. listInst[m].cycle \in [InstState -> Nat]
      BY <1>2 DEF InstData
    <3>2. \A st \in {"IS", "EX", "WB"} : At(m, st)' = At(m, st)
      BY <2>2, <3>1 DEF Enters, At, InstState
    <3> QED BY <2>2, <3>2 DEF Enters, State, InstState
  <2> QED BY <2>1, <2>2
<1>4. \A j, x : Alive(j, x)' <=> Alive(j, x)
  BY DEF Alive
<1>5. \A m \in Insts : /\ Reached(m, "IS")' <=> Reached(m, "IS")
                       /\ Reached(m, "EX")' <=> Reached(m, "EX")
  BY <1>2, <1>3, PassedStates DEF Reached
<1>6. Dispatched' = Dispatched
  BY <1>1, <1>5 DEF Dispatched
<1>7. NamesGiven'
  BY DEF DepInv, NamesGiven, Names
<1>8. NamesUnique'
  BY <1>1, <1>3, <1>4 DEF DepInv, NamesUnique, Names, Writer, SameLine
<1>9. DispatchedOlder'
  BY <1>1, <1>5 DEF DepInv, DispatchedOlder
<1>10. StampsPast'
  <2>1. ASSUME stage' # "done", NEW j \in Insts, State(j)' = "WB"
        PROVE  At(j, "WB")' <= cycle'
    <3>1. At(j, "WB")' = At(j, "WB") /\ At(j, "WB") <= cycle
      BY <1>3, <2>1 DEF DepInv, StampsPast
    <3>2. At(j, "WB") \in Nat
      BY <1>2 DEF InstData, InstState, At
    <3> QED BY <1>1, <2>1, <3>1, <3>2
  <2> QED BY <1>1, <2>1 DEF StampsPast
<1>11. RMTLatest'
  BY <1>3, <1>4, <1>6, TableStays DEF DepInv
<1>12. NoLostWakeup'
  BY <1>1, <1>3, <1>4, WakeupStays DEF DepInv
<1>13. RAWOrder'
  BY <1>1, <1>3, <1>5, RAWStays DEF DepInv
<1> QED BY <1>7, <1>8, <1>9, <1>10, <1>11, <1>12, <1>13 DEF DepInv

-----------------------------------------------------------------------------
(* The nodes in flight after each of the steps that move one. *)
LEMMA AliveIssuePush ==
  ASSUME IInv, IssuePush
  PROVE  \A j, x : Alive(j, x)' <=> Alive(j, x)
<1>1. pos \in 1..Len(issue)
  BY IssuePushEffect
<1>2. /\ issue \in Seq(Node) /\ exec \in Seq(Node)
      /\ Len(issue) \in Nat /\ Len(exec) \in Nat
  BY LenProperties DEF IInv, TypeOK
<1>3. issue' = Without(issue, pos) /\ exec' = Append(exec, issue[pos])
  BY DEF IssuePush
<1>4. /\ \A i \in 1..Len(issue') :
           Place(pos, i) \in 1..Len(issue) /\ issue'[i] = issue[Place(pos, i)]
      /\ \A m \in 1..Len(issue) : m # pos => \E i \in 1..Len(issue') : Place(pos, i) = m
  BY <1>1, <1>2, <1>3, WithoutProperties, WithoutKeeps
<1>5. /\ Len(exec') = Len(exec) + 1 /\ exec'[Len(exec) + 1] = issue[pos]
      /\ \A i \in 1..Len(exec) : exec'[i] = exec[i]
  BY <1>1, <1>2, <1>3, ElementOfSeq, AppendProperties
<1>6. /\ \A i \in 1..Len(exec') : i \in 1..Len(exec) \/ i = Len(exec) + 1
      /\ Len(exec) + 1 \in 1..Len(exec') /\ \A i \in 1..Len(exec) : i \in 1..Len(exec')
  BY <1>2, <1>5
<1>7. ASSUME NEW j, NEW x, Alive(j, x)'
      PROVE  Alive(j, x)
  <2>1. CASE \E i \in 1..Len(issue') : issue'[i].data = j /\ issue'[i].dreg.name = x
    BY <1>4, <2>1 DEF Alive
  <2>2. CASE \E i \in 1..Len(exec') : exec'[i].data = j /\ exec'[i].dreg.name = x
    BY <1>1, <1>5, <1>6, <2>2 DEF Alive
  <2> QED BY <1>7, <2>1, <2>2 DEF Alive
<1>8. ASSUME NEW j, NEW x, Alive(j, x)
      PROVE  Alive(j, x)'
  <2>1. CASE \E i \in 1..Len(exec) : exec[i].data = j /\ exec[i].dreg.name = x
    BY <1>5, <1>6, <2>1 DEF Alive
  <2>2. ASSUME NEW m \in 1..Len(issue), issue[m].data = j, issue[m].dreg.name = x
        PROVE  Alive(j, x)'
    <3>1. CASE m = pos
      BY <1>5, <1>6, <2>2, <3>1 DEF Alive
    <3>2. CASE m # pos
      <4>1. PICK i \in 1..Len(issue') : Place(pos, i) = m
        BY <1>4, <3>2
      <4> QED BY <1>4, <2>2, <4>1 DEF Alive
    <3> QED BY <3>1, <3>2
  <2> QED BY <1>8, <2>1, <2>2 DEF Alive
<1> QED BY <1>7, <1>8

LEMMA AliveDispatchMove ==
  ASSUME IInv, DispatchMove
  PROVE  LET k == disp[pos]
             d == listInst[k]
             node == [data |-> k, sreg1 |-> rmt[d.sreg1], sreg2 |-> rmt[d.sreg2],
                      dreg |-> rmt'[d.dreg]]
         IN  /\ Len(issue) \in Nat /\ Len(issue') = Len(issue) + 1
             /\ issue'[Len(issue) + 1] = node
             /\ \A i \in 1..Len(issue) : issue'[i] = issue[i]
             /\ \A j, x : Alive(j, x)' <=> \/ Alive(j, x)
                                           \/ j = k /\ x = rmt'[d.dreg].name
<1> DEFINE k == disp[pos]
           d == listInst[k]
           node == [data |-> k, sreg1 |-> rmt[d.sreg1], sreg2 |-> rmt[d.sreg2],
                    dreg |-> rmt'[d.dreg]]
<1>1. issue \in Seq(Node \cup {node}) /\ Len(issue) \in Nat
  BY SeqMonotonic, LenProperties DEF IInv, TypeOK
<1>2. issue' = Append(issue, node)
  BY DEF DispatchMove, Operand
<1>3. node.data = k /\ node.dreg.name = rmt'[d.dreg].name
  OBVIOUS
<1> HIDE DEF node, k, d
<1>4. /\ Len(issue') = Len(issue) + 1 /\ issue'[Len(issue) + 1] = node
      /\ \A i \in 1..Len(issue) : issue'[i] = issue[i]
  BY <1>1, <1>2, AppendProperties
<1>5. /\ \A i \in 1..Len(issue') : i \in 1..Len(issue) \/ i = Len(issue) + 1
      /\ Len(issue) + 1 \in 1..Len(issue') /\ \A i \in 1..Len(issue) : i \in 1..Len(issue')
  BY <1>1, <1>4
<1>6. exec' = exec
  BY DEF DispatchMove
<1>7. \A j, x : Alive(j, x)' <=> Alive(j, x) \/ (j = k /\ x = rmt'[d.dreg].name)
  BY <1>3, <1>4, <1>5, <1>6 DEF Alive
<1> QED BY <1>1, <1>4, <1>7 DEF node, k, d

(* A completion takes one instruction out of flight, and what it tells a   *)
(* node of the issue list changes the two sources only.                    *)
LEMMA ExecuteCompleteNodes ==
  ASSUME IInv, ListInv, NEW lat \in Nat, ExecuteComplete(lat)
  PROVE  LET k == exec[pos].data
             x == exec[pos].dreg.name
         IN  /\ Len(issue') = Len(issue)
             /\ \A i \in 1..Len(issue) :
                  /\ issue'[i].data = issue[i].data /\ issue'[i].dreg = issue[i].dreg
                  /\ Writer(k) => /\ issue'[i].sreg1 = Wakeup(issue[i].sreg1, x)
                                  /\ issue'[i].sreg2 = Wakeup(issue[i].sreg2, x)
                  /\ ~Writer(k) => issue'[i] = issue[i]
             /\ \A j, y : Alive(j, y)' <=> Alive(j, y) /\ j # k
<1> DEFINE k == exec[pos].data
           x == exec[pos].dreg.name
           new(i) == [issue[i] EXCEPT !.sreg1 = Wakeup(@, x), !.sreg2 = Wakeup(@, x)]
<1>1. pos \in 1..Len(exec)
  BY ExecuteCompleteEffect
<1>2. UpdateRegs(listInst[k].dreg, x) /\ exec' = Without(exec, pos)
  BY DEF ExecuteComplete
<1>3. exec \in Seq(Node) /\ Len(issue) \in Nat /\ \A i \in 1..Len(issue) : issue[i] \in Node
  BY LenProperties, ElementOfSeq DEF IInv, TypeOK
<1>4. OnceIn(exec) /\ \A i \in 1..Len(issue) : issue[i].data # k
  <2>1. k \in Insts /\ k \in DataOf(exec)
    BY <1>1, ExecuteCompleteEffect DEF DataOf
  <2>2. k \notin DataOf(issue)
    BY <2>1 DEF ListInv, Placed
  <2> QED BY <2>2 DEF ListInv, DataOf
<1>5. ASSUME NEW i \in 1..Len(issue)
      PROVE  /\ new(i).data = issue[i].data /\ new(i).dreg = issue[i].dreg
             /\ new(i).sreg1 = Wakeup(issue[i].sreg1, x)
             /\ new(i).sreg2 = Wakeup(issue[i].sreg2, x)
  <2>1. issue[i] \in Node
    BY <1>3
  <2> QED BY <2>1 DEF Node
<1>6. Writer(k) => issue' = [i \in 1..Len(issue) |-> new(i)]
  BY <1>2 DEF UpdateRegs, Writer
<1>7. ~Writer(k) => issue' = issue
  BY <1>2 DEF UpdateRegs, Writer
<1> HIDE DEF new
<1>8. /\ Len(issue') = Len(issue)
      /\ \A i \in 1..Len(issue) :
           /\ issue'[i].data = issue[i].data /\ issue'[i].dreg = issue[i].dreg
           /\ Writer(k) => /\ issue'[i].sreg1 = Wakeup(issue[i].sreg1, x)
                           /\ issue'[i].sreg2 = Wakeup(issue[i].sreg2, x)
           /\ ~Writer(k) => issue'[i] = issue[i]
  <2>1. CASE Writer(k)
    BY <1>3, <1>5, <1>6, <2>1
  <2>2. CASE ~Writer(k)
    BY <1>7, <2>2
  <2> QED BY <2>1, <2>2
<1>9. /\ \A i \in 1..Len(exec') :
           /\ Place(pos, i) \in 1..Len(exec) /\ exec'[i] = exec[Place(pos, i)]
           /\ Place(pos, i) # pos
      /\ \A m \in 1..Len(exec) : m # pos => \E i \in 1..Len(exec') : Place(pos, i) = m
  <2>1. /\ \A i \in 1..Len(exec') :
             Place(pos, i) \in 1..Len(exec) /\ exec'[i] = exec[Place(pos, i)]
        /\ \A m \in 1..Len(exec) : m # pos => \E i \in 1..Len(exec') : Place(pos, i) = m
        /\ Len(exec') \in Nat
    BY <1>1, <1>2, <1>3, WithoutProperties, WithoutKeeps, LenProperties
  <2>2. \A i \in 1..Len(exec') : Place(pos, i) # pos
    BY <1>1, <2>1 DEF Place
  <2> QED BY <2>1, <2>2
<1>10. ASSUME NEW j, NEW y, Alive(j, y)'
       PROVE  Alive(j, y) /\ j # k
  <2>1. CASE \E i \in 1..Len(issue') : issue'[i].data = j /\ issue'[i].dreg.name = y
    BY <1>4, <1>8, <2>1 DEF Alive
  <2>2. ASSUME NEW i \in 1..Len(exec'), exec'[i].data = j, exec'[i].dreg.name = y
        PROVE  Alive(j, y) /\ j # k
    BY <1>1, <1>4, <1>9, <2>2 DEF Alive, OnceIn
  <2> QED BY <1>10, <2>1, <2>2 DEF Alive
<1>11. ASSUME NEW j, NEW y, Alive(j, y), j # k
       PROVE  Alive(j, y)'
  <2>1. CASE \E i \in 1..Len(issue) : issue[i].data = j /\ issue[i].dreg.name = y
    BY <1>8, <2>1 DEF Alive
  <2>2. ASSUME NEW m \in 1..Len(exec), exec[m].data = j, exec[m].dreg.name = y
        PROVE  Alive(j, y)'
    <3>1. PICK i \in 1..Len(exec') : Place(pos, i) = m
      BY <1>9, <1>11, <2>2
    <3> QED BY <1>9, <2>2, <3>1 DEF Alive
  <2> QED BY <1>11, <2>1, <2>2 DEF Alive
<1> QED BY <1>8, <1>10, <1>11

-----------------------------------------------------------------------------
LEMMA DepInit == Init => DepInv
<1> SUFFICES ASSUME Init PROVE DepInv
  OBVIOUS
<1>1. Insts = {} /\ 1..Len(issue) = {} /\ 1..Len(exec) = {}
  BY EmptySeq DEF Init, Insts
<1>2. NamesGiven /\ NamesUnique
  BY <1>1, RegAssumption DEF NamesGiven, NamesUnique, Names, Init
<1>3. DispatchedOlder /\ StampsPast
  BY <1>1, WidthAssumption DEF DispatchedOlder, StampsPast, Init
<1>4. RMTLatest
  <2>1. Dispatched = {}
    BY <1>1 DEF Dispatched
  <2>2. \A r \in Reg : rmt[r].ready /\ rmt[r].name = 0
    BY RegAssumption DEF Init
  <2> QED BY <2>1, <2>2 DEF RMTLatest
<1>5. NoLostWakeup /\ RAWOrder
  BY <1>1 DEF NoLostWakeup, RAWOrder
<1> QED BY <1>2, <1>3, <1>4, <1>5 DEF DepInv

(* A new instruction is the youngest: it produces nothing for the others,  *)
(* and is in IF.                                                           *)
LEMMA DepFetchInst ==
  ASSUME IInv, ListInv, DepInv, NEW e \in TraceEntry, FetchInst(e)
  PROVE  DepInv'
<1>0. PICK n : n = Len(listInst) + 1
  OBVIOUS
<1>1. /\ Len(listInst) \in Nat /\ Len(listInst') = n /\ \A m \in Insts : Same(m)
      /\ listInst'[n].state = "IF"
  BY <1>0, FetchInstEffect
<1>2. Insts' = Insts \cup {n} /\ n \notin Insts /\ \A m \in Insts : m \in Nat /\ m < n
  BY <1>0, <1>1 DEF Insts
<1>3. \A m \in Insts : /\ SameLine(m) /\ State(m)' = State(m)
                       /\ \A st : At(m, st)' = At(m, st)
  BY <1>1 DEF Same, State, At
<1>4. UNCHANGED <<stage, cycle, rmt, regName, issue, exec>>
  BY DEF FetchInst
<1>5. \A j, x : Alive(j, x)' <=> Alive(j, x)
  BY <1>4 DEF Alive
<1>6. /\ State(n)' = "IF" /\ ~Reached(n, "IS")' /\ ~Reached(n, "EX")'
      /\ \A m \in Insts : \A st : Reached(m, st)' <=> Reached(m, st)
  <2>1. State(n)' = "IF"
    BY <1>1 DEF State
  <2>2. ~Reached(n, "IS")' /\ ~Reached(n, "EX")'
    BY <2>1, PassedStates DEF Reached, InstState
  <2>3. \A m \in Insts : \A st : Reached(m, st)' <=> Reached(m, st)
    BY <1>3 DEF Reached
  <2> QED BY <2>1, <2>2, <2>3
<1>7. Dispatched' = Dispatched
  BY <1>2, <1>6 DEF Dispatched
<1>8. NamesGiven'
  BY <1>4 DEF DepInv, NamesGiven, Names
<1>9. NamesUnique'
  <2>1. \A j, x : Alive(j, x) => j \in Insts
    BY AliveInFlight
  <2> QED BY <1>3, <1>4, <1>5, <2>1 DEF DepInv, NamesUnique, Names, Writer, SameLine
<1>10. DispatchedOlder'
  BY <1>2, <1>6 DEF DepInv, DispatchedOlder
<1>11. StampsPast'
  BY <1>2, <1>3, <1>4, <1>6 DEF DepInv, StampsPast
<1>12. RMTLatest'
  BY <1>3, <1>4, <1>5, <1>7, TableStays DEF DepInv
<1>13. NoLostWakeup'
  BY <1>0, <1>1, <1>2, <1>3, <1>4, <1>5, WakeupStays DEF DepInv
<1>14. RAWOrder'
  BY <1>0, <1>1, <1>2, <1>3, <1>6, RAWStays DEF DepInv
<1> QED BY <1>8, <1>9, <1>10, <1>11, <1>12, <1>13, <1>14 DEF DepInv

(* An instruction enters EX with its sources ready, so that what produces  *)
(* them is in WB, and was there in this cycle or before.                   *)
LEMMA DepIssuePush ==
  ASSUME IInv, ListInv, DepInv, IssuePush
  PROVE  DepInv'
<1>0. PICK k : k = issue[pos].data
  OBVIOUS
<1>1. /\ pos \in 1..Len(issue) /\ issue[pos] \in Node /\ k \in Insts
      /\ OneEnters(k, "EX")
  BY <1>0, IssuePushEffect
<1>2. State(k) = "IS"
  BY <1>0, <1>1 DEF ListInv, Placed, DataOf
<1>3. /\ Len(listInst) \in Nat /\ Len(listInst') = Len(listInst) /\ Insts' = Insts
      /\ \A m \in Insts : SameLine(m)
      /\ State(k)' = "EX" /\ At(k, "EX")' = cycle
      /\ \A m \in Insts \ {k} : State(m)' = State(m) /\ \A s : At(m, s)' = At(m, s)
  <2>1. "EX" \in InstState
    BY DEF InstState
  <2> QED BY <1>1, <2>1, OneEntersStates
<1>4. UNCHANGED <<stage, cycle, rmt, regName>> /\ stage = "issue" /\ cycle \in Nat
  BY DEF IssuePush, IInv, TypeOK
<1>5. \A j, x : Alive(j, x)' <=> Alive(j, x)
  BY AliveIssuePush
<1>6. \A i \in 1..Len(issue') : \E m \in 1..Len(issue) : issue'[i] = issue[m]
  <2>1. issue \in Seq(Node) /\ issue' = Without(issue, pos)
    BY DEF IssuePush, IInv, TypeOK
  <2> QED BY <1>1, <2>1, WithoutProperties
<1>7. OperandsReady(issue[pos])
  BY DEF IssuePush, CanIssue
<1>8. NodeTracks(issue[pos])
  BY <1>1 DEF DepInv, NoLostWakeup, NodeTracks
<1>9. ASSUME NEW r \in Sources(k), NEW j \in Producers(k, r)
      PROVE  State(j) = "WB"
  <2>1. r \in Reg /\ (r = listInst[k].sreg1 \/ r = listInst[k].sreg2)
    BY DEF Sources
  <2>2. CASE r = listInst[k].sreg1
    BY <1>0, <1>7, <1>8, <2>1, <2>2 DEF OperandsReady, NodeTracks, SourceTracksProducer
  <2>3. CASE r = listInst[k].sreg2
    BY <1>0, <1>7, <1>8, <2>1, <2>3 DEF OperandsReady, NodeTracks, SourceTracksProducer
  <2> QED BY <2>1, <2>2, <2>3
<1>10. \A m \in Insts : State(m)' = "WB" <=> State(m) = "WB"
  BY <1>2, <1>3
<1>11. /\ \A m \in Insts : Reached(m, "IS")' <=> Reached(m, "IS")
       /\ \A m \in Insts \ {k} : Reached(m, "EX")' <=> Reached(m, "EX")
  BY <1>1, <1>2, <1>3, PassedStates DEF Reached, InstState
<1>12. Dispatched' = Dispatched
  BY <1>3, <1>11 DEF Dispatched
<1>13. NamesGiven' /\ NamesUnique'
  <2>1. Names' \subseteq Names
    <3>1. \A x \in Names' : \E j : Alive(j, x)'
      BY DEF Names, Alive
    <3> QED BY <1>5, <3>1, AliveInFlight
  <2> QED BY <1>3, <1>4, <1>5, <2>1
          DEF DepInv, NamesGiven, NamesUnique, Writer, SameLine
<1>14. DispatchedOlder'
  BY <1>3, <1>11 DEF DepInv, DispatchedOlder
<1>15. StampsPast'
  BY <1>2, <1>3, <1>4, <1>10 DEF DepInv, StampsPast
<1>16. RMTLatest'
  BY <1>3, <1>4, <1>5, <1>10, <1>12, TableStays DEF DepInv
<1>17. NoLostWakeup'
  BY <1>3, <1>5, <1>6, <1>10, WakeupStays DEF DepInv
<1>18. RAWOrder'
  <2> SUFFICES ASSUME NEW m \in Insts, Reached(m, "EX")', NEW r \in Sources(m)',
                      NEW j \in Producers(m, r)'
               PROVE  State(j)' = "WB" /\ At(j, "WB")' <= At(m, "EX")'
    BY <1>3 DEF RAWOrder
  <2>1. r \in Sources(m) /\ j \in Producers(m, r)
    BY <1>3, ProducersStay
  <2>2. j \in Insts
    BY <1>3, <2>1, OneProducer
  <2>3. CASE m = k
    <3>1. State(j) = "WB" /\ At(j, "WB") <= cycle
      BY <1>4, <1>9, <2>1, <2>2, <2>3 DEF DepInv, StampsPast
    <3>2. j # k
      BY <1>2, <3>1
    <3> QED BY <1>3, <2>2, <2>3, <3>1, <3>2
  <2>4. CASE m # k
    <3>1. State(j) = "WB" /\ At(j, "WB") <= At(m, "EX")
      BY <1>11, <2>1, <2>4 DEF DepInv, RAWOrder
    <3>2. j # k
      BY <1>2, <3>1
    <3> QED BY <1>3, <2>2, <2>4, <3>1, <3>2
  <2> QED BY <2>3, <2>4
<1> QED BY <1>13, <1>14, <1>15, <1>16, <1>17, <1>18 DEF DepInv

-----------------------------------------------------------------------------
(* When exactly the older instructions have been dispatched, the table has *)
(* for every register what an instruction must wait for.                   *)
LEMMA TableTracks ==
  ASSUME IInv, DepInv, Len(listInst) \in Nat, NEW k \in Insts,
         \A j \in Insts : Reached(j, "IS") <=> j < k,
         NEW r \in Reg \cup {NoReg}
  PROVE  rmt[r].rnum = r /\ SourceTracksProducer(k, rmt[r])
<1>1. rmt[r].rnum = r
  BY DEF DepInv, NamesGiven
<1>2. ASSUME r \in Reg
      PROVE  /\ rmt[r].ready <=> \A j \in Producers(k, r) : State(j) = "WB"
             /\ ~rmt[r].ready => \E j \in Producers(k, r) : Alive(j, rmt[r].name)
  <2> DEFINE writers == {j \in Dispatched : listInst[j].dreg = r}
  <2>1. \A j : j \in writers <=> j \in 1..(k - 1) /\ listInst[j].dreg = r
    BY DEF Dispatched, Insts
  <2>2. CASE writers = {}
    <3>1. Producers(k, r) = {}
      BY <2>1, <2>2 DEF Producers, Produces
    <3>2. rmt[r].ready
      BY <1>2, <2>2 DEF DepInv, RMTLatest
    <3> QED BY <3>1, <3>2
  <2>3. CASE writers # {}
    <3>1. PICK j \in writers : /\ \A i \in writers : i <= j
                               /\ rmt[r].ready <=> State(j) = "WB"
                               /\ ~rmt[r].ready => Alive(j, rmt[r].name)
      BY <1>2, <2>3 DEF DepInv, RMTLatest
    <3>2. j \in Producers(k, r)
      <4>1. j \in 1..(k - 1) /\ listInst[j].dreg = r /\ k \in Nat
        BY <2>1 DEF Insts
      <4>2. ASSUME NEW m \in (j + 1)..(k - 1), listInst[m].dreg = r
            PROVE  FALSE
        <5>1. m \in 1..(k - 1) /\ j < m
          BY <4>1
        <5> QED BY <2>1, <3>1, <4>1, <4>2, <5>1
      <4> QED BY <4>1, <4>2 DEF Producers, Produces
    <3>3. \A i \in Producers(k, r) : i = j
      BY <3>2, OneProducer
    <3> QED BY <3>1, <3>2, <3>3
  <2> QED BY <2>2, <2>3
<1> QED BY <1>1, <1>2 DEF SourceTracksProducer

(* An instruction is dispatched behind exactly the older ones.  It takes   *)
(* what the table says of its sources, and then the table speaks of it.    *)
LEMMA DepDispatchMove ==
  ASSUME IInv, ListInv, DepInv, DispatchMove
  PROVE  DepInv'
<1>0. PICK k : k = disp[pos]
  OBVIOUS
<1>1. pos = 1 /\ pos \in 1..Len(disp) /\ k \in Insts /\ OneEnters(k, "IS")
  BY <1>0, DispatchMoveEffect
<1>2. PICK q : q = listInst[k].dreg
  OBVIOUS
<1>3. State(k) = "ID"
  BY <1>0 DEF DispatchMove, CanDispatch
<1>4. /\ Len(listInst) \in Nat /\ Len(listInst') = Len(listInst) /\ Insts' = Insts
      /\ \A m \in Insts : SameLine(m)
      /\ State(k)' = "IS"
      /\ \A s \in {"EX", "WB"} : At(k, s)' = At(k, s)
      /\ \A m \in Insts \ {k} : State(m)' = State(m) /\ \A s : At(m, s)' = At(m, s)
  <2>1. "IS" \in InstState /\ \A s \in {"EX", "WB"} : s \in InstState \ {"IS"}
    BY DEF InstState
  <2> QED BY <1>1, <2>1, OneEntersStates
<1>5. UNCHANGED <<stage, cycle>> /\ RenameDreg(q)
  BY <1>0, <1>2 DEF DispatchMove
<1>6. /\ Len(issue) \in Nat /\ Len(issue') = Len(issue) + 1
      /\ issue'[Len(issue) + 1] = [data |-> k, sreg1 |-> rmt[listInst[k].sreg1],
                                   sreg2 |-> rmt[listInst[k].sreg2], dreg |-> rmt'[q]]
      /\ \A i \in 1..Len(issue) : issue'[i] = issue[i]
      /\ \A j, x : Alive(j, x)' <=> Alive(j, x) \/ (j = k /\ x = rmt'[q].name)
  BY <1>0, <1>2, AliveDispatchMove
<1>7. /\ q \in Reg \cup {NoReg} /\ listInst[k].sreg1 \in Reg \cup {NoReg}
      /\ listInst[k].sreg2 \in Reg \cup {NoReg}
  <2>1. listInst[k] \in InstData
    BY <1>1, ElementOfSeq DEF IInv, TypeOK, Insts
  <2> QED BY <1>2, <2>1 DEF InstData
<1>8. regName \in Nat /\ rmt \in [Reg \cup {NoReg} -> RegData] /\ cycle \in Nat
  BY DEF IInv, TypeOK
<1>9. /\ q \in Reg => /\ regName' = regName + 1 /\ rmt'[q].name = regName + 1
                      /\ rmt'[q].ready = FALSE /\ rmt'[q].rnum = rmt[q].rnum
                      /\ \A r \in Reg \cup {NoReg} : r # q => rmt'[r] = rmt[r]
      /\ q \notin Reg => rmt' = rmt /\ regName' = regName
  <2>1. PICK row : row = [rmt[q] EXCEPT !.name = regName + 1, !.ready = FALSE]
    OBVIOUS
  <2>2. rmt[q] \in RegData
    BY <1>7, <1>8
  <2>3. row.name = regName + 1 /\ row.ready = FALSE /\ row.rnum = rmt[q].rnum
    BY <2>1, <2>2 DEF RegData
  <2>4. q \in Reg => rmt' = [rmt EXCEPT ![q] = row] /\ regName' = regName + 1
    BY <1>5, <2>1 DEF RenameDreg
  <2>5. q \notin Reg => rmt' = rmt /\ regName' = regName
    BY <1>5 DEF RenameDreg
  <2> QED BY <1>7, <1>8, <2>3, <2>4, <2>5
<1>10. \A j \in Insts : Reached(j, "IS") <=> j < k
  <2>1. \A j \in Insts : Reached(j, "IS") => j < k
    <3>1. ~Reached(k, "IS")
      BY <1>3, PassedStates DEF Reached, InstState
    <3> QED BY <1>1, <3>1 DEF DepInv, DispatchedOlder
  <2>2. ASSUME NEW j \in Insts, j < k, ~Reached(j, "IS")
        PROVE  FALSE
    <3>1. State(j) \in {"IF", "ID"}
      BY <2>2, StatesKnown, PassedStates DEF Reached, InstState
    <3>2. PICK i \in 1..Len(disp) : disp[i] = j
      BY <3>1 DEF ListInv, Placed, ItemsOf
    <3>3. i = 1 \/ 1 < i
      BY <3>2
    <3>4. k <= j
      BY <1>0, <1>1, <3>2, <3>3 DEF IInv, InOrder, Insts
    <3> QED BY <1>1, <2>2, <3>4 DEF Insts
  <2> QED BY <2>1, <2>2
<1>11. \A m \in Insts : State(m)' = "WB" <=> State(m) = "WB"
  BY <1>3, <1>4
<1>12. /\ \A m \in Insts : Reached(m, "IS")' <=> m <= k
       /\ \A m \in Insts : Reached(m, "EX")' <=> Reached(m, "EX")
  <2>1. Reached(k, "IS")' /\ ~Reached(k, "EX")' /\ ~Reached(k, "EX")
    BY <1>3, <1>4, PassedStates DEF Reached, InstState
  <2>2. \A m \in Insts \ {k} : \A s : Reached(m, s)' <=> Reached(m, s)
    BY <1>4 DEF Reached
  <2>3. \A m \in Insts \ {k} : m <= k <=> m < k
    BY <1>1 DEF Insts
  <2>4. k <= k
    BY <1>1 DEF Insts
  <2> QED BY <1>1, <1>10, <2>1, <2>2, <2>3, <2>4
<1>13. \A x \in Names : x <= regName /\ x \in Nat
  <2>1. \A x \in Names : \E j : Alive(j, x)
    BY DEF Names, Alive
  <2> QED BY <2>1, AliveInFlight DEF DepInv, NamesGiven
<1>14. \A x \in Names' : x \in Names \/ x = rmt'[q].name
  <2>1. \A x \in Names' : \E j : Alive(j, x)'
    BY DEF Names, Alive
  <2> QED BY <1>6, <2>1, AliveInFlight
<1>15. rmt'[q].name <= regName' /\ regName <= regName'
  BY <1>7, <1>8, <1>9 DEF DepInv, NamesGiven
<1>16. NamesGiven'
  <2>1. \A x \in Names' : x <= regName'
    BY <1>8, <1>9, <1>13, <1>14, <1>15
  <2>2. \A r \in Reg \cup {NoReg} : rmt'[r].rnum = r /\ rmt'[r].name <= regName'
    <3> TAKE r \in Reg \cup {NoReg}
    <3>1. rmt[r].rnum = r /\ rmt[r].name <= regName /\ rmt[r].name \in Nat
      BY <1>8 DEF DepInv, NamesGiven, RegData
    <3> QED BY <1>7, <1>8, <1>9, <1>15, <3>1
  <2> QED BY <2>1, <2>2 DEF NamesGiven
<1>17. NamesUnique'
  <2> SUFFICES ASSUME NEW x \in Names', NEW i \in Insts, NEW j \in Insts,
                      Writer(i)', Writer(j)', Alive(i, x)', Alive(j, x)'
               PROVE  i = j
    BY <1>4 DEF NamesUnique
  <2>1. Writer(i) /\ Writer(j)
    BY <1>4 DEF Writer, SameLine
  <2>2. ASSUME NEW a \in Insts, NEW b \in Insts, Writer(b), b = k, x = rmt'[q].name,
               Alive(a, x)
        PROVE  FALSE
    <3>1. x = regName + 1
      BY <1>2, <1>9, <2>2 DEF Writer
    <3>2. x \in Names
      BY <2>2, AliveInFlight
    <3> QED BY <1>8, <1>13, <3>1, <3>2
  <2>3. CASE Alive(i, x) /\ Alive(j, x)
    BY <2>1, <2>3, AliveInFlight DEF DepInv, NamesUnique
  <2> QED BY <1>6, <2>1, <2>2, <2>3
<1>18. DispatchedOlder'
  BY <1>1, <1>4, <1>12 DEF DispatchedOlder, Insts
<1>19. StampsPast'
  BY <1>3, <1>4, <1>5, <1>11 DEF DepInv, StampsPast
<1>20. NoLostWakeup'
  <2>1. ASSUME NEW i \in 1..Len(issue)
        PROVE  NodeTracks(issue[i])'
    <3>1. issue[i].data \in Insts
      <4>1. issue[i] \in Node
        BY ElementOfSeq DEF IInv, TypeOK
      <4> QED BY <4>1 DEF Node
    <3>2. NodeTracks(issue[i])
      BY DEF DepInv, NoLostWakeup, NodeTracks
    <3>3. issue'[i] = issue[i]
      BY <1>6
    <3> QED BY <1>4, <1>6, <1>11, <3>1, <3>2, <3>3, NodeStays DEF NodeTracks
  <2>2. PICK node : node = issue'[Len(issue) + 1]
    OBVIOUS
  <2>3. /\ rmt[listInst[k].sreg1].rnum = listInst[k].sreg1
        /\ rmt[listInst[k].sreg2].rnum = listInst[k].sreg2
        /\ SourceTracksProducer(k, rmt[listInst[k].sreg1])
        /\ SourceTracksProducer(k, rmt[listInst[k].sreg2])
    BY <1>1, <1>4, <1>7, <1>10, TableTracks
  <2>4. NodeTracks(node) /\ node.data = k
    BY <1>6, <2>2, <2>3 DEF NodeTracks
  <2>5. NodeTracks(node)'
    BY <1>1, <1>4, <1>6, <1>11, <2>4, NodeStays
  <2>6. \A i \in 1..Len(issue') : i \in 1..Len(issue) \/ i = Len(issue) + 1
    BY <1>6
  <2>7. ASSUME NEW i \in 1..Len(issue')
        PROVE  NodeTracks(issue[i])'
    BY <2>1, <2>2, <2>5, <2>6 DEF NodeTracks
  <2> QED BY <2>7 DEF NoLostWakeup, NodeTracks
<1>21. RMTLatest'
  <2> SUFFICES ASSUME NEW r \in Reg
               PROVE  LET writers == {j \in Dispatched' : listInst'[j].dreg = r}
                      IN  IF writers = {} THEN rmt'[r].ready /\ rmt'[r].name = 0
                          ELSE \E j \in writers :
                                 /\ \A i \in writers : i <= j
                                 /\ rmt'[r].ready <=> State(j)' = "WB"
                                 /\ ~rmt'[r].ready => Alive(j, rmt[r].name)'
    BY DEF RMTLatest
  <2> DEFINE old == {j \in Dispatched : listInst[j].dreg = r}
             new == {j \in Dispatched' : listInst'[j].dreg = r}
  <2>1. \A j : j \in new <=> j \in Insts /\ j <= k /\ listInst[j].dreg = r
    BY <1>4, <1>12 DEF Dispatched, SameLine
  <2>2. \A j : j \in old <=> j \in Insts /\ j < k /\ listInst[j].dreg = r
    BY <1>10 DEF Dispatched
  <2> HIDE DEF new, old
  <2>3. CASE r = q
    <3>1. k \in new /\ \A i \in new : i <= k
      BY <1>1, <1>2, <2>1, <2>3 DEF Insts
    <3>2. ~rmt'[r].ready /\ State(k)' # "WB" /\ Alive(k, rmt[r].name)'
      BY <1>4, <1>6, <1>9, <2>3
    <3> QED BY <3>1, <3>2 DEF new
  <2>4. CASE r # q
    <3>1. \A j \in Insts : j <= k /\ listInst[j].dreg = r <=> j < k /\ listInst[j].dreg = r
      BY <1>1, <1>2, <2>4 DEF Insts
    <3>2. new = old
      BY <2>1, <2>2, <3>1
    <3>3. rmt'[r] = rmt[r]
      BY <1>9, <2>4
    <3>4. CASE new = {}
      BY <3>2, <3>3, <3>4 DEF DepInv, RMTLatest, old, new
    <3>5. CASE new # {}
      <4>1. PICK j \in old : /\ \A i \in old : i <= j
                             /\ rmt[r].ready <=> State(j) = "WB"
                             /\ ~rmt[r].ready => Alive(j, rmt[r].name)
        BY <3>2, <3>5 DEF DepInv, RMTLatest, old
      <4>2. State(j)' = "WB" <=> State(j) = "WB"
        BY <1>11, <2>2
      <4>3. ~rmt'[r].ready => Alive(j, rmt[r].name)'
        BY <1>6, <3>3, <4>1
      <4> QED BY <3>2, <3>3, <4>1, <4>2, <4>3 DEF new
    <3> QED BY <3>4, <3>5 DEF new
  <2> QED BY <2>3, <2>4
<1>22. RAWOrder'
  <2>1. \A m \in Insts' : Reached(m, "EX")' =>
          m \in Insts /\ Reached(m, "EX") /\ At(m, "EX")' = At(m, "EX")
    BY <1>4, <1>12
  <2>2. \A j \in Insts : State(j) = "WB" => State(j)' = "WB" /\ At(j, "WB")' = At(j, "WB")
    BY <1>4, <1>11
  <2> QED BY <1>4, <2>1, <2>2, RAWStays DEF DepInv
<1> QED BY <1>16, <1>17, <1>18, <1>19, <1>20, <1>21, <1>22 DEF DepInv

-----------------------------------------------------------------------------
(* A completion is announced under the name of the instruction, which no   *)
(* other writer in flight has: exactly the sources it produces become      *)
(* ready, and the table only if it still speaks of it.                     *)
LEMMA DepExecuteComplete ==
  ASSUME IInv, ListInv, DepInv, NEW lat \in Nat, ExecuteComplete(lat)
  PROVE  DepInv'
<1>0. PICK k, x : k = exec[pos].data /\ x = exec[pos].dreg.name
  OBVIOUS
<1>1. pos \in 1..Len(exec) /\ k \in Insts /\ OneEnters(k, "WB")
  BY <1>0, ExecuteCompleteEffect
<1>2. State(k) = "EX" /\ Alive(k, x)
  BY <1>0, <1>1, AliveInFlight DEF ListInv, Placed, DataOf
<1>3. /\ Len(listInst) \in Nat /\ Len(listInst') = Len(listInst) /\ Insts' = Insts
      /\ \A m \in Insts : SameLine(m)
      /\ State(k)' = "WB" /\ At(k, "WB")' = cycle /\ At(k, "EX")' = At(k, "EX")
      /\ \A m \in Insts \ {k} : State(m)' = State(m) /\ \A s : At(m, s)' = At(m, s)
  <2>1. "WB" \in InstState /\ "EX" \in InstState \ {"WB"}
    BY DEF InstState
  <2> QED BY <1>1, <2>1, OneEntersStates
<1>4. UNCHANGED <<stage, cycle, regName>> /\ cycle \in Nat /\ UpdateRegs(listInst[k].dreg, x)
  BY <1>0 DEF ExecuteComplete, IInv, TypeOK
<1>5. /\ Len(issue') = Len(issue)
      /\ \A i \in 1..Len(issue) :
           /\ issue'[i].data = issue[i].data /\ issue'[i].dreg = issue[i].dreg
           /\ Writer(k) => /\ issue'[i].sreg1 = Wakeup(issue[i].sreg1, x)
                           /\ issue'[i].sreg2 = Wakeup(issue[i].sreg2, x)
           /\ ~Writer(k) => issue'[i] = issue[i]
      /\ \A j, y : Alive(j, y)' <=> Alive(j, y) /\ j # k
  BY <1>0, ExecuteCompleteNodes
<1>6. \A j \in Insts : Writer(j) /\ Writer(k) /\ Alive(j, x) => j = k
  BY <1>1, <1>2, AliveInFlight DEF DepInv, NamesUnique
<1>7. /\ \A m \in Insts : Reached(m, "IS")' <=> Reached(m, "IS")
      /\ \A m \in Insts : Reached(m, "EX")' <=> Reached(m, "EX")
  <2>1. /\ Reached(k, "IS") /\ Reached(k, "IS")'
        /\ Reached(k, "EX") /\ Reached(k, "EX")'
    BY <1>2, <1>3, PassedStates DEF Reached, InstState
  <2>2. \A m \in Insts \ {k} : \A s : Reached(m, s)' <=> Reached(m, s)
    BY <1>3 DEF Reached
  <2> QED BY <2>1, <2>2
<1>8. Dispatched' = Dispatched
  BY <1>3, <1>7 DEF Dispatched
<1>9. rmt \in [Reg \cup {NoReg} -> RegData]
  BY DEF IInv, TypeOK
<1>10. /\ \A r \in Reg \cup {NoReg} : rmt'[r].rnum = rmt[r].rnum /\ rmt'[r].name = rmt[r].name
       /\ \A r \in Reg : rmt'[r].ready <=> \/ rmt[r].ready
                                           \/ listInst[k].dreg = r /\ rmt[r].name = x
  <2>1. CASE listInst[k].dreg \in Reg /\ rmt[listInst[k].dreg].name = x
    <3>1. PICK q \in Reg : q = listInst[k].dreg
      BY <2>1
    <3>2. PICK row : row = [rmt[q] EXCEPT !.ready = TRUE]
      OBVIOUS
    <3>3. rmt[q] \in RegData
      BY <1>9
    <3>4. row.rnum = rmt[q].rnum /\ row.name = rmt[q].name /\ row.ready = TRUE
      BY <3>2, <3>3 DEF RegData
    <3>5. rmt' = [rmt EXCEPT ![q] = row]
      BY <1>4, <2>1, <3>1, <3>2 DEF UpdateRegs
    <3>6. rmt'[q] = row /\ \A r \in Reg \cup {NoReg} : r # q => rmt'[r] = rmt[r]
      BY <1>9, <3>5
    <3> QED BY <2>1, <3>1, <3>4, <3>6
  <2>2. CASE ~(listInst[k].dreg \in Reg /\ rmt[listInst[k].dreg].name = x)
    <3>1. rmt' = rmt
      BY <1>4, <2>2 DEF UpdateRegs
    <3> QED BY <2>2, <3>1
  <2> QED BY <2>1, <2>2
<1>11. NamesGiven' /\ NamesUnique'
  <2>1. Names' \subseteq Names
    <3>1. \A y \in Names' : \E j : Alive(j, y)'
      BY DEF Names, Alive
    <3> QED BY <1>5, <3>1, AliveInFlight
  <2>2. NamesGiven'
    BY <1>4, <1>10, <2>1 DEF DepInv, NamesGiven
  <2>3. NamesUnique'
    BY <1>3, <1>5, <2>1 DEF DepInv, NamesUnique, Writer, SameLine
  <2> QED BY <2>2, <2>3
<1>12. DispatchedOlder'
  BY <1>3, <1>7 DEF DepInv, DispatchedOlder
<1>13. StampsPast'
  <2>1. ASSUME NEW j \in Insts, State(j)' = "WB", stage' # "done"
        PROVE  At(j, "WB")' <= cycle'
    <3>1. CASE j = k
      BY <1>3, <1>4, <3>1
    <3>2. CASE j # k
      BY <1>3, <1>4, <2>1, <3>2 DEF DepInv, StampsPast
    <3> QED BY <3>1, <3>2
  <2> QED BY <1>3, <1>4, <2>1 DEF DepInv, StampsPast
<1>14. RMTLatest'
  <2> SUFFICES ASSUME NEW r \in Reg
               PROVE  LET writers == {j \in Dispatched' : listInst'[j].dreg = r}
                      IN  IF writers = {} THEN rmt'[r].ready /\ rmt'[r].name = 0
                          ELSE \E j \in writers :
                                 /\ \A i \in writers : i <= j
                                 /\ rmt'[r].ready <=> State(j)' = "WB"
                                 /\ ~rmt'[r].ready => Alive(j, rmt[r].name)'
    BY DEF RMTLatest
  <2> DEFINE writers == {j \in Dispatched : listInst[j].dreg = r}
  <2>1. {j \in Dispatched' : listInst'[j].dreg = r} = writers
    BY <1>3, <1>8 DEF Dispatched, SameLine
  <2>2. CASE writers = {}
    <3>1. listInst[k].dreg # r
      BY <1>1, <1>2, <2>2, PassedStates DEF Dispatched, Reached, InstState
    <3>2. rmt[r].ready /\ rmt[r].name = 0
      BY <2>2 DEF DepInv, RMTLatest
    <3> QED BY <1>10, <2>1, <2>2, <3>2
  <2>3. CASE writers # {}
    <3>1. PICK j \in writers : /\ \A i \in writers : i <= j
                               /\ rmt[r].ready <=> State(j) = "WB"
                               /\ ~rmt[r].ready => Alive(j, rmt[r].name)
      BY <2>3 DEF DepInv, RMTLatest
    <3>2. j \in Insts /\ listInst[j].dreg = r /\ Writer(j)
      BY DEF Dispatched, Writer
    <3>3. rmt'[r].name = rmt[r].name
      BY <1>10
    <3>4. CASE j = k
      <4>1. ~rmt[r].ready
        BY <1>2, <3>1, <3>4
      <4>2. rmt[r].name = x
        BY <1>2, <3>1, <3>4, <4>1, AliveInFlight
      <4>3. rmt'[r].ready /\ State(j)' = "WB"
        BY <1>3, <1>10, <3>2, <3>4, <4>2
      <4> QED BY <2>1, <3>1, <4>3
    <3>5. CASE j # k
      <4>1. State(j)' = State(j)
        BY <1>3, <3>2, <3>5
      <4>2. rmt'[r].ready <=> rmt[r].ready
        <5>1. ASSUME ~rmt[r].ready, listInst[k].dreg = r, rmt[r].name = x
              PROVE  FALSE
          BY <1>6, <3>1, <3>2, <3>5, <5>1 DEF Writer
        <5> QED BY <1>10, <5>1
      <4>3. ~rmt'[r].ready => Alive(j, rmt[r].name)'
        BY <1>5, <3>1, <3>3, <3>5, <4>2
      <4> QED BY <2>1, <3>1, <4>1, <4>2, <4>3
    <3> QED BY <3>4, <3>5
  <2> QED BY <2>2, <2>3
<1>15. NoLostWakeup'
  <2>1. ASSUME NEW i \in 1..Len(issue), NEW src, NEW new,
               SourceTracksProducer(issue[i].data, src),
               Writer(k) => new = Wakeup(src, x),
               ~Writer(k) => new = src,
               src \in RegData
        PROVE  new.rnum = src.rnum /\ SourceTracksProducer(issue[i].data, new)'
    <3>1. PICK m : m = issue[i].data
      OBVIOUS
    <3>2. m \in Insts
      <4>1. issue[i] \in Node
        BY ElementOfSeq DEF IInv, TypeOK
      <4> QED BY <3>1, <4>1 DEF Node
    <3>3. \A r : Producers(m, r)' = Producers(m, r)
      BY <1>3, <3>2, ProducersStay
    <3>4. /\ new.rnum = src.rnum /\ new.name = src.name
          /\ new.ready <=> src.ready \/ (Writer(k) /\ src.name = x)
      BY <2>1 DEF Wakeup, RegData
    <3>5. SourceTracksProducer(m, src)
      BY <2>1, <3>1
    <3>6. ASSUME src.rnum \in Reg
          PROVE  /\ new.ready <=> \A j \in Producers(m, src.rnum) : State(j)' = "WB"
                 /\ ~new.ready => \E j \in Producers(m, src.rnum) : Alive(j, src.name)'
      <4>1. \A j \in Producers(m, src.rnum) : j \in Insts /\ Writer(j)
        BY <1>3, <3>2, <3>6, OneProducer DEF Writer
      <4>2. CASE src.ready
        <5>1. \A j \in Producers(m, src.rnum) : State(j)' = "WB"
          BY <1>3, <3>5, <3>6, <4>1, <4>2 DEF SourceTracksProducer
        <5> QED BY <3>4, <4>2, <5>1
      <4>3. CASE ~src.ready
        <5>1. PICK j \in Producers(m, src.rnum) : Alive(j, src.name)
          BY <3>5, <3>6, <4>3 DEF SourceTracksProducer
        <5>2. \A i2 \in Producers(m, src.rnum) : i2 = j
          BY <1>3, <3>2, <5>1, OneProducer
        <5>3. State(j) # "WB"
          BY <5>1, AliveInFlight
        <5>4. CASE j = k
          <6>1. src.name = x /\ Writer(k)
            BY <1>2, <4>1, <5>1, <5>4, AliveInFlight
          <6>2. new.ready /\ State(j)' = "WB"
            BY <1>3, <3>4, <5>4, <6>1
          <6> QED BY <5>2, <6>2
        <5>5. CASE j # k
          <6>1. ~(Writer(k) /\ src.name = x)
            BY <1>6, <4>1, <5>1, <5>5
          <6>2. ~new.ready /\ State(j)' # "WB" /\ Alive(j, src.name)'
            BY <1>3, <1>5, <3>4, <4>1, <4>3, <5>1, <5>3, <5>5, <6>1
          <6> QED BY <5>1, <6>2
        <5> QED BY <5>4, <5>5
      <4> QED BY <4>2, <4>3
    <3> QED BY <1>5, <3>1, <3>3, <3>4, <3>6 DEF SourceTracksProducer
  <2>2. ASSUME NEW i \in 1..Len(issue)
        PROVE  NodeTracks(issue[i])'
    <3>1. issue[i] \in Node
      BY ElementOfSeq DEF IInv, TypeOK
    <3>2. issue[i].sreg1 \in RegData /\ issue[i].sreg2 \in RegData /\ issue[i].data \in Insts
      BY <3>1 DEF Node
    <3>3. NodeTracks(issue[i])
      BY DEF DepInv, NoLostWakeup, NodeTracks
    <3>4. PICK m : m = issue[i].data
      OBVIOUS
    <3>5. issue'[i].data = m
      BY <1>5, <3>4
    <3>6. /\ Writer(k) => /\ issue'[i].sreg1 = Wakeup(issue[i].sreg1, x)
                          /\ issue'[i].sreg2 = Wakeup(issue[i].sreg2, x)
          /\ ~Writer(k) => /\ issue'[i].sreg1 = issue[i].sreg1
                           /\ issue'[i].sreg2 = issue[i].sreg2
      BY <1>5
    <3>7. issue'[i].sreg1.rnum = issue[i].sreg1.rnum /\ SourceTracksProducer(m, issue[i].sreg1)'
      BY <2>1, <3>2, <3>3, <3>4, <3>5, <3>6 DEF NodeTracks
    <3>8. issue'[i].sreg2.rnum = issue[i].sreg2.rnum /\ SourceTracksProducer(m, issue[i].sreg2)'
      BY <2>1, <3>2, <3>3, <3>4, <3>5, <3>6 DEF NodeTracks
    <3>9. listInst'[m].sreg1 = listInst[m].sreg1 /\ listInst'[m].sreg2 = listInst[m].sreg2
      BY <1>3, <3>2, <3>4 DEF SameLine
    <3> QED BY <3>3, <3>4, <3>5, <3>7, <3>8, <3>9 DEF NodeTracks
  <2> QED BY <1>5, <2>2 DEF NoLostWakeup, NodeTracks
<1>16. RAWOrder'
  <2>1. \A m \in Insts' : Reached(m, "EX")' =>
          m \in Insts /\ Reached(m, "EX") /\ At(m, "EX")' = At(m, "EX")
    BY <1>3, <1>7
  <2>2. \A j \in Insts : State(j) = "WB" => State(j)' = "WB" /\ At(j, "WB")' = At(j, "WB")
    BY <1>2, <1>3
  <2> QED BY <1>3, <2>1, <2>2, RAWStays DEF DepInv
<1> QED BY <1>11, <1>12, <1>13, <1>14, <1>15, <1>16 DEF DepInv

-----------------------------------------------------------------------------
(* The counter of cycles goes up by one or wraps to zero. *)
LEMMA NextCycleValue ==
  ASSUME cycle \in Nat, cycle < CycleMod
  PROVE  /\ NextCycle \in Nat /\ NextCycle < CycleMod
         /\ NextCycle # 0 => NextCycle = cycle + 1
<1>1. CycleMod \in Nat /\ CycleMod > 0
  BY WidthAssumption
<1>2. CASE cycle + 1 < CycleMod
  <2>1. \A a, b \in Nat : a < b /\ b > 0 => a % b = a
    OBVIOUS
  <2>2. NextCycle = cycle + 1
    BY <1>1, <1>2, <2>1 DEF NextCycle
  <2> QED BY <1>2, <2>2
<1>3. CASE cycle + 1 = CycleMod
  <2>1. \A b \in Nat : b > 0 => b % b = 0
    OBVIOUS
  <2>2. NextCycle = 0
    BY <1>1, <1>3, <2>1 DEF NextCycle
  <2> QED BY <1>1, <2>2
<1> QED BY <1>1, <1>2, <1>3

LEMMA NextDepInv == IInv /\ ListInv /\ DepInv /\ [Next]_vars => DepInv'
<1> SUFFICES ASSUME IInv, ListInv, DepInv, [Next]_vars PROVE DepInv'
  OBVIOUS
<1>1. cycle \in Nat /\ cycle' \in Nat /\ cycle < CycleMod
  BY NextIInv DEF IInv, TypeOK, DepInv, StampsPast
<1>2. /\ NextCycle \in Nat /\ NextCycle < CycleMod
      /\ NextCycle # 0 => NextCycle = cycle + 1
  BY <1>1, NextCycleValue
<1>3. CASE GoesOn
  <2>1. UNCHANGED <<listInst, rmt, regName, lists>>
    BY <1>3, GoesOnEffect
  <2>2. cycle' < CycleMod /\ (stage' # "done" => stage # "done" /\ cycle' >= cycle)
    <3>1. CASE Advance
      BY <1>1, <1>2, <3>1 DEF Advance
    <3>2. CASE ~Advance
      BY <1>1, <1>3, <3>2 DEF GoesOn, Retire, ExecuteDone, IssueSkip, IssueDone,
         DispatchSkip, FetchEOF, FetchDone, FetchSkip, vars
    <3> QED BY <3>1, <3>2
  <2>3. Still
    BY <2>1, StillUnchanged
  <2> QED BY <1>1, <2>1, <2>2, <2>3, DepStay DEF Still, lists
<1>4. CASE DispatchDone
  <2>1. UNCHANGED <<rmt, regName, issue, exec, cycle>> /\ stage = "dispatch"
    BY <1>4, DispatchDoneEffect DEF DispatchDone
  <2> QED BY <1>1, <1>4, <2>1, DispatchDoneEffect, DepStay
<1>5. ASSUME NEW lat \in Nat, ExecuteWait(lat)
      PROVE  DepInv'
  <2>1. UNCHANGED <<rmt, regName, issue, exec, cycle>> /\ stage = "execute"
    BY <1>5 DEF ExecuteWait, lists
  <2> QED BY <1>1, <1>5, <2>1, ExecuteWaitEffect, DepStay DEF Still
<1>6. CASE Finish
  <2>1. UNCHANGED <<listInst, rmt, regName, issue, exec>> /\ stage' = "done"
    BY <1>6 DEF Finish, GoTo
  <2>2. cycle' < CycleMod
    BY <1>1, <1>2, <1>6 DEF Finish
  <2>3. Still
    BY <2>1, StillUnchanged
  <2> QED BY <1>1, <2>1, <2>2, <2>3, DepStay DEF Still
<1>7. ASSUME NEW lat \in Nat, ExecuteComplete(lat)
      PROVE  DepInv'
  BY <1>7, DepExecuteComplete
<1>8. CASE IssuePush
  BY <1>8, DepIssuePush
<1>9. CASE DispatchMove
  BY <1>9, DepDispatchMove
<1>10. ASSUME NEW e \in TraceEntry, FetchInst(e)
       PROVE  DepInv'
  BY <1>10, DepFetchInst
<1> QED BY <1>3, <1>4, <1>5, <1>6, <1>7, <1>8, <1>9, <1>10, StepCases

LEMMA DepInvHolds == Spec => [](IInv /\ ListInv /\ DepInv)
<1>1. Init => DepInv
  BY DepInit
<1>2. IInv /\ ListInv /\ DepInv /\ [Next]_vars => DepInv'
  BY NextDepInv
<1> QED BY <1>1, <1>2, ListInvHolds, PTL DEF Spec

(* An instruction enters EX only when every instruction that produces one  *)
(* of its sources is in WB, and in no earlier cycle than that one got      *)
(* there: renaming, the copies of the register data and the out of order   *)
(* issue of dis_issue keep every true dependence, for every N, S, register *)
(* set and trace.                                                          *)
THEOREM DependencesHold == Spec => []RAWOrder
<1>1. DepInv => RAWOrder
  BY DEF DepInv
<1> QED BY <1>1, DepInvHolds, PTL

(* The ready bits the issue list keeps for itself are set exactly when     *)
(* their producers are done, and one that is not set waits for the name    *)
(* its producer will announce to dis_exec_update_regs.                     *)
THEOREM NoWakeupLost == Spec => []NoLostWakeup
<1>1. DepInv => NoLostWakeup
  BY DEF DepInv
<1> QED BY <1>1, DepInvHolds, PTL

(* The register map table speaks of the last writer dispatched, however    *)
(* the writers of a register end: the name test of dis_exec_update_regs.   *)
THEOREM TableSpeaksOfLatest == Spec => []RMTLatest
<1>1. DepInv => RMTLatest
  BY DEF DepInv
<1> QED BY <1>1, DepInvHolds, PTL

-----------------------------------------------------------------------------
(* The scheduler implements Dataflow, step by step: fetching an            *)
(* instruction is its arrival, entering EX its start, entering WB its end, *)
(* and nothing else that the scheduler does is seen.                       *)

(* Dataflow's variables, as the scheduler has them. *)
Program == [k \in Insts |-> [dest |-> listInst[k].dreg, sources |-> Sources(k)]]
Phases  == [k \in Insts |-> Phase(State(k))]

LEMMA PhaseOfState ==
  /\ \A st \in {"IF", "ID", "IS"} : Phase(st) = "waiting"
  /\ Phase("EX") = "running" /\ Phase("WB") = "done"
BY DEF Phase

LEMMA ProgramIsSeq ==
  ASSUME IInv
  PROVE  /\ Program \in Seq(Abstract!Operation) /\ Len(Program) = Len(listInst)
         /\ Phases \in Seq({"waiting", "running", "done"}) /\ Len(Phases) = Len(listInst)
         /\ Len(listInst) \in Nat
<1>1. Len(listInst) \in Nat
  BY LenProperties DEF IInv, TypeOK
<1>2. \A k \in Insts : [dest |-> listInst[k].dreg, sources |-> Sources(k)] \in Abstract!Operation
  <2> TAKE k \in Insts
  <2>1. listInst[k] \in InstData
    BY ElementOfSeq DEF IInv, TypeOK, Insts
  <2>2. listInst[k].dreg \in Reg \cup {NoReg} /\ Sources(k) \in SUBSET Reg
    BY <2>1 DEF InstData, Sources
  <2> QED BY <2>2 DEF Abstract!Operation
<1>3. \A k \in Insts : Phase(State(k)) \in {"waiting", "running", "done"}
  BY StatesKnown, PhaseOfState DEF InstState
<1>4. Program \in Seq(Abstract!Operation) /\ Len(Program) = Len(listInst)
  BY <1>1, <1>2 DEF Program, Insts
<1>5. Phases \in Seq({"waiting", "running", "done"}) /\ Len(Phases) = Len(listInst)
  BY <1>1, <1>3 DEF Phases, Insts
<1> QED BY <1>1, <1>4, <1>5

LEMMA AppendEqual ==
  ASSUME NEW T, NEW s \in Seq(T), NEW t \in Seq(T), NEW x,
         Len(t) = Len(s) + 1, \A i \in 1..Len(s) : t[i] = s[i], t[Len(s) + 1] = x
  PROVE  t = Append(s, x)
<1>1. Len(s) \in Nat /\ Len(s) + 1 \in 1..Len(t)
  BY LenProperties
<1>2. x \in T
  BY <1>1, ElementOfSeq
<1>3. /\ Append(s, x) \in Seq(T) /\ Len(Append(s, x)) = Len(s) + 1
      /\ \A i \in 1..Len(s) : Append(s, x)[i] = s[i]
      /\ Append(s, x)[Len(s) + 1] = x
  BY <1>2, AppendProperties
<1>4. \A i \in 1..Len(t) : t[i] = Append(s, x)[i]
  <2>1. \A i \in 1..Len(t) : i \in 1..Len(s) \/ i = Len(s) + 1
    BY <1>1
  <2> QED BY <1>3, <2>1
<1> QED BY <1>3, <1>4, SeqEqual

(* The initial state is Dataflow's. *)
LEMMA DataflowInit == Init => Abstract!Init
<1> SUFFICES ASSUME Init PROVE Abstract!Init
  OBVIOUS
<1>1. Len(listInst) = 0
  BY EmptySeq DEF Init
<1>2. Program = <<>> /\ Phases = <<>>
  BY <1>1 DEF Program, Phases, Insts
<1> QED BY <1>2 DEF Abstract!Init, Program, Phases

(* A step that keeps every instruction's phase is not seen. *)
LEMMA NotSeen ==
  ASSUME Len(listInst') = Len(listInst), \A m \in Insts : SameLine(m),
         \A m \in Insts : Phase(State(m))' = Phase(State(m))
  PROVE  Program' = Program /\ Phases' = Phases
<1>1. Insts' = Insts
  BY DEF Insts
<1>2. \A m \in Insts : Sources(m)' = Sources(m) /\ listInst'[m].dreg = listInst[m].dreg
  BY DEF Sources, SameLine
<1> QED BY <1>1, <1>2 DEF Program, Phases

LEMMA DataflowFetchInst ==
  ASSUME IInv, NEW e \in TraceEntry, FetchInst(e)
  PROVE  \E op \in Abstract!Operation : Abstract!Arrive(op)
<1>0. PICK n : n = Len(listInst) + 1
  OBVIOUS
<1>1. /\ Len(listInst) \in Nat /\ Len(listInst') = n /\ \A m \in Insts : Same(m)
      /\ listInst'[n] = NewInst(e) /\ NewInst(e) \in InstData /\ NewInst(e).state = "IF"
  BY <1>0, FetchInstEffect
<1>2. Insts' = Insts \cup {n} /\ n \notin Insts
  BY <1>0, <1>1 DEF Insts
<1>3. PICK op : op = [dest |-> NewInst(e).dreg,
                      sources |-> {NewInst(e).sreg1, NewInst(e).sreg2} \cap Reg]
  OBVIOUS
<1>4. op \in Abstract!Operation
  BY <1>1, <1>3 DEF Abstract!Operation, InstData
<1>5. /\ \A m \in Insts : /\ Program'[m] = Program[m] /\ Phases'[m] = Phases[m]
      /\ Program'[n] = op /\ Phases'[n] = "waiting"
  <2>1. \A m \in Insts : /\ Sources(m)' = Sources(m)
                         /\ listInst'[m].dreg = listInst[m].dreg
                         /\ State(m)' = State(m)
    BY <1>1 DEF Same, SameLine, Sources, State
  <2>2. Sources(n)' = op.sources /\ listInst'[n].dreg = op.dest /\ State(n)' = "IF"
    BY <1>1, <1>3 DEF Sources, State
  <2>3. op = [dest |-> op.dest, sources |-> op.sources]
    BY <1>3
  <2> QED BY <1>2, <2>1, <2>2, <2>3, PhaseOfState DEF Program, Phases
<1>6. /\ Program \in Seq(Abstract!Operation) /\ Len(Program) = Len(listInst)
      /\ Phases \in Seq({"waiting", "running", "done"}) /\ Len(Phases) = Len(listInst)
  BY ProgramIsSeq
<1>7. /\ Program' \in Seq(Abstract!Operation) /\ Len(Program') = n
      /\ Phases' \in Seq({"waiting", "running", "done"}) /\ Len(Phases') = n
  <2>1. \A m \in Insts' : Program'[m] \in Abstract!Operation
    BY <1>0, <1>1, <1>2, <1>4, <1>5, <1>6, ElementOfSeq DEF Insts
  <2>2. \A m \in Insts' : Phases'[m] \in {"waiting", "running", "done"}
    BY <1>0, <1>1, <1>2, <1>5, <1>6, ElementOfSeq DEF Insts
  <2>3. n \in Nat /\ Insts' = 1..n
    BY <1>0, <1>1 DEF Insts
  <2>4. Program' = [m \in 1..n |-> Program'[m]] /\ Phases' = [m \in 1..n |-> Phases'[m]]
    BY <2>3 DEF Program, Phases
  <2> QED BY <2>1, <2>2, <2>3, <2>4
<1>8. Program' = Append(Program, op)
  BY <1>0, <1>5, <1>6, <1>7, AppendEqual DEF Insts
<1>9. Phases' = Append(Phases, "waiting")
  BY <1>0, <1>5, <1>6, <1>7, AppendEqual DEF Insts
<1>10. Len(Program) < MaxTrace
  BY <1>6 DEF FetchInst
<1> QED BY <1>4, <1>8, <1>9, <1>10 DEF Abstract!Arrive, Program, Phases
(* One instruction changes its phase, and nothing else is seen. *)
LEMMA OnePhase ==
  ASSUME IInv, NEW k \in Insts, NEW st \in InstState, OneEnters(k, st)
  PROVE  /\ Program' = Program
         /\ Phases' = [Phases EXCEPT ![k] = Phase(st)]
         /\ k \in DOMAIN Phases /\ Phases[k] = Phase(State(k))
<1>1. /\ Len(listInst') = Len(listInst) /\ Insts' = Insts
      /\ \A m \in Insts : SameLine(m)
      /\ State(k)' = st
      /\ \A m \in Insts \ {k} : State(m)' = State(m)
  BY OneEntersStates
<1>2. Program' = Program
  <2>1. \A m \in Insts : Sources(m)' = Sources(m) /\ listInst'[m].dreg = listInst[m].dreg
    BY <1>1 DEF Sources, SameLine
  <2> QED BY <1>1, <2>1 DEF Program
<1>3. Phases' = [Phases EXCEPT ![k] = Phase(st)]
  BY <1>1 DEF Phases
<1> QED BY <1>2, <1>3 DEF Phases

(* An instruction in the trace has a place in Dataflow's program. *)
InTrace == Len(listInst) <= MaxTrace

LEMMA DataflowIssuePush ==
  ASSUME IInv, ListInv, DepInv, DepInv', InTrace, IssuePush
  PROVE  \E k \in 1..MaxTrace : Abstract!Start(k)
<1>0. PICK k : k = issue[pos].data
  OBVIOUS
<1>1. pos \in 1..Len(issue) /\ k \in Insts /\ OneEnters(k, "EX") /\ "EX" \in InstState
  BY <1>0, IssuePushEffect DEF InstState
<1>2. State(k) = "IS"
  BY <1>0, <1>1 DEF ListInv, Placed, DataOf
<1>3. /\ Program' = Program /\ Phases' = [Phases EXCEPT ![k] = "running"]
      /\ k \in DOMAIN Phases /\ Phases[k] = "waiting"
  BY <1>1, <1>2, OnePhase, PhaseOfState
<1>4. /\ Len(listInst) \in Nat /\ Len(listInst') = Len(listInst) /\ Insts' = Insts
      /\ \A m \in Insts : SameLine(m)
      /\ State(k)' = "EX" /\ \A m \in Insts \ {k} : State(m)' = State(m)
  BY <1>1, OneEntersStates
<1>5. Reached(k, "EX")'
  BY <1>1, <1>4, PassedStates DEF Reached
<1>6. ASSUME NEW r \in Sources(k), NEW j \in 1..(k - 1), Abstract!Produces(j, k, r)
      PROVE  Phases[j] = "done"
  <2>1. j \in Insts /\ k \in Nat /\ \A m \in 1..(k - 1) : m \in Insts
    BY <1>1, <1>4 DEF Insts
  <2>2. j \in Producers(k, r)
    <3>1. \A m \in (j + 1)..(k - 1) : m \in Insts
      BY <2>1
    <3> QED BY <1>6, <2>1, <3>1 DEF Abstract!Produces, Producers, Produces
  <2>3. r \in Sources(k)' /\ j \in Producers(k, r)'
    BY <1>1, <1>4, <2>2, ProducersStay
  <2>4. State(j)' = "WB"
    BY <1>1, <1>4, <1>5, <2>3 DEF DepInv, RAWOrder
  <2>5. State(j) = "WB"
    BY <1>4, <2>1, <2>4
  <2> QED BY <2>1, <2>5, PhaseOfState DEF Phases
<1>7. k \in 1..MaxTrace
  BY <1>1, <1>4, TraceAssumption DEF InTrace, Insts
<1>8. Abstract!Start(k)
  BY <1>1, <1>3, <1>6 DEF Abstract!Start, Program, Phases
<1> QED BY <1>7, <1>8

LEMMA DataflowExecuteComplete ==
  ASSUME IInv, ListInv, InTrace, NEW lat \in Nat, ExecuteComplete(lat)
  PROVE  \E k \in 1..MaxTrace : Abstract!Complete(k)
<1>0. PICK k : k = exec[pos].data
  OBVIOUS
<1>1. pos \in 1..Len(exec) /\ k \in Insts /\ OneEnters(k, "WB") /\ "WB" \in InstState
  BY <1>0, ExecuteCompleteEffect DEF InstState
<1>2. State(k) = "EX"
  BY <1>0, <1>1 DEF ListInv, Placed, DataOf
<1>3. /\ Program' = Program /\ Phases' = [Phases EXCEPT ![k] = "done"]
      /\ k \in DOMAIN Phases /\ Phases[k] = "running"
  BY <1>1, <1>2, OnePhase, PhaseOfState
<1>4. k \in 1..MaxTrace
  BY <1>1, TraceAssumption, OneEntersStates DEF InTrace, Insts
<1>5. Abstract!Complete(k)
  BY <1>3 DEF Abstract!Complete, Program, Phases
<1> QED BY <1>4, <1>5

LEMMA DataflowDispatchMove ==
  ASSUME IInv, DispatchMove
  PROVE  Program' = Program /\ Phases' = Phases
<1>0. PICK k : k = disp[pos]
  OBVIOUS
<1>1. k \in Insts /\ OneEnters(k, "IS") /\ "IS" \in InstState /\ State(k) = "ID"
  BY <1>0, DispatchMoveEffect DEF InstState, DispatchMove, CanDispatch
<1>2. Program' = Program /\ Phases' = [Phases EXCEPT ![k] = Phases[k]]
  BY <1>1, OnePhase, PhaseOfState
<1> QED BY <1>2 DEF Phases

(* Every step of the scheduler is a step of Dataflow, or is not seen. *)
LEMMA DataflowNext ==
  ASSUME IInv, ListInv, DepInv, DepInv', InTrace, [Next]_vars
  PROVE  Abstract!Next \/ (Program' = Program /\ Phases' = Phases)
<1>1. CASE GoesOn \/ Finish
  <2>1. listInst' = listInst
    BY <1>1, GoesOnEffect DEF Finish
  <2> QED BY <2>1 DEF Program, Phases, Insts, Sources, State
<1>2. CASE DispatchDone
  <2>1. ASSUME NEW m \in Insts
        PROVE  SameLine(m) /\ Phase(State(m))' = Phase(State(m))
    <3>1. CASE Same(m)
      BY <3>1 DEF Same, State
    <3>2. CASE State(m) = "IF" /\ Enters(m, "ID")
      BY <3>2, PhaseOfState DEF Enters, State
    <3> QED BY <1>2, <3>1, <3>2, DispatchDoneEffect
  <2> QED BY <1>2, <2>1, DispatchDoneEffect, NotSeen
<1>3. ASSUME NEW lat \in Nat, ExecuteWait(lat)
      PROVE  Program' = Program /\ Phases' = Phases
  <2>1. Still
    BY <1>3, ExecuteWaitEffect
  <2>2. \A m \in Insts : SameLine(m) /\ Phase(State(m))' = Phase(State(m))
    BY <2>1 DEF Still, Same, State
  <2> QED BY <2>1, <2>2, NotSeen DEF Still
<1>4. ASSUME NEW lat \in Nat, ExecuteComplete(lat)
      PROVE  Abstract!Next
  BY <1>4, DataflowExecuteComplete DEF Abstract!Next
<1>5. CASE IssuePush
  BY <1>5, DataflowIssuePush DEF Abstract!Next
<1>6. CASE DispatchMove
  BY <1>6, DataflowDispatchMove
<1>7. ASSUME NEW e \in TraceEntry, FetchInst(e)
      PROVE  Abstract!Next
  BY <1>7, DataflowFetchInst DEF Abstract!Next
<1> QED BY <1>1, <1>2, <1>3, <1>4, <1>5, <1>6, <1>7, StepCases

LEMMA NextInTrace == IInv /\ InTrace /\ [Next]_vars => InTrace'
<1> SUFFICES ASSUME IInv, InTrace, [Next]_vars PROVE InTrace'
  OBVIOUS
<1>1. ASSUME NEW e \in TraceEntry, FetchInst(e)
      PROVE  InTrace'
  <2>1. Len(listInst) \in Nat /\ Len(listInst') = Len(listInst) + 1 /\ Len(listInst) < MaxTrace
    BY <1>1, FetchInstEffect DEF FetchInst
  <2> QED BY <2>1, TraceAssumption DEF InTrace
<1>2. ASSUME ~\E e \in TraceEntry : FetchInst(e)
      PROVE  Len(listInst') = Len(listInst)
  BY <1>2, StepCases, GoesOnEffect, DispatchDoneEffect, ExecuteWaitEffect,
     ExecuteCompleteEffect, IssuePushEffect, DispatchMoveEffect
     DEF Still, OneEnters, Finish
<1> QED BY <1>1, <1>2 DEF InTrace

(* The scheduler implements Dataflow (its safety; that whatever may run    *)
(* does run is checked): renaming, the queues, the widths and the cache    *)
(* decide when an instruction runs, and never let it run before the        *)
(* instructions it depends on.                                             *)
THEOREM SchedulerImplementsDataflow == Spec => Abstract!Spec
<1>1. Init => Abstract!Init /\ InTrace
  <2>1. Init => InTrace
    BY EmptySeq, TraceAssumption DEF Init, InTrace
  <2> QED BY <2>1, DataflowInit
<1>2. IInv /\ ListInv /\ DepInv /\ InTrace /\ [Next]_vars => InTrace' /\ DepInv'
  BY NextInTrace, NextDepInv
<1>3. IInv /\ ListInv /\ DepInv /\ DepInv' /\ InTrace /\ [Next]_vars
        => [Abstract!Next]_(<<Program, Phases>>)
  BY DataflowNext
<1>4. Spec => [](IInv /\ ListInv /\ DepInv)
  BY DepInvHolds
<1>5. Init /\ [][Next]_vars => Abstract!Init /\ [][Abstract!Next]_(<<Program, Phases>>)
  BY <1>1, <1>2, <1>3, <1>4, PTL DEF Spec
<1> QED BY <1>5, PTL DEF Spec, Abstract!Spec, Program, Phases
=============================================================================
