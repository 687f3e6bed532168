--------------------------- MODULE SchedulerProofs ---------------------------
(***************************************************************************)
(* Proofs about the scheduler, for every bandwidth, queue size, register   *)
(* set, trace and cache: types, the order of dispatch, and that every      *)
(* instruction is on the one list its state names.                         *)
(***************************************************************************)
EXTENDS SchedulerProperties, SequenceTheorems, FiniteSetTheorems, TLAPS

(* Where the node at j was before the node at i was deleted. *)
Place(i, j) == IF j < i THEN j ELSE j + 1

(* Deleting a node keeps the others, in their order. *)
LEMMA WithoutProperties ==
  ASSUME NEW T, NEW s \in Seq(T), NEW i \in 1..Len(s)
  PROVE  /\ Without(s, i) \in Seq(T)
         /\ Len(Without(s, i)) = Len(s) - 1
         /\ \A j \in 1..Len(Without(s, i)) :
              Place(i, j) \in 1..Len(s) /\ Without(s, i)[j] = s[Place(i, j)]
         /\ \A j, m \in 1..Len(Without(s, i)) : j < m => Place(i, j) < Place(i, m)
<1> DEFINE a == SubSeq(s, 1, i - 1)
           b == SubSeq(s, i + 1, Len(s))
<1>1. /\ a \in Seq(T) /\ Len(a) = i - 1
      /\ \A j \in 1..(i - 1) : a[j] = s[j]
  OBVIOUS
<1>2. /\ b \in Seq(T) /\ Len(b) = Len(s) - i
      /\ \A j \in 1..(Len(s) - i) : b[j] = s[i + j]
  OBVIOUS
<1> HIDE DEF a, b
<1>3. /\ a \o b \in Seq(T) /\ Len(a \o b) = Len(a) + Len(b)
      /\ \A j \in 1..(Len(a) + Len(b)) :
           (a \o b)[j] = IF j <= Len(a) THEN a[j] ELSE b[j - Len(a)]
  BY <1>1, <1>2, ConcatProperties
<1>4. Len(a) + Len(b) = Len(s) - 1
  BY <1>1, <1>2
<1>5. Without(s, i) = a \o b
  BY DEF Without, a, b
<1>6. ASSUME NEW j \in 1..(Len(s) - 1)
      PROVE  (a \o b)[j] = IF j < i THEN s[j] ELSE s[j + 1]
  <2>1. CASE j < i
    BY <1>1, <1>3, <1>4, <2>1
  <2>2. CASE j >= i
    <3>1. (a \o b)[j] = b[j - (i - 1)]
      BY <1>1, <1>3, <1>4, <2>2
    <3>2. j - (i - 1) \in 1..(Len(s) - i) /\ i + (j - (i - 1)) = j + 1
      BY <2>2
    <3> QED BY <1>2, <2>2, <3>1, <3>2
  <2>3. j < i \/ j >= i
    OBVIOUS
  <2> QED BY <2>1, <2>2, <2>3
<1>7. Len(s) \in Nat
  BY LenProperties
<1>8. ASSUME NEW j \in 1..(Len(s) - 1)
      PROVE  Place(i, j) \in 1..Len(s) /\ (a \o b)[j] = s[Place(i, j)]
  <2>1. Place(i, j) \in 1..Len(s)
    BY <1>7 DEF Place
  <2>2. (a \o b)[j] = s[Place(i, j)]
    BY <1>6 DEF Place
  <2> QED BY <2>1, <2>2
<1>9. \A j, m \in 1..(Len(s) - 1) : j < m => Place(i, j) < Place(i, m)
  BY <1>7 DEF Place
<1> QED BY <1>3, <1>4, <1>5, <1>8, <1>9

-----------------------------------------------------------------------------
(* Stamping one instruction changes the state of no other. *)
LEMMA EnterProperties ==
  ASSUME NEW insts \in Seq(InstData), NEW k \in 1..Len(insts),
         NEW st \in InstState, cycle \in Nat
  PROVE  /\ Enter(insts, k, st) \in Seq(InstData)
         /\ Len(Enter(insts, k, st)) = Len(insts)
         /\ \A m \in 1..Len(insts) :
              Enter(insts, k, st)[m].state = IF m = k THEN st ELSE insts[m].state
<1> DEFINE new == [insts[k] EXCEPT !.state = st, !.cycle[st] = cycle]
<1>1. insts[k] \in InstData
  BY ElementOfSeq
<1>2. new \in InstData /\ new.state = st
  BY <1>1 DEF InstData
<1>3. Enter(insts, k, st) = [insts EXCEPT ![k] = new]
  BY DEF Enter
<1> HIDE DEF new
<1>4. /\ [insts EXCEPT ![k] = new] \in Seq(InstData)
      /\ Len([insts EXCEPT ![k] = new]) = Len(insts)
      /\ \A m \in 1..Len(insts) :
           [insts EXCEPT ![k] = new][m] = IF m = k THEN new ELSE insts[m]
  BY <1>2, ExceptSeq
<1> QED BY <1>2, <1>3, <1>4

(* A lookup changes the latency of one instruction and no state. *)
LEMMA AfterLookupProperties ==
  ASSUME listInst \in Seq(InstData), NEW k \in Insts, NEW lat \in Nat
  PROVE  /\ AfterLookup(k, lat) \in Seq(InstData)
         /\ Len(AfterLookup(k, lat)) = Len(listInst)
         /\ \A m \in Insts : AfterLookup(k, lat)[m].state = State(m)
<1>1. CASE ~LooksUp(k)
  BY <1>1 DEF AfterLookup, State, Insts
<1>2. CASE LooksUp(k)
  <2> DEFINE new == [listInst[k] EXCEPT !.latency = (@ + lat) % 256]
  <2>1. listInst[k] \in InstData
    BY ElementOfSeq DEF Insts
  <2> DEFINE l == listInst[k].latency
  <2>2. l \in 0..255
    BY <2>1 DEF InstData
  <2>3. (l + lat) % 256 \in 0..255
    <3>1. \A a, b \in Nat : (a + b) % 256 \in 0..255
      OBVIOUS
    <3> HIDE DEF l
    <3> QED BY <2>2, <3>1
  <2>4. new \in InstData /\ new.state = listInst[k].state
    <3>1. PICK e \in InstData : e = listInst[k]
      BY <2>1
    <3>2. PICK v \in 0..255 : v = (l + lat) % 256
      BY <2>3
    <3>3. new = [e EXCEPT !.latency = v]
      BY <3>1, <3>2
    <3>4. [e EXCEPT !.latency = v] \in InstData
      BY DEF InstData
    <3>5. [e EXCEPT !.latency = v].state = e.state
      BY DEF InstData
    <3> HIDE DEF new
    <3> QED BY <3>1, <3>3, <3>4, <3>5
  <2>5. AfterLookup(k, lat) = [listInst EXCEPT ![k] = new]
    BY <1>2 DEF AfterLookup
  <2> HIDE DEF new
  <2>6. /\ [listInst EXCEPT ![k] = new] \in Seq(InstData)
        /\ Len([listInst EXCEPT ![k] = new]) = Len(listInst)
        /\ \A m \in 1..Len(listInst) :
             [listInst EXCEPT ![k] = new][m] = IF m = k THEN new ELSE listInst[m]
    BY <2>4, ExceptSeq DEF Insts
  <2> QED BY <2>4, <2>5, <2>6 DEF State, Insts
<1> QED BY <1>1, <1>2

(* What one completion tells the table and the issue list keeps their      *)
(* types, and the instructions of the issue list.                          *)
LEMMA UpdateRegsProperties ==
  ASSUME TypeOK, NEW dreg, NEW name \in Nat, UpdateRegs(dreg, name)
  PROVE  /\ rmt' \in [Reg \cup {NoReg} -> RegData]
         /\ issue' \in Seq(Node)
         /\ Len(issue') = Len(issue)
         /\ \A i \in 1..Len(issue) : issue'[i].data = issue[i].data
<1>1. CASE dreg \notin Reg
  BY <1>1 DEF UpdateRegs, TypeOK
<1>2. CASE dreg \in Reg
  <2> DEFINE new(i) == [issue[i] EXCEPT !.sreg1 = Wakeup(@, name),
                                        !.sreg2 = Wakeup(@, name)]
  <2>1. rmt' \in [Reg \cup {NoReg} -> RegData]
    <3>1. [rmt EXCEPT ![dreg].ready = TRUE] \in [Reg \cup {NoReg} -> RegData]
      BY <1>2 DEF TypeOK, RegData
    <3> QED BY <1>2, <3>1 DEF UpdateRegs, TypeOK
  <2>2. issue' = [i \in 1..Len(issue) |-> new(i)]
    BY <1>2 DEF UpdateRegs
  <2>3. ASSUME NEW i \in 1..Len(issue)
        PROVE  new(i) \in Node /\ new(i).data = issue[i].data
    <3>1. issue[i] \in Node
      BY ElementOfSeq DEF TypeOK
    <3>2. \A src \in RegData : Wakeup(src, name) \in RegData
      BY DEF Wakeup, RegData
    <3> QED BY <3>1, <3>2 DEF Node
  <2> HIDE DEF new
  <2>4. Len(issue) \in Nat
    BY LenProperties DEF TypeOK
  <2>5. issue' \in Seq(Node) /\ Len(issue') = Len(issue)
    BY <2>2, <2>3, <2>4
  <2> QED BY <2>1, <2>2, <2>3, <2>5
<1> QED BY <1>1, <1>2

-----------------------------------------------------------------------------
(* The inductive invariant.  TypeOK alone is not inductive: a list that is *)
(* sorted again keeps its type because it was in order already, and the    *)
(* order of the issue list rests on what dis_dispatch finds in list_disp.  *)
IInv == TypeOK /\ InOrder /\ DispatchPrefix

(* The initial state: empty lists, every register ready. *)
LEMMA InitIInv == Init => IInv
<1> SUFFICES ASSUME Init PROVE IInv
  OBVIOUS
<1>1. listInst \in Seq(InstData) /\ disp \in Seq(Insts) /\ issue \in Seq(Node)
      /\ exec \in Seq(Node) /\ wback \in Seq(Insts)
  BY EmptySeq DEF Init
<1>2. rmt \in [Reg \cup {NoReg} -> RegData]
  BY RegAssumption DEF Init, RegData
<1>3. TypeOK
  <2>1. stage \in Stage /\ pos \in Nat \ {0} /\ count \in Nat /\ cycle \in Nat
        /\ regName \in Nat
    BY DEF Init, Stage
  <2>2. traceDone \in BOOLEAN
    BY Zenon DEF Init
  <2>3. len \in [disp : Nat, issue : Nat, exec : Nat]
    BY DEF Init
  <2> QED BY <1>1, <1>2, <2>1, <2>2, <2>3 DEF TypeOK
<1>4. InOrder /\ DispatchPrefix
  BY EmptySeq DEF Init, InOrder, DispatchPrefix
<1> QED BY <1>3, <1>4 DEF IInv

(* The steps that only go on to the next stage. *)
LEMMA StageStep ==
  ASSUME IInv, stage # "done", stage' \in Stage, pos' = 1, count' = 0,
         cycle' \in Nat, traceDone' \in BOOLEAN,
         UNCHANGED <<listInst, rmt, regName, lists>>
  PROVE  IInv'
<1>1. Insts' = Insts /\ Node' = Node
  BY DEF Insts, lists, Node
<1>2. TypeOK'
  BY <1>1 DEF IInv, TypeOK, lists
<1>3. InOrder'
  BY DEF IInv, InOrder, lists
<1>4. DispatchPrefix'
  BY DEF IInv, DispatchPrefix, lists, State
<1> QED BY <1>2, <1>3, <1>4 DEF IInv

(* A node of list_exec that stays there. *)
LEMMA ExecuteWaitStep ==
  ASSUME IInv, NEW lat \in Nat, ExecuteWait(lat)
  PROVE  IInv'
<1> DEFINE k == exec[pos].data
<1>1. exec[pos] \in Node /\ k \in Insts
  <2>1. pos \in 1..Len(exec)
    BY LenProperties DEF ExecuteWait, IInv, TypeOK
  <2>2. exec[pos] \in Node
    BY <2>1, ElementOfSeq DEF IInv, TypeOK
  <2> QED BY <2>2 DEF Node
<1> HIDE DEF k
<1>2. /\ listInst' \in Seq(InstData) /\ Len(listInst') = Len(listInst)
      /\ \A m \in Insts : listInst'[m].state = State(m)
  BY <1>1, AfterLookupProperties DEF ExecuteWait, IInv, TypeOK, k
<1>3. Insts' = Insts /\ Node' = Node
  BY <1>2 DEF Insts, Node
<1>4. TypeOK'
  BY <1>2, <1>3 DEF ExecuteWait, IInv, TypeOK, lists
<1>5. InOrder'
  BY DEF ExecuteWait, IInv, InOrder, lists
<1>6. DispatchPrefix'
  <2>1. \A j \in 1..Len(disp) : disp[j] \in Insts
    BY ElementOfSeq DEF IInv, TypeOK
  <2>2. \A j \in 1..Len(disp) : State(disp[j])' = State(disp[j])
    BY <1>2, <2>1 DEF ExecuteWait, lists, State
  <2>3. stage = "execute" /\ UNCHANGED <<stage, disp, len>>
    BY DEF ExecuteWait, lists
  <2> QED BY <2>2, <2>3 DEF IInv, DispatchPrefix
<1> QED BY <1>4, <1>5, <1>6 DEF IInv

(* A node that dis_issue or dis_dispatch passes over: when dis_dispatch    *)
(* does, either the issue list is full or no later node is in ID.          *)
LEMMA SkipStep ==
  ASSUME IInv, IssueSkip \/ DispatchSkip
  PROVE  IInv'
<1>1. UNCHANGED <<stage, listInst, rmt, regName, lists>> /\ pos' = pos + 1
  BY DEF IssueSkip, DispatchSkip
<1>2. Insts' = Insts /\ Node' = Node
  BY <1>1 DEF Insts, Node
<1>3. TypeOK'
  BY <1>1, <1>2 DEF IInv, TypeOK, lists, IssueSkip, DispatchSkip
<1>4. InOrder'
  BY <1>1 DEF IInv, InOrder, lists
<1>5. DispatchPrefix'
  <2>1. CASE IssueSkip
    BY <1>1, <2>1 DEF IssueSkip, IInv, DispatchPrefix, lists, State
  <2>2. CASE DispatchSkip
    <3>1. pos \in 1..Len(disp) /\ len.issue \in Nat /\ Len(disp) \in Nat
      BY <2>2, LenProperties DEF DispatchSkip, IInv, TypeOK
    <3>2. CASE State(disp[pos]) # "ID"
      <4>1. \A j \in pos..Len(disp) : State(disp[j]) # "ID"
        BY <3>1, <3>2 DEF IInv, DispatchPrefix
      <4> QED BY <1>1, <3>1, <4>1 DEF IInv, DispatchPrefix, lists, State
    <3>3. CASE ~CanPush("issue")
      <4>1. len.issue >= S
        BY <3>1, <3>3, BandwidthAssumption DEF CanPush
      <4> QED BY <1>1, <4>1 DEF IInv, DispatchPrefix, lists, State
    <3> QED BY <2>2, <3>2, <3>3 DEF DispatchSkip, CanDispatch
  <2> QED BY <2>1, <2>2
<1> QED BY <1>3, <1>4, <1>5 DEF IInv

-----------------------------------------------------------------------------
(* An instruction that leaves list_exec or the issue list is older than    *)
(* every instruction of list_disp, so that no state there changes.         *)
LEMMA OlderKeepsPrefix ==
  ASSUME IInv, NEW k \in Insts, \A j \in 1..Len(disp) : k < disp[j],
         \A m \in Insts : m # k => listInst'[m].state = State(m),
         UNCHANGED <<stage, disp>>, stage # "dispatch"
  PROVE  DispatchPrefix'
<1>1. \A j \in 1..Len(disp) : disp[j] \in Insts /\ disp[j] # k
  <2>1. \A j \in 1..Len(disp) : disp[j] \in Insts
    BY ElementOfSeq DEF IInv, TypeOK
  <2>2. \A m \in Insts : k < m => m # k
    BY LenProperties DEF Insts, IInv, TypeOK
  <2> QED BY <2>1, <2>2
<1>2. \A j \in 1..Len(disp) : State(disp[j])' = State(disp[j])
  BY <1>1 DEF State
<1> QED BY <1>2 DEF IInv, DispatchPrefix

(* A length counter stays a natural number. *)
LEMMA DecType == \A n \in Nat : Dec(n) \in Nat
  BY DEF Dec

(* A node of list_exec that goes to list_wback. *)
LEMMA ExecuteCompleteStep ==
  ASSUME IInv, NEW lat \in Nat, ExecuteComplete(lat)
  PROVE  IInv'
<1> DEFINE k == exec[pos].data
<1>1. pos \in 1..Len(exec) /\ exec \in Seq(Node) /\ Len(exec) \in Nat
  BY LenProperties DEF ExecuteComplete, IInv, TypeOK
<1>2. k \in Insts /\ exec[pos].dreg.name \in Nat
  <2>1. exec[pos] \in Node
    BY <1>1, ElementOfSeq
  <2> QED BY <2>1 DEF Node, RegData
<1>3. \A j \in 1..Len(disp) : k < disp[j]
  BY <1>1 DEF IInv, InOrder
<1> HIDE DEF k
<1>4. /\ listInst' \in Seq(InstData) /\ Len(listInst') = Len(listInst)
      /\ \A m \in Insts : m # k => listInst'[m].state = State(m)
  <2> DEFINE L == AfterLookup(k, lat)
  <2>1. /\ L \in Seq(InstData) /\ Len(L) = Len(listInst)
        /\ \A m \in Insts : L[m].state = State(m)
    BY <1>2, AfterLookupProperties DEF IInv, TypeOK
  <2>2. listInst' = Enter(L, k, "WB")
    BY DEF ExecuteComplete, k
  <2>3. cycle \in Nat /\ "WB" \in InstState /\ k \in 1..Len(L)
    BY <1>2, <2>1 DEF IInv, TypeOK, InstState, Insts
  <2> HIDE DEF L
  <2>4. /\ Enter(L, k, "WB") \in Seq(InstData)
        /\ Len(Enter(L, k, "WB")) = Len(L)
        /\ \A m \in 1..Len(L) :
             Enter(L, k, "WB")[m].state = IF m = k THEN "WB" ELSE L[m].state
    BY <2>1, <2>3, EnterProperties
  <2> QED BY <2>1, <2>2, <2>4 DEF Insts
<1>5. Insts' = Insts /\ Node' = Node
  BY <1>4 DEF Insts, Node
<1>6. /\ rmt' \in [Reg \cup {NoReg} -> RegData]
      /\ issue' \in Seq(Node) /\ Len(issue') = Len(issue)
      /\ \A i \in 1..Len(issue) : issue'[i].data = issue[i].data
  BY <1>2, UpdateRegsProperties DEF ExecuteComplete, IInv, k
<1>7. /\ exec' \in Seq(Node)
      /\ \A j \in 1..Len(exec') :
           Place(pos, j) \in 1..Len(exec) /\ exec'[j] = exec[Place(pos, j)]
  BY <1>1, WithoutProperties DEF ExecuteComplete
<1>8. wback' \in Seq(Insts)
  <2>1. wback \in Seq(Insts)
    BY DEF ExecuteComplete, IInv, TypeOK
  <2> QED BY <1>2, <2>1, AppendProperties DEF ExecuteComplete, k
<1>9. len' \in [disp : Nat, issue : Nat, exec : Nat]
  <2>1. len' = [len EXCEPT !.exec = Dec(@)] /\ len \in [disp : Nat, issue : Nat, exec : Nat]
    BY DEF ExecuteComplete, IInv, TypeOK
  <2> QED BY <2>1, DecType
<1>10. UNCHANGED <<stage, pos, count, cycle, traceDone, regName, disp>>
  BY DEF ExecuteComplete
<1>11. TypeOK'
  BY <1>4, <1>5, <1>6, <1>7, <1>8, <1>9, <1>10 DEF IInv, TypeOK
<1>12. InOrder'
  <2>1. /\ \A i, j \in 1..Len(disp)' : i < j => disp'[i] < disp'[j]
        /\ \A i, j \in 1..Len(issue') : i < j => issue'[i].data < issue'[j].data
        /\ \A j \in 1..Len(disp)' : \A i \in 1..Len(issue)' : issue'[i].data < disp'[j]
    BY <1>6, <1>10 DEF IInv, InOrder
  <2>2. \A j \in 1..Len(disp)' : \A i \in 1..Len(exec)' : exec'[i].data < disp'[j]
    BY <1>7, <1>10 DEF IInv, InOrder
  <2> QED BY <2>1, <2>2 DEF InOrder
<1>13. DispatchPrefix'
  <2>1. stage # "dispatch"
    BY DEF ExecuteComplete
  <2> QED BY <1>2, <1>3, <1>4, <1>10, <2>1, OlderKeepsPrefix
<1> QED BY <1>11, <1>12, <1>13 DEF IInv

(* A node of the issue list that goes to list_exec. *)
LEMMA IssuePushStep ==
  ASSUME IInv, IssuePush
  PROVE  IInv'
<1> DEFINE k == issue[pos].data
<1>1. /\ pos \in 1..Len(issue) /\ issue \in Seq(Node) /\ Len(issue) \in Nat
      /\ exec \in Seq(Node) /\ Len(exec) \in Nat
  BY LenProperties DEF IssuePush, IInv, TypeOK
<1>2. issue[pos] \in Node /\ k \in Insts
  <2>1. issue[pos] \in Node
    BY <1>1, ElementOfSeq
  <2> QED BY <2>1 DEF Node
<1>3. \A j \in 1..Len(disp) : k < disp[j]
  BY <1>1 DEF IInv, InOrder
<1> HIDE DEF k
<1>4. /\ listInst' \in Seq(InstData) /\ Len(listInst') = Len(listInst)
      /\ \A m \in Insts : m # k => listInst'[m].state = State(m)
  <2>1. cycle \in Nat /\ "EX" \in InstState /\ k \in 1..Len(listInst)
        /\ listInst \in Seq(InstData)
    BY <1>2 DEF IInv, TypeOK, InstState, Insts
  <2>2. listInst' = Enter(listInst, k, "EX")
    BY DEF IssuePush, k
  <2>3. /\ Enter(listInst, k, "EX") \in Seq(InstData)
        /\ Len(Enter(listInst, k, "EX")) = Len(listInst)
        /\ \A m \in 1..Len(listInst) :
             Enter(listInst, k, "EX")[m].state = IF m = k THEN "EX" ELSE listInst[m].state
    BY <2>1, EnterProperties
  <2> QED BY <2>2, <2>3 DEF Insts, State
<1>5. Insts' = Insts /\ Node' = Node
  BY <1>4 DEF Insts, Node
<1>6. /\ issue' \in Seq(Node)
      /\ \A j \in 1..Len(issue') :
           Place(pos, j) \in 1..Len(issue) /\ issue'[j] = issue[Place(pos, j)]
      /\ \A i, j \in 1..Len(issue') : i < j => Place(pos, i) < Place(pos, j)
  BY <1>1, WithoutProperties DEF IssuePush
<1>7. /\ exec' \in Seq(Node) /\ Len(exec') = Len(exec) + 1
      /\ \A i \in 1..Len(exec) : exec'[i] = exec[i]
      /\ exec'[Len(exec) + 1] = issue[pos]
  BY <1>1, <1>2, AppendProperties DEF IssuePush
<1>8. len' \in [disp : Nat, issue : Nat, exec : Nat]
  <2>1. /\ len' = [len EXCEPT !.exec = @ + 1, !.issue = Dec(@)]
        /\ len \in [disp : Nat, issue : Nat, exec : Nat]
    BY DEF IssuePush, IInv, TypeOK
  <2>2. len.exec + 1 \in Nat /\ Dec(len.issue) \in Nat
    BY <2>1, DecType
  <2> QED BY <2>1, <2>2
<1>9. count' \in Nat
  <2>1. \A c \in Nat : (c + 1) % CounterMod \in Nat
    BY WidthAssumption
  <2> QED BY <2>1 DEF IssuePush, IInv, TypeOK
<1>10. UNCHANGED <<stage, pos, cycle, traceDone, rmt, regName, disp, wback>>
  BY DEF IssuePush
<1>11. TypeOK'
  BY <1>4, <1>5, <1>6, <1>7, <1>8, <1>9, <1>10 DEF IInv, TypeOK
<1>12. InOrder'
  <2>1. \A i, j \in 1..Len(disp)' : i < j => disp'[i] < disp'[j]
    BY <1>10 DEF IInv, InOrder
  <2>2. \A i, j \in 1..Len(issue') : i < j => issue'[i].data < issue'[j].data
    BY <1>6 DEF IInv, InOrder
  <2>3. \A j \in 1..Len(disp)' : \A i \in 1..Len(issue)' : issue'[i].data < disp'[j]
    BY <1>6, <1>10 DEF IInv, InOrder
  <2>4. \A j \in 1..Len(disp)' : \A i \in 1..Len(exec)' : exec'[i].data < disp'[j]
    <3> SUFFICES ASSUME NEW j \in 1..Len(disp), NEW i \in 1..(Len(exec) + 1)
                 PROVE  exec'[i].data < disp[j]
      BY <1>7, <1>10
    <3>1. CASE i = Len(exec) + 1
      BY <1>3, <1>7, <3>1 DEF k
    <3>2. CASE i \in 1..Len(exec)
      BY <1>7, <3>2 DEF IInv, InOrder
    <3> QED BY <1>1, <3>1, <3>2
  <2> QED BY <2>1, <2>2, <2>3, <2>4 DEF InOrder
<1>13. DispatchPrefix'
  <2>1. stage # "dispatch"
    BY DEF IssuePush
  <2> QED BY <1>2, <1>3, <1>4, <1>10, <2>1, OlderKeepsPrefix
<1> QED BY <1>11, <1>12, <1>13 DEF IInv

-----------------------------------------------------------------------------
(* A new name keeps the type of the table. *)
LEMMA RenameDregProperties ==
  ASSUME TypeOK, NEW dreg, RenameDreg(dreg)
  PROVE  rmt' \in [Reg \cup {NoReg} -> RegData] /\ regName' \in Nat
<1>1. CASE dreg \notin Reg
  BY <1>1 DEF RenameDreg, TypeOK
<1>2. CASE dreg \in Reg
  <2> DEFINE new == [rmt[dreg] EXCEPT !.name = regName + 1, !.ready = FALSE]
  <2>1. rmt' = [rmt EXCEPT ![dreg] = new] /\ regName' = regName + 1
    BY <1>2 DEF RenameDreg
  <2>2. rmt[dreg] \in RegData /\ rmt \in [Reg \cup {NoReg} -> RegData]
    BY <1>2 DEF TypeOK
  <2>3. regName + 1 \in Nat
    BY DEF TypeOK
  <2>4. new \in RegData
    BY <2>2, <2>3 DEF RegData
  <2> HIDE DEF new
  <2> QED BY <2>1, <2>2, <2>3, <2>4
<1> QED BY <1>1, <1>2

(* The loop of dis_dispatch moves an instruction only from the head of     *)
(* list_disp.                                                              *)
LEMMA MovesHead ==
  ASSUME IInv, DispatchMove
  PROVE  pos = 1
<1>1. pos \in 1..Len(disp) /\ len.issue \in Nat /\ Len(disp) \in Nat /\ pos \in Nat
  BY LenProperties DEF DispatchMove, IInv, TypeOK
<1>2. stage = "dispatch" /\ State(disp[pos]) = "ID" /\ len.issue < S
  BY DEF DispatchMove, CanDispatch, CanPush
<1>3. ~(len.issue >= S)
  BY <1>1, <1>2, BandwidthAssumption
<1>4. ~(\A j \in pos..Len(disp) : State(disp[j]) # "ID")
  BY <1>1, <1>2
<1> QED BY <1>1, <1>2, <1>3, <1>4 DEF IInv, DispatchPrefix

(* A node of list_disp that goes to the issue list: it is younger than all *)
(* that is there and older than all that stays.                            *)
LEMMA DispatchMoveStep ==
  ASSUME IInv, DispatchMove
  PROVE  IInv'
<1> DEFINE k == disp[pos]
           d == listInst[k]
           node == [data |-> k, sreg1 |-> rmt[d.sreg1], sreg2 |-> rmt[d.sreg2],
                    dreg |-> rmt'[d.dreg]]
<1>1. /\ pos = 1 /\ pos \in 1..Len(disp) /\ disp \in Seq(Insts) /\ Len(disp) \in Nat
      /\ issue \in Seq(Node) /\ Len(issue) \in Nat
  BY MovesHead, LenProperties DEF DispatchMove, IInv, TypeOK
<1>2. k \in Insts
  BY <1>1, ElementOfSeq
<1>3. d \in InstData
  BY <1>2, ElementOfSeq DEF IInv, TypeOK, Insts
<1>4. rmt' \in [Reg \cup {NoReg} -> RegData] /\ regName' \in Nat
  BY RenameDregProperties DEF DispatchMove, IInv
<1>5. node \in Node
  <2>1. d.sreg1 \in Reg \cup {NoReg} /\ d.sreg2 \in Reg \cup {NoReg}
        /\ d.dreg \in Reg \cup {NoReg}
    BY <1>3 DEF InstData
  <2>2. rmt[d.sreg1] \in RegData /\ rmt[d.sreg2] \in RegData /\ rmt'[d.dreg] \in RegData
    BY <1>4, <2>1 DEF IInv, TypeOK
  <2> QED BY <1>2, <2>2 DEF Node
<1>6. issue' = Append(issue, node)
  BY DEF DispatchMove, Operand
<1>7. node.data = k
  OBVIOUS
<1> HIDE DEF node, d
<1>8. /\ listInst' \in Seq(InstData) /\ Len(listInst') = Len(listInst)
      /\ \A m \in Insts : m # k => listInst'[m].state = State(m)
  <2> HIDE DEF k
  <2>1. cycle \in Nat /\ "IS" \in InstState /\ k \in 1..Len(listInst)
        /\ listInst \in Seq(InstData)
    BY <1>2 DEF IInv, TypeOK, InstState, Insts
  <2>2. listInst' = Enter(listInst, k, "IS")
    BY DEF DispatchMove, k
  <2>3. /\ Enter(listInst, k, "IS") \in Seq(InstData)
        /\ Len(Enter(listInst, k, "IS")) = Len(listInst)
        /\ \A m \in 1..Len(listInst) :
             Enter(listInst, k, "IS")[m].state = IF m = k THEN "IS" ELSE listInst[m].state
    BY <2>1, EnterProperties
  <2> QED BY <2>2, <2>3 DEF Insts, State
<1>9. Insts' = Insts /\ Node' = Node
  BY <1>8 DEF Insts, Node
<1>10. /\ disp' \in Seq(Insts)
       /\ \A j \in 1..Len(disp') :
            Place(pos, j) \in 1..Len(disp) /\ disp'[j] = disp[Place(pos, j)]
       /\ \A i, j \in 1..Len(disp') : i < j => Place(pos, i) < Place(pos, j)
  <2>1. disp' = Without(disp, pos)
    BY DEF DispatchMove
  <2> QED BY <1>1, <2>1, WithoutProperties
<1>11. \A j \in 1..Len(disp') : k < disp'[j]
  <2>1. \A j \in 1..Len(disp') : pos < Place(pos, j)
    BY <1>1, <1>10, LenProperties DEF Place
  <2> QED BY <1>1, <1>10, <2>1 DEF IInv, InOrder
<1>12. /\ issue' \in Seq(Node) /\ Len(issue') = Len(issue) + 1
       /\ \A i \in 1..Len(issue) : issue'[i] = issue[i]
       /\ issue'[Len(issue) + 1] = node
  BY <1>1, <1>5, <1>6, AppendProperties
<1>13. len' \in [disp : Nat, issue : Nat, exec : Nat]
  <2>1. /\ len' = [len EXCEPT !.issue = @ + 1, !.disp = Dec(@)]
        /\ len \in [disp : Nat, issue : Nat, exec : Nat]
    BY DEF DispatchMove, IInv, TypeOK
  <2>2. len.issue + 1 \in Nat /\ Dec(len.disp) \in Nat
    BY <2>1, DecType
  <2> QED BY <2>1, <2>2
<1>14. UNCHANGED <<stage, pos, count, cycle, traceDone, exec, wback>>
  BY DEF DispatchMove
<1>15. TypeOK'
  BY <1>4, <1>8, <1>9, <1>10, <1>12, <1>13, <1>14 DEF IInv, TypeOK
<1>16. InOrder'
  <2>1. \A i, j \in 1..Len(disp') : i < j => disp'[i] < disp'[j]
    BY <1>10 DEF IInv, InOrder
  <2>2. \A i \in 1..Len(issue) : issue[i].data < k
    BY <1>1 DEF IInv, InOrder
  <2>3. \A i \in 1..Len(issue') :
          \/ i \in 1..Len(issue) /\ issue'[i].data = issue[i].data
          \/ i = Len(issue) + 1 /\ issue'[i].data = k
    BY <1>1, <1>7, <1>12
  <2>4. \A i, j \in 1..Len(issue') : i < j => issue'[i].data < issue'[j].data
    BY <1>1, <2>2, <2>3 DEF IInv, InOrder
  <2>5. \A j \in 1..Len(disp') : \A i \in 1..Len(issue') : issue'[i].data < disp'[j]
    BY <1>10, <1>11, <2>3 DEF IInv, InOrder
  <2>6. \A j \in 1..Len(disp') : \A i \in 1..Len(exec') : exec'[i].data < disp'[j]
    BY <1>10, <1>14 DEF IInv, InOrder
  <2> QED BY <2>1, <2>4, <2>5, <2>6 DEF InOrder
<1>17. DispatchPrefix'
  <2>1. \A j \in 1..Len(disp') : disp'[j] \in Insts /\ disp'[j] # k
    <3>1. \A j \in 1..Len(disp') : disp'[j] \in Insts
      BY <1>10, ElementOfSeq
    <3>2. \A m \in Insts : k < m => m # k
      BY <1>2, LenProperties DEF Insts, IInv, TypeOK
    <3> QED BY <1>11, <3>1, <3>2
  <2>2. \A j \in 1..Len(disp') : State(disp[j])' = State(disp[Place(pos, j)])
    BY <1>8, <1>10, <2>1 DEF State
  <2>3. pos' = 1
    BY <1>1, <1>14
  <2>4. \A j \in 1..Len(disp') : State(disp[j])' \in {"IF", "ID"}
    BY <1>10, <2>2 DEF IInv, DispatchPrefix
  <2>5. \A i, j \in 1..Len(disp') :
          i < j /\ State(disp[j])' = "ID" => State(disp[i])' = "ID"
    BY <1>10, <2>2 DEF IInv, DispatchPrefix
  <2>6. ~(pos' > 1)
    BY <2>3
  <2> QED BY <2>4, <2>5, <2>6 DEF DispatchPrefix
<1> QED BY <1>15, <1>16, <1>17 DEF IInv

-----------------------------------------------------------------------------
(* The sort of the issue list, which changes nothing, and IF to ID. *)
LEMMA DispatchDoneStep ==
  ASSUME IInv, DispatchDone
  PROVE  IInv'
<1> DEFINE new(k) == IF State(k) = "IF" /\ \E i \in 1..Len(disp) : disp[i] = k
                     THEN [listInst[k] EXCEPT !.state = "ID", !.cycle["ID"] = cycle]
                     ELSE listInst[k]
<1>1. Len(listInst) \in Nat /\ listInst \in Seq(InstData) /\ cycle \in Nat
  BY LenProperties DEF IInv, TypeOK
<1>2. ASSUME NEW k \in Insts
      PROVE  /\ new(k) \in InstData
             /\ State(k) = "ID" => new(k).state = "ID"
             /\ State(k) = "IF" /\ (\E i \in 1..Len(disp) : disp[i] = k)
                  => new(k).state = "ID"
  <2>1. listInst[k] \in InstData
    BY <1>1, ElementOfSeq DEF Insts
  <2>2. new(k) \in InstData
    <3>1. PICK e \in InstData, c \in Nat : e = listInst[k] /\ c = cycle
      BY <1>1, <2>1
    <3>2. [e EXCEPT !.state = "ID", !.cycle["ID"] = c] \in InstData
      BY DEF InstData, InstState
    <3> QED BY <3>1, <3>2
  <2>3. State(k) = "ID" => new(k).state = "ID"
    BY <1>1, <2>1 DEF InstData, State
  <2>4. State(k) = "IF" /\ (\E i \in 1..Len(disp) : disp[i] = k) => new(k).state = "ID"
    BY <1>1, <2>1 DEF InstData, State
  <2> QED BY <2>2, <2>3, <2>4
<1>3. listInst' = [k \in Insts |-> new(k)]
  BY DEF DispatchDone
<1> HIDE DEF new
<1>4. listInst' \in Seq(InstData) /\ Len(listInst') = Len(listInst)
  BY <1>1, <1>2, <1>3 DEF Insts
<1>5. Insts' = Insts /\ Node' = Node
  BY <1>4 DEF Insts, Node
<1>6. issue' = issue
  BY DEF DispatchDone, Sorted, NodeNum, IInv, InOrder
<1>7. /\ stage' = "fetch" /\ pos' = 1 /\ count' = 0
      /\ UNCHANGED <<cycle, traceDone, rmt, regName, disp, exec, wback, len>>
  BY DEF DispatchDone, GoTo
<1>8. TypeOK'
  <2>1. stage # "done"
    BY DEF DispatchDone
  <2> QED BY <1>4, <1>5, <1>6, <1>7, <2>1 DEF IInv, TypeOK, Stage
<1>9. InOrder'
  BY <1>6, <1>7 DEF IInv, InOrder
<1>10. DispatchPrefix'
  <2>1. ASSUME NEW j \in 1..Len(disp)
        PROVE  State(disp[j])' = "ID"
    <3>1. disp[j] \in Insts
      BY ElementOfSeq DEF IInv, TypeOK
    <3>2. State(disp[j]) \in {"IF", "ID"}
      BY DEF IInv, DispatchPrefix
    <3>3. new(disp[j]).state = "ID"
      BY <1>2, <3>1, <3>2
    <3> QED BY <1>3, <1>7, <3>1, <3>3 DEF State
  <2> QED BY <1>7, <2>1 DEF DispatchPrefix
<1> QED BY <1>8, <1>9, <1>10 DEF IInv

(* A fetched instruction has its types, whatever the line of the trace. *)
LEMMA NewInstType ==
  ASSUME TypeOK, NEW e \in TraceEntry
  PROVE  NewInst(e) \in InstData /\ NewInst(e).state = "IF"
<1>1. e \in Entry
  BY TraceAssumption
<1>2. /\ e.type \in 0..2 /\ e.mem \in Nat
      /\ RegField(e.dreg) \in Reg \cup {NoReg}
      /\ RegField(e.sreg1) \in Reg \cup {NoReg}
      /\ RegField(e.sreg2) \in Reg \cup {NoReg}
  BY <1>1 DEF Entry, RegField
<1>3. \A t \in 0..2 : Latency(t) \in 0..255
  BY DEF Latency
<1>4. [st \in InstState |-> IF st = "IF" THEN cycle ELSE 0] \in [InstState -> Nat]
  BY DEF TypeOK
<1>5. (IF e.type = 2 /\ HasL1 THEN 0 ELSE Latency(e.type)) \in 0..255
  BY <1>2, <1>3
<1>6. "IF" \in InstState
  BY DEF InstState
<1> QED BY <1>2, <1>4, <1>5, <1>6 DEF NewInst, InstData

(* A fetched instruction is the youngest, and in IF, at the tail. *)
LEMMA FetchInstStep ==
  ASSUME IInv, NEW e \in TraceEntry, FetchInst(e)
  PROVE  IInv'
<1> DEFINE n == Len(listInst) + 1
<1>1. /\ Len(listInst) \in Nat /\ listInst \in Seq(InstData) /\ count \in Nat
      /\ disp \in Seq(Insts) /\ Len(disp) \in Nat
      /\ issue \in Seq(Node) /\ Len(issue) \in Nat
      /\ exec \in Seq(Node) /\ Len(exec) \in Nat
  BY LenProperties DEF IInv, TypeOK
<1>2. /\ listInst' \in Seq(InstData) /\ Len(listInst') = n
      /\ \A k \in Insts : listInst'[k] = listInst[k]
      /\ listInst'[n].state = "IF"
  BY <1>1, NewInstType, AppendProperties DEF FetchInst, IInv, Insts
<1>3. Insts \subseteq Insts' /\ n \in Insts' /\ \A k \in Insts : k < n
  BY <1>1, <1>2 DEF Insts
<1>4. Node \subseteq Node'
  BY <1>3 DEF Node
<1>5. /\ disp \in Seq(Insts') /\ issue \in Seq(Node') /\ exec \in Seq(Node')
      /\ stage # "done" => wback \in Seq(Insts')
  BY <1>3, <1>4, SeqMonotonic DEF IInv, TypeOK
<1>6. disp' = Append(disp, n)
  BY DEF FetchInst
<1> HIDE DEF n
<1>7. /\ disp' \in Seq(Insts') /\ Len(disp') = Len(disp) + 1
      /\ \A j \in 1..Len(disp) : disp'[j] = disp[j]
      /\ disp'[Len(disp) + 1] = n
  BY <1>3, <1>5, <1>6, AppendProperties
<1>8. /\ stage = "fetch" /\ count' = count + 1
      /\ UNCHANGED <<stage, pos, cycle, traceDone, rmt, regName, issue, exec, wback>>
  BY DEF FetchInst
<1>9. len' \in [disp : Nat, issue : Nat, exec : Nat]
  <2>1. len' = [len EXCEPT !.disp = @ + 1] /\ len \in [disp : Nat, issue : Nat, exec : Nat]
    BY DEF FetchInst, IInv, TypeOK
  <2>2. len.disp + 1 \in Nat
    BY <2>1
  <2> QED BY <2>1, <2>2
<1>10. TypeOK'
  BY <1>1, <1>2, <1>5, <1>7, <1>8, <1>9 DEF IInv, TypeOK
<1>11. \A j \in 1..Len(disp') :
         \/ j \in 1..Len(disp) /\ disp'[j] = disp[j] /\ disp[j] \in Insts
         \/ j = Len(disp) + 1 /\ disp'[j] = n
  <2>1. \A j \in 1..Len(disp) : disp[j] \in Insts
    BY <1>1, ElementOfSeq
  <2> QED BY <1>1, <1>7, <2>1
<1>12. InOrder'
  <2>1. \A i \in 1..Len(issue) : issue[i].data < n
    <3>1. \A i \in 1..Len(issue) : issue[i] \in Node
      BY <1>1, ElementOfSeq
    <3> QED BY <1>3, <3>1 DEF Node
  <2>2. \A i \in 1..Len(exec) : exec[i].data < n
    <3>1. \A i \in 1..Len(exec) : exec[i] \in Node
      BY <1>1, ElementOfSeq
    <3> QED BY <1>3, <3>1 DEF Node
  <2>3. \A i, j \in 1..Len(disp') : i < j => disp'[i] < disp'[j]
    <3> SUFFICES ASSUME NEW i \in 1..Len(disp'), NEW j \in 1..Len(disp'), i < j
                 PROVE  disp'[i] < disp'[j]
      OBVIOUS
    <3>1. i \in 1..Len(disp) /\ disp'[i] = disp[i] /\ disp[i] \in Insts
      BY <1>1, <1>7, <1>11
    <3>2. CASE j \in 1..Len(disp) /\ disp'[j] = disp[j]
      BY <3>1, <3>2 DEF IInv, InOrder
    <3>3. CASE disp'[j] = n
      BY <1>3, <3>1, <3>3
    <3> QED BY <1>11, <3>2, <3>3
  <2>4. \A j \in 1..Len(disp') :
          /\ \A i \in 1..Len(issue') : issue'[i].data < disp'[j]
          /\ \A i \in 1..Len(exec') : exec'[i].data < disp'[j]
    BY <1>8, <1>11, <2>1, <2>2 DEF IInv, InOrder
  <2> QED BY <1>8, <2>3, <2>4 DEF IInv, InOrder
<1>13. DispatchPrefix'
  <2>1. \A j \in 1..Len(disp') :
          \/ j \in 1..Len(disp) /\ State(disp[j])' = State(disp[j])
          \/ j = Len(disp) + 1 /\ State(disp[j])' = "IF"
    BY <1>2, <1>11 DEF State
  <2>2. \A j \in 1..Len(disp') : State(disp[j])' \in {"IF", "ID"}
    BY <2>1 DEF IInv, DispatchPrefix
  <2>3. \A i, j \in 1..Len(disp') :
          i < j /\ State(disp[j])' = "ID" => State(disp[i])' = "ID"
    BY <1>1, <2>1 DEF IInv, DispatchPrefix
  <2>4. stage' # "dispatch"
    BY <1>8
  <2> QED BY <2>2, <2>3, <2>4 DEF DispatchPrefix
<1> QED BY <1>10, <1>12, <1>13 DEF IInv

(* The loop of dis_parse_tracefile is left. *)
LEMMA FinishStep ==
  ASSUME IInv, Finish
  PROVE  IInv'
<1>1. /\ stage' = "done" /\ pos' = 1 /\ count' = 0
      /\ UNCHANGED <<traceDone, listInst, rmt, regName, disp, issue, exec, len>>
  BY DEF Finish, GoTo
<1>2. cycle' \in Nat
  <2>1. \A c \in Nat : (c + 1) % CycleMod \in Nat
    BY WidthAssumption
  <2> QED BY <2>1 DEF Finish, NextCycle, IInv, TypeOK
<1>3. Insts' = Insts /\ Node' = Node
  BY <1>1 DEF Insts, Node
<1>4. TypeOK'
  BY <1>1, <1>2, <1>3 DEF IInv, TypeOK, Stage
<1>5. InOrder'
  BY <1>1 DEF IInv, InOrder
<1>6. DispatchPrefix'
  BY <1>1 DEF IInv, DispatchPrefix, State
<1> QED BY <1>4, <1>5, <1>6 DEF IInv

(* Every step of the program keeps the invariant. *)
LEMMA NextIInv == IInv /\ [Next]_vars => IInv'
<1> SUFFICES ASSUME IInv, [Next]_vars PROVE IInv'
  OBVIOUS
<1>1. cycle \in Nat /\ traceDone \in BOOLEAN
  BY DEF IInv, TypeOK
<1>2. CASE Retire
  BY <1>1, <1>2, StageStep DEF Retire, GoTo, Stage
<1>3. CASE Execute
  <2>1. PICK lat \in Answers : ExecuteWait(lat) \/ ExecuteComplete(lat)
    BY <1>3 DEF Execute
  <2>2. lat \in Nat
    BY CacheAssumption DEF Answers
  <2> QED BY <2>1, <2>2, ExecuteWaitStep, ExecuteCompleteStep
<1>4. CASE ExecuteDone
  BY <1>1, <1>4, StageStep DEF ExecuteDone, GoTo, Stage
<1>5. CASE IssuePush
  BY <1>5, IssuePushStep
<1>6. CASE IssueSkip
  BY <1>6, SkipStep
<1>7. CASE IssueDone
  BY <1>1, <1>7, StageStep DEF IssueDone, GoTo, Stage
<1>8. CASE DispatchMove
  BY <1>8, DispatchMoveStep
<1>9. CASE DispatchSkip
  BY <1>9, SkipStep
<1>10. CASE DispatchDone
  BY <1>10, DispatchDoneStep
<1>11. CASE Fetch
  <2>1. CASE \E e \in TraceEntry : FetchInst(e)
    BY <2>1, FetchInstStep
  <2>2. CASE FetchEOF
    BY <1>1, <2>2, StageStep DEF FetchEOF, GoTo, Stage
  <2>3. CASE FetchDone
    <3>1. disp' = disp
      BY <2>3 DEF FetchDone, Sorted, Self, IInv, InOrder
    <3> QED BY <1>1, <2>3, <3>1, StageStep DEF FetchDone, GoTo, Stage, lists
  <2>4. CASE FetchSkip
    BY <1>1, <2>4, StageStep DEF FetchSkip, GoTo, Stage
  <2> QED BY <1>11, <2>1, <2>2, <2>3, <2>4 DEF Fetch
<1>12. CASE Advance
  <2>1. \A c \in Nat : (c + 1) % CycleMod \in Nat
    BY WidthAssumption
  <2>2. cycle' \in Nat
    BY <1>1, <1>12, <2>1 DEF Advance, NextCycle
  <2> QED BY <1>1, <1>12, <2>2, StageStep DEF Advance, GoTo, Stage
<1>13. CASE Finish
  BY <1>13, FinishStep
<1>14. CASE UNCHANGED vars
  <2>1. Insts' = Insts /\ Node' = Node
    BY <1>14 DEF vars, Insts, Node
  <2>2. TypeOK'
    BY <1>14, <2>1 DEF vars, lists, IInv, TypeOK
  <2>3. InOrder' /\ DispatchPrefix'
    BY <1>14 DEF vars, lists, IInv, InOrder, DispatchPrefix, State
  <2> QED BY <2>2, <2>3 DEF IInv
<1> QED BY <1>2, <1>3, <1>4, <1>5, <1>6, <1>7, <1>8, <1>9, <1>10, <1>11, <1>12,
           <1>13, <1>14 DEF Next

(* The invariant holds of every state the program reaches. *)
LEMMA InvariantHolds == Spec => []IInv
<1>1. Init => IInv
  BY InitIInv
<1>2. IInv /\ [Next]_vars => IInv'
  BY NextIInv
<1> QED BY <1>1, <1>2, PTL DEF Spec

(* The simulator's state keeps its types, for every bandwidth, queue size, *)
(* register set, trace and cache.                                          *)
THEOREM TypeCorrect == Spec => []TypeOK
<1>1. IInv => TypeOK
  BY DEF IInv
<1> QED BY <1>1, InvariantHolds, PTL

(* Instructions leave list_disp in trace order, whatever dis_dispatch      *)
(* skips, and the sorts of dis_fetch and dis_dispatch change nothing.      *)
THEOREM InOrderDispatch == Spec => []InOrder
<1>1. IInv => InOrder
  BY DEF IInv
<1> QED BY <1>1, InvariantHolds, PTL

(* In list_disp the instructions in ID come before those in IF.            *)
THEOREM DispatchPrefixHolds == Spec => []DispatchPrefix
<1>1. IInv => DispatchPrefix
  BY DEF IInv
<1> QED BY <1>1, InvariantHolds, PTL

-----------------------------------------------------------------------------
(* What a step does to the record of instruction m: nothing but, perhaps,  *)
(* add to its latency; or it enters a state and gets its stamp.            *)
SameLine(m) ==
  /\ listInst'[m].type = listInst[m].type /\ listInst'[m].mem = listInst[m].mem
  /\ listInst'[m].dreg = listInst[m].dreg
  /\ listInst'[m].sreg1 = listInst[m].sreg1 /\ listInst'[m].sreg2 = listInst[m].sreg2
Same(m) ==
  /\ SameLine(m)
  /\ listInst'[m].state = listInst[m].state /\ listInst'[m].cycle = listInst[m].cycle
Enters(m, st) ==
  /\ SameLine(m) /\ listInst'[m].state = st
  /\ listInst'[m].cycle = [listInst[m].cycle EXCEPT ![st] = cycle]
Still == Len(listInst') = Len(listInst) /\ \A m \in Insts : Same(m)
OneEnters(k, st) ==
  /\ Len(listInst') = Len(listInst)
  /\ Enters(k, st)
  /\ \A m \in Insts \ {k} : Same(m)

-----------------------------------------------------------------------------
(* The list with the latency of one instruction changed, and then one      *)
(* instruction stamped: what Enter does to it.                             *)
LEMMA EnterEffect ==
  ASSUME NEW L \in Seq(InstData), NEW k \in Insts, NEW st \in InstState,
         cycle \in Nat, Len(L) = Len(listInst), listInst' = Enter(L, k, st),
         \A m \in Insts : /\ L[m].type = listInst[m].type /\ L[m].mem = listInst[m].mem
                          /\ L[m].dreg = listInst[m].dreg
                          /\ L[m].sreg1 = listInst[m].sreg1 /\ L[m].sreg2 = listInst[m].sreg2
                          /\ L[m].state = listInst[m].state /\ L[m].cycle = listInst[m].cycle
  PROVE  OneEnters(k, st)
<1> DEFINE new == [L[k] EXCEPT !.state = st, !.cycle[st] = cycle]
<1>1. L[k] \in InstData
  BY ElementOfSeq DEF Insts
<1>2. /\ new \in InstData /\ new.state = st /\ new.type = L[k].type /\ new.mem = L[k].mem
      /\ new.dreg = L[k].dreg /\ new.sreg1 = L[k].sreg1 /\ new.sreg2 = L[k].sreg2
      /\ new.cycle = [L[k].cycle EXCEPT ![st] = cycle]
  BY <1>1 DEF InstData
<1>3. listInst' = [L EXCEPT ![k] = new]
  BY DEF Enter
<1> HIDE DEF new
<1>4. /\ Len([L EXCEPT ![k] = new]) = Len(L)
      /\ \A m \in 1..Len(L) : [L EXCEPT ![k] = new][m] = IF m = k THEN new ELSE L[m]
  BY <1>2, ExceptSeq DEF Insts
<1>5. Len(listInst') = Len(listInst)
  BY <1>3, <1>4
<1>6. Enters(k, st)
  BY <1>2, <1>3, <1>4 DEF Enters, SameLine, Insts
<1>7. \A m \in Insts \ {k} : Same(m)
  BY <1>3, <1>4 DEF Same, SameLine, Insts
<1> QED BY <1>5, <1>6, <1>7 DEF OneEnters

(* A lookup changes nothing but a latency. *)
LEMMA AfterLookupEffect ==
  ASSUME listInst \in Seq(InstData), NEW k \in Insts, NEW lat \in Nat, NEW m \in Insts
  PROVE  LET L == AfterLookup(k, lat)
         IN  /\ L[m].type = listInst[m].type /\ L[m].mem = listInst[m].mem
             /\ L[m].dreg = listInst[m].dreg
             /\ L[m].sreg1 = listInst[m].sreg1 /\ L[m].sreg2 = listInst[m].sreg2
             /\ L[m].state = listInst[m].state /\ L[m].cycle = listInst[m].cycle
<1>1. CASE ~LooksUp(k)
  BY <1>1 DEF AfterLookup
<1>2. CASE LooksUp(k)
  <2> DEFINE new == [listInst[k] EXCEPT !.latency = (@ + lat) % 256]
  <2>1. AfterLookup(k, lat) = [listInst EXCEPT ![k] = new]
    BY <1>2 DEF AfterLookup
  <2>2. listInst[k] \in InstData /\ k \in DOMAIN listInst /\ m \in DOMAIN listInst
    BY ElementOfSeq, LenProperties DEF Insts
  <2>3. /\ new.state = listInst[k].state /\ new.type = listInst[k].type
        /\ new.mem = listInst[k].mem
        /\ new.dreg = listInst[k].dreg /\ new.sreg1 = listInst[k].sreg1
        /\ new.sreg2 = listInst[k].sreg2 /\ new.cycle = listInst[k].cycle
    BY <2>2 DEF InstData
  <2> HIDE DEF new
  <2>4. [listInst EXCEPT ![k] = new][m] = IF m = k THEN new ELSE listInst[m]
    BY <2>2
  <2> QED BY <2>1, <2>3, <2>4
<1> QED BY <1>1, <1>2

LEMMA StillUnchanged ==
  ASSUME listInst' = listInst
  PROVE  Still
BY DEF Still, Same, SameLine

LEMMA ExecuteWaitEffect ==
  ASSUME IInv, NEW lat \in Nat, ExecuteWait(lat)
  PROVE  Still
<1> DEFINE k == exec[pos].data
<1>1. k \in Insts /\ listInst \in Seq(InstData)
  <2>1. pos \in 1..Len(exec)
    BY LenProperties DEF ExecuteWait, IInv, TypeOK
  <2>2. exec[pos] \in Node
    BY <2>1, ElementOfSeq DEF IInv, TypeOK
  <2> QED BY <2>2 DEF Node, IInv, TypeOK
<1>2. listInst' = AfterLookup(k, lat)
  BY DEF ExecuteWait
<1> HIDE DEF k
<1>3. Len(listInst') = Len(listInst)
  BY <1>1, <1>2, AfterLookupProperties
<1>4. \A m \in Insts : Same(m)
  BY <1>1, <1>2, AfterLookupEffect DEF Same, SameLine
<1> QED BY <1>3, <1>4 DEF Still

LEMMA ExecuteCompleteEffect ==
  ASSUME IInv, NEW lat \in Nat, ExecuteComplete(lat)
  PROVE  /\ pos \in 1..Len(exec) /\ exec[pos] \in Node /\ exec[pos].data \in Insts
         /\ OneEnters(exec[pos].data, "WB")
<1> DEFINE k == exec[pos].data
           L == AfterLookup(k, lat)
<1>1. pos \in 1..Len(exec)
  BY LenProperties DEF ExecuteComplete, IInv, TypeOK
<1>2. exec[pos] \in Node
  BY <1>1, ElementOfSeq DEF IInv, TypeOK
<1>3. k \in Insts /\ listInst \in Seq(InstData) /\ cycle \in Nat /\ "WB" \in InstState
  BY <1>2 DEF Node, IInv, TypeOK, InstState
<1>4. listInst' = Enter(L, k, "WB")
  BY DEF ExecuteComplete
<1> HIDE DEF k
<1>5. L \in Seq(InstData) /\ Len(L) = Len(listInst)
  BY <1>3, AfterLookupProperties
<1>6. \A m \in Insts : /\ L[m].type = listInst[m].type /\ L[m].mem = listInst[m].mem
                       /\ L[m].dreg = listInst[m].dreg
                       /\ L[m].sreg1 = listInst[m].sreg1 /\ L[m].sreg2 = listInst[m].sreg2
                       /\ L[m].state = listInst[m].state /\ L[m].cycle = listInst[m].cycle
  BY <1>3, AfterLookupEffect
<1> HIDE DEF L
<1>7. OneEnters(k, "WB")
  BY <1>3, <1>4, <1>5, <1>6, EnterEffect
<1> QED BY <1>1, <1>2, <1>3, <1>7 DEF k

LEMMA IssuePushEffect ==
  ASSUME IInv, IssuePush
  PROVE  /\ pos \in 1..Len(issue) /\ issue[pos] \in Node /\ issue[pos].data \in Insts
         /\ OneEnters(issue[pos].data, "EX")
<1>1. pos \in 1..Len(issue)
  BY LenProperties DEF IssuePush, IInv, TypeOK
<1>2. issue[pos] \in Node
  BY <1>1, ElementOfSeq DEF IInv, TypeOK
<1>3. /\ issue[pos].data \in Insts /\ listInst \in Seq(InstData) /\ cycle \in Nat
      /\ "EX" \in InstState
  BY <1>2 DEF Node, IInv, TypeOK, InstState
<1>4. OneEnters(issue[pos].data, "EX")
  BY <1>3, EnterEffect DEF IssuePush
<1> QED BY <1>1, <1>2, <1>3, <1>4

LEMMA DispatchMoveEffect ==
  ASSUME IInv, DispatchMove
  PROVE  /\ pos = 1 /\ pos \in 1..Len(disp) /\ disp[pos] \in Insts
         /\ OneEnters(disp[pos], "IS")
<1>1. pos = 1 /\ pos \in 1..Len(disp)
  BY MovesHead, LenProperties DEF DispatchMove, IInv, TypeOK
<1>2. disp[pos] \in Insts /\ listInst \in Seq(InstData) /\ cycle \in Nat /\ "IS" \in InstState
  BY <1>1, ElementOfSeq DEF IInv, TypeOK, InstState
<1>3. OneEnters(disp[pos], "IS")
  BY <1>2, EnterEffect DEF DispatchMove
<1> QED BY <1>1, <1>2, <1>3

(* The sort changes nothing, and all that are in IF go to ID. *)
LEMMA DispatchDoneEffect ==
  ASSUME IInv, DispatchDone
  PROVE  /\ Len(listInst') = Len(listInst) /\ issue' = issue
         /\ \A m \in Insts : Same(m) \/ (State(m) = "IF" /\ Enters(m, "ID"))
<1> DEFINE new(k) == IF State(k) = "IF" /\ \E i \in 1..Len(disp) : disp[i] = k
                     THEN [listInst[k] EXCEPT !.state = "ID", !.cycle["ID"] = cycle]
                     ELSE listInst[k]
<1>1. Len(listInst) \in Nat /\ listInst \in Seq(InstData) /\ cycle \in Nat
  BY LenProperties DEF IInv, TypeOK
<1>2. listInst' = [k \in Insts |-> new(k)]
  BY DEF DispatchDone
<1> HIDE DEF new
<1>3. Len(listInst') = Len(listInst)
  BY <1>1, <1>2 DEF Insts
<1>4. issue' = issue
  BY DEF DispatchDone, Sorted, NodeNum, IInv, InOrder
<1>5. ASSUME NEW m \in Insts
      PROVE  Same(m) \/ (State(m) = "IF" /\ Enters(m, "ID"))
  <2>1. listInst[m] \in InstData
    BY <1>1, ElementOfSeq DEF Insts
  <2>2. CASE State(m) = "IF" /\ \E i \in 1..Len(disp) : disp[i] = m
    <3>1. listInst'[m] = [listInst[m] EXCEPT !.state = "ID", !.cycle["ID"] = cycle]
      BY <1>2, <2>2 DEF new
    <3>2. Enters(m, "ID")
      BY <2>1, <3>1 DEF Enters, SameLine, InstData
    <3> QED BY <2>2, <3>2
  <2>3. CASE ~(State(m) = "IF" /\ \E i \in 1..Len(disp) : disp[i] = m)
    <3>1. listInst'[m] = listInst[m]
      BY <1>2, <2>3 DEF new
    <3> QED BY <3>1 DEF Same, SameLine
  <2> QED BY <2>2, <2>3
<1> QED BY <1>3, <1>4, <1>5

LEMMA FetchInstEffect ==
  ASSUME IInv, NEW e \in TraceEntry, FetchInst(e)
  PROVE  /\ Len(listInst) \in Nat
         /\ Len(listInst') = Len(listInst) + 1
         /\ \A m \in Insts : Same(m)
         /\ listInst'[Len(listInst) + 1] = NewInst(e)
         /\ NewInst(e) \in InstData /\ NewInst(e).state = "IF"
<1>1. listInst \in Seq(InstData) /\ NewInst(e) \in InstData /\ NewInst(e).state = "IF"
  BY NewInstType DEF IInv, TypeOK
<1>2. listInst' = Append(listInst, NewInst(e)) /\ Len(listInst) \in Nat
  BY <1>1, LenProperties DEF FetchInst
<1>3. /\ Len(listInst') = Len(listInst) + 1
      /\ \A m \in Insts : listInst'[m] = listInst[m]
      /\ listInst'[Len(listInst) + 1] = NewInst(e)
  BY <1>1, <1>2, AppendProperties DEF Insts
<1> QED BY <1>1, <1>2, <1>3 DEF Same, SameLine

-----------------------------------------------------------------------------
(* Lists without repetition. *)
Once(list) == \A i, j \in 1..Len(list) : i # j => list[i] # list[j]
OnceIn(nodes) == \A i, j \in 1..Len(nodes) : i # j => nodes[i].data # nodes[j].data

(* Every node but the deleted one is still there. *)
LEMMA WithoutKeeps ==
  ASSUME NEW T, NEW s \in Seq(T), NEW i \in 1..Len(s), NEW m \in 1..Len(s), m # i
  PROVE  \E j \in 1..Len(Without(s, i)) : Place(i, j) = m
<1>1. Len(s) \in Nat /\ Len(Without(s, i)) = Len(s) - 1
  BY LenProperties, WithoutProperties
<1>2. CASE m < i
  <2>1. m \in 1..Len(Without(s, i)) /\ Place(i, m) = m
    BY <1>1, <1>2 DEF Place
  <2> QED BY <2>1
<1>3. CASE m > i
  <2>1. m - 1 \in 1..Len(Without(s, i)) /\ Place(i, m - 1) = m
    BY <1>1, <1>3 DEF Place
  <2> QED BY <2>1
<1> QED BY <1>1, <1>2, <1>3

LEMMA ItemsOfWithout ==
  ASSUME NEW T, NEW s \in Seq(T), NEW i \in 1..Len(s), Once(s)
  PROVE  /\ ItemsOf(Without(s, i)) = ItemsOf(s) \ {s[i]}
         /\ Once(Without(s, i))
<1> DEFINE w == Without(s, i)
<1>1. /\ \A j \in 1..Len(w) : Place(i, j) \in 1..Len(s) /\ w[j] = s[Place(i, j)]
      /\ \A j, m \in 1..Len(w) : j < m => Place(i, j) < Place(i, m)
      /\ Len(s) \in Nat /\ Len(w) \in Nat
  BY WithoutProperties, LenProperties
<1>2. \A j \in 1..Len(w) : Place(i, j) # i
  BY <1>1 DEF Place
<1>3. \A m \in 1..Len(s) : m # i => \E j \in 1..Len(w) : Place(i, j) = m
  BY WithoutKeeps
<1> HIDE DEF w
<1>4. ItemsOf(w) = ItemsOf(s) \ {s[i]}
  <2>1. ASSUME NEW j \in 1..Len(w)
        PROVE  w[j] \in ItemsOf(s) \ {s[i]}
    BY <1>1, <1>2 DEF ItemsOf, Once
  <2>2. ASSUME NEW m \in 1..Len(s), s[m] # s[i]
        PROVE  s[m] \in ItemsOf(w)
    <3>1. PICK j \in 1..Len(w) : Place(i, j) = m
      BY <1>3, <2>2
    <3> QED BY <1>1, <3>1 DEF ItemsOf
  <2> QED BY <2>1, <2>2 DEF ItemsOf
<1>5. \A j, m \in 1..Len(w) : j # m => Place(i, j) # Place(i, m)
  BY DEF Place
<1>6. Once(w)
  BY <1>1, <1>5 DEF Once
<1> QED BY <1>4, <1>6 DEF w

LEMMA DataOfWithout ==
  ASSUME NEW T, NEW s \in Seq(T), NEW i \in 1..Len(s), OnceIn(s)
  PROVE  /\ DataOf(Without(s, i)) = DataOf(s) \ {s[i].data}
         /\ OnceIn(Without(s, i))
<1> DEFINE w == Without(s, i)
<1>1. /\ \A j \in 1..Len(w) : Place(i, j) \in 1..Len(s) /\ w[j] = s[Place(i, j)]
      /\ Len(s) \in Nat /\ Len(w) \in Nat
  BY WithoutProperties, LenProperties
<1>2. \A j \in 1..Len(w) : Place(i, j) # i
  BY <1>1 DEF Place
<1>3. \A m \in 1..Len(s) : m # i => \E j \in 1..Len(w) : Place(i, j) = m
  BY WithoutKeeps
<1> HIDE DEF w
<1>4. DataOf(w) = DataOf(s) \ {s[i].data}
  <2>1. ASSUME NEW j \in 1..Len(w)
        PROVE  w[j].data \in DataOf(s) \ {s[i].data}
    BY <1>1, <1>2 DEF DataOf, OnceIn
  <2>2. ASSUME NEW m \in 1..Len(s), s[m].data # s[i].data
        PROVE  s[m].data \in DataOf(w)
    <3>1. PICK j \in 1..Len(w) : Place(i, j) = m
      BY <1>3, <2>2
    <3> QED BY <1>1, <3>1 DEF DataOf
  <2> QED BY <2>1, <2>2 DEF DataOf
<1>5. \A j, m \in 1..Len(w) : j # m => Place(i, j) # Place(i, m)
  BY DEF Place
<1>6. OnceIn(w)
  BY <1>1, <1>5 DEF OnceIn
<1> QED BY <1>4, <1>6 DEF w

LEMMA ItemsOfAppend ==
  ASSUME NEW T, NEW s \in Seq(T), NEW x \in T
  PROVE  /\ ItemsOf(Append(s, x)) = ItemsOf(s) \cup {x}
         /\ Once(s) /\ x \notin ItemsOf(s) => Once(Append(s, x))
<1>1. /\ Len(Append(s, x)) = Len(s) + 1 /\ Len(s) \in Nat
      /\ \A j \in 1..Len(s) : Append(s, x)[j] = s[j]
      /\ Append(s, x)[Len(s) + 1] = x
  BY AppendProperties, LenProperties
<1>2. \A j \in 1..(Len(s) + 1) : j \in 1..Len(s) \/ j = Len(s) + 1
  BY <1>1
<1>3. ItemsOf(Append(s, x)) = ItemsOf(s) \cup {x}
  BY <1>1, <1>2 DEF ItemsOf
<1>4. ASSUME Once(s), x \notin ItemsOf(s)
      PROVE  Once(Append(s, x))
  BY <1>1, <1>2, <1>4 DEF ItemsOf, Once
<1> QED BY <1>3, <1>4

LEMMA DataOfAppend ==
  ASSUME NEW T, NEW s \in Seq(T), NEW x \in T
  PROVE  /\ DataOf(Append(s, x)) = DataOf(s) \cup {x.data}
         /\ OnceIn(s) /\ x.data \notin DataOf(s) => OnceIn(Append(s, x))
<1>1. /\ Len(Append(s, x)) = Len(s) + 1 /\ Len(s) \in Nat
      /\ \A j \in 1..Len(s) : Append(s, x)[j] = s[j]
      /\ Append(s, x)[Len(s) + 1] = x
  BY AppendProperties, LenProperties
<1>2. \A j \in 1..(Len(s) + 1) : j \in 1..Len(s) \/ j = Len(s) + 1
  BY <1>1
<1>3. DataOf(Append(s, x)) = DataOf(s) \cup {x.data}
  BY <1>1, <1>2 DEF DataOf
<1>4. ASSUME OnceIn(s), x.data \notin DataOf(s)
      PROVE  OnceIn(Append(s, x))
  BY <1>1, <1>2, <1>4 DEF DataOf, OnceIn
<1> QED BY <1>3, <1>4

(* A list without repetition has as many items as nodes. *)
LEMMA ItemsCount ==
  ASSUME NEW T, NEW s \in Seq(T), Once(s)
  PROVE  Cardinality(ItemsOf(s)) = Len(s)
<1>1. Len(s) \in Nat /\ s \in [1..Len(s) -> T]
  BY LenProperties
<1>2. s \in Bijection(1..Len(s), ItemsOf(s))
  BY <1>1 DEF Bijection, Injection, IsInjective, Surjection, ItemsOf, Once
<1>3. ExistsBijection(1..Len(s), ItemsOf(s))
  BY <1>2 DEF ExistsBijection
<1> QED BY <1>1, <1>3, FS_CountingElements

LEMMA DataCount ==
  ASSUME NEW T, NEW s \in Seq(T), OnceIn(s)
  PROVE  Cardinality(DataOf(s)) = Len(s)
<1> DEFINE f == [i \in 1..Len(s) |-> s[i].data]
<1>1. Len(s) \in Nat
  BY LenProperties
<1>2. f \in Bijection(1..Len(s), DataOf(s))
  BY <1>1 DEF Bijection, Injection, IsInjective, Surjection, DataOf, OnceIn
<1>3. ExistsBijection(1..Len(s), DataOf(s))
  BY <1>2 DEF ExistsBijection
<1> QED BY <1>1, <1>3, FS_CountingElements

(* Different numbers have different ranks, and every rank is taken. *)
LEMMA RanksTaken ==
  ASSUME NEW s \in Seq(Nat), Once(s)
  PROVE  /\ \A i \in 1..Len(s) : \E j \in 1..Len(s) : Cardinality(Older(s, Self, j)) = i - 1
         /\ \A j \in 1..Len(s) : /\ Cardinality(Older(s, Self, j)) \in Int
                                 /\ Cardinality(Older(s, Self, j)) + 1 \in 1..Len(s)
         /\ \A i, j \in 1..Len(s) :
              i # j => Cardinality(Older(s, Self, i)) # Cardinality(Older(s, Self, j))
<1> DEFINE n == Len(s)
           Before(j) == Older(s, Self, j)
<1>a. n \in Nat /\ \A j \in 1..n : s[j] \in Nat
  BY LenProperties, ElementOfSeq
<1>b. \A j \in 1..n : \A m : m \in Before(j) <=> m \in 1..n /\ s[m] < s[j]
  BY DEF Older, Self
<1>c. \A i, j \in 1..n : i # j => s[i] # s[j]
  BY DEF Once
<1> HIDE DEF n, Before
<1> DEFINE Rank == [j \in 1..n |-> Cardinality(Before(j))]
<1>1. \A j, m \in 1..n : m \in Before(j) <=> s[m] < s[j]
  BY <1>b
<1>2. IsFiniteSet(1..n) /\ Cardinality(1..n) = n
  BY FS_Interval, <1>a
<1>3. \A j \in 1..n : IsFiniteSet(Before(j))
  <2> TAKE j \in 1..n
  <2>1. Before(j) \subseteq 1..n
    BY <1>b
  <2> QED BY <1>2, <2>1, FS_Subset
<1>4. \A j \in 1..n : Cardinality(Before(j)) \in 0..(n - 1)
  <2> TAKE j \in 1..n
  <2>1. Before(j) \subseteq (1..n) \ {j}
    BY <1>a, <1>b
  <2>2. IsFiniteSet((1..n) \ {j}) /\ Cardinality((1..n) \ {j}) = n - 1
    BY <1>2, <1>a, FS_RemoveElement
  <2>3. Cardinality(Before(j)) <= n - 1
    BY <2>1, <2>2, FS_Subset
  <2>4. Cardinality(Before(j)) \in Nat
    BY <1>3, FS_CardinalityType
  <2> QED BY <1>a, <2>3, <2>4
<1>5. ASSUME NEW j \in 1..n, NEW m \in 1..n, s[j] < s[m]
      PROVE  Cardinality(Before(j)) # Cardinality(Before(m))
  <2>1. j \in Before(m) /\ j \notin Before(j)
    BY <1>1, <1>5, <1>a
  <2>2. Before(j) \subseteq Before(m)
    <3>1. \A i \in 1..n : s[i] < s[j] => s[i] < s[m]
      BY <1>5, <1>a
    <3> QED BY <1>b, <3>1
  <2> QED BY <1>3, <2>1, <2>2, FS_Subset
<1>6. \A i, j \in 1..n : i # j => Cardinality(Before(i)) # Cardinality(Before(j))
  <2> SUFFICES ASSUME NEW i \in 1..n, NEW j \in 1..n, i # j
               PROVE  Cardinality(Before(i)) # Cardinality(Before(j))
    OBVIOUS
  <2>1. s[i] < s[j] \/ s[j] < s[i]
    BY <1>a, <1>c
  <2> QED BY <1>5, <2>1
<1>7. Rank \in Injection(1..n, 0..(n - 1))
  BY <1>4, <1>6 DEF Injection, IsInjective
<1>8. IsFiniteSet(0..(n - 1)) /\ Cardinality(0..(n - 1)) = n
  <2>1. 0 \in Int /\ n - 1 \in Int
    BY <1>a
  <2>2. /\ IsFiniteSet(0..(n - 1))
        /\ Cardinality(0..(n - 1)) = IF 0 > n - 1 THEN 0 ELSE (n - 1) - 0 + 1
    BY <2>1, FS_Interval
  <2> QED BY <1>a, <2>2
<1>9. Rank \in Surjection(1..n, 0..(n - 1))
  BY <1>2, <1>7, <1>8, FS_Injection
<1>10. \A i \in 1..n : i - 1 \in 0..(n - 1)
  BY <1>a
<1>11. \A i \in 1..n : \E j \in 1..n : Rank[j] = i - 1
  BY <1>9, <1>10 DEF Surjection
<1>12. \A j \in 1..n : Cardinality(Before(j)) \in Int /\ Cardinality(Before(j)) + 1 \in 1..n
  BY <1>4, <1>a
<1> QED BY <1>6, <1>11, <1>12 DEF n, Before

(* The sort keeps the items of a list without repetition: exactly one node *)
(* has i - 1 older ones.                                                   *)
LEMMA SortedItems ==
  ASSUME NEW s \in Seq(Nat), Once(s)
  PROVE  /\ ItemsOf(Sorted(s, Self)) = ItemsOf(s) /\ Once(Sorted(s, Self))
         /\ Sorted(s, Self) \in Seq(ItemsOf(s))
         /\ Len(Sorted(s, Self)) = Len(s)
<1> DEFINE n == Len(s)
           R(j) == Cardinality(Older(s, Self, j))
           Node1(i) == CHOOSE j \in 1..n : R(j) = i - 1
           t == [i \in 1..n |-> s[Node1(i)]]
<1>1. n \in Nat /\ \A j \in 1..n : s[j] \in Nat
  BY LenProperties, ElementOfSeq
<1>2. \A j \in 1..n : Older(s, Self, j) = {m \in 1..n : s[m] < s[j]}
  BY DEF Older, Self
<1>3. Sorted(s, Self) = s \/ Sorted(s, Self) = t
  BY DEF Sorted
<1>4. s \in Seq(ItemsOf(s))
  <2>1. s \in [1..n -> ItemsOf(s)]
    BY LenProperties DEF ItemsOf
  <2> QED BY <1>1, <2>1, SeqDef
<1>5. \A i, j \in 1..n : i # j => s[i] # s[j]
  BY DEF Once
<1> HIDE DEF n
<1>6. /\ \A i \in 1..n : \E j \in 1..n : R(j) = i - 1
      /\ \A j \in 1..n : R(j) \in Int /\ R(j) + 1 \in 1..n
      /\ \A i, j \in 1..n : i # j => R(i) # R(j)
  BY RanksTaken DEF n
<1> HIDE DEF R
<1>7. \A i \in 1..n : Node1(i) \in 1..n /\ R(Node1(i)) = i - 1
  BY <1>6
<1>8. \A j \in 1..n : Node1(R(j) + 1) = j
  <2> TAKE j \in 1..n
  <2>1. R(j) + 1 \in 1..n
    BY <1>6
  <2>2. (R(j) + 1) - 1 = R(j)
    <3>1. R(j) \in Int
      BY <1>6
    <3> QED BY <3>1
  <2> QED BY <1>6, <1>7, <2>1, <2>2
<1> HIDE DEF Node1
<1>9. \A i, j \in 1..n : i # j => Node1(i) # Node1(j)
  BY <1>1, <1>7
<1>10. t \in Seq(ItemsOf(s)) /\ Len(t) = n
  <2>1. \A i \in 1..n : s[Node1(i)] \in ItemsOf(s)
    BY <1>7 DEF ItemsOf, n
  <2> QED BY <1>1, <2>1
<1>11. ItemsOf(t) = ItemsOf(s)
  <2>1. \A i \in 1..n : t[i] \in ItemsOf(s)
    BY <1>7 DEF ItemsOf, n
  <2>2. \A j \in 1..n : s[j] \in ItemsOf(t)
    <3> TAKE j \in 1..n
    <3>1. R(j) + 1 \in 1..n /\ t[R(j) + 1] = s[j]
      BY <1>6, <1>8
    <3> QED BY <1>10, <3>1 DEF ItemsOf
  <2>3. ItemsOf(t) \subseteq ItemsOf(s)
    BY <1>10, <2>1 DEF ItemsOf
  <2>4. ItemsOf(s) \subseteq ItemsOf(t)
    <3> HIDE DEF t
    <3> QED BY <2>2 DEF ItemsOf, n
  <2> QED BY <2>3, <2>4
<1>12. Once(t)
  BY <1>5, <1>7, <1>9, <1>10 DEF Once
<1> HIDE DEF t
<1> QED BY <1>3, <1>4, <1>10, <1>11, <1>12 DEF n

-----------------------------------------------------------------------------
(* ListsMatchStates in the form that is inductive: it needs the order of   *)
(* the lists that InOrder states, by which list_disp and the issue list    *)
(* have no instruction twice.                                              *)
Placed(k) ==
  /\ State(k) \in {"IF", "ID"} <=> k \in ItemsOf(disp)
  /\ State(k) = "IS" <=> k \in DataOf(issue)
  /\ State(k) = "EX" <=> k \in DataOf(exec)
  /\ State(k) = "WB" <=> k \in ItemsOf(wback)
Counted == len.disp = Len(disp) /\ len.issue = Len(issue) /\ len.exec = Len(exec)
ListInv ==
  /\ \A k \in Insts : Placed(k)
  /\ wback \in Seq(Insts)
  /\ OnceIn(exec) /\ Once(wback)
  /\ Counted

LEMMA OrderedOnce == IInv => Once(disp) /\ OnceIn(issue)
<1> SUFFICES ASSUME IInv PROVE Once(disp) /\ OnceIn(issue)
  OBVIOUS
<1>1. Len(disp) \in Nat /\ \A i \in 1..Len(disp) : disp[i] \in Nat
  <2>1. \A i \in 1..Len(disp) : disp[i] \in Insts
    BY ElementOfSeq DEF IInv, TypeOK
  <2> QED BY <2>1, LenProperties DEF Insts, IInv, TypeOK
<1>2. Len(issue) \in Nat /\ \A i \in 1..Len(issue) : issue[i].data \in Nat
  <2>1. \A i \in 1..Len(issue) : issue[i] \in Node
    BY ElementOfSeq DEF IInv, TypeOK
  <2> QED BY <2>1, LenProperties DEF Insts, Node, IInv, TypeOK
<1>3. Once(disp)
  <2> SUFFICES ASSUME NEW i \in 1..Len(disp), NEW j \in 1..Len(disp), i # j
               PROVE  disp[i] # disp[j]
    BY DEF Once
  <2>1. i < j \/ j < i
    BY <1>1
  <2> QED BY <1>1, <2>1 DEF IInv, InOrder
<1>4. OnceIn(issue)
  <2> SUFFICES ASSUME NEW i \in 1..Len(issue), NEW j \in 1..Len(issue), i # j
               PROVE  issue[i].data # issue[j].data
    BY DEF OnceIn
  <2>1. i < j \/ j < i
    BY <1>2
  <2> QED BY <1>2, <2>1 DEF IInv, InOrder
<1> QED BY <1>3, <1>4

(* The other form says the same, and counts. *)
LEMMA ListInvCounts == IInv /\ ListInv => ListsMatchStates
<1> SUFFICES ASSUME IInv, ListInv PROVE ListsMatchStates
  OBVIOUS
<1>1. /\ Cardinality(ItemsOf(disp)) = Len(disp) /\ Cardinality(DataOf(issue)) = Len(issue)
      /\ Cardinality(DataOf(exec)) = Len(exec) /\ Cardinality(ItemsOf(wback)) = Len(wback)
  BY OrderedOnce, ItemsCount, DataCount DEF ListInv, IInv, TypeOK
<1>2. /\ ItemsOf(disp) \subseteq Insts /\ DataOf(issue) \subseteq Insts
      /\ DataOf(exec) \subseteq Insts /\ ItemsOf(wback) \subseteq Insts
  <2>1. /\ \A i \in 1..Len(disp) : disp[i] \in Insts
        /\ \A i \in 1..Len(issue) : issue[i] \in Node
        /\ \A i \in 1..Len(exec) : exec[i] \in Node
        /\ \A i \in 1..Len(wback) : wback[i] \in Insts
    BY ElementOfSeq DEF IInv, TypeOK, ListInv
  <2> QED BY <2>1 DEF ItemsOf, DataOf, Node
<1>3. /\ InState({"IF", "ID"}) = ItemsOf(disp) /\ InState({"IS"}) = DataOf(issue)
      /\ InState({"EX"}) = DataOf(exec) /\ InState({"WB"}) = ItemsOf(wback)
  BY <1>2 DEF ListInv, Placed, InState
<1>4. len = [disp |-> Len(disp), issue |-> Len(issue), exec |-> Len(exec)]
  BY DEF ListInv, Counted, IInv, TypeOK
<1> QED BY <1>1, <1>3, <1>4 DEF ListsMatchStates

-----------------------------------------------------------------------------
LEMMA ListInit == Init => ListInv
<1> SUFFICES ASSUME Init PROVE ListInv
  OBVIOUS
<1>1. Insts = {}
  BY EmptySeq DEF Init, Insts
<1>2. wback \in Seq(Insts) /\ OnceIn(exec) /\ Once(wback) /\ Counted
  BY EmptySeq DEF Init, OnceIn, Once, Counted
<1> QED BY <1>1, <1>2 DEF ListInv

(* Steps that move no node, and after which an instruction is in the state *)
(* it was in, or in ID where it was in IF.                                 *)
LEMMA ListsStay ==
  ASSUME ListInv, Len(listInst') = Len(listInst), UNCHANGED lists,
         \A m \in Insts : Same(m) \/ (State(m) = "IF" /\ Enters(m, "ID"))
  PROVE  ListInv'
<1>1. Insts' = Insts
  BY DEF Insts
<1>2. UNCHANGED <<disp, issue, exec, wback, len>>
  BY DEF lists
<1>3. ASSUME NEW m \in Insts
      PROVE  Placed(m)'
  <2>1. /\ listInst'[m].state \in {"IF", "ID"} <=> State(m) \in {"IF", "ID"}
        /\ \A st \in {"IS", "EX", "WB"} : listInst'[m].state = st <=> State(m) = st
    BY DEF Same, Enters, State
  <2>2. Placed(m)
    BY DEF ListInv
  <2> QED BY <1>2, <2>1, <2>2 DEF Placed, State, ItemsOf, DataOf
<1>4. wback' \in Seq(Insts') /\ OnceIn(exec)' /\ Once(wback)' /\ Counted'
  BY <1>1, <1>2 DEF ListInv, OnceIn, Once, Counted
<1> QED BY <1>1, <1>3, <1>4 DEF ListInv

(* One instruction goes from the list of its state to that of another. *)
LEMMA ListsMove ==
  ASSUME ListInv, NEW k \in Insts, NEW st \in InstState, OneEnters(k, st),
         ItemsOf(disp)' = IF State(k) \in {"IF", "ID"} THEN ItemsOf(disp) \ {k} ELSE ItemsOf(disp),
         DataOf(issue)' = IF State(k) = "IS" THEN DataOf(issue) \ {k}
                          ELSE IF st = "IS" THEN DataOf(issue) \cup {k} ELSE DataOf(issue),
         DataOf(exec)' = IF State(k) = "EX" THEN DataOf(exec) \ {k}
                         ELSE IF st = "EX" THEN DataOf(exec) \cup {k} ELSE DataOf(exec),
         ItemsOf(wback)' = IF st = "WB" THEN ItemsOf(wback) \cup {k} ELSE ItemsOf(wback),
         st \in {"IS", "EX", "WB"}, State(k) # st, State(k) # "WB", State(k) \in InstState
  PROVE  \A m \in Insts' : Placed(m)'
<1>1. Insts' = Insts
  BY DEF Insts, OneEnters
<1>2. ASSUME NEW m \in Insts
      PROVE  Placed(m)'
  <2>1. Placed(m)
    BY DEF ListInv
  <2>2. CASE m = k
    <3>1. listInst'[m].state = st
      BY <2>2 DEF OneEnters, Enters
    <3> QED BY <2>1, <2>2, <3>1 DEF Placed, State, InstState
  <2>3. CASE m # k
    <3>1. listInst'[m].state = listInst[m].state
      BY <2>3 DEF OneEnters, Same
    <3> QED BY <2>1, <2>3, <3>1 DEF Placed, State
  <2> QED BY <2>2, <2>3
<1> QED BY <1>1, <1>2

LEMMA ListsExecuteComplete ==
  ASSUME IInv, ListInv, NEW lat \in Nat, ExecuteComplete(lat)
  PROVE  ListInv'
<1> DEFINE k == exec[pos].data
<1>1. pos \in 1..Len(exec) /\ exec[pos] \in Node /\ k \in Insts /\ OneEnters(k, "WB")
  BY ExecuteCompleteEffect
<1>2. Insts' = Insts
  BY <1>1 DEF OneEnters, Insts
<1>3. exec \in Seq(Node) /\ Len(exec) \in Nat /\ wback \in Seq(Insts) /\ OnceIn(exec)
  BY LenProperties DEF IInv, TypeOK, ListInv
<1>4. State(k) = "EX"
  BY <1>1 DEF ListInv, Placed, DataOf
<1>5. /\ DataOf(exec') = DataOf(exec) \ {k} /\ OnceIn(exec')
      /\ Len(exec') = Len(exec) - 1
  BY <1>1, <1>3, DataOfWithout, WithoutProperties DEF ExecuteComplete
<1>6. k \notin ItemsOf(wback)
  BY <1>1, <1>4 DEF ListInv, Placed
<1>7. wback' = Append(wback, k)
  BY DEF ExecuteComplete
<1> HIDE DEF k
<1>8. /\ ItemsOf(wback') = ItemsOf(wback) \cup {k} /\ Once(wback')
      /\ wback' \in Seq(Insts)
  BY <1>1, <1>3, <1>6, <1>7, ItemsOfAppend, AppendProperties DEF ListInv
<1>9. Len(issue') = Len(issue) /\ \A i \in 1..Len(issue) : issue'[i].data = issue[i].data
  <2>1. exec[pos].dreg.name \in Nat
    BY <1>1 DEF Node, RegData
  <2> QED BY <2>1, UpdateRegsProperties DEF ExecuteComplete, IInv
<1>10. DataOf(issue') = DataOf(issue)
  BY <1>9 DEF DataOf
<1>11. UNCHANGED disp /\ len' = [len EXCEPT !.exec = Dec(@)]
  BY DEF ExecuteComplete
<1>12. Counted'
  <2>1. Dec(len.exec) = Len(exec) - 1
    BY <1>1, <1>3 DEF ListInv, Counted, Dec
  <2> QED BY <1>5, <1>9, <1>11, <2>1 DEF ListInv, Counted, IInv, TypeOK
<1>13. \A m \in Insts' : Placed(m)'
  <2>1. ItemsOf(disp)' = ItemsOf(disp)
    BY <1>11 DEF ItemsOf
  <2>2. "WB" \in InstState /\ "EX" \in InstState
    BY DEF InstState
  <2> QED BY <1>1, <1>4, <1>5, <1>8, <1>10, <2>1, <2>2, ListsMove
<1> QED BY <1>2, <1>5, <1>8, <1>12, <1>13 DEF ListInv

LEMMA ListsIssuePush ==
  ASSUME IInv, ListInv, IssuePush
  PROVE  ListInv'
<1> DEFINE k == issue[pos].data
<1>1. pos \in 1..Len(issue) /\ issue[pos] \in Node /\ k \in Insts /\ OneEnters(k, "EX")
  BY IssuePushEffect
<1>2. Insts' = Insts
  BY <1>1 DEF OneEnters, Insts
<1>3. /\ issue \in Seq(Node) /\ Len(issue) \in Nat /\ OnceIn(issue)
      /\ exec \in Seq(Node) /\ Len(exec) \in Nat /\ OnceIn(exec)
  BY LenProperties, OrderedOnce DEF IInv, TypeOK, ListInv
<1>4. State(k) = "IS" /\ k \notin DataOf(exec)
  BY <1>1 DEF ListInv, Placed, DataOf
<1>5. DataOf(issue') = DataOf(issue) \ {k} /\ Len(issue') = Len(issue) - 1
  BY <1>1, <1>3, DataOfWithout, WithoutProperties DEF IssuePush
<1>6. /\ DataOf(exec') = DataOf(exec) \cup {k} /\ OnceIn(exec')
      /\ Len(exec') = Len(exec) + 1
  BY <1>1, <1>3, <1>4, DataOfAppend, AppendProperties DEF IssuePush
<1> HIDE DEF k
<1>7. UNCHANGED <<disp, wback>> /\ len' = [len EXCEPT !.exec = @ + 1, !.issue = Dec(@)]
  BY DEF IssuePush
<1>8. Counted'
  <2>1. Dec(len.issue) = Len(issue) - 1
    BY <1>1, <1>3 DEF ListInv, Counted, Dec
  <2> QED BY <1>5, <1>6, <1>7, <2>1 DEF ListInv, Counted, IInv, TypeOK
<1>9. \A m \in Insts' : Placed(m)'
  <2>1. ItemsOf(disp)' = ItemsOf(disp) /\ ItemsOf(wback)' = ItemsOf(wback)
    BY <1>7 DEF ItemsOf
  <2>2. "IS" \in InstState /\ "EX" \in InstState
    BY DEF InstState
  <2> QED BY <1>1, <1>4, <1>5, <1>6, <2>1, <2>2, ListsMove
<1> QED BY <1>2, <1>6, <1>7, <1>8, <1>9 DEF ListInv, Once

LEMMA ListsDispatchMove ==
  ASSUME IInv, ListInv, DispatchMove
  PROVE  ListInv'
<1> DEFINE k == disp[pos]
           d == listInst[k]
           node == [data |-> k, sreg1 |-> rmt[d.sreg1], sreg2 |-> rmt[d.sreg2],
                    dreg |-> rmt'[d.dreg]]
<1>1. pos \in 1..Len(disp) /\ k \in Insts /\ OneEnters(k, "IS")
  BY DispatchMoveEffect
<1>2. Insts' = Insts
  BY <1>1 DEF OneEnters, Insts
<1>3. /\ disp \in Seq(Insts) /\ Len(disp) \in Nat /\ Once(disp)
      /\ issue \in Seq(Node) /\ Len(issue) \in Nat
  BY LenProperties, OrderedOnce DEF IInv, TypeOK
<1>4. State(k) = "ID"
  BY DEF DispatchMove, CanDispatch
<1>5. ItemsOf(disp') = ItemsOf(disp) \ {k} /\ Len(disp') = Len(disp) - 1
  BY <1>1, <1>3, ItemsOfWithout, WithoutProperties DEF DispatchMove
<1>6. issue' = Append(issue, node) /\ node.data = k
  BY DEF DispatchMove, Operand
<1> HIDE DEF node, k
<1>7. /\ DataOf(issue') = DataOf(issue) \cup {k}
      /\ Len(issue') = Len(issue) + 1
  <2>1. issue \in Seq(Node \cup {node}) /\ node \in Node \cup {node}
    BY <1>3, SeqMonotonic
  <2> QED BY <1>6, <2>1, DataOfAppend, AppendProperties
<1>8. UNCHANGED <<exec, wback>> /\ len' = [len EXCEPT !.issue = @ + 1, !.disp = Dec(@)]
  BY DEF DispatchMove
<1>9. Counted'
  <2>1. Dec(len.disp) = Len(disp) - 1
    BY <1>1, <1>3 DEF ListInv, Counted, Dec
  <2> QED BY <1>5, <1>7, <1>8, <2>1 DEF ListInv, Counted, IInv, TypeOK
<1>10. \A m \in Insts' : Placed(m)'
  <2>1. DataOf(exec)' = DataOf(exec) /\ ItemsOf(wback)' = ItemsOf(wback)
    BY <1>8 DEF ItemsOf, DataOf
  <2>2. "IS" \in InstState /\ "ID" \in InstState
    BY DEF InstState
  <2> QED BY <1>1, <1>4, <1>5, <1>7, <2>1, <2>2, ListsMove
<1> QED BY <1>2, <1>8, <1>9, <1>10 DEF ListInv, Once, OnceIn

(* The new instruction is in IF, on list_disp, and on no other list. *)
LEMMA ListsFetchInst ==
  ASSUME IInv, ListInv, NEW e \in TraceEntry, FetchInst(e)
  PROVE  ListInv'
<1> DEFINE n == Len(listInst) + 1
<1>1. /\ Len(listInst) \in Nat /\ Len(listInst') = n /\ \A m \in Insts : Same(m)
      /\ listInst'[n].state = "IF"
  BY FetchInstEffect
<1>2. Insts' = Insts \cup {n} /\ n \notin Insts
  BY <1>1 DEF Insts
<1>3. /\ disp \in Seq(Insts') /\ Len(disp) \in Nat /\ wback \in Seq(Insts')
      /\ issue \in Seq(Node) /\ exec \in Seq(Node) /\ disp \in Seq(Insts)
      /\ wback \in Seq(Insts)
  BY <1>2, SeqMonotonic, LenProperties DEF IInv, TypeOK, ListInv
<1>4. disp' = Append(disp, n) /\ n \in Insts'
  BY <1>2 DEF FetchInst
<1>5. /\ n \notin ItemsOf(disp) /\ n \notin DataOf(issue)
      /\ n \notin DataOf(exec) /\ n \notin ItemsOf(wback)
  <2>1. /\ \A i \in 1..Len(disp) : disp[i] \in Insts
        /\ \A i \in 1..Len(issue) : issue[i] \in Node
        /\ \A i \in 1..Len(exec) : exec[i] \in Node
        /\ \A i \in 1..Len(wback) : wback[i] \in Insts
    BY <1>3, ElementOfSeq
  <2> QED BY <1>2, <2>1 DEF ItemsOf, DataOf, Node
<1> HIDE DEF n
<1>6. ItemsOf(disp') = ItemsOf(disp) \cup {n} /\ Len(disp') = Len(disp) + 1
  BY <1>3, <1>4, ItemsOfAppend, AppendProperties
<1>7. UNCHANGED <<issue, exec, wback>> /\ len' = [len EXCEPT !.disp = @ + 1]
  BY DEF FetchInst
<1>8. Counted'
  BY <1>6, <1>7 DEF ListInv, Counted, IInv, TypeOK
<1>9. ASSUME NEW m \in Insts'
      PROVE  Placed(m)'
  <2>1. CASE m = n
    BY <1>1, <1>5, <1>6, <1>7, <2>1 DEF Placed, State, ItemsOf, DataOf
  <2>2. CASE m \in Insts
    <3>1. listInst'[m].state = listInst[m].state
      BY <1>1, <2>2 DEF Same
    <3>2. m # n /\ Placed(m)
      BY <1>2, <2>2 DEF ListInv
    <3> QED BY <1>6, <1>7, <3>1, <3>2 DEF Placed, State
  <2> QED BY <1>2, <2>1, <2>2
<1> QED BY <1>3, <1>7, <1>8, <1>9 DEF ListInv, Once, OnceIn

(* The report's sort of list_wback. *)
LEMMA ListsFinish ==
  ASSUME IInv, ListInv, Finish
  PROVE  ListInv'
<1>1. /\ UNCHANGED <<listInst, disp, issue, exec, len>>
      /\ wback' = Sorted(wback, Self)
  BY DEF Finish
<1>2. Insts' = Insts
  BY <1>1 DEF Insts
<1>3. Len(listInst) \in Nat
  BY LenProperties DEF IInv, TypeOK
<1>4. wback \in Seq(Insts) /\ wback \in Seq(Nat) /\ Once(wback)
  <2>1. Insts \subseteq Nat
    BY <1>3 DEF Insts
  <2> QED BY <2>1, SeqMonotonic DEF ListInv
<1>5. ItemsOf(wback') = ItemsOf(wback) /\ Once(wback') /\ wback' \in Seq(ItemsOf(wback))
  BY <1>1, <1>4, SortedItems
<1>6. wback' \in Seq(Insts')
  <2>1. ItemsOf(wback) \subseteq Insts
    BY <1>4, ElementOfSeq DEF ItemsOf
  <2> QED BY <1>2, <1>5, <2>1, SeqMonotonic
<1>7. \A m \in Insts' : Placed(m)'
  <2>1. /\ ItemsOf(disp)' = ItemsOf(disp) /\ DataOf(issue)' = DataOf(issue)
        /\ DataOf(exec)' = DataOf(exec)
    BY <1>1 DEF ItemsOf, DataOf
  <2>2. \A m \in Insts : listInst'[m].state = listInst[m].state
    BY <1>1
  <2> QED BY <1>2, <1>5, <2>1, <2>2 DEF ListInv, Placed, State
<1>8. Counted' /\ OnceIn(exec)'
  BY <1>1 DEF ListInv, Counted, OnceIn
<1> QED BY <1>5, <1>6, <1>7, <1>8 DEF ListInv

-----------------------------------------------------------------------------
(* The steps that only go on: to the next node, stage or cycle. *)
GoesOn ==
  \/ Retire \/ ExecuteDone \/ IssueSkip \/ IssueDone \/ DispatchSkip
  \/ FetchEOF \/ FetchDone \/ FetchSkip \/ Advance \/ UNCHANGED vars

LEMMA GoesOnEffect ==
  ASSUME IInv, GoesOn
  PROVE  UNCHANGED <<listInst, rmt, regName, lists>>
<1>1. CASE FetchDone
  <2>1. disp' = disp
    BY <1>1 DEF FetchDone, Sorted, Self, IInv, InOrder
  <2> QED BY <1>1, <2>1 DEF FetchDone, lists
<1>2. CASE ~FetchDone
  BY <1>2 DEF GoesOn, Retire, ExecuteDone, IssueSkip, IssueDone, DispatchSkip, FetchEOF,
              FetchSkip, Advance, vars
<1> QED BY <1>1, <1>2

(* A step goes on, or is one of these. *)
LEMMA StepCases ==
  ASSUME [Next]_vars
  PROVE  \/ GoesOn \/ IssuePush \/ DispatchMove \/ DispatchDone \/ Finish
         \/ \E lat \in Answers : lat \in Nat /\ (ExecuteWait(lat) \/ ExecuteComplete(lat))
         \/ \E e \in TraceEntry : FetchInst(e)
<1>1. Answers \subseteq Nat
  BY CacheAssumption DEF Answers
<1>2. CASE Execute
  BY <1>1, <1>2 DEF Execute
<1>3. CASE ~Execute
  BY <1>3 DEF Next, Fetch, GoesOn
<1> QED BY <1>2, <1>3

LEMMA NextListInv == IInv /\ ListInv /\ [Next]_vars => ListInv'
<1> SUFFICES ASSUME IInv, ListInv, [Next]_vars PROVE ListInv'
  OBVIOUS
<1>1. CASE GoesOn
  <2>1. UNCHANGED <<listInst, lists>>
    BY <1>1, GoesOnEffect
  <2>2. Still
    BY <2>1, StillUnchanged
  <2> QED BY <2>1, <2>2, ListsStay DEF Still
<1>2. CASE DispatchDone
  <2>1. UNCHANGED lists
    BY <1>2, DispatchDoneEffect DEF DispatchDone, lists
  <2> QED BY <1>2, <2>1, DispatchDoneEffect, ListsStay
<1>3. ASSUME NEW lat \in Nat, ExecuteWait(lat)
      PROVE  ListInv'
  <2>1. UNCHANGED lists
    BY <1>3 DEF ExecuteWait
  <2> QED BY <1>3, <2>1, ExecuteWaitEffect, ListsStay DEF Still
<1>4. ASSUME NEW lat \in Nat, ExecuteComplete(lat)
      PROVE  ListInv'
  BY <1>4, ListsExecuteComplete
<1>5. CASE IssuePush
  BY <1>5, ListsIssuePush
<1>6. CASE DispatchMove
  BY <1>6, ListsDispatchMove
<1>7. ASSUME NEW e \in TraceEntry, FetchInst(e)
      PROVE  ListInv'
  BY <1>7, ListsFetchInst
<1>8. CASE Finish
  BY <1>8, ListsFinish
<1> QED BY <1>1, <1>2, <1>3, <1>4, <1>5, <1>6, <1>7, <1>8, StepCases

LEMMA ListInvHolds == Spec => [](IInv /\ ListInv)
<1>1. Init => ListInv
  BY ListInit
<1>2. IInv /\ ListInv /\ [Next]_vars => ListInv'
  BY NextListInv
<1> QED BY <1>1, <1>2, InvariantHolds, PTL DEF Spec

(* Every instruction is on the one list its state names, once, and the     *)
(* three counters are the lengths of their lists, which dis_can_push_on_   *)
(* list and dis_run_cycle rely on: for every N, S, trace and cache, and to *)
(* the end of the report.                                                  *)
THEOREM ListsHold == Spec => []ListsMatchStates
<1>1. IInv /\ ListInv => ListsMatchStates
  BY ListInvCounts
<1> QED BY <1>1, ListInvHolds, PTL
=============================================================================
