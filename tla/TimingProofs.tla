----------------------------- MODULE TimingProofs -----------------------------
(***************************************************************************)
(* Time.  An instruction leaves EX in the cycle its latency ends: OnTime,  *)
(* for every configuration in which it can be true.  Work is done as soon  *)
(* as it can be and no more of it in a cycle than the widths allow:        *)
(* DispatchGreedy, IssueGreedy, IssueWidth and DispatchWidth; and with no  *)
(* cache the places of list_exec are enough: ExecNeverFull.                *)
(***************************************************************************)
EXTENDS DependenceProofs

(* What OnTime needs, and the code does not see to: dis_issue's counter    *)
(* does not wrap; every instruction of type 2 has an address when there is *)
(* a cache, or it has no latency at all; and no answer of the cache makes  *)
(* the latency, a uint8_t, wrap.                                           *)
CanBeOnTime ==
  /\ N < CounterMod
  /\ HasL1 => /\ \A e \in TraceEntry : e.type = 2 => e.mem # 0
              /\ \A lat \in LookupLatency : lat + 5 < 256

(* An instruction that has only the latency of its type, and asks the      *)
(* cache for more if that is none.                                         *)
Own(k) ==
  /\ listInst[k].latency <= 5
  /\ listInst[k].latency > 0 \/ (HasL1 /\ listInst[k].mem # 0)
Due(k) == At(k, "EX") + listInst[k].latency

(* dis_execute has not come to the instruction yet in this cycle. *)
Waiting(k) ==
  \/ stage = "retire"
  \/ stage = "execute" /\ \A i \in 1..Len(exec) : exec[i].data = k => i >= pos

(* The stages before any instruction enters EX in this cycle. *)
Early == stage \in {"retire", "execute"} \/ (stage = "issue" /\ count = 0)

(* An instruction in EX has its own latency when it gets there and until   *)
(* dis_execute comes to it in the next cycle, when it makes its lookup;    *)
(* from then on its time is up no earlier than now, and lies ahead         *)
(* whenever dis_execute has seen it.                                       *)
InTime(k) ==
  /\ At(k, "EX") <= cycle
  /\ Early => At(k, "EX") < cycle
  /\ At(k, "EX") = cycle \/ (At(k, "EX") = cycle - 1 /\ Waiting(k)) => Own(k)
  /\ At(k, "EX") < cycle - 1 /\ Waiting(k) => cycle <= Due(k)
  /\ At(k, "EX") < cycle /\ ~Waiting(k) => cycle < Due(k)

TimeOf(k) ==
  /\ State(k) \in {"IF", "ID", "IS"} => Own(k)
  /\ State(k) = "EX" /\ stage # "done" => InTime(k)
  /\ State(k) = "WB" => At(k, "WB") = Due(k)
TimeInv == \A k \in Insts : TimeOf(k)

-----------------------------------------------------------------------------
(* The latencies after a step. *)
Calm(m) == listInst'[m].latency = listInst[m].latency

LEMMA EnterLatency ==
  ASSUME NEW L \in Seq(InstData), NEW k \in Insts, NEW st \in InstState,
         Len(L) = Len(listInst), listInst' = Enter(L, k, st)
  PROVE  \A m \in Insts : listInst'[m].latency = L[m].latency
<1> DEFINE new == [L[k] EXCEPT !.state = st, !.cycle[st] = cycle]
<1>1. L[k] \in InstData
  BY ElementOfSeq DEF Insts
<1>2. new.latency = L[k].latency
  BY <1>1 DEF InstData
<1>3. listInst' = [L EXCEPT ![k] = new]
  BY DEF Enter
<1> HIDE DEF new
<1>4. \A m \in Insts : m \in DOMAIN L
  BY LenProperties DEF Insts
<1> QED BY <1>2, <1>3, <1>4

LEMMA LookupLatencies ==
  ASSUME listInst \in Seq(InstData), NEW k \in Insts, NEW lat \in Nat
  PROVE  /\ \A m \in Insts \ {k} : AfterLookup(k, lat)[m].latency = listInst[m].latency
         /\ AfterLookup(k, lat)[k].latency =
              IF LooksUp(k) THEN (listInst[k].latency + lat) % 256 ELSE listInst[k].latency
<1>1. CASE ~LooksUp(k)
  BY <1>1 DEF AfterLookup
<1>2. CASE LooksUp(k)
  <2> DEFINE new == [listInst[k] EXCEPT !.latency = (@ + lat) % 256]
  <2>1. AfterLookup(k, lat) = [listInst EXCEPT ![k] = new]
    BY <1>2 DEF AfterLookup
  <2>2. listInst[k] \in InstData /\ \A m \in Insts : m \in DOMAIN listInst
    BY ElementOfSeq, LenProperties DEF Insts
  <2>3. new.latency = (listInst[k].latency + lat) % 256
    BY <2>2 DEF InstData
  <2> HIDE DEF new
  <2> QED BY <1>2, <2>1, <2>2, <2>3
<1> QED BY <1>1, <1>2

LEMMA StampsNat ==
  ASSUME listInst \in Seq(InstData), NEW k \in Insts
  PROVE  At(k, "EX") \in Nat /\ listInst[k].latency \in Nat
<1>1. listInst[k] \in InstData
  BY ElementOfSeq DEF Insts
<1>2. listInst[k].latency \in 0..255 /\ listInst[k].cycle \in [InstState -> Nat]
  BY <1>1 DEF InstData
<1>3. "EX" \in InstState
  BY DEF InstState
<1>4. listInst[k].cycle["EX"] \in Nat
  BY <1>2, <1>3
<1>5. \A n \in 0..255 : n \in Nat
  OBVIOUS
<1> QED BY <1>2, <1>4, <1>5 DEF At

(* An instruction a step does not touch keeps its time. *)
LEMMA TimeStays ==
  ASSUME NEW k \in Insts, Same(k), Calm(k), TimeOf(k),
         stage' # "done" =>
           /\ stage # "done" /\ cycle' = cycle
           /\ State(k) = "EX" => (Waiting(k)' <=> Waiting(k))
           /\ Early' => Early
  PROVE  TimeOf(k)'
<1>1. /\ Own(k)' = Own(k) /\ State(k)' = State(k) /\ Due(k)' = Due(k)
      /\ At(k, "EX")' = At(k, "EX") /\ At(k, "WB")' = At(k, "WB")
  BY DEF Same, SameLine, Calm, Own, State, Due, At
<1>2. CASE State(k) = "EX" /\ stage' # "done"
  <2>1. InTime(k)
    BY <1>2 DEF TimeOf
  <2>2. InTime(k)'
    BY <1>1, <1>2, <2>1 DEF InTime
  <2> QED BY <1>1, <1>2, <2>2 DEF TimeOf
<1>3. CASE ~(State(k) = "EX" /\ stage' # "done")
  BY <1>1, <1>3 DEF TimeOf
<1> QED BY <1>2, <1>3

(* And so does one that enters ID or IS. *)
LEMMA TimeEnters ==
  ASSUME NEW k \in Insts, NEW st \in {"ID", "IS"}, Enters(k, st), Calm(k), TimeOf(k),
         State(k) \in {"IF", "ID"}
  PROVE  TimeOf(k)'
BY DEF Enters, SameLine, Calm, Own, State, TimeOf

(* The node dis_execute is at is still to be seen, and what it is then     *)
(* told ends no sooner than now.                                           *)
LEMMA NodeInTime ==
  ASSUME CanBeOnTime, IInv, ListInv, TimeInv, stage = "execute", pos \in 1..Len(exec),
         NEW k \in Insts, k = exec[pos].data, State(k) = "EX",
         NEW lat \in Nat, lat \in Answers
  PROVE  LET due == At(k, "EX") + AfterLookup(k, lat)[k].latency
         IN  due \in Nat /\ At(k, "EX") < cycle /\ cycle <= due
<1>1. /\ listInst \in Seq(InstData) /\ cycle \in Nat /\ listInst[k] \in InstData
      /\ pos \in Nat /\ Len(exec) \in Nat
  BY ElementOfSeq, LenProperties DEF IInv, TypeOK, Insts
<1>2. listInst[k].latency \in Nat /\ At(k, "EX") \in Nat
  BY <1>1, StampsNat
<1>3. Waiting(k)
  BY <1>1 DEF ListInv, OnceIn, Waiting
<1>4. InTime(k) /\ At(k, "EX") < cycle
  <2>1. InTime(k) /\ Early
    BY DEF TimeInv, TimeOf, Early
  <2> QED BY <2>1 DEF InTime
<1>5. CASE LooksUp(k)
  <2>1. lat \in LookupLatency /\ lat > 0 /\ lat + 5 < 256
    BY <1>5, CacheAssumption DEF Answers, CanBeOnTime, LooksUp
  <2>2. At(k, "EX") = cycle - 1 /\ Own(k)
    BY <1>1, <1>2, <1>3, <1>4, <1>5 DEF LooksUp, InTime
  <2> DEFINE own == listInst[k].latency
  <2>3. own + lat \in 1..255
    <3>1. own \in Nat /\ own <= 5
      BY <1>2, <2>2 DEF Own
    <3> HIDE DEF own
    <3> QED BY <2>1, <3>1
  <2>4. \A n \in 1..255 : n % 256 = n
    OBVIOUS
  <2>5. AfterLookup(k, lat)[k].latency = listInst[k].latency + lat
    <3>1. AfterLookup(k, lat)[k].latency =
            IF LooksUp(k) THEN (listInst[k].latency + lat) % 256 ELSE listInst[k].latency
      BY <1>1, LookupLatencies
    <3>2. (listInst[k].latency + lat) % 256 = listInst[k].latency + lat
      BY <2>3, <2>4
    <3> QED BY <1>5, <3>1, <3>2
  <2> DEFINE lat2 == AfterLookup(k, lat)[k].latency
             ex   == At(k, "EX")
  <2>6. lat2 \in 1..255 /\ ex \in Nat /\ ex = cycle - 1
    <3>1. lat2 \in 1..255
      BY <2>3, <2>5
    <3>2. ex \in Nat /\ ex = cycle - 1
      BY <1>2, <2>2
    <3> QED BY <3>1, <3>2
  <2> HIDE DEF lat2, ex
  <2>7. ex + lat2 \in Nat /\ ex < cycle /\ cycle <= ex + lat2
    BY <1>1, <2>6
  <2> QED BY <2>7 DEF lat2, ex
<1>6. CASE ~LooksUp(k)
  <2>1. AfterLookup(k, lat)[k].latency = listInst[k].latency
    BY <1>1, <1>6, LookupLatencies
  <2>2. CASE At(k, "EX") = cycle - 1
    <3>1. Own(k) /\ cycle - 1 = At(k, "EX")
      BY <1>3, <1>4, <2>2 DEF InTime
    <3>2. listInst[k].latency > 0
      BY <1>6, <3>1 DEF Own, LooksUp
    <3> QED BY <1>1, <1>2, <2>1, <2>2, <3>2
  <2>3. CASE At(k, "EX") < cycle - 1
    <3>1. cycle <= Due(k)
      BY <1>3, <1>4, <2>3 DEF InTime
    <3> QED BY <1>1, <1>2, <1>4, <2>1, <3>1 DEF Due
  <2> QED BY <1>1, <1>2, <1>4, <2>2, <2>3
<1> QED BY <1>5, <1>6

(* dis_execute passes over the node it is at, or takes it off the list: of *)
(* the others the same are to be seen.                                     *)
LEMMA WaitingStays ==
  ASSUME IInv, stage = "execute", stage' = stage, pos \in 1..Len(exec),
         NEW m, m # exec[pos].data,
         \/ pos' = pos + 1 /\ exec' = exec
         \/ pos' = pos /\ exec' = Without(exec, pos)
  PROVE  Waiting(m)' <=> Waiting(m)
<1>1. exec \in Seq(Node) /\ Len(exec) \in Nat /\ pos \in Nat
  BY LenProperties DEF IInv, TypeOK
<1>2. CASE pos' = pos + 1 /\ exec' = exec
  <2>1. \A i \in 1..Len(exec) : exec[i].data = m => (i >= pos <=> i >= pos + 1)
    BY <1>1
  <2> QED BY <1>2, <2>1 DEF Waiting
<1>3. CASE pos' = pos /\ exec' = Without(exec, pos)
  <2>1. /\ \A j \in 1..Len(exec') : /\ Place(pos, j) \in 1..Len(exec)
                                    /\ exec'[j] = exec[Place(pos, j)]
        /\ Len(exec') = Len(exec) - 1
    BY <1>1, <1>3, WithoutProperties
  <2>2. \A j \in 1..Len(exec') : j >= pos <=> Place(pos, j) >= pos
    BY <1>1, <2>1 DEF Place
  <2>3. \A i \in 1..Len(exec) : i # pos => \E j \in 1..Len(exec') : Place(pos, j) = i
    BY <1>1, <1>3, WithoutKeeps
  <2>4. ASSUME \A i \in 1..Len(exec) : exec[i].data = m => i >= pos,
               NEW j \in 1..Len(exec'), exec'[j].data = m
        PROVE  j >= pos
    BY <2>1, <2>2, <2>4
  <2>5. ASSUME \A j \in 1..Len(exec') : exec'[j].data = m => j >= pos,
               NEW i \in 1..Len(exec), exec[i].data = m
        PROVE  i >= pos
    <3>1. PICK j \in 1..Len(exec') : Place(pos, j) = i
      BY <2>3, <2>5
    <3>2. exec'[j].data = m
      BY <2>1, <2>5, <3>1
    <3> QED BY <2>2, <2>5, <3>1, <3>2
  <2> QED BY <1>3, <2>4, <2>5 DEF Waiting
<1> QED BY <1>2, <1>3

(* dis_execute goes past a node whose time is not up. *)
LEMMA TimeExecuteWait ==
  ASSUME CanBeOnTime, IInv, ListInv, TimeInv, NEW lat \in Nat, lat \in Answers,
         ExecuteWait(lat)
  PROVE  TimeInv'
<1>1. /\ listInst \in Seq(InstData) /\ cycle \in Nat /\ stage = "execute"
      /\ pos \in 1..Len(exec) /\ pos \in Nat /\ Len(exec) \in Nat
  BY LenProperties DEF IInv, TypeOK, ExecuteWait
<1>2. PICK k \in Insts : k = exec[pos].data
  <2>1. exec[pos] \in Node
    BY <1>1, ElementOfSeq DEF IInv, TypeOK
  <2> QED BY <2>1 DEF Node
<1>3. State(k) = "EX"
  <2>1. k \in DataOf(exec)
    BY <1>1, <1>2 DEF DataOf
  <2> QED BY <2>1 DEF ListInv, Placed
<1>4. /\ listInst' = AfterLookup(k, lat) /\ ~IsOver(AfterLookup(k, lat), k)
      /\ pos' = pos + 1 /\ UNCHANGED <<stage, count, cycle, exec>>
  BY <1>2 DEF ExecuteWait, lists
<1>5. \A m \in Insts : Same(m)
  BY ExecuteWaitEffect DEF Still
<1>6. \A m \in Insts \ {k} : Calm(m)
  BY <1>1, <1>4, LookupLatencies DEF Calm
<1>7. Insts' = Insts
  BY ExecuteWaitEffect DEF Still, Insts
<1>8. ASSUME NEW m \in Insts, m # k
      PROVE  TimeOf(m)'
  <2>1. Waiting(m)' <=> Waiting(m)
    BY <1>1, <1>2, <1>4, <1>8, WaitingStays
  <2>2. Early' <=> Early
    BY <1>4 DEF Early
  <2> QED BY <1>1, <1>4, <1>5, <1>6, <1>8, <2>1, <2>2, TimeStays DEF TimeInv
<1>9. TimeOf(k)'
  <2>1. State(k)' = "EX" /\ At(k, "EX")' = At(k, "EX")
    BY <1>3, <1>5 DEF Same, State, At
  <2>2. ~Waiting(k)'
    BY <1>1, <1>2, <1>4 DEF Waiting
  <2> DEFINE due == At(k, "EX") + AfterLookup(k, lat)[k].latency
  <2>3. due \in Nat /\ At(k, "EX") < cycle /\ cycle <= due
    BY <1>1, <1>2, <1>3, NodeInTime
  <2>4. cycle # due /\ Due(k)' = due
    <3>1. AfterLookup(k, lat)[k].cycle = listInst[k].cycle
      BY <1>1, AfterLookupEffect
    <3> QED BY <1>4, <3>1, <2>1 DEF IsOver, Due, At
  <2>5. At(k, "EX") \in Nat
    BY <1>1, StampsNat
  <2> HIDE DEF due
  <2>6. cycle < due
    BY <1>1, <2>3, <2>4
  <2>7. InTime(k)'
    BY <1>1, <1>4, <2>1, <2>2, <2>3, <2>4, <2>5, <2>6 DEF InTime
  <2> QED BY <2>1, <2>7 DEF TimeOf
<1> QED BY <1>7, <1>8, <1>9 DEF TimeInv

(* dis_execute moves a node to the writeback list in the cycle its time is *)
(* up.                                                                     *)
LEMMA TimeExecuteComplete ==
  ASSUME CanBeOnTime, IInv, ListInv, TimeInv, NEW lat \in Nat, lat \in Answers,
         ExecuteComplete(lat)
  PROVE  TimeInv'
<1>1. /\ listInst \in Seq(InstData) /\ cycle \in Nat /\ stage = "execute"
      /\ pos \in 1..Len(exec) /\ pos \in Nat /\ Len(exec) \in Nat /\ exec \in Seq(Node)
  BY LenProperties DEF IInv, TypeOK, ExecuteComplete
<1>2. PICK k \in Insts : k = exec[pos].data
  BY ExecuteCompleteEffect
<1>3. State(k) = "EX"
  <2>1. k \in DataOf(exec)
    BY <1>1, <1>2 DEF DataOf
  <2> QED BY <2>1 DEF ListInv, Placed
<1> DEFINE L == AfterLookup(k, lat)
<1>4. /\ listInst' = Enter(L, k, "WB") /\ IsOver(L, k)
      /\ UNCHANGED <<stage, pos, count, cycle>> /\ exec' = Without(exec, pos)
  BY <1>2 DEF ExecuteComplete
<1>5. OneEnters(k, "WB")
  BY <1>2, ExecuteCompleteEffect
<1>6. L \in Seq(InstData) /\ Len(L) = Len(listInst) /\ "WB" \in InstState
  BY <1>1, AfterLookupProperties DEF InstState
<1>7. \A m \in Insts : listInst'[m].latency = L[m].latency
  BY <1>4, <1>6, EnterLatency
<1>8. \A m \in Insts \ {k} : Calm(m)
  BY <1>1, <1>7, LookupLatencies DEF Calm
<1>9. ASSUME NEW m \in Insts, m # k
      PROVE  TimeOf(m)'
  <2>1. Waiting(m)' <=> Waiting(m)
    BY <1>1, <1>2, <1>4, <1>9, WaitingStays
  <2>2. Early' <=> Early
    BY <1>4 DEF Early
  <2>3. Same(m) /\ Calm(m)
    BY <1>5, <1>8, <1>9 DEF OneEnters
  <2> QED BY <1>1, <1>4, <1>9, <2>1, <2>2, <2>3, TimeStays DEF TimeInv
<1>10. TimeOf(k)'
  <2>1. State(k)' = "WB" /\ At(k, "EX")' = At(k, "EX") /\ At(k, "WB")' = cycle
    <3>1. listInst[k] \in InstData
      BY <1>1, ElementOfSeq DEF Insts
    <3>2. listInst[k].cycle \in [InstState -> Nat]
      BY <3>1 DEF InstData
    <3> QED BY <1>5, <3>2 DEF OneEnters, Enters, State, At, InstState
  <2>2. cycle = At(k, "EX") + L[k].latency
    <3>1. L[k].cycle = listInst[k].cycle
      BY <1>1, AfterLookupEffect
    <3> QED BY <1>4, <3>1 DEF IsOver, At
  <2>3. Due(k)' = At(k, "EX") + L[k].latency
    BY <1>7, <2>1 DEF Due
  <2> QED BY <2>1, <2>2, <2>3 DEF TimeOf
<1>11. Insts' = Insts
  BY <1>5 DEF OneEnters, Insts
<1> QED BY <1>9, <1>10, <1>11 DEF TimeInv

(* dis_issue's push: one more in EX this cycle, and the counter, which     *)
(* does not wrap, is not zero any more.                                    *)
LEMMA TimeIssuePush ==
  ASSUME CanBeOnTime, IInv, ListInv, TimeInv, IssuePush
  PROVE  TimeInv'
<1>1. /\ listInst \in Seq(InstData) /\ cycle \in Nat /\ stage = "issue"
      /\ UNCHANGED <<stage, cycle>> /\ "EX" \in InstState
  BY DEF IInv, TypeOK, IssuePush, InstState
<1>2. PICK k \in Insts : k = issue[pos].data
  BY IssuePushEffect
<1>3. State(k) = "IS"
  <2>1. k \in DataOf(issue)
    BY <1>2, IssuePushEffect DEF DataOf
  <2> QED BY <2>1 DEF ListInv, Placed
<1>4. OneEnters(k, "EX") /\ listInst' = Enter(listInst, k, "EX")
  BY <1>2, IssuePushEffect DEF IssuePush
<1>5. \A m \in Insts : Calm(m)
  BY <1>1, <1>4, EnterLatency DEF Calm
<1>6. ~Early'
  <2>1. count \in Nat /\ count < N /\ N < CounterMod /\ N \in Nat /\ CounterMod \in Nat
    BY BandwidthAssumption, WidthAssumption
       DEF IInv, TypeOK, IssuePush, CanIssue, CanBeOnTime
  <2>2. \A a, b \in Nat : a < b => a % b = a
    OBVIOUS
  <2>3. count + 1 \in Nat /\ count + 1 < CounterMod
    BY <2>1
  <2>4. (count + 1) % CounterMod = count + 1
    BY <2>1, <2>2, <2>3
  <2>5. count' = count + 1
    BY <2>4 DEF IssuePush
  <2> QED BY <1>1, <2>1, <2>5 DEF Early
<1>7. ASSUME NEW m \in Insts, m # k
      PROVE  TimeOf(m)'
  <2>1. Same(m)
    BY <1>4, <1>7 DEF OneEnters
  <2>2. Waiting(m)' <=> Waiting(m)
    BY <1>1 DEF Waiting
  <2> QED BY <1>1, <1>5, <1>6, <2>1, <2>2, TimeStays DEF TimeInv
<1>8. TimeOf(k)'
  <2>1. State(k)' = "EX" /\ At(k, "EX")' = cycle
    <3>1. listInst[k] \in InstData
      BY <1>1, ElementOfSeq DEF Insts
    <3>2. listInst[k].cycle \in [InstState -> Nat]
      BY <3>1 DEF InstData
    <3> QED BY <1>1, <1>4, <3>2 DEF OneEnters, Enters, State, At
  <2>2. Own(k)'
    <3>1. Own(k)
      BY <1>3 DEF TimeInv, TimeOf
    <3> QED BY <1>4, <1>5, <3>1 DEF Own, OneEnters, Enters, SameLine, Calm
  <2>3. InTime(k)'
    BY <1>1, <1>6, <2>1, <2>2 DEF InTime
  <2> QED BY <2>1, <2>3 DEF TimeOf
<1>9. Insts' = Insts
  BY <1>4 DEF OneEnters, Insts
<1> QED BY <1>7, <1>8, <1>9 DEF TimeInv

LEMMA TimeDispatchMove ==
  ASSUME IInv, ListInv, TimeInv, DispatchMove
  PROVE  TimeInv'
<1>1. /\ listInst \in Seq(InstData) /\ stage = "dispatch" /\ UNCHANGED <<stage, cycle>>
      /\ "IS" \in InstState
  BY DEF IInv, TypeOK, DispatchMove, InstState
<1>2. PICK k \in Insts : k = disp[pos]
  BY DispatchMoveEffect
<1>3. State(k) = "ID"
  BY <1>2 DEF DispatchMove, CanDispatch
<1>4. OneEnters(k, "IS") /\ listInst' = Enter(listInst, k, "IS")
  BY <1>2, DispatchMoveEffect DEF DispatchMove
<1>5. \A m \in Insts : Calm(m)
  BY <1>1, <1>4, EnterLatency DEF Calm
<1>6. ASSUME NEW m \in Insts, m # k
      PROVE  TimeOf(m)'
  <2>1. Same(m) /\ (Waiting(m)' <=> Waiting(m)) /\ (Early' <=> Early)
    BY <1>1, <1>4, <1>6 DEF OneEnters, Waiting, Early
  <2> QED BY <1>1, <1>5, <2>1, TimeStays DEF TimeInv
<1>7. TimeOf(k)'
  BY <1>3, <1>4, <1>5, TimeEnters DEF OneEnters, TimeInv
<1>8. Insts' = Insts
  BY <1>4 DEF OneEnters, Insts
<1> QED BY <1>6, <1>7, <1>8 DEF TimeInv

LEMMA TimeDispatchDone ==
  ASSUME IInv, TimeInv, DispatchDone
  PROVE  TimeInv'
<1>1. /\ listInst \in Seq(InstData) /\ stage = "dispatch" /\ stage' = "fetch" /\ cycle' = cycle
  BY DEF IInv, TypeOK, DispatchDone, GoTo
<1>2. \A m \in Insts : Calm(m)
  <2>1. ASSUME NEW m \in Insts
        PROVE  listInst'[m].latency = listInst[m].latency
    <3>1. listInst[m] \in InstData
      BY <1>1, ElementOfSeq DEF Insts
    <3>2. listInst'[m] \in {listInst[m], [listInst[m] EXCEPT !.state = "ID",
                                                             !.cycle["ID"] = cycle]}
      BY DEF DispatchDone
    <3> QED BY <3>1, <3>2 DEF InstData
  <2> QED BY <2>1 DEF Calm
<1>3. ASSUME NEW m \in Insts
      PROVE  TimeOf(m)'
  <2>1. CASE Same(m)
    <3>1. (Waiting(m)' <=> Waiting(m)) /\ (Early' <=> Early)
      BY <1>1 DEF Waiting, Early
    <3> QED BY <1>1, <1>2, <2>1, <3>1, TimeStays DEF TimeInv
  <2>2. CASE State(m) = "IF" /\ Enters(m, "ID")
    BY <1>2, <2>2, TimeEnters DEF TimeInv
  <2> QED BY <2>1, <2>2, DispatchDoneEffect
<1>4. Insts' = Insts
  BY DispatchDoneEffect DEF Insts
<1> QED BY <1>3, <1>4 DEF TimeInv

(* A fetched instruction has the latency of its type, or, of type 2 with a *)
(* cache, an address to look up.                                           *)
LEMMA TimeFetchInst ==
  ASSUME CanBeOnTime, IInv, ListInv, TimeInv, NEW e \in TraceEntry, FetchInst(e)
  PROVE  TimeInv'
<1>1. stage = "fetch" /\ UNCHANGED <<stage, cycle>> /\ listInst \in Seq(InstData)
  BY DEF FetchInst, IInv, TypeOK
<1>0. PICK new : new = Len(listInst) + 1
  OBVIOUS
<1>2. Len(listInst) \in Nat /\ Insts' = Insts \cup {new} /\ \A m \in Insts : Same(m)
  <2>1. Len(listInst) \in Nat /\ Len(listInst') = Len(listInst) + 1
    BY FetchInstEffect
  <2> QED BY <1>0, <2>1, FetchInstEffect DEF Insts
<1>3. \A m \in Insts : Calm(m)
  <2>1. listInst' = Append(listInst, NewInst(e)) /\ NewInst(e) \in InstData
    BY FetchInstEffect DEF FetchInst
  <2> QED BY <1>1, <2>1, AppendProperties DEF Calm, Insts
<1>4. ASSUME NEW m \in Insts
      PROVE  TimeOf(m)'
  <2>1. (Waiting(m)' <=> Waiting(m)) /\ (Early' <=> Early)
    BY <1>1 DEF Waiting, Early
  <2> QED BY <1>1, <1>2, <1>3, <2>1, TimeStays DEF TimeInv
<1>5. TimeOf(new)'
  <2>1. listInst'[new] = NewInst(e)
    BY <1>0, FetchInstEffect
  <2>2. NewInst(e).state = "IF" /\ NewInst(e).mem = e.mem
        /\ NewInst(e).latency = IF e.type = 2 /\ HasL1 THEN 0 ELSE Latency(e.type)
    BY DEF NewInst
  <2>3. e.type \in 0..2 /\ e.mem \in Nat
    BY TraceAssumption DEF Entry
  <2>4. \A t \in 0..2 : Latency(t) \in 1..5
    BY DEF Latency
  <2>5. NewInst(e).latency <= 5
    BY <2>2, <2>3, <2>4
  <2>6. NewInst(e).latency > 0 \/ (HasL1 /\ NewInst(e).mem # 0)
    BY <2>2, <2>3, <2>4 DEF CanBeOnTime
  <2>7. Own(new)' /\ State(new)' = "IF"
    BY <2>1, <2>2, <2>5, <2>6 DEF Own, State
  <2> QED BY <2>7 DEF TimeOf
<1> QED BY <1>2, <1>4, <1>5 DEF TimeInv

(* A step that goes on moves the stage, or the cycle between two stages.   *)
LEMMA TimeGoesOn ==
  ASSUME IInv, ListInv, DepInv, TimeInv, GoesOn
  PROVE  TimeInv'
<1>1. UNCHANGED <<listInst, exec>> /\ listInst \in Seq(InstData) /\ cycle \in Nat
      /\ exec \in Seq(Node)
  BY GoesOnEffect DEF lists, IInv, TypeOK
<1>2. Insts' = Insts /\ \A k \in Insts : Same(k) /\ Calm(k)
  BY <1>1, StillUnchanged DEF Still, Calm, Insts
<1>3. ASSUME NEW k \in Insts, State(k) = "EX", stage' # "done"
      PROVE  InTime(k)'
  <2> DEFINE ex == At(k, "EX")
  <2>1. ex \in Nat /\ listInst[k].latency \in Nat
    BY <1>1, StampsNat
  <2>2. Own(k)' = Own(k) /\ Due(k)' = Due(k) /\ At(k, "EX")' = ex /\ Due(k) \in Nat
    BY <1>1, <2>1 DEF Own, Due, At
  <2>3. stage # "done" /\ InTime(k)
    BY <1>3 DEF TimeInv, TimeOf, GoesOn, Retire, ExecuteDone, IssueSkip, IssueDone,
       DispatchSkip, FetchEOF, FetchDone, FetchSkip, Advance, vars
  <2>4. CASE Advance
    <3>1. cycle' = cycle + 1 /\ stage = "advance" /\ stage' = "retire"
      <4>1. cycle < CycleMod
        BY DEF DepInv, StampsPast
      <4> QED BY <1>1, <2>4, <4>1, NextCycleValue DEF Advance, GoTo
    <3>2. ~Waiting(k) /\ Waiting(k)'
      BY <3>1 DEF Waiting
    <3> HIDE DEF ex
    <3>3. /\ ex <= cycle /\ (ex = cycle => Own(k)) /\ (ex < cycle => cycle < Due(k))
      BY <2>1, <2>3, <3>2 DEF InTime, ex
    <3> QED BY <1>1, <2>1, <2>2, <3>1, <3>2, <3>3 DEF InTime
  <2>5. CASE Retire
    <3>1. cycle' = cycle /\ Waiting(k) /\ Early
      BY <2>5 DEF Retire, Waiting, Early
    <3>2. Waiting(k)'
      <4>1. Len(exec) \in Nat /\ stage' = "execute" /\ pos' = 1
        BY <1>1, <2>5, LenProperties DEF Retire, GoTo
      <4> QED BY <1>1, <4>1 DEF Waiting
    <3> QED BY <2>2, <2>3, <3>1, <3>2 DEF InTime
  <2>6. CASE ExecuteDone
    <3>1. cycle' = cycle /\ Early /\ ~Waiting(k)'
      BY <2>6 DEF ExecuteDone, GoTo, Early, Waiting
    <3>2. ~Waiting(k)
      <4>1. PICK i \in 1..Len(exec) : exec[i].data = k
        BY <1>3 DEF ListInv, Placed, DataOf
      <4>2. stage = "execute" /\ pos > Len(exec) /\ pos \in Nat /\ Len(exec) \in Nat
        BY <1>1, <2>6, LenProperties DEF ExecuteDone, IInv, TypeOK
      <4>3. ~(i >= pos)
        BY <4>2
      <4> QED BY <4>1, <4>2, <4>3 DEF Waiting
    <3> QED BY <2>2, <2>3, <3>1, <3>2 DEF InTime
  <2>7. CASE ~(Advance \/ Retire \/ ExecuteDone)
    <3>1. cycle' = cycle /\ (Waiting(k)' <=> Waiting(k)) /\ (Early' => Early)
      BY <1>1, <2>7 DEF GoesOn, IssueSkip, IssueDone, DispatchSkip, FetchEOF, FetchDone,
         FetchSkip, vars, GoTo, Waiting, Early
    <3> QED BY <2>2, <2>3, <3>1 DEF InTime
  <2> QED BY <2>4, <2>5, <2>6, <2>7
<1>4. ASSUME NEW k \in Insts
      PROVE  TimeOf(k)'
  <2>1. /\ Own(k)' = Own(k) /\ State(k)' = State(k) /\ Due(k)' = Due(k)
        /\ At(k, "WB")' = At(k, "WB")
    BY <1>1 DEF Own, State, Due, At
  <2> QED BY <1>3, <2>1 DEF TimeInv, TimeOf
<1> QED BY <1>2, <1>4 DEF TimeInv

LEMMA NextTimeInv ==
  ASSUME CanBeOnTime
  PROVE  IInv /\ ListInv /\ DepInv /\ TimeInv /\ [Next]_vars => TimeInv'
<1> SUFFICES ASSUME IInv, ListInv, DepInv, TimeInv, [Next]_vars PROVE TimeInv'
  OBVIOUS
<1>1. CASE GoesOn
  BY <1>1, TimeGoesOn
<1>2. CASE Finish
  <2>1. UNCHANGED listInst /\ stage' = "done"
    BY <1>2 DEF Finish, GoTo
  <2>2. Insts' = Insts /\ \A k \in Insts : Same(k) /\ Calm(k)
    BY <2>1, StillUnchanged DEF Still, Calm, Insts
  <2>3. \A k \in Insts : TimeOf(k)'
    BY <2>1, <2>2, TimeStays DEF TimeInv
  <2> QED BY <2>2, <2>3 DEF TimeInv
<1>3. ASSUME NEW lat \in Answers, lat \in Nat, ExecuteWait(lat) \/ ExecuteComplete(lat)
      PROVE  TimeInv'
  BY <1>3, TimeExecuteWait, TimeExecuteComplete
<1>4. ASSUME NEW e \in TraceEntry, FetchInst(e)
      PROVE  TimeInv'
  BY <1>4, TimeFetchInst
<1> QED BY <1>1, <1>2, <1>3, <1>4, StepCases, TimeIssuePush, TimeDispatchMove, TimeDispatchDone

LEMMA TimeInvOnTime == IInv /\ TimeInv => OnTime
<1> SUFFICES ASSUME IInv, TimeInv PROVE OnTime
  OBVIOUS
<1>1. ASSUME stage = "issue", count = 0, NEW k \in InState({"EX"})
      PROVE  cycle < At(k, "EX") + listInst[k].latency
  <2>1. k \in Insts /\ InTime(k) /\ Early /\ ~Waiting(k)
    BY <1>1 DEF InState, TimeInv, TimeOf, Early, Waiting
  <2> QED BY <2>1 DEF InTime, Due
<1>2. \A k \in InState({"WB"}) : At(k, "WB") = At(k, "EX") + listInst[k].latency
  BY DEF InState, TimeInv, TimeOf, Due
<1> QED BY <1>1, <1>2 DEF OnTime

(* An instruction leaves EX in the cycle its latency ends, though the test *)
(* of dis_execute_is_over is an equality and a missed cycle would not come *)
(* again: for every bandwidth below the range of dis_issue's counter,      *)
(* queue size, trace and answers of the cache, if every load has an        *)
(* address.                                                                *)
THEOREM LeaveOnTime ==
  ASSUME CanBeOnTime
  PROVE  Spec => []OnTime
<1>1. Init => TimeInv
  BY DEF Init, TimeInv, Insts
<1>2. IInv /\ ListInv /\ DepInv /\ TimeInv /\ [Next]_vars => TimeInv'
  BY NextTimeInv
<1>3. IInv /\ TimeInv => OnTime
  BY TimeInvOnTime
<1> QED BY <1>1, <1>2, <1>3, DepInvHolds, PTL DEF Spec
-----------------------------------------------------------------------------
(* The pace of the stages.  Everything that follows rests on where in a    *)
(* cycle the stamps of the instructions are set.                           *)

(* The stages of a cycle after dis_dispatch moved what is fetched to ID,   *)
(* before instructions enter IS, and before they enter EX.                 *)
Late == stage \in {"fetch", "advance"}
BeforeIS == stage \in {"retire", "execute", "issue"}
BeforeEX == stage \in {"retire", "execute"}

(* An instruction is in IF until the dispatch stage of the next cycle, and *)
(* no stamp is ahead of the stage that sets it.                            *)
Stamped(k) ==
  /\ At(k, "IF") <= cycle
  /\ ~Late => At(k, "IF") < cycle
  /\ State(k) = "IF" => At(k, "IF") = IF Late THEN cycle ELSE cycle - 1
  /\ Reached(k, "IS") => At(k, "IS") <= cycle /\ (BeforeIS => At(k, "IS") < cycle)
  /\ Reached(k, "EX") => At(k, "EX") <= cycle /\ (BeforeEX => At(k, "EX") < cycle)
  /\ State(k) = "WB" => At(k, "EX") < cycle
Paced(k) == Reached(k, "ID") => At(k, "ID") = At(k, "IF") + 1
StampOK(k) == Paced(k) /\ (stage # "done" => Stamped(k))
StampInv == \A k \in Insts : StampOK(k)

(* No instruction dis_dispatch has passed could have been moved, and when  *)
(* it ends all that stay in ID got there just now, if the queue has room.  *)
QueueInv ==
  /\ len.issue <= S
  /\ stage = "dispatch" =>
       len.issue = S \/ \A j \in 1..Len(disp) : j < pos => State(disp[j]) # "ID"
  /\ stage = "fetch" => len.issue = S \/ \A k \in InState({"ID"}) : At(k, "ID") = cycle

(* What dis_issue has passed over was not ready, or could not be moved,    *)
(* and then nothing after it was.                                          *)
Refused == count = N \/ ~CanPush("exec")
OlderEntered(k) == \A j \in Entering("EX") : j < k
IssuedInv ==
  /\ stage = "issue" => count <= N /\ Cardinality(Entering("EX")) = count
  /\ stage # "done" => Cardinality(Entering("EX")) <= N
  /\ stage = "issue" =>
       \A i \in 1..Len(issue) :
         IF i < pos THEN OperandsReady(issue[i]) => Refused /\ OlderEntered(issue[i].data)
         ELSE OlderEntered(issue[i].data)

(* The instructions fetched in one cycle, and those that got to ID in the  *)
(* cycle before this.                                                      *)
Fetched(c) == {k \in Insts : At(k, "IF") = c}
JustInID(ks) == \A k \in ks : At(k, "ID") = cycle - 1
FetchedInv ==
  /\ \A c \in Nat : Cardinality(Fetched(c)) <= N
  /\ stage = "fetch" => count <= N /\ Cardinality(Fetched(cycle)) = count

(* What is left in ID when a cycle ends was left because the queue is      *)
(* full, and then dis_dispatch has in the next cycle only the places that  *)
(* dis_issue frees; or it was all fetched in the same cycle, N at most.    *)
WidthInv ==
  /\ stage = "advance" => len.issue = S \/ \A k \in InState({"ID"}) : At(k, "ID") = cycle
  /\ BeforeEX => len.issue = S \/ JustInID(InState({"ID"}))
  /\ stage = "issue" => S <= len.issue + count \/ JustInID(InState({"ID"}))
  /\ stage = "dispatch" =>
       \/ S + Cardinality(Entering("IS")) <= len.issue + N
       \/ JustInID(InState({"ID"}) \cup Entering("IS"))
  /\ stage # "done" => Cardinality(Entering("IS")) <= N
LEMMA ReachedStates ==
  \A st \in InstState : /\ "ID" \in Passed(st) <=> st # "IF"
                        /\ "IS" \in Passed(st) <=> st \in {"IS", "EX", "WB"}
                        /\ "EX" \in Passed(st) <=> st \in {"EX", "WB"}
BY DEF Passed, InstState

LEMMA StampTypes ==
  ASSUME IInv
  PROVE  /\ cycle \in Nat /\ Len(listInst) \in Nat /\ stage \in Stage
         /\ \A k \in Insts : /\ State(k) \in InstState
                             /\ \A st \in InstState : At(k, st) \in Nat
<1>1. cycle \in Nat /\ Len(listInst) \in Nat /\ listInst \in Seq(InstData) /\ stage \in Stage
  BY LenProperties DEF IInv, TypeOK
<1>2. ASSUME NEW k \in Insts
      PROVE  State(k) \in InstState /\ \A st \in InstState : At(k, st) \in Nat
  <2>1. listInst[k] \in InstData
    BY <1>1, ElementOfSeq DEF Insts
  <2>2. listInst[k].state \in InstState /\ listInst[k].cycle \in [InstState -> Nat]
    BY <2>1 DEF InstData
  <2> QED BY <2>2 DEF State, At
<1> QED BY <1>1, <1>2

(* What the two effects of a step are for stamps. *)
LEMMA SameStamps ==
  ASSUME NEW k, Same(k)
  PROVE  /\ State(k)' = State(k)
         /\ \A st \in InstState : At(k, st)' = At(k, st) /\ (Reached(k, st)' <=> Reached(k, st))
BY DEF Same, State, At, Reached

LEMMA EntersStamps ==
  ASSUME IInv, NEW k \in Insts, NEW st \in InstState, Enters(k, st)
  PROVE  /\ State(k)' = st /\ At(k, st)' = cycle
         /\ \A x \in InstState \ {st} : At(k, x)' = At(k, x)
<1>1. listInst[k] \in InstData
  BY ElementOfSeq DEF IInv, TypeOK, Insts
<1>2. listInst[k].cycle \in [InstState -> Nat]
  BY <1>1 DEF InstData
<1> QED BY <1>2 DEF Enters, State, At

(* The stage goes on, within a cycle, at most past what the stamps of an   *)
(* instruction in state st have to say of it.                              *)
Onward(st) ==
  stage' # "done" =>
    /\ stage # "done" /\ (Late => Late') /\ (Late' => Late \/ st # "IF")
    /\ (BeforeIS' => BeforeIS) /\ (BeforeEX' => BeforeEX)

LEMMA StampStays ==
  ASSUME IInv, NEW k \in Insts, Same(k), cycle' = cycle, StampOK(k), Onward(State(k))
  PROVE  StampOK(k)'
<1>1. {"IF", "ID", "IS", "EX"} \subseteq InstState
  BY DEF InstState
<1>2. Paced(k)'
  BY <1>1, SameStamps DEF StampOK, Paced
<1>3. ASSUME stage' # "done" PROVE Stamped(k)'
  <2>1. Stamped(k) /\ (Late => Late') /\ (Late' => Late \/ State(k) # "IF")
        /\ (BeforeIS' => BeforeIS) /\ (BeforeEX' => BeforeEX)
    BY <1>3 DEF StampOK, Onward
  <2> QED BY <1>1, <2>1, SameStamps DEF Stamped
<1> QED BY <1>2, <1>3 DEF StampOK

(* The four ways an instruction enters a state, at the stage that does it. *)
LEMMA StampEnters ==
  ASSUME IInv, NEW k \in Insts, NEW st \in InstState, Enters(k, st), cycle' = cycle,
         StampOK(k), stage # "done", Onward("ID"),
         \/ st = "ID" /\ State(k) = "IF" /\ stage = "dispatch" /\ stage' = "fetch"
         \/ st = "IS" /\ State(k) = "ID" /\ stage' = "dispatch"
         \/ st = "EX" /\ State(k) = "IS" /\ stage' = "issue"
         \/ st = "WB" /\ State(k) = "EX" /\ stage = "execute"
  PROVE  StampOK(k)'
<1>1. /\ State(k)' = st /\ At(k, st)' = cycle
      /\ \A x \in InstState \ {st} : At(k, x)' = At(k, x)
      /\ InstState = {"IF", "ID", "IS", "EX", "WB"}
  BY EntersStamps DEF InstState
<1>2. Stamped(k) /\ Paced(k)
  BY DEF StampOK
<1>3. \A x \in InstState : Reached(k, x)' <=> x \in Passed(st)
  BY <1>1 DEF Reached
<1>4. State(k) \in InstState /\ cycle \in Nat /\ \A x \in InstState : At(k, x) \in Nat
  BY StampTypes
<1>5. At(k, "IF")' = At(k, "IF") /\ st # "IF"
  BY <1>1
<1>6. CASE st = "ID"
  <2>1. At(k, "IF") = cycle - 1
    BY <1>2, <1>6 DEF Stamped, Late
  <2>2. Paced(k)'
    BY <1>1, <1>4, <1>5, <1>6, <2>1 DEF Paced
  <2>3. Stamped(k)'
    BY <1>1, <1>2, <1>3, <1>4, <1>5, <1>6, <2>1, ReachedStates DEF Stamped, Late
  <2> QED BY <2>2, <2>3 DEF StampOK
<1>7. CASE st # "ID"
  <2>1. Reached(k, "ID") /\ At(k, "ID")' = At(k, "ID")
    BY <1>1, <1>4, <1>7, ReachedStates DEF Reached
  <2>2. Paced(k)'
    BY <1>2, <1>5, <2>1 DEF Paced
  <2>3. At(k, "IF") <= cycle /\ (stage' # "done" /\ ~Late' => At(k, "IF") < cycle)
    BY <1>2 DEF Stamped, Onward
  <2>4. ASSUME Reached(k, "IS")', stage' # "done"
        PROVE  At(k, "IS")' <= cycle /\ (BeforeIS' => At(k, "IS")' < cycle)
    <3>1. CASE st = "IS"
      BY <1>1, <1>4, <3>1 DEF BeforeIS
    <3>2. CASE st \in {"EX", "WB"}
      <4>1. Reached(k, "IS") /\ At(k, "IS")' = At(k, "IS")
        BY <1>1, <1>4, <3>2, ReachedStates DEF Reached
      <4> QED BY <1>2, <2>4, <4>1 DEF Stamped, Onward
    <3> QED BY <1>1, <1>5, <1>7, <3>1, <3>2
  <2>5. ASSUME Reached(k, "EX")', stage' # "done"
        PROVE  At(k, "EX")' <= cycle /\ (BeforeEX' => At(k, "EX")' < cycle)
    <3>1. CASE st = "EX"
      BY <1>1, <1>4, <3>1 DEF BeforeEX
    <3>2. CASE st = "WB"
      <4>1. Reached(k, "EX") /\ At(k, "EX")' = At(k, "EX")
        BY <1>1, <1>4, <3>2, ReachedStates DEF Reached
      <4> QED BY <1>2, <2>5, <4>1 DEF Stamped, Onward
    <3>3. st # "IS"
      BY <1>1, <1>3, <2>5, ReachedStates
    <3> QED BY <1>1, <1>5, <1>7, <3>1, <3>2, <3>3
  <2>6. State(k)' = "WB" => At(k, "EX")' < cycle
    <3>1. State(k) = "EX" => Reached(k, "EX")
      BY ReachedStates DEF Reached, Passed
    <3> QED BY <1>1, <1>2, <3>1 DEF Stamped, BeforeEX
  <2>7. stage' # "done" => Stamped(k)'
    BY <1>1, <1>5, <2>3, <2>4, <2>5, <2>6 DEF Stamped
  <2> QED BY <2>2, <2>7 DEF StampOK
<1> QED BY <1>6, <1>7

(* A step that only goes on ends no stage in which IF is left but that of  *)
(* the dispatch, which DispatchDone does, and the last of a cycle.         *)
LEMMA GoesOnStage ==
  ASSUME IInv, GoesOn, ~Advance
  PROVE  cycle' = cycle /\ \A st \in InstState : Onward(st)
<1>1. CASE Retire \/ ExecuteDone \/ IssueDone \/ FetchEOF \/ FetchDone \/ FetchSkip
  BY <1>1 DEF Retire, ExecuteDone, IssueDone, FetchEOF, FetchDone, FetchSkip, GoTo, Onward,
              Late, BeforeIS, BeforeEX
<1>2. CASE IssueSkip \/ DispatchSkip \/ UNCHANGED vars
  <2>1. stage' = stage /\ cycle' = cycle
    BY <1>2 DEF IssueSkip, DispatchSkip, vars
  <2> QED BY <2>1 DEF Onward, Late, BeforeIS, BeforeEX
<1> QED BY <1>1, <1>2 DEF GoesOn

LEMMA AdvanceCycle ==
  ASSUME IInv, DepInv, Advance
  PROVE  cycle' = cycle + 1 /\ stage = "advance" /\ stage' = "retire"
<1>1. cycle < CycleMod /\ cycle \in Nat
  BY DEF DepInv, StampsPast, IInv, TypeOK
<1> QED BY <1>1, NextCycleValue DEF Advance, GoTo

LEMMA StampGoesOn ==
  ASSUME IInv, DepInv, StampInv, GoesOn
  PROVE  StampInv'
<1>1. Insts' = Insts /\ \A k \in Insts : Same(k)
  BY GoesOnEffect, StillUnchanged DEF Still, Insts
<1>2. CASE ~Advance
  <2>1. \A k \in Insts : StampOK(k)'
    BY <1>1, <1>2, GoesOnStage, StampStays, StampTypes DEF StampInv
  <2> QED BY <1>1, <2>1 DEF StampInv
<1>3. CASE Advance
  <2>1. cycle' = cycle + 1 /\ Late /\ ~Late' /\ stage # "done"
    BY <1>3, AdvanceCycle DEF Late
  <2>2. ASSUME NEW k \in Insts PROVE StampOK(k)'
    <3>1. Stamped(k) /\ Paced(k)
      BY <2>1 DEF StampInv, StampOK
    <3>2. /\ State(k)' = State(k)
          /\ \A st \in InstState : At(k, st)' = At(k, st) /\ (Reached(k, st)' <=> Reached(k, st))
      BY <1>1, SameStamps
    <3>3. /\ cycle \in Nat /\ {"IF", "ID", "IS", "EX"} \subseteq InstState
          /\ \A st \in InstState : At(k, st) \in Nat
      BY StampTypes DEF InstState
    <3>4. Paced(k)'
      BY <3>1, <3>2, <3>3 DEF Paced
    <3>5. At(k, "IF")' < cycle' /\ (State(k)' = "IF" => At(k, "IF")' = cycle' - 1)
      BY <2>1, <3>1, <3>2, <3>3 DEF Stamped
    <3>6. /\ Reached(k, "IS")' => At(k, "IS")' < cycle'
          /\ Reached(k, "EX")' => At(k, "EX")' < cycle'
          /\ State(k)' = "WB" => At(k, "EX")' < cycle'
      BY <2>1, <3>1, <3>2, <3>3 DEF Stamped
    <3>7. \A st \in {"IF", "IS", "EX"} : At(k, st)' \in Nat /\ cycle' \in Nat
      BY <2>1, <3>2, <3>3
    <3>8. Stamped(k)'
      BY <2>1, <3>5, <3>6, <3>7 DEF Stamped
    <3> QED BY <3>4, <3>8 DEF StampOK
  <2> QED BY <1>1, <2>2 DEF StampInv
<1> QED BY <1>2, <1>3

(* One instruction enters a state, and the stage stays. *)
LEMMA StampOneEnters ==
  ASSUME IInv, StampInv, NEW k \in Insts, NEW st \in {"IS", "EX", "WB"}, OneEnters(k, st),
         UNCHANGED <<stage, cycle>>, stage # "done",
         \/ st = "IS" /\ State(k) = "ID" /\ stage = "dispatch"
         \/ st = "EX" /\ State(k) = "IS" /\ stage = "issue"
         \/ st = "WB" /\ State(k) = "EX" /\ stage = "execute"
  PROVE  StampInv'
<1>1. st \in InstState /\ \A x \in InstState : Onward(x)
  BY DEF InstState, Onward, Late, BeforeIS, BeforeEX
<1>2. Insts' = Insts /\ Enters(k, st) /\ \A m \in Insts \ {k} : Same(m)
  BY DEF OneEnters, Insts
<1>3. StampOK(k)'
  <2>1. "ID" \in InstState
    BY DEF InstState
  <2> QED BY <1>1, <1>2, <2>1, StampEnters DEF StampInv
<1>4. \A m \in Insts \ {k} : StampOK(m)'
  BY <1>1, <1>2, StampStays, StampTypes DEF StampInv
<1> QED BY <1>2, <1>3, <1>4 DEF StampInv

(* dis_execute, dis_issue and dis_dispatch move nodes that are in the      *)
(* state before.                                                           *)
LEMMA StampMoves ==
  ASSUME IInv, ListInv, StampInv,
         IssuePush \/ DispatchMove \/ \E lat \in Nat : ExecuteComplete(lat)
  PROVE  StampInv'
<1>1. CASE IssuePush
  <2>1. PICK k \in Insts : k = issue[pos].data
    BY <1>1, IssuePushEffect
  <2>2. OneEnters(k, "EX") /\ State(k) = "IS" /\ stage = "issue" /\ UNCHANGED <<stage, cycle>>
    BY <1>1, <2>1, IssuePushEffect DEF IssuePush, CanIssue
  <2> QED BY <2>2, StampOneEnters
<1>2. CASE DispatchMove
  <2>1. PICK k \in Insts : k = disp[pos]
    BY <1>2, DispatchMoveEffect
  <2>2. OneEnters(k, "IS") /\ State(k) = "ID" /\ stage = "dispatch" /\ UNCHANGED <<stage, cycle>>
    BY <1>2, <2>1, DispatchMoveEffect DEF DispatchMove, CanDispatch
  <2> QED BY <2>2, StampOneEnters
<1>3. ASSUME NEW lat \in Nat, ExecuteComplete(lat)
      PROVE  StampInv'
  <2>1. PICK k \in Insts : k = exec[pos].data
    BY <1>3, ExecuteCompleteEffect
  <2>2. OneEnters(k, "WB") /\ stage = "execute" /\ UNCHANGED <<stage, cycle>>
    BY <1>3, <2>1, ExecuteCompleteEffect DEF ExecuteComplete
  <2>3. k \in DataOf(exec)
    BY <1>3, <2>1, ExecuteCompleteEffect DEF DataOf
  <2>4. State(k) = "EX"
    BY <2>3 DEF ListInv, Placed
  <2> QED BY <2>2, <2>4, StampOneEnters
<1> QED BY <1>1, <1>2, <1>3

(* At the end of dis_dispatch all that is in IF goes to ID. *)
LEMMA AllGoToID ==
  ASSUME IInv, ListInv, DispatchDone, NEW m \in Insts, State(m) = "IF"
  PROVE  Enters(m, "ID")
<1> DEFINE new(k) == IF State(k) = "IF" /\ \E i \in 1..Len(disp) : disp[i] = k
                     THEN [listInst[k] EXCEPT !.state = "ID", !.cycle["ID"] = cycle]
                     ELSE listInst[k]
<1>1. m \in ItemsOf(disp)
  BY DEF ListInv, Placed
<1>2. \E i \in 1..Len(disp) : disp[i] = m
  BY <1>1 DEF ItemsOf
<1>3. listInst' = [k \in Insts |-> new(k)]
  BY DEF DispatchDone
<1>4. new(m) = [listInst[m] EXCEPT !.state = "ID", !.cycle["ID"] = cycle]
  BY <1>2
<1> HIDE DEF new
<1>5. listInst'[m] = [listInst[m] EXCEPT !.state = "ID", !.cycle["ID"] = cycle]
  BY <1>3, <1>4
<1>6. listInst[m] \in InstData
  BY ElementOfSeq DEF IInv, TypeOK, Insts
<1> QED BY <1>5, <1>6 DEF Enters, SameLine, InstData

LEMMA StampDispatchDone ==
  ASSUME IInv, ListInv, StampInv, DispatchDone
  PROVE  StampInv'
<1>1. stage = "dispatch" /\ stage' = "fetch" /\ cycle' = cycle
  BY DEF DispatchDone, GoTo
<1>2. Insts' = Insts
  BY DispatchDoneEffect DEF Insts
<1>3. \A st \in InstState \ {"IF"} : Onward(st)
  BY <1>1 DEF Onward, Late, BeforeIS, BeforeEX
<1>4. "ID" \in InstState \ {"IF"}
  BY DEF InstState
<1>5. ASSUME NEW m \in Insts
      PROVE  StampOK(m)'
  <2>1. CASE State(m) = "IF"
    <3>1. Enters(m, "ID")
      BY <2>1, AllGoToID
    <3>2. StampOK(m) /\ stage # "done" /\ "ID" \in InstState
      BY <1>1, <1>4 DEF StampInv
    <3>3. Onward("ID")
      BY <1>3, <1>4
    <3> QED BY <1>1, <2>1, <3>1, <3>2, <3>3, StampEnters
  <2>2. CASE State(m) # "IF"
    <3>1. Same(m)
      BY <2>2, DispatchDoneEffect
    <3>2. Onward(State(m)) /\ StampOK(m)
      BY <1>3, <2>2, StampTypes DEF StampInv
    <3> QED BY <1>1, <3>1, <3>2, StampStays
  <2> QED BY <2>1, <2>2
<1> QED BY <1>2, <1>5 DEF StampInv

(* What is fetched is in IF, as of now. *)
LEMMA StampFetchInst ==
  ASSUME IInv, StampInv, NEW e \in TraceEntry, FetchInst(e)
  PROVE  StampInv'
<1>1. stage = "fetch" /\ UNCHANGED <<stage, cycle>> /\ cycle \in Nat
  BY DEF FetchInst, IInv, TypeOK
<1>2. PICK new : new = Len(listInst) + 1
  OBVIOUS
<1>3. Insts' = Insts \cup {new}
  <2>1. Len(listInst) \in Nat /\ Len(listInst') = Len(listInst) + 1
    BY FetchInstEffect
  <2> QED BY <1>2, <2>1 DEF Insts
<1>4. ASSUME NEW m \in Insts
      PROVE  StampOK(m)'
  <2>1. Same(m) /\ StampOK(m)
    BY FetchInstEffect DEF StampInv
  <2>2. Onward(State(m))
    BY <1>1 DEF Onward, Late, BeforeIS, BeforeEX
  <2> QED BY <1>1, <2>1, <2>2, StampStays
<1>5. StampOK(new)'
  <2>1. listInst'[new] = NewInst(e)
    BY <1>2, FetchInstEffect
  <2>2. NewInst(e).state = "IF" /\ NewInst(e).cycle["IF"] = cycle
    BY DEF NewInst, InstState
  <2>3. State(new)' = "IF" /\ At(new, "IF")' = cycle
    BY <2>1, <2>2 DEF State, At
  <2>4. \A st \in {"ID", "IS", "EX"} : ~Reached(new, st)'
    BY <2>3 DEF Reached, Passed
  <2>5. Paced(new)' /\ Stamped(new)'
    BY <1>1, <2>3, <2>4 DEF Paced, Stamped, Late
  <2> QED BY <2>5 DEF StampOK
<1> QED BY <1>3, <1>4, <1>5 DEF StampInv

LEMMA NextStampInv == IInv /\ ListInv /\ DepInv /\ StampInv /\ [Next]_vars => StampInv'
<1> SUFFICES ASSUME IInv, ListInv, DepInv, StampInv, [Next]_vars PROVE StampInv'
  OBVIOUS
<1>1. CASE GoesOn
  BY <1>1, StampGoesOn
<1>2. CASE Finish
  <2>1. listInst' = listInst /\ stage' = "done"
    BY <1>2 DEF Finish, GoTo
  <2>2. Insts' = Insts /\ \A k \in Insts : Same(k)
    BY <2>1, StillUnchanged DEF Still, Insts
  <2>3. \A k \in Insts : Paced(k)
    BY DEF StampInv, StampOK
  <2>4. \A k \in Insts : Paced(k)'
    <3>1. "ID" \in InstState /\ "IF" \in InstState
      BY DEF InstState
    <3> QED BY <2>2, <2>3, <3>1, SameStamps DEF Paced
  <2> QED BY <2>1, <2>2, <2>4 DEF StampInv, StampOK
<1>3. ASSUME NEW lat \in Nat, ExecuteWait(lat)
      PROVE  StampInv'
  <2>1. UNCHANGED <<stage, cycle>> /\ stage = "execute"
    BY <1>3 DEF ExecuteWait
  <2>2. Insts' = Insts /\ \A k \in Insts : Same(k)
    BY <1>3, ExecuteWaitEffect DEF Still, Insts
  <2>3. \A k \in Insts : Onward(State(k)) /\ StampOK(k)
    BY <2>1 DEF StampInv, Onward, Late, BeforeIS, BeforeEX
  <2>4. \A k \in Insts : StampOK(k)'
    BY <2>1, <2>2, <2>3, StampStays
  <2> QED BY <2>2, <2>4 DEF StampInv
<1>4. ASSUME NEW e \in TraceEntry, FetchInst(e)
      PROVE  StampInv'
  BY <1>4, StampFetchInst
<1> QED BY <1>1, <1>2, <1>3, <1>4, StepCases, StampMoves, StampDispatchDone
-----------------------------------------------------------------------------
(* The first two hold at the start, where nothing is. *)
LEMMA QueueInvInit == Init => StampInv /\ QueueInv
<1> SUFFICES ASSUME Init PROVE StampInv /\ QueueInv
  OBVIOUS
<1>1. Insts = {} /\ stage = "retire" /\ len.issue = 0
  BY EmptySeq DEF Init, Insts
<1> QED BY <1>1, BandwidthAssumption DEF StampInv, QueueInv

LEMMA QueueGoesOn ==
  ASSUME IInv, QueueInv, GoesOn
  PROVE  QueueInv'
<1>1. UNCHANGED <<listInst, disp, len>> /\ len.issue \in Nat /\ pos \in Nat
  BY GoesOnEffect DEF lists, IInv, TypeOK
<1>2. CASE DispatchSkip
  <2>1. stage = "dispatch" /\ stage' = stage /\ pos' = pos + 1 /\ pos \in 1..Len(disp)
    BY <1>1, <1>2, LenProperties DEF DispatchSkip, IInv, TypeOK
  <2>2. len.issue = S \/ State(disp[pos]) # "ID"
    BY <1>1, <1>2, BandwidthAssumption DEF DispatchSkip, CanDispatch, CanPush, QueueInv
  <2>3. ASSUME len.issue # S, NEW j \in 1..Len(disp), j < pos + 1
        PROVE  State(disp[j]) # "ID"
    BY <1>1, <2>1, <2>2, <2>3 DEF QueueInv
  <2> QED BY <1>1, <2>1, <2>3 DEF QueueInv, State
<1>3. CASE IssueDone
  <2>1. stage' = "dispatch" /\ pos' = 1
    BY <1>3 DEF IssueDone, GoTo
  <2>2. \A j \in 1..Len(disp) : ~(j < 1)
    OBVIOUS
  <2> QED BY <1>1, <2>1, <2>2 DEF QueueInv
<1>4. CASE UNCHANGED vars
  BY <1>1, <1>4 DEF vars, QueueInv, InState, Insts, State, At
<1>5. CASE ~(DispatchSkip \/ IssueDone \/ UNCHANGED vars)
  <2>1. stage' \notin {"dispatch", "fetch"}
    BY <1>5 DEF GoesOn, Retire, ExecuteDone, IssueSkip, FetchEOF, FetchDone, FetchSkip,
       Advance, GoTo
  <2> QED BY <1>1, <2>1 DEF QueueInv
<1> QED BY <1>2, <1>3, <1>4, <1>5

LEMMA NextQueueInv == IInv /\ ListInv /\ QueueInv /\ [Next]_vars => QueueInv'
<1> SUFFICES ASSUME IInv, ListInv, QueueInv, [Next]_vars PROVE QueueInv'
  OBVIOUS
<1>1. /\ len \in [disp : Nat, issue : Nat, exec : Nat] /\ len.issue \in Nat
      /\ len.issue <= S /\ S \in Nat
  BY BandwidthAssumption DEF IInv, TypeOK, QueueInv
<1>2. CASE GoesOn
  BY <1>2, QueueGoesOn
<1>3. CASE IssuePush
  <2>1. stage' = "issue" /\ len'.issue = Dec(len.issue)
    BY <1>1, <1>3 DEF IssuePush
  <2>2. len'.issue <= S
    BY <1>1, <2>1 DEF Dec
  <2> QED BY <2>1, <2>2 DEF QueueInv
<1>4. CASE DispatchMove
  <2>1. stage' = "dispatch" /\ len'.issue = len.issue + 1 /\ len.issue < S /\ pos' = 1
    BY <1>1, <1>4, MovesHead DEF DispatchMove, CanDispatch, CanPush
  <2>2. \A j : j \in 1..Len(disp') => ~(j < 1)
    OBVIOUS
  <2>3. len'.issue <= S
    BY <1>1, <2>1
  <2> QED BY <2>1, <2>2, <2>3 DEF QueueInv
<1>5. CASE DispatchDone
  <2>1. /\ stage = "dispatch" /\ stage' = "fetch" /\ len' = len /\ cycle' = cycle
        /\ pos > Len(disp) /\ Insts' = Insts
    BY <1>5, DispatchDoneEffect DEF DispatchDone, GoTo, Insts
  <2>2. ASSUME len.issue # S, NEW k \in Insts, State(k)' = "ID"
        PROVE  At(k, "ID")' = cycle
    <3>1. CASE State(k) = "IF"
      <4>1. Enters(k, "ID") /\ "ID" \in InstState
        BY <1>5, <3>1, AllGoToID DEF InstState
      <4> QED BY <4>1, EntersStamps
    <3>2. CASE State(k) # "IF"
      <4>1. State(k) = "ID"
        BY <1>5, <2>2, <3>2, DispatchDoneEffect, SameStamps
      <4>2. PICK j \in 1..Len(disp) : disp[j] = k
        BY <4>1 DEF ListInv, Placed, ItemsOf
      <4>3. j < pos
        BY <2>1, LenProperties DEF IInv, TypeOK
      <4> QED BY <2>1, <2>2, <4>1, <4>2, <4>3 DEF QueueInv
    <3> QED BY <3>1, <3>2
  <2> QED BY <1>1, <2>1, <2>2 DEF QueueInv, InState
<1>6. CASE Finish
  <2>1. stage' = "done" /\ len' = len
    BY <1>6 DEF Finish, GoTo
  <2> QED BY <1>1, <2>1 DEF QueueInv
<1>7. ASSUME NEW lat \in Nat, ExecuteWait(lat) \/ ExecuteComplete(lat)
      PROVE  QueueInv'
  <2>1. stage' = "execute" /\ len'.issue = len.issue
    BY <1>1, <1>7 DEF ExecuteWait, ExecuteComplete, lists
  <2> QED BY <1>1, <2>1 DEF QueueInv
<1>8. ASSUME NEW e \in TraceEntry, FetchInst(e)
      PROVE  QueueInv'
  <2>1. stage = "fetch" /\ UNCHANGED <<stage, cycle>> /\ len'.issue = len.issue
    BY <1>1, <1>8 DEF FetchInst
  <2>2. PICK new : new = Len(listInst) + 1
    OBVIOUS
  <2>3. Insts' = Insts \cup {new} /\ State(new)' = "IF"
    <3>1. Len(listInst) \in Nat /\ Len(listInst') = Len(listInst) + 1
      BY <1>8, FetchInstEffect
    <3> QED BY <1>8, <2>2, <3>1, FetchInstEffect DEF Insts, State
  <2>4. \A k \in Insts : State(k)' = State(k) /\ At(k, "ID")' = At(k, "ID")
    BY <1>8, FetchInstEffect DEF Same, State, At
  <2>5. InState({"ID"})' = InState({"ID"})
    BY <2>3, <2>4 DEF InState
  <2>6. \A k \in InState({"ID"}) : k \in Insts
    BY DEF InState
  <2> QED BY <1>1, <2>1, <2>4, <2>5, <2>6 DEF QueueInv
<1> QED BY <1>2, <1>3, <1>4, <1>5, <1>6, <1>7, <1>8, StepCases

LEMMA QueueInvHolds == Spec => [](IInv /\ ListInv /\ DepInv /\ StampInv /\ QueueInv)
<1>1. Init => StampInv /\ QueueInv
  BY QueueInvInit
<1>2. IInv /\ ListInv /\ DepInv /\ StampInv /\ [Next]_vars => StampInv'
  BY NextStampInv
<1>3. IInv /\ ListInv /\ QueueInv /\ [Next]_vars => QueueInv'
  BY NextQueueInv
<1> QED BY <1>1, <1>2, <1>3, DepInvHolds, PTL DEF Spec

(* dis_dispatch leaves no instruction behind that has had its cycle in ID  *)
(* while the scheduling queue has room, though its loop takes no count of  *)
(* either; and every instruction is in IF for one cycle.                   *)
THEOREM DispatchIsGreedy == Spec => []DispatchGreedy
<1>1. StampInv /\ QueueInv => DispatchGreedy
  BY DEF StampInv, StampOK, Paced, QueueInv, DispatchGreedy
<1> QED BY <1>1, QueueInvHolds, PTL
-----------------------------------------------------------------------------
(* Who enters IS and EX in a cycle. *)
LEMMA EnteringFinite ==
  ASSUME IInv, NEW st
  PROVE  IsFiniteSet(Entering(st)) /\ Cardinality(Entering(st)) \in Nat
<1>1. IsFiniteSet(Insts)
  BY StampTypes, FS_Interval DEF Insts
<1>2. Entering(st) \subseteq Insts
  BY DEF Entering
<1>3. IsFiniteSet(Entering(st))
  BY <1>1, <1>2, FS_Subset
<1> QED BY <1>3, FS_CardinalityType

LEMMA EntersKeeps ==
  ASSUME IInv, NEW k \in Insts, NEW x \in InstState, Enters(k, x), NEW st \in {"IS", "EX"},
         \/ x = "ID" /\ State(k) = "IF"
         \/ x = "IS" /\ State(k) = "ID" /\ st = "EX"
         \/ x = "EX" /\ State(k) = "IS" /\ st = "IS"
         \/ x = "WB" /\ State(k) = "EX"
  PROVE  (Reached(k, st)' <=> Reached(k, st)) /\ At(k, st)' = At(k, st)
<1>1. State(k)' = x /\ \A y \in InstState \ {x} : At(k, y)' = At(k, y)
  BY EntersStamps
<1>2. st \in InstState \ {x}
  BY DEF InstState
<1>3. State(k) \in InstState
  BY StampTypes
<1>4. Reached(k, st)' <=> Reached(k, st)
  BY <1>1, <1>3, ReachedStates DEF Reached
<1> QED BY <1>1, <1>2, <1>4

(* A step after which those that have been in state st are the same. *)
EntersNone(st) ==
  /\ Insts \subseteq Insts'
  /\ \A k \in Insts : (Reached(k, st)' <=> Reached(k, st)) /\ At(k, st)' = At(k, st)
  /\ \A k \in Insts' \ Insts : ~Reached(k, st)'

LEMMA EnteringStays ==
  ASSUME NEW st, cycle' = cycle, EntersNone(st)
  PROVE  Entering(st)' = Entering(st)
BY DEF Entering, EntersNone

LEMMA StillEntersNone ==
  ASSUME NEW st \in InstState, Still
  PROVE  EntersNone(st)
<1>1. Insts' = Insts /\ \A k \in Insts : Same(k)
  BY DEF Still, Insts
<1> QED BY <1>1, SameStamps DEF EntersNone

LEMMA EnteringStill ==
  ASSUME NEW st \in InstState, Still, cycle' = cycle
  PROVE  Entering(st)' = Entering(st)
BY StillEntersNone, EnteringStays

LEMMA NobodyEnters ==
  ASSUME IInv, ListInv, [Next]_vars, NEW st \in {"IS", "EX"},
         st = "IS" => ~DispatchMove, st = "EX" => ~IssuePush
  PROVE  EntersNone(st)
<1>1. st \in InstState /\ {"ID", "IS", "EX", "WB"} \subseteq InstState
  BY DEF InstState
<1>2. ASSUME Still
      PROVE  EntersNone(st)
  BY <1>1, <1>2, StillEntersNone
<1>3. ASSUME NEW k \in Insts, NEW x \in InstState, OneEnters(k, x),
             \/ x = "IS" /\ State(k) = "ID" /\ st = "EX"
             \/ x = "EX" /\ State(k) = "IS" /\ st = "IS"
             \/ x = "WB" /\ State(k) = "EX"
      PROVE  EntersNone(st)
  <2>1. Insts' = Insts /\ Enters(k, x) /\ \A m \in Insts \ {k} : Same(m)
    BY <1>3 DEF OneEnters, Insts
  <2>2. (Reached(k, st)' <=> Reached(k, st)) /\ At(k, st)' = At(k, st)
    BY <1>3, <2>1, EntersKeeps
  <2>3. \A m \in Insts \ {k} : (Reached(m, st)' <=> Reached(m, st)) /\ At(m, st)' = At(m, st)
    BY <1>1, <2>1, SameStamps
  <2> QED BY <2>1, <2>2, <2>3 DEF EntersNone
<1>4. CASE GoesOn \/ Finish
  <2>1. listInst' = listInst
    BY <1>4, GoesOnEffect DEF Finish
  <2> QED BY <1>2, <2>1, StillUnchanged
<1>5. ASSUME NEW lat \in Nat, ExecuteWait(lat)
      PROVE  EntersNone(st)
  BY <1>2, <1>5, ExecuteWaitEffect
<1>6. ASSUME NEW lat \in Nat, ExecuteComplete(lat)
      PROVE  EntersNone(st)
  <2>1. PICK k \in Insts : k = exec[pos].data
    BY <1>6, ExecuteCompleteEffect
  <2>2. OneEnters(k, "WB") /\ k \in DataOf(exec)
    BY <1>6, <2>1, ExecuteCompleteEffect DEF DataOf
  <2>3. State(k) = "EX"
    BY <2>2 DEF ListInv, Placed
  <2> QED BY <1>1, <1>3, <2>2, <2>3
<1>7. CASE IssuePush
  <2>1. PICK k \in Insts : k = issue[pos].data
    BY <1>7, IssuePushEffect
  <2>2. OneEnters(k, "EX") /\ State(k) = "IS" /\ st = "IS"
    BY <1>7, <2>1, IssuePushEffect DEF IssuePush, CanIssue
  <2> QED BY <1>1, <1>3, <2>2
<1>8. CASE DispatchMove
  <2>1. PICK k \in Insts : k = disp[pos]
    BY <1>8, DispatchMoveEffect
  <2>2. OneEnters(k, "IS") /\ State(k) = "ID" /\ st = "EX"
    BY <1>8, <2>1, DispatchMoveEffect DEF DispatchMove, CanDispatch
  <2> QED BY <1>1, <1>3, <2>2
<1>9. CASE DispatchDone
  <2>1. Insts' = Insts
    BY <1>9, DispatchDoneEffect DEF Insts
  <2>2. ASSUME NEW k \in Insts
        PROVE  (Reached(k, st)' <=> Reached(k, st)) /\ At(k, st)' = At(k, st)
    <3>1. CASE Same(k)
      BY <1>1, <3>1, SameStamps
    <3>2. CASE State(k) = "IF" /\ Enters(k, "ID")
      BY <1>1, <3>2, EntersKeeps
    <3> QED BY <1>9, <3>1, <3>2, DispatchDoneEffect
  <2> QED BY <2>1, <2>2 DEF EntersNone
<1>10. ASSUME NEW e \in TraceEntry, FetchInst(e)
       PROVE  EntersNone(st)
  <2>1. PICK new : new = Len(listInst) + 1
    OBVIOUS
  <2>2. Insts' = Insts \cup {new} /\ State(new)' = "IF"
    <3>1. Len(listInst) \in Nat /\ Len(listInst') = Len(listInst) + 1
      BY <1>10, FetchInstEffect
    <3> QED BY <1>10, <2>1, <3>1, FetchInstEffect DEF Insts, State
  <2>3. ~Reached(new, st)'
    BY <2>2 DEF Reached, Passed
  <2>4. \A k \in Insts : (Reached(k, st)' <=> Reached(k, st)) /\ At(k, st)' = At(k, st)
    BY <1>1, <1>10, FetchInstEffect, SameStamps
  <2> QED BY <2>2, <2>3, <2>4 DEF EntersNone
<1> QED BY <1>4, <1>5, <1>6, <1>7, <1>8, <1>9, <1>10, StepCases

LEMMA EnteringKept ==
  ASSUME IInv, ListInv, [Next]_vars, cycle' = cycle, NEW st \in {"IS", "EX"},
         st = "IS" => ~DispatchMove, st = "EX" => ~IssuePush
  PROVE  Entering(st)' = Entering(st)
BY NobodyEnters, EnteringStays

LEMMA EnteringAdds ==
  ASSUME IInv, cycle' = cycle, NEW k \in Insts, NEW st \in {"IS", "EX"}, OneEnters(k, st),
         ~Reached(k, st)
  PROVE  /\ Entering(st)' = Entering(st) \cup {k}
         /\ Cardinality(Entering(st))' = Cardinality(Entering(st)) + 1
<1>1. Insts' = Insts /\ Enters(k, st) /\ \A m \in Insts \ {k} : Same(m)
  BY DEF OneEnters, Insts
<1>2. st \in InstState
  BY DEF InstState
<1>3. State(k)' = st /\ At(k, st)' = cycle
  BY <1>1, <1>2, EntersStamps
<1>4. Reached(k, st)'
  BY <1>3 DEF Reached, Passed
<1>5. \A m \in Insts \ {k} : (Reached(m, st)' <=> Reached(m, st)) /\ At(m, st)' = At(m, st)
  BY <1>1, <1>2, SameStamps
<1>6. Entering(st)' = Entering(st) \cup {k} /\ k \notin Entering(st)
  BY <1>1, <1>3, <1>4, <1>5 DEF Entering
<1>7. IsFiniteSet(Entering(st))
  BY EnteringFinite
<1> QED BY <1>6, <1>7, FS_AddElement

(* Nobody has entered yet. *)
LEMMA NoneEntering ==
  ASSUME StampInv, IInv
  PROVE  /\ BeforeEX => Entering("EX") = {}
         /\ BeforeIS => Entering("IS") = {}
<1>1. \A k \in Insts : \A st \in {"IS", "EX"} : At(k, st) \in Nat
  BY StampTypes DEF InstState
<1>2. cycle \in Nat
  BY StampTypes
<1>3. ASSUME BeforeIS, NEW k \in Insts
      PROVE  /\ Reached(k, "IS") => At(k, "IS") < cycle
             /\ BeforeEX /\ Reached(k, "EX") => At(k, "EX") < cycle
  <2>1. Stamped(k)
    BY <1>3 DEF StampInv, StampOK, BeforeIS
  <2> QED BY <1>3, <2>1 DEF Stamped
<1>4. BeforeEX => BeforeIS
  BY DEF BeforeEX, BeforeIS
<1>5. BeforeEX => Entering("EX") = {}
  BY <1>1, <1>2, <1>3, <1>4 DEF Entering
<1>6. BeforeIS => Entering("IS") = {}
  BY <1>1, <1>2, <1>3 DEF Entering
<1> QED BY <1>5, <1>6
-----------------------------------------------------------------------------
LEMMA IssuedGoesOn ==
  ASSUME IInv, ListInv, DepInv, StampInv, IssuedInv, GoesOn
  PROVE  IssuedInv'
<1>1. UNCHANGED <<listInst, issue, len>> /\ count \in Nat /\ pos \in Nat /\ N \in Nat
  BY GoesOnEffect, BandwidthAssumption DEF lists, IInv, TypeOK
<1>2. Still /\ "EX" \in InstState
  BY <1>1, StillUnchanged DEF InstState
<1>3. CASE Advance
  <2>1. cycle' = cycle + 1 /\ stage' = "retire" /\ stage # "done" /\ cycle \in Nat
    BY <1>3, AdvanceCycle, StampTypes
  <2>2. ASSUME NEW k \in Insts, Reached(k, "EX")
        PROVE  At(k, "EX") # cycle + 1
    <3>1. At(k, "EX") <= cycle /\ At(k, "EX") \in Nat
      BY <1>2, <2>1, <2>2, StampTypes DEF StampInv, StampOK, Stamped
    <3> QED BY <2>1, <3>1
  <2>3. Entering("EX")' = {}
    BY <1>1, <2>1, <2>2 DEF Entering, Insts, Reached, State, At
  <2>4. Cardinality(Entering("EX"))' = 0
    BY <2>3, FS_EmptySet
  <2>5. stage' # "issue" /\ Cardinality(Entering("EX"))' <= N
    BY <1>1, <2>1, <2>4
  <2> QED BY <2>5 DEF IssuedInv
<1>4. ASSUME ~Advance
      PROVE  Entering("EX")' = Entering("EX")
  <2>1. cycle' = cycle
    BY <1>4, GoesOnStage
  <2> QED BY <1>2, <2>1, EnteringStill
<1>5. CASE ExecuteDone
  <2>1. stage' = "issue" /\ pos' = 1 /\ count' = 0 /\ BeforeEX /\ ~Advance
    BY <1>5 DEF ExecuteDone, GoTo, BeforeEX, Advance
  <2>2. Entering("EX")' = {}
    BY <1>4, <2>1, NoneEntering
  <2>3. Cardinality(Entering("EX"))' = 0
    BY <2>2, FS_EmptySet
  <2>4. \A i \in 1..Len(issue) : ~(i < 1)
    OBVIOUS
  <2>5. \A k : OlderEntered(k)'
    BY <2>2 DEF OlderEntered
  <2>6. count' <= N /\ Cardinality(Entering("EX"))' = count' /\ Cardinality(Entering("EX"))' <= N
    BY <1>1, <2>1, <2>3
  <2>7. \A i \in 1..Len(issue') : ~(i < pos')
    BY <1>1, <2>1, <2>4
  <2> QED BY <2>5, <2>6, <2>7 DEF IssuedInv
<1>6. CASE IssueSkip
  <2>1. /\ stage = "issue" /\ stage' = stage /\ pos' = pos + 1 /\ count' = count
        /\ pos \in 1..Len(issue) /\ ~CanIssue(issue[pos]) /\ ~Advance
    BY <1>1, <1>6, LenProperties DEF IssueSkip, IInv, TypeOK, Advance
  <2>2. State(issue[pos].data) = "IS"
    <3>1. issue[pos] \in Node
      BY <2>1, ElementOfSeq DEF IInv, TypeOK
    <3>2. issue[pos].data \in Insts /\ issue[pos].data \in DataOf(issue)
      BY <2>1, <3>1 DEF Node, DataOf
    <3> QED BY <3>2 DEF ListInv, Placed
  <2>3. OperandsReady(issue[pos]) => Refused
    BY <1>1, <2>1, <2>2 DEF CanIssue, Refused, IssuedInv
  <2>4. Refused' <=> Refused
    BY <1>1, <2>1 DEF Refused, CanPush
  <2>5. \A k : OlderEntered(k)' <=> OlderEntered(k)
    BY <1>4, <2>1 DEF OlderEntered
  <2>6. ASSUME NEW i \in 1..Len(issue)
        PROVE  IF i < pos + 1
               THEN OperandsReady(issue[i]) => Refused /\ OlderEntered(issue[i].data)
               ELSE OlderEntered(issue[i].data)
    <3>1. CASE i = pos
      BY <1>1, <2>1, <2>3, <3>1 DEF IssuedInv
    <3>2. CASE i # pos
      <4>1. i < pos + 1 <=> i < pos
        BY <1>1, <3>2
      <4> QED BY <2>1, <4>1 DEF IssuedInv
    <3> QED BY <3>1, <3>2
  <2>7. \A i \in 1..Len(issue) : OperandsReady(issue[i])' <=> OperandsReady(issue[i])
    BY <1>1 DEF OperandsReady
  <2> QED BY <1>1, <1>4, <2>1, <2>4, <2>5, <2>6, <2>7 DEF IssuedInv
<1>7. CASE UNCHANGED vars
  <2>1. /\ UNCHANGED <<stage, count, pos>> /\ (Refused' <=> Refused)
        /\ \A i \in 1..Len(issue) : OperandsReady(issue[i])' <=> OperandsReady(issue[i])
    BY <1>1, <1>7 DEF vars, Refused, CanPush, OperandsReady
  <2>2. Entering("EX")' = Entering("EX") /\ \A k : OlderEntered(k)' <=> OlderEntered(k)
    BY <1>1, <1>7 DEF vars, Entering, OlderEntered, Insts, Reached, State, At
  <2> QED BY <1>1, <2>1, <2>2 DEF IssuedInv
<1>8. CASE ~(Advance \/ ExecuteDone \/ IssueSkip \/ UNCHANGED vars)
  <2>1. stage' # "issue" /\ stage # "done" /\ ~Advance
    BY <1>8 DEF GoesOn, Retire, IssueDone, DispatchSkip, FetchEOF, FetchDone, FetchSkip, GoTo
  <2> QED BY <1>4, <2>1 DEF IssuedInv
<1> QED BY <1>3, <1>5, <1>6, <1>7, <1>8

(* dis_issue moves a node: nothing it passed over before was ready.        *)
LEMMA IssuedPush ==
  ASSUME N < CounterMod, IInv, ListInv, IssuedInv, IssuePush
  PROVE  IssuedInv'
<1>1. /\ stage = "issue" /\ UNCHANGED <<stage, pos, cycle>> /\ pos \in 1..Len(issue)
      /\ count < N /\ CanPush("exec") /\ issue' = Without(issue, pos)
      /\ issue \in Seq(Node) /\ Len(issue) \in Nat /\ pos \in Nat
  BY LenProperties, IssuePushEffect DEF IssuePush, CanIssue, IInv, TypeOK
<1>2. PICK k \in Insts : k = issue[pos].data
  BY IssuePushEffect
<1>3. OneEnters(k, "EX") /\ State(k) = "IS"
  BY <1>2, IssuePushEffect DEF IssuePush, CanIssue
<1>4. ~Reached(k, "EX")
  BY <1>3 DEF Reached, Passed
<1>5. /\ Entering("EX")' = Entering("EX") \cup {k}
      /\ Cardinality(Entering("EX"))' = Cardinality(Entering("EX")) + 1
  BY <1>1, <1>3, <1>4, EnteringAdds
<1>6. count' = count + 1 /\ count \in Nat /\ N \in Nat /\ count' <= N
  <2>1. count \in Nat /\ N \in Nat /\ CounterMod \in Nat
    BY BandwidthAssumption, WidthAssumption DEF IInv, TypeOK
  <2>2. \A a, b \in Nat : a < b => a % b = a
    OBVIOUS
  <2>3. count + 1 \in Nat /\ count + 1 < CounterMod
    BY <1>1, <2>1
  <2>4. (count + 1) % CounterMod = count + 1
    BY <2>1, <2>2, <2>3
  <2>5. count' = count + 1
    BY <2>4 DEF IssuePush
  <2> QED BY <1>1, <2>1, <2>5
<1>7. /\ \A j \in 1..Len(issue') : /\ Place(pos, j) \in 1..Len(issue)
                                   /\ issue'[j] = issue[Place(pos, j)]
      /\ Len(issue') = Len(issue) - 1
  BY <1>1, WithoutProperties
<1>8. ~Refused
  BY <1>1, <1>6 DEF Refused
<1>9. ASSUME NEW i \in 1..Len(issue')
      PROVE  IF i < pos
             THEN ~OperandsReady(issue'[i])
             ELSE \A j \in Entering("EX") \cup {k} : j < issue'[i].data
  <2>1. CASE i < pos
    <3>1. i \in 1..Len(issue) /\ issue'[i] = issue[i]
      BY <1>1, <1>7, <2>1 DEF Place
    <3> QED BY <1>1, <1>8, <2>1, <3>1 DEF IssuedInv
  <2>2. CASE ~(i < pos)
    <3>1. i + 1 \in 1..Len(issue) /\ issue'[i] = issue[i + 1] /\ pos < i + 1 /\ ~(i + 1 < pos)
      BY <1>1, <1>7, <2>2 DEF Place
    <3>2. k < issue[i + 1].data
      BY <1>1, <1>2, <3>1 DEF IInv, InOrder
    <3>3. OlderEntered(issue[i + 1].data)
      BY <1>1, <3>1 DEF IssuedInv
    <3> QED BY <2>2, <3>1, <3>2, <3>3 DEF OlderEntered
  <2> QED BY <2>1, <2>2
<1>10. \A i \in 1..Len(issue') :
         /\ i < pos => ~OperandsReady(issue[i])'
         /\ ~(i < pos) => OlderEntered(issue[i].data)'
  BY <1>5, <1>9 DEF OperandsReady, OlderEntered
<1>11. Cardinality(Entering("EX"))' = count'
  BY <1>1, <1>5, <1>6 DEF IssuedInv
<1> QED BY <1>1, <1>6, <1>10, <1>11 DEF IssuedInv

LEMMA NextIssuedInv ==
  ASSUME N < CounterMod
  PROVE  IInv /\ ListInv /\ DepInv /\ StampInv /\ IssuedInv /\ [Next]_vars => IssuedInv'
<1> SUFFICES ASSUME IInv, ListInv, DepInv, StampInv, IssuedInv, [Next]_vars
             PROVE  IssuedInv'
  OBVIOUS
<1>1. CASE GoesOn
  BY <1>1, IssuedGoesOn
<1>2. CASE IssuePush
  BY <1>2, IssuedPush
<1>3. CASE Finish
  BY <1>3 DEF Finish, GoTo, IssuedInv
<1>4. ASSUME \/ DispatchMove \/ DispatchDone
             \/ \E lat \in Nat : ExecuteWait(lat) \/ ExecuteComplete(lat)
             \/ \E e \in TraceEntry : FetchInst(e)
      PROVE  IssuedInv'
  <2>1. cycle' = cycle /\ stage' # "issue" /\ stage # "done" /\ ~IssuePush
    BY <1>4 DEF DispatchMove, DispatchDone, GoTo, ExecuteWait, ExecuteComplete, FetchInst,
       IssuePush
  <2>2. Entering("EX")' = Entering("EX")
    BY <2>1, EnteringKept
  <2> QED BY <2>1, <2>2 DEF IssuedInv
<1> QED BY <1>1, <1>2, <1>3, <1>4, StepCases

LEMMA IssuedInvHolds ==
  ASSUME N < CounterMod
  PROVE  Spec => [](IInv /\ ListInv /\ DepInv /\ StampInv /\ QueueInv /\ IssuedInv)
<1>1. Init => IssuedInv
  <2> SUFFICES ASSUME Init PROVE IssuedInv
    OBVIOUS
  <2>1. Insts = {} /\ stage = "retire"
    BY EmptySeq DEF Init, Insts
  <2>2. Entering("EX") = {}
    BY <2>1 DEF Entering
  <2>3. Cardinality({}) = 0
    BY FS_EmptySet
  <2> QED BY <2>1, <2>2, <2>3, BandwidthAssumption DEF IssuedInv
<1>2. IInv /\ ListInv /\ DepInv /\ StampInv /\ IssuedInv /\ [Next]_vars => IssuedInv'
  BY NextIssuedInv
<1> QED BY <1>1, <1>2, QueueInvHolds, PTL DEF Spec

(* dis_issue moves N instructions a cycle at most, if its counter can      *)
(* count that far: IssueWidth, which does not hold when it cannot.         *)
THEOREM IssueKeepsWidth ==
  ASSUME N < CounterMod
  PROVE  Spec => []IssueWidth
<1>1. IssuedInv => IssueWidth
  BY DEF IssuedInv, IssueWidth
<1> QED BY <1>1, IssuedInvHolds, PTL

(* The ready bits of a node say that its producers are done. *)
LEMMA ReadyWhenDone ==
  ASSUME IInv, DepInv, NEW i \in 1..Len(issue),
         \A r \in Sources(issue[i].data) : \A j \in Producers(issue[i].data, r) : State(j) = "WB"
  PROVE  OperandsReady(issue[i])
<1>1. NodeTracks(issue[i])
  BY DEF DepInv, NoLostWakeup, NodeTracks
<1>2. issue[i].sreg1.rnum \in Reg => issue[i].sreg1.ready
  <2> SUFFICES ASSUME issue[i].sreg1.rnum \in Reg PROVE issue[i].sreg1.ready
    OBVIOUS
  <2>1. issue[i].sreg1.rnum \in Sources(issue[i].data)
    BY <1>1 DEF NodeTracks, Sources
  <2> QED BY <1>1, <2>1 DEF NodeTracks, SourceTracksProducer
<1>3. issue[i].sreg2.rnum \in Reg => issue[i].sreg2.ready
  <2> SUFFICES ASSUME issue[i].sreg2.rnum \in Reg PROVE issue[i].sreg2.ready
    OBVIOUS
  <2>1. issue[i].sreg2.rnum \in Sources(issue[i].data)
    BY <1>1 DEF NodeTracks, Sources
  <2> QED BY <1>1, <2>1 DEF NodeTracks, SourceTracksProducer
<1> QED BY <1>2, <1>3 DEF OperandsReady

(* dis_issue leaves an instruction whose producers are done behind only    *)
(* for want of width or of a place in list_exec, and then to older ones.   *)
THEOREM IssueIsGreedy ==
  ASSUME N < CounterMod
  PROVE  Spec => []IssueGreedy
<1>1. IInv /\ ListInv /\ DepInv /\ IssuedInv => IssueGreedy
  <2> SUFFICES ASSUME IInv, ListInv, DepInv, IssuedInv, stage = "issue", pos > Len(issue),
                      NEW k \in InState({"IS"}),
                      \A r \in Sources(k) : \A j \in Producers(k, r) : State(j) = "WB"
               PROVE  /\ Cardinality(Entering("EX")) = N \/ ~CanPush("exec")
                      /\ \A j \in Entering("EX") : j < k
    BY DEF IssueGreedy
  <2>1. PICK i \in 1..Len(issue) : issue[i].data = k
    BY DEF InState, ListInv, Placed, DataOf
  <2>2. OperandsReady(issue[i])
    BY <2>1, ReadyWhenDone
  <2>3. i < pos
    BY LenProperties DEF IInv, TypeOK
  <2> QED BY <2>1, <2>2, <2>3 DEF IssuedInv, Refused, OlderEntered
<1> QED BY <1>1, IssuedInvHolds, PTL
-----------------------------------------------------------------------------
(* When instructions were fetched, and who is in ID, changes in few steps. *)
LEMMA FetchedStays ==
  ASSUME IInv, [Next]_vars, \A e \in TraceEntry : ~FetchInst(e)
  PROVE  Insts' = Insts /\ \A k \in Insts : At(k, "IF")' = At(k, "IF")
<1>1. {"IF", "ID", "IS", "EX", "WB"} \subseteq InstState
  BY DEF InstState
<1>2. ASSUME Still
      PROVE  Insts' = Insts /\ \A k \in Insts : At(k, "IF")' = At(k, "IF")
  BY <1>1, <1>2, SameStamps DEF Still, Insts
<1>3. ASSUME NEW k \in Insts, NEW x \in InstState, x # "IF", OneEnters(k, x)
      PROVE  Insts' = Insts /\ \A m \in Insts : At(m, "IF")' = At(m, "IF")
  BY <1>1, <1>3, OneEntersStates
<1>4. CASE GoesOn \/ Finish
  <2>1. listInst' = listInst
    BY <1>4, GoesOnEffect DEF Finish
  <2> QED BY <1>2, <2>1, StillUnchanged
<1>5. ASSUME NEW lat \in Nat, ExecuteWait(lat) \/ ExecuteComplete(lat)
      PROVE  Insts' = Insts /\ \A k \in Insts : At(k, "IF")' = At(k, "IF")
  BY <1>1, <1>2, <1>3, <1>5, ExecuteWaitEffect, ExecuteCompleteEffect
<1>6. CASE IssuePush
  BY <1>1, <1>3, <1>6, IssuePushEffect
<1>7. CASE DispatchMove
  BY <1>1, <1>3, <1>7, DispatchMoveEffect
<1>8. CASE DispatchDone
  <2>1. Insts' = Insts
    BY <1>8, DispatchDoneEffect DEF Insts
  <2>2. ASSUME NEW k \in Insts
        PROVE  At(k, "IF")' = At(k, "IF")
    <3>1. CASE Same(k)
      BY <1>1, <3>1, SameStamps
    <3>2. CASE Enters(k, "ID")
      BY <1>1, <3>2, EntersStamps
    <3> QED BY <1>8, <3>1, <3>2, DispatchDoneEffect
  <2> QED BY <2>1, <2>2
<1> QED BY <1>4, <1>5, <1>6, <1>7, <1>8, StepCases

LEMMA IDStays ==
  ASSUME IInv, ListInv, [Next]_vars, ~DispatchMove, ~DispatchDone,
         \A e \in TraceEntry : ~FetchInst(e)
  PROVE  /\ InState({"ID"})' = InState({"ID"})
         /\ \A k \in Insts : At(k, "ID")' = At(k, "ID")
<1>1. {"IF", "ID", "IS", "EX", "WB"} \subseteq InstState
  BY DEF InstState
<1>2. ASSUME Still
      PROVE  /\ InState({"ID"})' = InState({"ID"})
             /\ \A k \in Insts : At(k, "ID")' = At(k, "ID")
  BY <1>1, <1>2, SameStamps DEF Still, Insts, InState
<1>3. ASSUME NEW k \in Insts, NEW x \in {"EX", "WB"}, OneEnters(k, x), State(k) # "ID"
      PROVE  /\ InState({"ID"})' = InState({"ID"})
             /\ \A m \in Insts : At(m, "ID")' = At(m, "ID")
  <2>1. /\ Insts' = Insts /\ State(k)' = x
        /\ \A s \in InstState \ {x} : At(k, s)' = At(k, s)
        /\ \A m \in Insts \ {k} : State(m)' = State(m) /\ \A s : At(m, s)' = At(m, s)
    BY <1>1, <1>3, OneEntersStates
  <2> QED BY <1>1, <1>3, <2>1 DEF InState
<1>4. CASE GoesOn \/ Finish
  <2>1. listInst' = listInst
    BY <1>4, GoesOnEffect DEF Finish
  <2> QED BY <1>2, <2>1, StillUnchanged
<1>5. ASSUME NEW lat \in Nat, ExecuteWait(lat)
      PROVE  /\ InState({"ID"})' = InState({"ID"})
             /\ \A k \in Insts : At(k, "ID")' = At(k, "ID")
  BY <1>2, <1>5, ExecuteWaitEffect
<1>6. ASSUME NEW lat \in Nat, ExecuteComplete(lat)
      PROVE  /\ InState({"ID"})' = InState({"ID"})
             /\ \A k \in Insts : At(k, "ID")' = At(k, "ID")
  <2>1. PICK k \in Insts : k = exec[pos].data
    BY <1>6, ExecuteCompleteEffect
  <2>2. OneEnters(k, "WB") /\ k \in DataOf(exec)
    BY <1>6, <2>1, ExecuteCompleteEffect DEF DataOf
  <2>3. State(k) = "EX"
    BY <2>2 DEF ListInv, Placed
  <2> QED BY <1>3, <2>2, <2>3
<1>7. CASE IssuePush
  <2>1. PICK k \in Insts : k = issue[pos].data
    BY <1>7, IssuePushEffect
  <2>2. OneEnters(k, "EX") /\ State(k) = "IS"
    BY <1>7, <2>1, IssuePushEffect DEF IssuePush, CanIssue
  <2> QED BY <1>3, <2>2
<1> QED BY <1>4, <1>5, <1>6, <1>7, StepCases

LEMMA FetchedFinite ==
  ASSUME IInv, NEW c
  PROVE  IsFiniteSet(Fetched(c)) /\ Cardinality(Fetched(c)) \in Nat
<1>1. IsFiniteSet(Insts)
  BY StampTypes, FS_Interval DEF Insts
<1>2. Fetched(c) \subseteq Insts
  BY DEF Fetched
<1>3. IsFiniteSet(Fetched(c))
  BY <1>1, <1>2, FS_Subset
<1> QED BY <1>3, FS_CardinalityType

(* dis_fetch counts what it fetches. *)
LEMMA NextFetchedInv == IInv /\ StampInv /\ FetchedInv /\ [Next]_vars => FetchedInv'
<1> SUFFICES ASSUME IInv, StampInv, FetchedInv, [Next]_vars PROVE FetchedInv'
  OBVIOUS
<1>1. CASE \A e \in TraceEntry : ~FetchInst(e)
  <2>1. \A c : Fetched(c)' = Fetched(c)
    BY <1>1, FetchedStays DEF Fetched
  <2>2. CASE DispatchDone
    <3>1. stage = "dispatch" /\ stage' = "fetch" /\ cycle' = cycle /\ count' = 0
      BY <2>2 DEF DispatchDone, GoTo
    <3>2. Fetched(cycle) = {}
      <4>1. ASSUME NEW k \in Insts
            PROVE  At(k, "IF") # cycle
        <5>1. At(k, "IF") < cycle
          BY <3>1 DEF StampInv, StampOK, Stamped, Late
        <5>2. cycle \in Nat /\ At(k, "IF") \in Nat
          BY StampTypes DEF InstState
        <5> QED BY <5>1, <5>2
      <4> QED BY <4>1 DEF Fetched
    <3>3. Cardinality(Fetched(cycle)) = 0
      BY <3>2, FS_EmptySet
    <3>4. Fetched(cycle)' = Fetched(cycle)
      BY <2>1, <3>1 DEF Fetched
    <3>5. count' <= N /\ Cardinality(Fetched(cycle))' = count'
      BY <3>1, <3>3, <3>4, BandwidthAssumption
    <3> QED BY <2>1, <3>5 DEF FetchedInv
  <2>3. CASE UNCHANGED vars
    <3>1. stage' = stage /\ count' = count /\ cycle' = cycle
      BY <2>3 DEF vars
    <3>2. Fetched(cycle)' = Fetched(cycle)
      BY <2>1, <3>1 DEF Fetched
    <3> QED BY <2>1, <3>1, <3>2 DEF FetchedInv
  <2>4. CASE ~(DispatchDone \/ UNCHANGED vars)
    <3>1. stage' # "fetch"
      BY <1>1, <2>4 DEF Next, Retire, Execute, ExecuteWait, ExecuteComplete, ExecuteDone,
         IssuePush, IssueSkip, IssueDone, DispatchMove, DispatchSkip, Fetch, FetchEOF,
         FetchDone, FetchSkip, Advance, Finish, GoTo
    <3> QED BY <2>1, <3>1 DEF FetchedInv
  <2> QED BY <2>2, <2>3, <2>4
<1>2. ASSUME NEW e \in TraceEntry, FetchInst(e)
      PROVE  FetchedInv'
  <2>1. PICK new : new = Len(listInst) + 1
    OBVIOUS
  <2>2. Insts' = Insts \cup {new} /\ new \notin Insts
    <3>1. Len(listInst) \in Nat /\ Len(listInst') = Len(listInst) + 1
      BY <1>2, FetchInstEffect
    <3> QED BY <2>1, <3>1 DEF Insts
  <2>3. At(new, "IF")' = cycle
    <3>1. listInst'[new] = NewInst(e)
      BY <1>2, <2>1, FetchInstEffect
    <3>2. NewInst(e).cycle["IF"] = cycle
      BY DEF NewInst, InstState
    <3> QED BY <3>1, <3>2 DEF At
  <2>4. \A k \in Insts : At(k, "IF")' = At(k, "IF")
    BY <1>2, FetchInstEffect DEF Same, At
  <2>5. /\ stage = "fetch" /\ UNCHANGED <<stage, cycle>> /\ count' = count + 1 /\ count < N
        /\ count \in Nat /\ cycle \in Nat /\ N \in Nat
    BY <1>2, BandwidthAssumption DEF FetchInst, CanFetch, IInv, TypeOK
  <2>6. /\ \A c : c # cycle => Fetched(c)' = Fetched(c)
        /\ Fetched(cycle)' = Fetched(cycle) \cup {new} /\ new \notin Fetched(cycle)
    BY <2>2, <2>3, <2>4, <2>5 DEF Fetched
  <2>7. Cardinality(Fetched(cycle))' = Cardinality(Fetched(cycle)) + 1
    BY <2>6, FetchedFinite, FS_AddElement
  <2>8. Cardinality(Fetched(cycle))' = count' /\ count' <= N
    BY <2>5, <2>7 DEF FetchedInv
  <2>9. \A c \in Nat : Cardinality(Fetched(c))' <= N
    <3> TAKE c \in Nat
    <3>1. CASE c = cycle
      <4>1. Fetched(c)' = Fetched(cycle)'
        BY <2>5, <3>1 DEF Fetched
      <4> QED BY <2>8, <4>1
    <3>2. CASE c # cycle
      BY <2>6, <3>2 DEF FetchedInv
    <3> QED BY <3>1, <3>2
  <2> QED BY <2>8, <2>9 DEF FetchedInv
<1> QED BY <1>1, <1>2
-----------------------------------------------------------------------------
(* Instructions that got to ID in the cycle before this were all fetched   *)
(* in the cycle before that.                                               *)
LEMMA JustInIDBound ==
  ASSUME IInv, StampInv, FetchedInv, NEW ks \in SUBSET Insts,
         \A k \in ks : Reached(k, "ID"), JustInID(ks)
  PROVE  Cardinality(ks) <= N
<1>1. /\ cycle \in Nat /\ N \in Nat /\ {"IF", "ID"} \subseteq InstState
      /\ \A k \in Insts : At(k, "IF") \in Nat
  BY StampTypes, BandwidthAssumption DEF InstState
<1>2. \A k \in ks : At(k, "IF") = cycle - 2
  <2> TAKE k \in ks
  <2>1. At(k, "ID") = At(k, "IF") + 1 /\ At(k, "ID") = cycle - 1 /\ At(k, "IF") \in Nat
    BY <1>1 DEF StampInv, StampOK, Paced, JustInID
  <2> QED BY <1>1, <2>1
<1>3. CASE ks = {}
  BY <1>1, <1>3, FS_EmptySet
<1>4. CASE ks # {}
  <2>1. PICK k \in ks : TRUE
    BY <1>4
  <2>2. cycle - 2 \in Nat
    BY <1>1, <1>2, <2>1
  <2>3. ks \subseteq Fetched(cycle - 2)
    BY <1>2 DEF Fetched
  <2>4. /\ IsFiniteSet(Fetched(cycle - 2)) /\ Cardinality(Fetched(cycle - 2)) \in Nat
        /\ Cardinality(Fetched(cycle - 2)) <= N
    BY <2>2, FetchedFinite DEF FetchedInv
  <2>5. Cardinality(ks) <= Cardinality(Fetched(cycle - 2)) /\ Cardinality(ks) \in Nat
    BY <2>3, <2>4, FS_Subset, FS_CardinalityType
  <2> QED BY <1>1, <2>4, <2>5
<1> QED BY <1>3, <1>4

(* One more enters IS: there is room, or it came with all that did. *)
LEMMA WidthDispatchMove ==
  ASSUME IInv, StampInv, FetchedInv, WidthInv, DispatchMove
  PROVE  WidthInv'
<1>1. PICK k \in Insts : k = disp[pos]
  BY DispatchMoveEffect
<1>2. /\ OneEnters(k, "IS") /\ State(k) = "ID" /\ UNCHANGED <<stage, cycle>>
      /\ stage = "dispatch" /\ len'.issue = len.issue + 1 /\ len.issue < S
      /\ len.issue \in Nat /\ N \in Nat /\ S \in Nat /\ cycle \in Nat
  BY <1>1, DispatchMoveEffect, BandwidthAssumption
     DEF DispatchMove, CanDispatch, CanPush, IInv, TypeOK
<1>3. ~Reached(k, "IS") /\ Reached(k, "ID")
  BY <1>2 DEF Reached, Passed
<1>4. /\ Entering("IS")' = Entering("IS") \cup {k}
      /\ Cardinality(Entering("IS"))' = Cardinality(Entering("IS")) + 1
      /\ Cardinality(Entering("IS")) \in Nat
  BY <1>2, <1>3, EnteringAdds, EnteringFinite
<1>5. /\ Insts' = Insts /\ State(k)' = "IS" /\ At(k, "ID")' = At(k, "ID")
      /\ \A m \in Insts \ {k} : State(m)' = State(m) /\ At(m, "ID")' = At(m, "ID")
  <2>1. "IS" \in InstState /\ "ID" \in InstState \ {"IS"}
    BY DEF InstState
  <2> QED BY <1>2, <2>1, OneEntersStates
<1>6. InState({"ID"})' = InState({"ID"}) \ {k} /\ k \in InState({"ID"})
  BY <1>2, <1>5 DEF InState
<1>7. CASE S + Cardinality(Entering("IS")) <= len.issue + N
  <2>1. S + Cardinality(Entering("IS"))' <= len'.issue + N
    BY <1>2, <1>4, <1>7
  <2>2. Cardinality(Entering("IS"))' <= N
    BY <1>2, <1>4, <1>7
  <2> QED BY <1>2, <2>1, <2>2 DEF WidthInv, BeforeEX
<1>8. CASE JustInID(InState({"ID"}) \cup Entering("IS"))
  <2>1. InState({"ID"})' \cup Entering("IS")' = InState({"ID"}) \cup Entering("IS")
    BY <1>4, <1>6
  <2>2. \A m \in InState({"ID"}) \cup Entering("IS") : At(m, "ID")' = At(m, "ID")
    BY <1>5 DEF InState, Entering
  <2>3. JustInID(InState({"ID"}) \cup Entering("IS"))'
    BY <1>2, <1>8, <2>1, <2>2 DEF JustInID
  <2>4. Cardinality(Entering("IS") \cup {k}) <= N
    <3>1. \A m \in Entering("IS") : Reached(m, "ID")
      <4>1. \A st \in InstState : "IS" \in Passed(st) => "ID" \in Passed(st)
        BY ReachedStates
      <4> QED BY <4>1, StampTypes DEF Entering, Reached
    <3>2. Entering("IS") \cup {k} \in SUBSET Insts
      BY DEF Entering
    <3>3. JustInID(Entering("IS") \cup {k})
      BY <1>6, <1>8 DEF JustInID
    <3> QED BY <1>3, <3>1, <3>2, <3>3, JustInIDBound
  <2>5. Cardinality(Entering("IS"))' <= N
    BY <1>4, <2>4
  <2> QED BY <1>2, <2>3, <2>5 DEF WidthInv, BeforeEX
<1> QED BY <1>2, <1>7, <1>8 DEF WidthInv

(* A step that goes on hands what is left in ID to the next stage. *)
LEMMA WidthGoesOn ==
  ASSUME IInv, ListInv, DepInv, StampInv, QueueInv, IssuedInv, WidthInv, GoesOn
  PROVE  WidthInv'
<1>1. /\ UNCHANGED <<listInst, len>> /\ Still /\ "IS" \in InstState
      /\ len.issue \in Nat /\ count \in Nat /\ N \in Nat /\ S \in Nat /\ cycle \in Nat
  BY GoesOnEffect, StillUnchanged, BandwidthAssumption DEF lists, IInv, TypeOK, InstState
<1>2. /\ InState({"ID"})' = InState({"ID"}) /\ Insts' = Insts
      /\ \A k \in Insts : At(k, "ID")' = At(k, "ID")
  BY <1>1 DEF InState, Insts, State, At
<1>3. CASE Advance
  <2>1. cycle' = cycle + 1 /\ stage = "advance" /\ stage' = "retire"
    BY <1>3, AdvanceCycle
  <2>2. ASSUME NEW k \in Insts, Reached(k, "IS")
        PROVE  At(k, "IS") # cycle + 1
    <3>1. At(k, "IS") <= cycle /\ At(k, "IS") \in Nat
      BY <1>1, <2>1, <2>2, StampTypes DEF StampInv, StampOK, Stamped
    <3> QED BY <1>1, <3>1
  <2>3. Entering("IS")' = {}
    BY <1>1, <1>2, <2>1, <2>2 DEF Entering, Reached, State, At
  <2>4. Cardinality(Entering("IS"))' <= N
    BY <1>1, <2>3, FS_EmptySet
  <2>5. len.issue = S \/ \A k \in InState({"ID"}) : At(k, "ID") = cycle
    BY <2>1 DEF WidthInv
  <2>6. \A k \in InState({"ID"}) : k \in Insts
    BY DEF InState
  <2>7. (\A k \in InState({"ID"}) : At(k, "ID") = cycle) => JustInID(InState({"ID"}))'
    BY <1>1, <1>2, <2>1, <2>6 DEF JustInID
  <2> QED BY <1>1, <2>1, <2>4, <2>5, <2>7 DEF WidthInv
<1>4. ASSUME ~Advance
      PROVE  /\ cycle' = cycle /\ Entering("IS")' = Entering("IS")
             /\ Cardinality(Entering("IS"))' = Cardinality(Entering("IS"))
             /\ JustInID(InState({"ID"}))' <=> JustInID(InState({"ID"}))
             /\ JustInID(InState({"ID"}) \cup Entering("IS"))' <=>
                  JustInID(InState({"ID"}) \cup Entering("IS"))
  <2>1. cycle' = cycle
    BY <1>4, GoesOnStage
  <2>2. Entering("IS")' = Entering("IS")
    BY <1>1, <2>1, EnteringStill
  <2>3. \A k \in InState({"ID"}) \cup Entering("IS") : k \in Insts
    BY DEF InState, Entering
  <2> QED BY <1>2, <2>1, <2>2, <2>3 DEF JustInID
<1>5. CASE Retire
  <2>1. stage' = "execute" /\ stage = "retire" /\ ~Advance
    BY <1>5 DEF Retire, GoTo, Advance
  <2> QED BY <1>1, <1>4, <2>1 DEF WidthInv, BeforeEX
<1>6. CASE ExecuteDone
  <2>1. stage' = "issue" /\ count' = 0 /\ stage = "execute" /\ ~Advance
    BY <1>6 DEF ExecuteDone, GoTo, Advance
  <2>2. S <= len'.issue + count' \/ JustInID(InState({"ID"}))'
    BY <1>1, <1>4, <2>1 DEF WidthInv, BeforeEX
  <2> QED BY <1>4, <2>1, <2>2 DEF WidthInv, BeforeEX
<1>7. CASE IssueSkip
  <2>1. stage' = "issue" /\ count' = count /\ stage = "issue" /\ ~Advance
    BY <1>7 DEF IssueSkip, Advance
  <2> QED BY <1>1, <1>4, <2>1 DEF WidthInv, BeforeEX
<1>8. CASE IssueDone
  <2>1. stage' = "dispatch" /\ stage = "issue" /\ ~Advance
    BY <1>8 DEF IssueDone, GoTo, Advance
  <2>2. Entering("IS") = {}
    BY <2>1, NoneEntering DEF BeforeIS
  <2>3. Cardinality(Entering("IS")) = 0
    BY <2>2, FS_EmptySet
  <2>4. S <= len.issue + count \/ JustInID(InState({"ID"}) \cup Entering("IS"))
    BY <2>1, <2>2 DEF WidthInv
  <2>5. count <= N
    BY <2>1 DEF IssuedInv
  <2>6. \/ S + Cardinality(Entering("IS")) <= len.issue + N
        \/ JustInID(InState({"ID"}) \cup Entering("IS"))
    BY <1>1, <2>3, <2>4, <2>5
  <2> QED BY <1>1, <1>4, <2>1, <2>3, <2>6 DEF WidthInv, BeforeEX
<1>9. CASE DispatchSkip
  <2>1. stage' = "dispatch" /\ stage = "dispatch" /\ ~Advance
    BY <1>9 DEF DispatchSkip, Advance
  <2> QED BY <1>1, <1>4, <2>1 DEF WidthInv, BeforeEX
<1>10. CASE FetchEOF \/ FetchDone \/ FetchSkip
  <2>1. stage' = "advance" /\ stage = "fetch" /\ ~Advance
    BY <1>10 DEF FetchEOF, FetchDone, FetchSkip, GoTo, Advance
  <2>2. len.issue = S \/ \A k \in InState({"ID"}) : At(k, "ID") = cycle
    BY <2>1 DEF QueueInv
  <2>3. \A k \in InState({"ID"}) : k \in Insts
    BY DEF InState
  <2>4. len'.issue = S \/ \A k \in InState({"ID"})' : At(k, "ID")' = cycle'
    BY <1>1, <1>2, <1>4, <2>1, <2>2, <2>3
  <2> QED BY <1>4, <2>1, <2>4 DEF WidthInv, BeforeEX
<1>11. CASE UNCHANGED vars
  <2>1. UNCHANGED <<stage, count>> /\ stage' = stage
    BY <1>11 DEF vars
  <2>2. CASE ~Advance
    <3>1. (\A k \in InState({"ID"})' : At(k, "ID")' = cycle')
            <=> \A k \in InState({"ID"}) : At(k, "ID") = cycle
      <4>1. \A k \in InState({"ID"}) : k \in Insts
        BY DEF InState
      <4> QED BY <1>2, <1>4, <2>2, <4>1
    <3> QED BY <1>1, <1>4, <2>1, <2>2, <3>1 DEF WidthInv, BeforeEX
  <2> QED BY <1>3, <2>2
<1> QED BY <1>3, <1>5, <1>6, <1>7, <1>8, <1>9, <1>10, <1>11 DEF GoesOn

LEMMA NextWidthInv ==
  ASSUME N < CounterMod
  PROVE  /\ IInv /\ ListInv /\ DepInv /\ StampInv /\ QueueInv /\ IssuedInv /\ FetchedInv
         /\ WidthInv /\ [Next]_vars
         => WidthInv'
<1> SUFFICES ASSUME IInv, ListInv, DepInv, StampInv, QueueInv, IssuedInv, FetchedInv, WidthInv,
                    [Next]_vars
             PROVE  WidthInv'
  OBVIOUS
<1>1. CASE GoesOn
  BY <1>1, WidthGoesOn
<1>2. CASE DispatchMove
  BY <1>2, WidthDispatchMove
<1>3. CASE Finish
  BY <1>3 DEF Finish, GoTo, WidthInv, BeforeEX
<1>4. CASE IssuePush
  <2>1. /\ stage = "issue" /\ UNCHANGED <<stage, cycle>> /\ ~DispatchMove /\ ~DispatchDone
        /\ \A e \in TraceEntry : ~FetchInst(e)
    BY <1>4 DEF IssuePush, DispatchMove, DispatchDone, FetchInst
  <2>2. InState({"ID"})' = InState({"ID"}) /\ \A k \in Insts : At(k, "ID")' = At(k, "ID")
    BY <2>1, IDStays
  <2>3. Entering("IS")' = Entering("IS")
    BY <2>1, EnteringKept
  <2>4. JustInID(InState({"ID"}))' <=> JustInID(InState({"ID"}))
    <3>1. \A k \in InState({"ID"}) : k \in Insts
      BY DEF InState
    <3> QED BY <2>1, <2>2, <3>1 DEF JustInID
  <2>5. count' = count + 1 /\ count \in Nat
    <3>1. count \in Nat /\ N \in Nat /\ CounterMod \in Nat /\ count < N
      BY <1>4, BandwidthAssumption, WidthAssumption DEF IssuePush, CanIssue, IInv, TypeOK
    <3>2. \A a, b \in Nat : a < b => a % b = a
      OBVIOUS
    <3>3. count + 1 \in Nat /\ count + 1 < CounterMod
      BY <3>1
    <3>4. (count + 1) % CounterMod = count + 1
      BY <3>1, <3>2, <3>3
    <3> QED BY <1>4, <3>1, <3>4 DEF IssuePush
  <2>6. len'.issue = len.issue - 1 /\ len.issue \in Nat /\ S \in Nat
    <3>1. len'.issue = Dec(len.issue) /\ len.issue \in Nat /\ S \in Nat
      BY <1>4, BandwidthAssumption DEF IssuePush, IInv, TypeOK
    <3>2. len.issue = Len(issue) /\ pos \in 1..Len(issue)
      BY <1>4, IssuePushEffect DEF ListInv, Counted
    <3> QED BY <3>1, <3>2 DEF Dec
  <2>7. S <= len.issue + count => S <= len'.issue + count'
    BY <2>5, <2>6
  <2> QED BY <2>1, <2>3, <2>4, <2>7 DEF WidthInv, BeforeEX
<1>5. ASSUME NEW lat \in Nat, ExecuteWait(lat) \/ ExecuteComplete(lat)
      PROVE  WidthInv'
  <2>1. /\ stage = "execute" /\ UNCHANGED <<stage, cycle>> /\ ~DispatchMove /\ ~DispatchDone
        /\ \A e \in TraceEntry : ~FetchInst(e)
    BY <1>5 DEF ExecuteWait, ExecuteComplete, DispatchMove, DispatchDone, FetchInst
  <2>2. InState({"ID"})' = InState({"ID"}) /\ \A k \in Insts : At(k, "ID")' = At(k, "ID")
    BY <2>1, IDStays
  <2>3. Entering("IS")' = Entering("IS")
    BY <2>1, EnteringKept
  <2>4. JustInID(InState({"ID"}))' <=> JustInID(InState({"ID"}))
    <3>1. \A k \in InState({"ID"}) : k \in Insts
      BY DEF InState
    <3> QED BY <2>1, <2>2, <3>1 DEF JustInID
  <2>5. len'.issue = len.issue
    BY <1>5 DEF ExecuteWait, ExecuteComplete, lists, IInv, TypeOK
  <2> QED BY <2>1, <2>3, <2>4, <2>5 DEF WidthInv, BeforeEX
<1>6. ASSUME DispatchDone \/ \E e \in TraceEntry : FetchInst(e)
      PROVE  WidthInv'
  <2>1. stage' = "fetch" /\ stage # "done" /\ cycle' = cycle /\ ~DispatchMove
    BY <1>6 DEF DispatchDone, FetchInst, GoTo, DispatchMove
  <2>2. Entering("IS")' = Entering("IS")
    BY <2>1, EnteringKept
  <2> QED BY <2>1, <2>2 DEF WidthInv, BeforeEX
<1> QED BY <1>1, <1>2, <1>3, <1>4, <1>5, <1>6, StepCases

(* No more than N instructions are dispatched in a cycle, though nothing   *)
(* in dis_dispatch counts: what it finds in ID was fetched in one cycle,   *)
(* or the queue has only the places dis_issue left it.                     *)
THEOREM DispatchKeepsWidth ==
  ASSUME N < CounterMod
  PROVE  Spec => []DispatchWidth
<1>1. Init => FetchedInv /\ WidthInv
  <2> SUFFICES ASSUME Init PROVE FetchedInv /\ WidthInv
    OBVIOUS
  <2>1. Insts = {} /\ stage = "retire" /\ Cardinality({}) = 0 /\ N \in Nat
    BY EmptySeq, FS_EmptySet, BandwidthAssumption DEF Init, Insts
  <2>2. Entering("IS") = {} /\ InState({"ID"}) = {} /\ \A c \in Nat : Fetched(c) = {}
    BY <2>1 DEF Entering, InState, Fetched
  <2>3. Cardinality(Entering("IS")) <= N /\ \A c \in Nat : Cardinality(Fetched(c)) <= N
    <3>1. 0 <= N
      BY <2>1
    <3>2. Cardinality(Entering("IS")) = 0 /\ \A c \in Nat : Cardinality(Fetched(c)) = 0
      BY <2>1, <2>2, Zenon
    <3> QED BY <3>1, <3>2
  <2> QED BY <2>1, <2>2, <2>3 DEF FetchedInv, WidthInv, JustInID
<1>2. IInv /\ StampInv /\ FetchedInv /\ [Next]_vars => FetchedInv'
  BY NextFetchedInv
<1>3. /\ IInv /\ ListInv /\ DepInv /\ StampInv /\ QueueInv /\ IssuedInv /\ FetchedInv
      /\ WidthInv /\ [Next]_vars
      => WidthInv'
  BY NextWidthInv
<1>4. WidthInv => DispatchWidth
  BY DEF WidthInv, DispatchWidth
<1> QED BY <1>1, <1>2, <1>3, <1>4, IssuedInvHolds, PTL DEF Spec
-----------------------------------------------------------------------------
(* With no cache an instruction stays in EX for five cycles at most, and N *)
(* enter in each.                                                          *)
EnteredAt(c) == {k \in Insts : Reached(k, "EX") /\ At(k, "EX") = c}
EnteredInv == \A c \in Nat : Cardinality(EnteredAt(c)) <= N
Quick == ~HasL1 => \A k \in Insts : listInst[k].latency <= 5

LEMMA NextQuick == IInv /\ Quick /\ [Next]_vars => Quick'
<1> SUFFICES ASSUME IInv, Quick, [Next]_vars, ~HasL1
             PROVE  \A k \in Insts' : listInst'[k].latency <= 5
  BY DEF Quick
<1>1. listInst \in Seq(InstData) /\ \A k \in Insts : listInst[k].latency <= 5
  BY DEF IInv, TypeOK, Quick
<1>2. ASSUME Insts' = Insts, \A m \in Insts : Calm(m)
      PROVE  \A k \in Insts' : listInst'[k].latency <= 5
  BY <1>1, <1>2 DEF Calm
<1>3. ASSUME NEW k \in Insts, NEW st \in InstState, OneEnters(k, st),
             listInst' = Enter(listInst, k, st)
      PROVE  \A m \in Insts' : listInst'[m].latency <= 5
  <2>1. \A m \in Insts : Calm(m)
    BY <1>1, <1>3, EnterLatency DEF Calm
  <2> QED BY <1>2, <1>3, <2>1 DEF OneEnters, Insts
<1>4. {"IS", "EX", "WB"} \subseteq InstState /\ \A k, lat : AfterLookup(k, lat) = listInst
  BY DEF InstState, AfterLookup, LooksUp
<1>5. CASE GoesOn \/ Finish
  <2>1. listInst' = listInst
    BY <1>5, GoesOnEffect DEF Finish
  <2> QED BY <1>2, <2>1 DEF Calm, Insts
<1>6. ASSUME NEW lat \in Nat, ExecuteWait(lat)
      PROVE  \A k \in Insts' : listInst'[k].latency <= 5
  <2>1. listInst' = listInst
    BY <1>4, <1>6 DEF ExecuteWait
  <2> QED BY <1>2, <2>1 DEF Calm, Insts
<1>7. ASSUME NEW lat \in Nat, ExecuteComplete(lat)
      PROVE  \A k \in Insts' : listInst'[k].latency <= 5
  <2>1. PICK k \in Insts : k = exec[pos].data
    BY <1>7, ExecuteCompleteEffect
  <2>2. OneEnters(k, "WB") /\ listInst' = Enter(listInst, k, "WB")
    BY <1>4, <1>7, <2>1, ExecuteCompleteEffect DEF ExecuteComplete
  <2> QED BY <1>3, <1>4, <2>2
<1>8. CASE IssuePush
  <2>1. PICK k \in Insts : k = issue[pos].data
    BY <1>8, IssuePushEffect
  <2>2. OneEnters(k, "EX") /\ listInst' = Enter(listInst, k, "EX")
    BY <1>8, <2>1, IssuePushEffect DEF IssuePush
  <2> QED BY <1>3, <1>4, <2>2
<1>9. CASE DispatchMove
  <2>1. PICK k \in Insts : k = disp[pos]
    BY <1>9, DispatchMoveEffect
  <2>2. OneEnters(k, "IS") /\ listInst' = Enter(listInst, k, "IS")
    BY <1>9, <2>1, DispatchMoveEffect DEF DispatchMove
  <2> QED BY <1>3, <1>4, <2>2
<1>10. CASE DispatchDone
  <2>1. Insts' = Insts
    BY <1>10, DispatchDoneEffect DEF Insts
  <2>2. ASSUME NEW m \in Insts
        PROVE  Calm(m)
    <3>1. listInst[m] \in InstData
      BY <1>1, ElementOfSeq DEF Insts
    <3>2. listInst'[m] \in {listInst[m], [listInst[m] EXCEPT !.state = "ID",
                                                             !.cycle["ID"] = cycle]}
      BY <1>10 DEF DispatchDone
    <3> QED BY <3>1, <3>2 DEF InstData, Calm
  <2> QED BY <1>2, <2>1, <2>2
<1>11. ASSUME NEW e \in TraceEntry, FetchInst(e)
       PROVE  \A k \in Insts' : listInst'[k].latency <= 5
  <2>1. PICK new : new = Len(listInst) + 1
    OBVIOUS
  <2>2. Insts' = Insts \cup {new} /\ listInst'[new] = NewInst(e)
    <3>1. Len(listInst) \in Nat /\ Len(listInst') = Len(listInst) + 1
      BY <1>11, FetchInstEffect
    <3> QED BY <1>11, <2>1, <3>1, FetchInstEffect DEF Insts
  <2>3. \A m \in Insts : Calm(m)
    <3>1. listInst' = Append(listInst, NewInst(e)) /\ NewInst(e) \in InstData
      BY <1>11, FetchInstEffect DEF FetchInst
    <3> QED BY <1>1, <3>1, AppendProperties DEF Calm, Insts
  <2>4. NewInst(e).latency <= 5
    <3>1. e.type \in 0..2
      BY TraceAssumption DEF Entry
    <3>2. \A t \in 0..2 : Latency(t) \in 1..5
      BY DEF Latency
    <3> QED BY <3>1, <3>2 DEF NewInst
  <2> QED BY <1>1, <2>2, <2>3, <2>4 DEF Calm
<1> QED BY <1>5, <1>6, <1>7, <1>8, <1>9, <1>10, <1>11, StepCases

LEMMA NextEnteredInv ==
  IInv /\ ListInv /\ IssuedInv' /\ EnteredInv /\ [Next]_vars => EnteredInv'
<1> SUFFICES ASSUME IInv, ListInv, IssuedInv', EnteredInv, [Next]_vars, NEW c \in Nat
             PROVE  Cardinality(EnteredAt(c))' <= N
  BY DEF EnteredInv
<1>1. CASE ~IssuePush
  <2>1. EntersNone("EX")
    BY <1>1, NobodyEnters
  <2>2. EnteredAt(c)' = EnteredAt(c)
    BY <2>1 DEF EntersNone, EnteredAt
  <2> QED BY <2>2 DEF EnteredInv
<1>2. CASE IssuePush
  <2>1. PICK k \in Insts : k = issue[pos].data
    BY <1>2, IssuePushEffect
  <2>2. /\ OneEnters(k, "EX") /\ State(k) = "IS"
        /\ stage' = "issue" /\ cycle' = cycle /\ "EX" \in InstState
    BY <1>2, <2>1, IssuePushEffect DEF IssuePush, CanIssue, InstState
  <2>3. CASE c = cycle
    <3>1. EnteredAt(c)' = Entering("EX")'
      BY <2>2, <2>3 DEF EnteredAt, Entering
    <3> QED BY <2>2, <3>1 DEF IssuedInv
  <2>4. CASE c # cycle
    <3>1. Insts' = Insts /\ Enters(k, "EX") /\ \A m \in Insts \ {k} : Same(m)
      BY <2>2 DEF OneEnters, Insts
    <3>2. At(k, "EX")' = cycle /\ ~Reached(k, "EX")
      BY <2>2, <3>1, EntersStamps DEF Reached, Passed
    <3>3. \A m \in Insts \ {k} : (Reached(m, "EX")' <=> Reached(m, "EX"))
                                 /\ At(m, "EX")' = At(m, "EX")
      BY <2>2, <3>1, SameStamps
    <3>4. EnteredAt(c)' = EnteredAt(c)
      BY <2>4, <3>1, <3>2, <3>3 DEF EnteredAt
    <3> QED BY <3>4 DEF EnteredInv
  <2> QED BY <2>3, <2>4
<1> QED BY <1>1, <1>2

LEMMA UnionBound ==
  ASSUME NEW A, NEW B, IsFiniteSet(A), IsFiniteSet(B), NEW a \in Nat, NEW b \in Nat,
         Cardinality(A) <= a, Cardinality(B) <= b
  PROVE  IsFiniteSet(A \cup B) /\ Cardinality(A \cup B) <= a + b
<1>1. /\ IsFiniteSet(A \cup B)
      /\ Cardinality(A \cup B) = Cardinality(A) + Cardinality(B) - Cardinality(A \cap B)
  BY FS_Union
<1>2. IsFiniteSet(A \cap B)
  <2>1. A \cap B \in SUBSET A
    OBVIOUS
  <2> QED BY <2>1, FS_Subset
<1>3. Cardinality(A) \in Nat /\ Cardinality(B) \in Nat /\ Cardinality(A \cap B) \in Nat
  BY <1>2, FS_CardinalityType
<1> QED BY <1>1, <1>3

LEMMA EnteredBound ==
  ASSUME IInv, EnteredInv, NEW c \in Int
  PROVE  IsFiniteSet(EnteredAt(c)) /\ Cardinality(EnteredAt(c)) <= N
<1>1. IsFiniteSet(EnteredAt(c))
  <2>1. IsFiniteSet(Insts)
    BY StampTypes, FS_Interval DEF Insts
  <2>2. EnteredAt(c) \in SUBSET Insts
    BY DEF EnteredAt
  <2> QED BY <2>1, <2>2, FS_Subset
<1>2. CASE c \in Nat
  BY <1>1, <1>2 DEF EnteredInv
<1>3. CASE c \notin Nat
  <2>1. \A k \in Insts : At(k, "EX") \in Nat
    BY StampTypes DEF InstState
  <2>2. EnteredAt(c) = {}
    BY <1>3, <2>1 DEF EnteredAt
  <2>3. Cardinality(EnteredAt(c)) = 0
    BY <2>2, FS_EmptySet
  <2> QED BY <1>1, <2>3, BandwidthAssumption
<1> QED BY <1>2, <1>3

(* What is in list_exec when dis_issue runs entered in this cycle or one   *)
(* of the four before.                                                     *)
LEMMA ExecIsRecent ==
  ASSUME IInv, ListInv, TimeInv, Quick, ~HasL1, stage = "issue"
  PROVE  DataOf(exec) \subseteq
           EnteredAt(cycle) \cup EnteredAt(cycle - 1) \cup EnteredAt(cycle - 2)
             \cup EnteredAt(cycle - 3) \cup EnteredAt(cycle - 4)
<1> SUFFICES ASSUME NEW k \in DataOf(exec)
             PROVE  k \in EnteredAt(cycle) \cup EnteredAt(cycle - 1) \cup EnteredAt(cycle - 2)
                            \cup EnteredAt(cycle - 3) \cup EnteredAt(cycle - 4)
  OBVIOUS
<1>1. k \in Insts
  <2>1. PICK i \in 1..Len(exec) : exec[i].data = k
    BY DEF DataOf
  <2>2. exec[i] \in Node
    BY ElementOfSeq DEF IInv, TypeOK
  <2> QED BY <2>1, <2>2 DEF Node
<1>2. State(k) = "EX"
  BY <1>1 DEF ListInv, Placed
<1>3. InTime(k) /\ ~Waiting(k)
  BY <1>1, <1>2 DEF TimeInv, TimeOf, Waiting
<1>4. /\ At(k, "EX") \in Nat /\ listInst[k].latency \in Nat /\ listInst[k].latency <= 5
      /\ cycle \in Nat
  BY <1>1, StampsNat DEF IInv, TypeOK, Quick
<1>5. At(k, "EX") <= cycle /\ (At(k, "EX") < cycle => cycle < At(k, "EX") + listInst[k].latency)
  BY <1>3 DEF InTime, Due
<1>6. At(k, "EX") \in {cycle, cycle - 1, cycle - 2, cycle - 3, cycle - 4}
  BY <1>4, <1>5
<1>7. Reached(k, "EX")
  BY <1>2 DEF Reached, Passed
<1> QED BY <1>1, <1>6, <1>7 DEF EnteredAt

LEMMA ExecHasRoom ==
  ~HasL1 /\ IInv /\ ListInv /\ TimeInv /\ IssuedInv /\ Quick /\ EnteredInv => ExecNeverFull
<1> SUFFICES ASSUME ~HasL1, IInv, ListInv, TimeInv, IssuedInv, Quick, EnteredInv,
                    stage = "issue", count < N
             PROVE  CanPush("exec")
  BY DEF ExecNeverFull
<1>1. count \in Nat /\ N \in Nat /\ cycle \in Nat
  BY BandwidthAssumption DEF IInv, TypeOK
<1>2. PICK e0, e1, e2, e3, e4 :
        /\ e0 = EnteredAt(cycle) /\ e1 = EnteredAt(cycle - 1) /\ e2 = EnteredAt(cycle - 2)
        /\ e3 = EnteredAt(cycle - 3) /\ e4 = EnteredAt(cycle - 4)
  OBVIOUS
<1>3. IsFiniteSet(e0) /\ Cardinality(e0) <= count
  <2>1. e0 = Entering("EX")
    BY <1>2 DEF EnteredAt, Entering
  <2> QED BY <1>1, <2>1, EnteringFinite DEF IssuedInv
<1>4. /\ cycle - 1 \in Int /\ cycle - 2 \in Int /\ cycle - 3 \in Int /\ cycle - 4 \in Int
      /\ count + N \in Nat /\ count + N + N \in Nat /\ count + N + N + N \in Nat
  BY <1>1
<1>5. /\ IsFiniteSet(e1) /\ Cardinality(e1) <= N /\ IsFiniteSet(e2) /\ Cardinality(e2) <= N
      /\ IsFiniteSet(e3) /\ Cardinality(e3) <= N /\ IsFiniteSet(e4) /\ Cardinality(e4) <= N
  BY <1>2, <1>4, EnteredBound
<1>6. IsFiniteSet(e0 \cup e1) /\ Cardinality(e0 \cup e1) <= count + N
  BY <1>1, <1>3, <1>5, UnionBound
<1>7. IsFiniteSet(e0 \cup e1 \cup e2) /\ Cardinality(e0 \cup e1 \cup e2) <= count + N + N
  BY <1>1, <1>4, <1>5, <1>6, UnionBound
<1>8. /\ IsFiniteSet(e0 \cup e1 \cup e2 \cup e3)
      /\ Cardinality(e0 \cup e1 \cup e2 \cup e3) <= count + N + N + N
  BY <1>1, <1>4, <1>5, <1>7, UnionBound
<1>9. PICK all : all = e0 \cup e1 \cup e2 \cup e3 \cup e4
  OBVIOUS
<1>10. IsFiniteSet(all) /\ Cardinality(all) <= count + N + N + N + N
  BY <1>1, <1>4, <1>5, <1>8, <1>9, UnionBound
<1>11. DataOf(exec) \in SUBSET all
  BY <1>2, <1>9, ExecIsRecent
<1>12. Cardinality(DataOf(exec)) = Len(exec)
  BY DataCount DEF IInv, TypeOK, ListInv
<1>13. Cardinality(DataOf(exec)) <= Cardinality(all) /\ Cardinality(all) \in Nat
  BY <1>10, <1>11, FS_Subset, FS_CardinalityType
<1>14. len.exec = Len(exec) /\ Len(exec) \in Nat
  BY LenProperties DEF ListInv, Counted, IInv, TypeOK
<1>15. len.exec < 5 * N
  BY <1>1, <1>10, <1>12, <1>13, <1>14
<1> QED BY <1>15 DEF CanPush

(* With no cache dis_issue is never refused a place in list_exec: its 5N   *)
(* places are enough for latencies of at most five cycles.                 *)
THEOREM ExecHasPlaces ==
  ASSUME CanBeOnTime, ~HasL1
  PROVE  Spec => []ExecNeverFull
<1>1. Init => TimeInv /\ Quick /\ EnteredInv
  <2> SUFFICES ASSUME Init PROVE TimeInv /\ Quick /\ EnteredInv
    OBVIOUS
  <2>1. Insts = {} /\ N \in Nat
    BY EmptySeq, BandwidthAssumption DEF Init, Insts
  <2>2. \A c \in Nat : EnteredAt(c) = {}
    BY <2>1 DEF EnteredAt
  <2>3. \A c \in Nat : Cardinality(EnteredAt(c)) = 0
    BY <2>2, FS_EmptySet, Zenon
  <2> QED BY <2>1, <2>3 DEF TimeInv, Quick, EnteredInv
<1>2. N < CounterMod
  BY DEF CanBeOnTime
<1>3. Spec => [](IInv /\ ListInv /\ DepInv /\ StampInv /\ QueueInv /\ IssuedInv)
  BY <1>2, IssuedInvHolds
<1>4. IInv /\ ListInv /\ DepInv /\ TimeInv /\ [Next]_vars => TimeInv'
  BY NextTimeInv
<1>5. IInv /\ Quick /\ [Next]_vars => Quick'
  BY NextQuick
<1>6. IInv /\ ListInv /\ IssuedInv' /\ EnteredInv /\ [Next]_vars => EnteredInv'
  BY NextEnteredInv
<1>7. IInv /\ ListInv /\ TimeInv /\ IssuedInv /\ Quick /\ EnteredInv => ExecNeverFull
  BY ExecHasRoom
<1> QED BY <1>1, <1>3, <1>4, <1>5, <1>6, <1>7, PTL DEF Spec
=============================================================================
