----------------------------- MODULE SystemProofs -----------------------------
(***************************************************************************)
(* The scheduler with real caches is the scheduler: ImplementsScheduler,   *)
(* and with it all that is proved of the scheduler; and its caches are the *)
(* caches, with all that is proved of them; for every geometry.  What the  *)
(* two say of each other: LookupOnce and TimesMatchStats.                  *)
(***************************************************************************)
EXTENDS SystemProperties, PaceProofs, CacheProofs

(* Whatever the caches hold, a request takes as long as a hit in the L1, a *)
(* hit in the L2 or a miss.                                                *)
LEMMA RequestLatency ==
  ASSUME NEW type, NEW a, Request(type, a)
  PROVE  last'.latency \in {HitLatency(1), HitLatency(2), MissLatency}
<1>1. \A l, c, b, t, now :
        AccessLast(l, c, b, t, now).latency \in {HitLatency(l), MissLatency}
  BY DEF AccessLast
<1>2. \A front, next, b, t, now :
        AccessFront(front, next, b, t, now).latency \in {HitLatency(1), HitLatency(2), MissLatency}
  BY <1>1 DEF AccessFront
<1> HIDE DEF HitLatency, MissLatency
<1>3. CASE HasNext(1)
  <2>1. last'.latency = AccessFront(Cache(1), Cache(2), a, type, clock + 1).latency
    BY <1>3 DEF Request
  <2> QED BY <1>2, <2>1
<1>4. CASE ~HasNext(1)
  <2>1. last'.latency = AccessLast(1, Cache(1), a, type, clock + 1).latency
    BY <1>4 DEF Request
  <2> QED BY <1>1, <2>1
<1> QED BY <1>3, <1>4

(* A lookup is a step of list_exec that is told what the cache answered. *)
LEMMA SystemStep == [SystemNext]_sysVars => [Next]_vars
<1> SUFFICES ASSUME [SystemNext]_sysVars PROVE [Next]_vars
  OBVIOUS
<1>1. CASE Lookup
  <2>1. PICK lat : lat = last'.latency
    OBVIOUS
  <2>2. lat \in LookupLatency
    BY <1>1, <2>1, RequestLatency, SystemAssumption DEF Lookup, HitLatency, MissLatency
  <2>3. AtLookup /\ (ExecuteWait(lat) \/ ExecuteComplete(lat))
    BY <1>1, <2>1 DEF Lookup
  <2>4. lat \in Answers
    BY <2>2, <2>3 DEF AtLookup, Answers
  <2>5. Execute
    BY <2>3, <2>4 DEF AtLookup, Execute
  <2> QED BY <2>5 DEF Next
<1>2. CASE Quiet
  BY <1>2 DEF Quiet
<1>3. CASE UNCHANGED sysVars
  BY <1>3 DEF sysVars
<1> QED BY <1>1, <1>2, <1>3 DEF SystemNext

(* Asking the caches gives no behaviour the scheduler alone, told any of   *)
(* the three latencies, does not have (dis_exec_cache_lookup).             *)
THEOREM SystemImplementsScheduler == SystemSpec => ImplementsScheduler
<1>1. SystemInit => Init
  BY DEF SystemInit
<1>2. [SystemNext]_sysVars => [Next]_vars
  BY SystemStep
<1> QED BY <1>1, <1>2, PTL DEF SystemSpec, ImplementsScheduler, Spec

(* True dependences hold with the caches, whatever they answer. *)
THEOREM SystemDependencesHold == SystemSpec => []RAWOrder
BY SystemImplementsScheduler, DependencesHold, PTL DEF ImplementsScheduler

(* With the caches every instruction leaves EX in the cycle its latency,   *)
(* with what the caches add, ends, if every load has an address.           *)
THEOREM SystemLeaveOnTime ==
  ASSUME CanBeOnTime
  PROVE  SystemSpec => []OnTime
BY SystemImplementsScheduler, LeaveOnTime, PTL DEF ImplementsScheduler
-----------------------------------------------------------------------------
(* What the caches are sent is the address of a trace line. *)
Addressed == \A k \in Insts : listInst[k].mem # 0 => listInst[k].mem \in Addr

LEMMA NextAddressed == IInv /\ Addressed /\ [Next]_vars => Addressed'
<1> SUFFICES ASSUME IInv, Addressed, [Next]_vars PROVE Addressed'
  OBVIOUS
<1>1. ASSUME Insts' = Insts, \A m \in Insts : listInst'[m].mem = listInst[m].mem
      PROVE  Addressed'
  BY <1>1 DEF Addressed
<1>2. ASSUME NEW k \in Insts, NEW st, OneEnters(k, st)
      PROVE  Addressed'
  BY <1>1, <1>2 DEF OneEnters, Enters, Same, SameLine, Insts
<1>3. CASE GoesOn \/ Finish
  <2>1. listInst' = listInst
    BY <1>3, GoesOnEffect DEF Finish
  <2> QED BY <1>1, <2>1 DEF Insts
<1>4. ASSUME NEW lat \in Nat, ExecuteWait(lat) \/ ExecuteComplete(lat)
      PROVE  Addressed'
  <2>1. CASE ExecuteWait(lat)
    BY <1>1, <2>1, ExecuteWaitEffect DEF Still, Same, SameLine, Insts
  <2>2. CASE ExecuteComplete(lat)
    BY <1>2, <2>2, ExecuteCompleteEffect
  <2> QED BY <1>4, <2>1, <2>2
<1>5. CASE IssuePush
  BY <1>2, <1>5, IssuePushEffect
<1>6. CASE DispatchMove
  BY <1>2, <1>6, DispatchMoveEffect
<1>7. CASE DispatchDone
  BY <1>1, <1>7, DispatchDoneEffect DEF Enters, Same, SameLine, Insts
<1>8. ASSUME NEW e \in TraceEntry, FetchInst(e)
      PROVE  Addressed'
  <2>1. PICK new : new = Len(listInst) + 1
    OBVIOUS
  <2>2. Insts' = Insts \cup {new} /\ listInst'[new] = NewInst(e)
    <3>1. Len(listInst) \in Nat /\ Len(listInst') = Len(listInst) + 1
      BY <1>8, FetchInstEffect
    <3> QED BY <1>8, <2>1, <3>1, FetchInstEffect DEF Insts
  <2>3. \A m \in Insts : listInst'[m].mem = listInst[m].mem
    BY <1>8, FetchInstEffect DEF Same, SameLine
  <2>4. NewInst(e).mem # 0 => NewInst(e).mem \in Addr
    BY SystemAssumption DEF NewInst
  <2> QED BY <2>2, <2>3, <2>4 DEF Addressed
<1> QED BY <1>3, <1>4, <1>5, <1>6, <1>7, <1>8, StepCases

(* The node a lookup is made for. *)
LEMMA LookupNode ==
  ASSUME IInv, ListInv, stage = "execute", pos <= Len(exec)
  PROVE  /\ pos \in 1..Len(exec) /\ exec[pos].data \in Insts
         /\ State(exec[pos].data) = "EX" /\ Waiting(exec[pos].data)
<1>1. pos \in 1..Len(exec) /\ pos \in Nat
  BY LenProperties DEF IInv, TypeOK
<1>2. exec[pos] \in Node
  BY <1>1, ElementOfSeq DEF IInv, TypeOK
<1>3. exec[pos].data \in Insts /\ exec[pos].data \in DataOf(exec)
  BY <1>1, <1>2 DEF Node, DataOf
<1>4. State(exec[pos].data) = "EX"
  BY <1>3 DEF ListInv, Placed
<1>5. Waiting(exec[pos].data)
  BY <1>1 DEF ListInv, OnceIn, Waiting
<1> QED BY <1>1, <1>3, <1>4, <1>5

LEMMA LookupRequest ==
  ASSUME IInv, ListInv, Addressed, Lookup
  PROVE  \E a \in Addr : Request("r", a)
<1>1. exec[pos].data \in Insts
  BY LookupNode DEF Lookup, AtLookup
<1>2. listInst[exec[pos].data].mem \in Addr
  BY <1>1 DEF Lookup, AtLookup, LooksUp, Addressed
<1> QED BY <1>2 DEF Lookup

LEMMA SystemCacheStep ==
  IInv /\ ListInv /\ Addressed /\ [SystemNext]_sysVars => [CacheNext]_cacheVars
<1> SUFFICES ASSUME IInv, ListInv, Addressed, [SystemNext]_sysVars
             PROVE  [CacheNext]_cacheVars
  OBVIOUS
<1>1. CASE Lookup
  BY <1>1, LookupRequest, SystemAssumption DEF CacheNext
<1>2. CASE Quiet \/ UNCHANGED sysVars
  BY <1>2 DEF Quiet, sysVars
<1> QED BY <1>1, <1>2 DEF SystemNext

LEMMA SystemInvHolds ==
  SystemSpec => [](IInv /\ ListInv /\ DepInv /\ StampInv /\ Addressed)
<1>1. SystemSpec => Spec
  BY SystemImplementsScheduler DEF ImplementsScheduler
<1>2. SystemInit => Addressed
  BY EmptySeq DEF SystemInit, Init, Addressed, Insts
<1>3. IInv /\ Addressed /\ [SystemNext]_sysVars => Addressed'
  BY SystemStep, NextAddressed
<1> QED BY <1>1, <1>2, <1>3, QueueInvHolds, PTL DEF SystemSpec

(* The scheduler asks the caches only what they expect to be asked, so     *)
(* that what is proved of the caches holds in the system.                  *)
THEOREM SystemImplementsCaches == SystemSpec => CacheSpec
<1>1. SystemInit => CacheInit
  BY DEF SystemInit
<1>2. IInv /\ ListInv /\ Addressed /\ [SystemNext]_sysVars => [CacheNext]_cacheVars
  BY SystemCacheStep
<1> QED BY <1>1, <1>2, SystemInvHolds, PTL DEF SystemSpec, CacheSpec
-----------------------------------------------------------------------------
(* The instructions that entered EX in the last cycle and that dis_execute *)
(* has not come to yet are still to ask the caches; the others have.       *)
Pending(k) ==
  /\ listInst[k].mem # 0 /\ State(k) = "EX" /\ At(k, "EX") = cycle - 1
  /\ Waiting(k)
Asked == {k \in Insts : /\ listInst[k].mem # 0 /\ Reached(k, "EX") /\ At(k, "EX") < cycle
                        /\ ~Pending(k)}
AskInv == stage # "done" => stats[1].reads = Cardinality(Asked)

LEMMA AskedStays ==
  ASSUME cycle' = cycle, EntersNone("EX"),
         \A k \in Insts : listInst'[k].mem = listInst[k].mem /\ (Pending(k)' <=> Pending(k))
  PROVE  Asked' = Asked
BY DEF Asked, EntersNone

(* One node of list_exec: it is the only one that is not pending any more. *)
LEMMA AskedExecute ==
  ASSUME IInv, ListInv, [Next]_vars, NEW lat \in Nat, ExecuteWait(lat) \/ ExecuteComplete(lat),
         NEW k, k = exec[pos].data
  PROVE  /\ cycle' = cycle /\ EntersNone("EX") /\ k \in Insts
         /\ State(k) = "EX" /\ Waiting(k) /\ ~Pending(k)'
         /\ \A m \in Insts : listInst'[m].mem = listInst[m].mem
         /\ \A m \in Insts \ {k} : Pending(m)' <=> Pending(m)
<1>1. /\ stage = "execute" /\ UNCHANGED <<stage, cycle>> /\ pos <= Len(exec) /\ ~IssuePush
      /\ \/ pos' = pos + 1 /\ exec' = exec
         \/ pos' = pos /\ exec' = Without(exec, pos)
  BY DEF ExecuteWait, ExecuteComplete, IssuePush, lists
<1>2. pos \in 1..Len(exec) /\ k \in Insts /\ State(k) = "EX" /\ Waiting(k)
  BY <1>1, LookupNode
<1>3. EntersNone("EX")
  BY <1>1, NobodyEnters
<1>4. /\ Len(listInst') = Len(listInst) /\ \A m \in Insts \ {k} : Same(m)
      /\ Same(k) \/ Enters(k, "WB")
  <2>1. CASE ExecuteWait(lat)
    BY <1>2, <2>1, ExecuteWaitEffect DEF Still
  <2>2. CASE ExecuteComplete(lat)
    BY <2>2, ExecuteCompleteEffect DEF OneEnters
  <2> QED BY <2>1, <2>2
<1>5. \A m \in Insts : listInst'[m].mem = listInst[m].mem
  BY <1>2, <1>4 DEF Same, Enters, SameLine
<1>6. \A m \in Insts \ {k} : Pending(m)' <=> Pending(m)
  <2> TAKE m \in Insts \ {k}
  <2>1. Waiting(m)' <=> Waiting(m)
    BY <1>1, <1>2, WaitingStays
  <2>2. State(m)' = State(m) /\ At(m, "EX")' = At(m, "EX")
    BY <1>4 DEF Same, State, At
  <2> QED BY <1>1, <1>5, <2>1, <2>2 DEF Pending
<1>7. ~Pending(k)'
  <2>1. CASE ExecuteWait(lat)
    <3>1. pos' = pos + 1 /\ exec' = exec /\ pos \in Nat
      BY <1>2, <2>1 DEF ExecuteWait, lists
    <3>2. ~Waiting(k)'
      BY <1>1, <1>2, <3>1 DEF Waiting
    <3> QED BY <3>2 DEF Pending
  <2>2. CASE ExecuteComplete(lat)
    <3>1. State(k)' = "WB"
      BY <2>2, ExecuteCompleteEffect DEF OneEnters, Enters, State
    <3> QED BY <3>1 DEF Pending
  <2> QED BY <2>1, <2>2
<1> QED BY <1>1, <1>2, <1>3, <1>5, <1>6, <1>7

(* A lookup is one more request, and one more that has asked and been told *)
(* what it takes.                                                          *)
LEMMA LookupAsks ==
  ASSUME IInv, ListInv, StampInv, Addressed, CacheInv, Lookup
  PROVE  /\ stats'[1].reads = stats[1].reads + 1 /\ stage # "done"
         /\ Insts' = Insts /\ IsFiniteSet(Asked)
         /\ \E k \in Insts :
              /\ Asked' = Asked \cup {k} /\ k \notin Asked /\ listInst[k].mem # 0
              /\ listInst'[k].latency = (listInst[k].latency + last'.latency) % 256
              /\ \A m \in Insts \ {k} : Calm(m)
         /\ \A m \in Insts : SameLine(m)
<1>1. PICK k : k = exec[pos].data
  OBVIOUS
<1>2. PICK lat : lat = last'.latency
  OBVIOUS
<1>3. [Next]_vars /\ lat \in Nat /\ (ExecuteWait(lat) \/ ExecuteComplete(lat))
  <2>1. [SystemNext]_sysVars
    BY DEF SystemNext
  <2>2. lat \in LookupLatency
    BY <1>2, RequestLatency, SystemAssumption DEF Lookup, HitLatency, MissLatency
  <2> QED BY <1>2, <2>1, <2>2, SystemStep, CacheAssumption DEF Lookup
<1>4. /\ cycle' = cycle /\ EntersNone("EX") /\ k \in Insts
      /\ State(k) = "EX" /\ Waiting(k) /\ ~Pending(k)'
      /\ \A m \in Insts : listInst'[m].mem = listInst[m].mem
      /\ \A m \in Insts \ {k} : Pending(m)' <=> Pending(m)
  BY <1>1, <1>3, AskedExecute
<1>5. Pending(k) /\ Reached(k, "EX") /\ At(k, "EX") < cycle
  <2>1. HasL1 /\ listInst[k].mem # 0 /\ cycle - 1 = At(k, "EX") /\ cycle \in Nat
    BY <1>1 DEF Lookup, AtLookup, LooksUp, IInv, TypeOK
  <2> QED BY <1>4, <2>1 DEF Pending, Reached, Passed
<1>6. Asked' = Asked \cup {k} /\ k \notin Asked /\ listInst[k].mem # 0
  BY <1>4, <1>5 DEF Asked, EntersNone, Pending
<1>7. IsFiniteSet(Asked)
  <2>1. IsFiniteSet(Insts) /\ Asked \in SUBSET Insts
    BY StampTypes, FS_Interval DEF Insts, Asked
  <2> QED BY <2>1, FS_Subset
<1>8. stats'[1].reads = stats[1].reads + 1
  <2>1. "r" \in RefType
    BY SystemAssumption
  <2>2. Referred(stats[1], stats'[1], "r")
    BY <2>1, LookupRequest, RequestCacheInv
  <2> QED BY <2>2 DEF Referred, One
<1>9. stage # "done" /\ LooksUp(k)
  BY <1>1 DEF Lookup, AtLookup
<1>10. /\ Insts' = Insts
       /\ listInst'[k].latency = (listInst[k].latency + lat) % 256
       /\ \A m \in Insts \ {k} : Calm(m)
  <2>1. listInst \in Seq(InstData)
    BY DEF IInv, TypeOK
  <2>2. CASE ExecuteWait(lat)
    <3>1. listInst' = AfterLookup(k, lat) /\ Insts' = Insts
      BY <1>1, <1>3, <2>2, ExecuteWaitEffect DEF ExecuteWait, Still, Insts
    <3> QED BY <1>3, <1>4, <1>9, <2>1, <3>1, LookupLatencies DEF Calm
  <2>3. CASE ExecuteComplete(lat)
    <3>1. listInst' = Enter(AfterLookup(k, lat), k, "WB") /\ Insts' = Insts
      BY <1>1, <1>3, <2>3, ExecuteCompleteEffect DEF ExecuteComplete, OneEnters, Insts
    <3>2. /\ AfterLookup(k, lat) \in Seq(InstData)
          /\ Len(AfterLookup(k, lat)) = Len(listInst) /\ "WB" \in InstState
      BY <1>3, <1>4, <2>1, AfterLookupProperties DEF InstState
    <3>3. \A m \in Insts : listInst'[m].latency = AfterLookup(k, lat)[m].latency
      BY <1>4, <3>1, <3>2, EnterLatency
    <3> QED BY <1>3, <1>4, <1>9, <2>1, <3>1, <3>3, LookupLatencies DEF Calm
  <2> QED BY <1>3, <2>2, <2>3
<1>11. \A m \in Insts : SameLine(m)
  <2>1. CASE ExecuteWait(lat)
    BY <1>3, <2>1, ExecuteWaitEffect DEF Still, Same
  <2>2. CASE ExecuteComplete(lat)
    BY <1>3, <2>2, ExecuteCompleteEffect DEF OneEnters, Enters, Same
  <2> QED BY <1>3, <2>1, <2>2
<1> QED BY <1>2, <1>4, <1>6, <1>7, <1>8, <1>9, <1>10, <1>11

LEMMA AskedGoesOn ==
  ASSUME IInv, ListInv, DepInv, StampInv, GoesOn
  PROVE  Asked' = Asked
<1>1. UNCHANGED <<listInst, exec>> /\ Still /\ cycle \in Nat /\ exec \in Seq(Node)
  BY GoesOnEffect, StillUnchanged DEF lists, IInv, TypeOK
<1>2. /\ Insts' = Insts
      /\ \A k \in Insts : /\ State(k)' = State(k) /\ At(k, "EX")' = At(k, "EX")
                          /\ Reached(k, "EX")' <=> Reached(k, "EX")
                          /\ listInst'[k].mem = listInst[k].mem
  BY <1>1 DEF Insts, State, At, Reached
<1>3. CASE Advance
  <2>1. cycle' = cycle + 1 /\ stage = "advance" /\ stage' = "retire"
    BY <1>3, AdvanceCycle
  <2>2. ASSUME NEW k \in Insts, Reached(k, "EX"), listInst[k].mem # 0
        PROVE  (At(k, "EX") < cycle' /\ ~Pending(k)') <=> (At(k, "EX") < cycle /\ ~Pending(k))
    <3>1. /\ At(k, "EX") <= cycle /\ At(k, "EX") \in Nat
          /\ State(k) = "WB" => At(k, "EX") < cycle
      BY <2>1, <2>2, StampTypes DEF StampInv, StampOK, Stamped, InstState
    <3>2. State(k) \in {"EX", "WB"}
      BY <2>2, StampTypes, ReachedStates DEF Reached
    <3>3. ~Pending(k) /\ (Pending(k)' <=> State(k) = "EX" /\ At(k, "EX") = cycle)
      BY <1>1, <1>2, <2>1, <2>2, <3>1 DEF Pending, Waiting
    <3> QED BY <1>1, <2>1, <3>1, <3>2, <3>3
  <2> QED BY <1>2, <2>2 DEF Asked
<1>4. CASE ~Advance
  <2>1. cycle' = cycle
    BY <1>4, GoesOnStage
  <2>2. EntersNone("EX")
    BY <1>1, StillEntersNone DEF InstState
  <2>3. ASSUME NEW k \in Insts, State(k) = "EX"
        PROVE  Waiting(k)' <=> Waiting(k)
    <3>1. CASE Retire
      <4>1. stage = "retire" /\ stage' = "execute" /\ pos' = 1 /\ Len(exec) \in Nat
        BY <1>1, <3>1, LenProperties DEF Retire, GoTo
      <4> QED BY <1>1, <4>1 DEF Waiting
    <3>2. CASE ExecuteDone
      <4>1. PICK i \in 1..Len(exec) : exec[i].data = k
        BY <2>3 DEF ListInv, Placed, DataOf
      <4>2. /\ stage = "execute" /\ stage' = "issue" /\ pos > Len(exec) /\ pos \in Nat
            /\ Len(exec) \in Nat
        BY <1>1, <3>2, LenProperties DEF ExecuteDone, GoTo, IInv, TypeOK
      <4>3. ~(i >= pos)
        BY <4>2
      <4> QED BY <4>1, <4>2, <4>3 DEF Waiting
    <3>3. CASE ~(Retire \/ ExecuteDone)
      BY <1>1, <1>4, <3>3 DEF GoesOn, IssueSkip, IssueDone, DispatchSkip, FetchEOF, FetchDone,
         FetchSkip, vars, GoTo, Waiting
    <3> QED BY <3>1, <3>2, <3>3
  <2>4. \A k \in Insts : Pending(k)' <=> Pending(k)
    BY <1>2, <2>1, <2>3 DEF Pending
  <2> QED BY <1>2, <2>1, <2>2, <2>4, AskedStays
<1> QED BY <1>3, <1>4

(* dis_issue's push: what enters EX now asks in the next cycle. *)
LEMMA AskedIssuePush ==
  ASSUME IInv, IssuePush
  PROVE  Asked' = Asked
<1>1. PICK k \in Insts : k = issue[pos].data
  BY IssuePushEffect
<1>2. /\ OneEnters(k, "EX") /\ State(k) = "IS" /\ stage = "issue" /\ UNCHANGED <<stage, cycle>>
      /\ "EX" \in InstState /\ cycle \in Nat
  BY <1>1, IssuePushEffect DEF IssuePush, CanIssue, InstState, IInv, TypeOK
<1>3. Insts' = Insts /\ Enters(k, "EX") /\ \A m \in Insts \ {k} : Same(m)
  BY <1>2 DEF OneEnters, Insts
<1>4. ~Reached(k, "EX") /\ At(k, "EX")' = cycle
  BY <1>2, <1>3, EntersStamps DEF Reached, Passed
<1>5. k \notin Asked /\ k \notin Asked'
  BY <1>2, <1>4 DEF Asked
<1>6. ASSUME NEW m \in Insts \ {k}
      PROVE  m \in Asked' <=> m \in Asked
  <2>1. /\ State(m)' = State(m) /\ At(m, "EX")' = At(m, "EX")
        /\ (Reached(m, "EX")' <=> Reached(m, "EX")) /\ listInst'[m].mem = listInst[m].mem
    BY <1>2, <1>3, SameStamps DEF Same, SameLine
  <2>2. ~Pending(m) /\ ~Pending(m)'
    BY <1>2 DEF Pending, Waiting
  <2> QED BY <1>2, <1>3, <2>1, <2>2 DEF Asked
<1> QED BY <1>3, <1>5, <1>6 DEF Asked

(* No other step is a request, and the end of the loop changes no stamp.   *)
LEMMA NobodyAsks ==
  ASSUME IInv, ListInv, DepInv, StampInv, [SystemNext]_sysVars, ~Lookup, Finish => cycle' = cycle
  PROVE  Asked' = Asked
<1>1. [Next]_vars /\ (~AtLookup \/ UNCHANGED vars)
  BY SystemStep DEF SystemNext, Quiet, sysVars
<1>2. CASE GoesOn
  BY <1>2, AskedGoesOn
<1>3. CASE Finish
  <2>1. /\ stage = "advance" /\ stage' = "done" /\ listInst' = listInst /\ cycle' = cycle
    BY <1>3 DEF Finish, GoTo
  <2>2. EntersNone("EX")
    BY <2>1, StillUnchanged, StillEntersNone DEF InstState
  <2>3. \A k \in Insts : ~Pending(k) /\ ~Pending(k)'
    BY <2>1 DEF Pending, Waiting
  <2> QED BY <2>1, <2>2, <2>3, AskedStays
<1>4. CASE IssuePush
  BY <1>4, AskedIssuePush
<1>5. ASSUME NEW lat \in Nat, ExecuteWait(lat) \/ ExecuteComplete(lat), ~GoesOn
      PROVE  Asked' = Asked
  <2>1. PICK k : k = exec[pos].data
    OBVIOUS
  <2>2. /\ cycle' = cycle /\ EntersNone("EX") /\ k \in Insts
        /\ State(k) = "EX" /\ Waiting(k) /\ ~Pending(k)'
        /\ \A m \in Insts : listInst'[m].mem = listInst[m].mem
        /\ \A m \in Insts \ {k} : Pending(m)' <=> Pending(m)
    BY <1>1, <1>5, <2>1, AskedExecute
  <2>3. stage = "execute" /\ pos <= Len(exec) /\ ~UNCHANGED vars
    BY <1>5 DEF ExecuteWait, ExecuteComplete, GoesOn
  <2>4. ~Pending(k)
    BY <1>1, <2>1, <2>3, SystemAssumption DEF AtLookup, LooksUp, Pending
  <2> QED BY <2>2, <2>4, AskedStays
<1>6. ASSUME DispatchMove \/ DispatchDone \/ \E e \in TraceEntry : FetchInst(e)
      PROVE  Asked' = Asked
  <2>1. /\ cycle' = cycle /\ stage # "done" /\ ~IssuePush
        /\ stage \in {"dispatch", "fetch"} /\ stage' \in {"dispatch", "fetch"}
    BY <1>6 DEF DispatchMove, DispatchDone, FetchInst, GoTo, IssuePush
  <2>2. EntersNone("EX")
    BY <1>1, <2>1, NobodyEnters
  <2>3. \A k \in Insts : listInst'[k].mem = listInst[k].mem
    BY <1>6, DispatchMoveEffect, DispatchDoneEffect, FetchInstEffect
       DEF OneEnters, Enters, Same, SameLine
  <2>4. \A k \in Insts : Pending(k)' <=> Pending(k)
    BY <2>1 DEF Pending, Waiting
  <2> QED BY <2>1, <2>2, <2>3, <2>4, AskedStays
<1> QED BY <1>1, <1>2, <1>3, <1>4, <1>5, <1>6, StepCases

LEMMA NextAskInv ==
  /\ IInv /\ ListInv /\ DepInv /\ StampInv /\ Addressed /\ CacheInv /\ AskInv
  /\ [SystemNext]_sysVars
  => AskInv'
<1> SUFFICES ASSUME IInv, ListInv, DepInv, StampInv, Addressed, CacheInv, AskInv,
                    [SystemNext]_sysVars
             PROVE  AskInv'
  OBVIOUS
<1>1. CASE Lookup
  <2>1. PICK k : Asked' = Asked \cup {k} /\ k \notin Asked
    BY <1>1, LookupAsks
  <2>2. Cardinality(Asked)' = Cardinality(Asked) + 1
    BY <1>1, <2>1, LookupAsks, FS_AddElement
  <2> QED BY <1>1, <2>2, LookupAsks DEF AskInv
<1>2. CASE ~Lookup /\ ~Finish
  <2>1. Asked' = Asked
    BY <1>2, NobodyAsks
  <2>2. UNCHANGED stats
    BY <1>2 DEF SystemNext, Quiet, sysVars, cacheVars
  <2>3. stage = "done" => stage' = "done"
    BY <1>2, SystemStep, StepCases DEF GoesOn, Retire, ExecuteDone, IssueSkip, IssueDone,
       DispatchSkip, FetchEOF, FetchDone, FetchSkip, Advance, vars, IssuePush, DispatchMove,
       DispatchDone, ExecuteWait, ExecuteComplete, FetchInst
  <2> QED BY <2>1, <2>2, <2>3 DEF AskInv
<1>3. CASE Finish
  BY <1>3 DEF Finish, GoTo, AskInv
<1> QED BY <1>1, <1>2, <1>3

(* Every memory instruction asks the caches once, in its first cycle in    *)
(* EX, whether or not it waits there (dis_exec_cache_lookup).              *)
THEOREM SystemLooksUpOnce == SystemSpec => []LookupOnce
<1>1. SystemInit => AskInv
  <2> SUFFICES ASSUME SystemInit PROVE AskInv
    OBVIOUS
  <2>1. Insts = {} /\ stats[1].reads = 0
    BY EmptySeq, Levels DEF SystemInit, Init, CacheInit, Insts, NoStats
  <2>2. Cardinality(Asked) = 0
    <3>1. Asked = {}
      BY <2>1 DEF Asked
    <3> QED BY <3>1, FS_EmptySet
  <2> QED BY <2>1, <2>2 DEF AskInv
<1>2. /\ IInv /\ ListInv /\ DepInv /\ StampInv /\ Addressed /\ CacheInv /\ AskInv
      /\ [SystemNext]_sysVars
      => AskInv'
  BY NextAskInv
<1>3. AskInv => LookupOnce
  <2> SUFFICES ASSUME AskInv, stage = "issue" PROVE LookupOnce
    BY DEF LookupOnce
  <2>1. \A k \in Insts : ~Pending(k)
    BY DEF Pending, Waiting
  <2>2. Asked = {k \in Insts : /\ listInst[k].mem # 0 /\ Reached(k, "EX")
                               /\ At(k, "EX") < cycle}
    BY <2>1 DEF Asked
  <2> QED BY <2>2 DEF AskInv, LookupOnce
<1> QED BY <1>1, <1>2, <1>3, SystemInvHolds, SystemImplementsCaches, CacheInvHolds, PTL
        DEF SystemSpec
-----------------------------------------------------------------------------
(* What the others do to latencies: a step that asks nothing changes none, *)
(* and an instruction of type 2 comes without one.                         *)
LEMMA StepOnLatency ==
  ASSUME IInv, ListInv, [Next]_vars, ~AtLookup \/ UNCHANGED vars
  PROVE  /\ Insts \subseteq Insts' /\ \A k \in Insts : Calm(k) /\ SameLine(k)
         /\ \A k \in Insts' \ Insts : listInst'[k].type = 2 => listInst'[k].latency = 0
<1>0. listInst \in Seq(InstData)
  BY DEF IInv, TypeOK
<1>1. CASE GoesOn \/ Finish
  <2>1. listInst' = listInst
    BY <1>1, GoesOnEffect DEF Finish
  <2> QED BY <2>1 DEF Calm, SameLine, Insts
<1>2. ASSUME NEW lat \in Nat, ExecuteWait(lat) \/ ExecuteComplete(lat), ~GoesOn
      PROVE  Insts' = Insts /\ \A k \in Insts : Calm(k) /\ SameLine(k)
  <2>1. stage = "execute" /\ pos <= Len(exec) /\ ~UNCHANGED vars
    BY <1>2 DEF ExecuteWait, ExecuteComplete, GoesOn
  <2>2. PICK k : k = exec[pos].data
    OBVIOUS
  <2>3. AfterLookup(k, lat) = listInst /\ k \in Insts
    BY <2>1, <2>2, LookupNode DEF AtLookup, AfterLookup
  <2>4. CASE ExecuteWait(lat)
    BY <2>2, <2>3, <2>4 DEF ExecuteWait, Calm, SameLine, Insts
  <2>5. CASE ExecuteComplete(lat)
    <3>1. listInst' = Enter(listInst, k, "WB") /\ "WB" \in InstState
      BY <2>2, <2>3, <2>5 DEF ExecuteComplete, InstState
    <3> QED BY <1>0, <2>2, <2>3, <2>5, <3>1, EnterLatency, ExecuteCompleteEffect
            DEF Calm, OneEnters, Enters, Same, Insts
  <2> QED BY <1>2, <2>4, <2>5
<1>3. CASE IssuePush
  <2>1. listInst' = Enter(listInst, issue[pos].data, "EX") /\ "EX" \in InstState
    BY <1>3 DEF IssuePush, InstState
  <2> QED BY <1>0, <1>3, <2>1, IssuePushEffect, EnterLatency
          DEF Calm, OneEnters, Enters, Same, Insts
<1>4. CASE DispatchMove
  <2>1. listInst' = Enter(listInst, disp[pos], "IS") /\ "IS" \in InstState
    BY <1>4 DEF DispatchMove, InstState
  <2> QED BY <1>0, <1>4, <2>1, DispatchMoveEffect, EnterLatency
          DEF Calm, OneEnters, Enters, Same, Insts
<1>5. CASE DispatchDone
  <2>1. ASSUME NEW m \in Insts
        PROVE  Calm(m)
    <3>1. listInst[m] \in InstData
      BY <1>0, ElementOfSeq DEF Insts
    <3>2. listInst'[m] \in {listInst[m], [listInst[m] EXCEPT !.state = "ID",
                                                             !.cycle["ID"] = cycle]}
      BY <1>5 DEF DispatchDone
    <3>3. listInst'[m].latency = listInst[m].latency
      BY <3>1, <3>2 DEF InstData
    <3> QED BY <3>3 DEF Calm
  <2> QED BY <1>5, <2>1, DispatchDoneEffect DEF Enters, Same, Insts
<1>6. ASSUME NEW e \in TraceEntry, FetchInst(e)
      PROVE  /\ Insts \subseteq Insts' /\ \A k \in Insts : Calm(k) /\ SameLine(k)
             /\ \A k \in Insts' \ Insts : listInst'[k].type = 2 => listInst'[k].latency = 0
  <2>1. PICK new : new = Len(listInst) + 1
    OBVIOUS
  <2>2. Len(listInst) \in Nat /\ Insts' = Insts \cup {new} /\ listInst'[new] = NewInst(e)
    BY <1>6, <2>1, FetchInstEffect DEF Insts
  <2>3. \A m \in Insts : listInst'[m].latency = listInst[m].latency
    <3>1. listInst' = Append(listInst, NewInst(e)) /\ NewInst(e) \in InstData
      BY <1>6, FetchInstEffect DEF FetchInst
    <3> QED BY <1>0, <3>1, AppendProperties DEF Insts
  <2>4. NewInst(e).type = 2 => NewInst(e).latency = 0
    BY SystemAssumption DEF NewInst
  <2>5. \A m \in Insts : SameLine(m)
    BY <1>6, FetchInstEffect DEF Same
  <2> QED BY <2>2, <2>3, <2>4, <2>5 DEF Calm
<1> QED BY <1>1, <1>2, <1>3, <1>4, <1>5, <1>6, StepCases

-----------------------------------------------------------------------------
(* If the loads and stores are the instructions of type 2, one that has    *)
(* not asked has no latency, and those that have have that of the answer:  *)
(* as many of 20 as the last cache had read misses, as many of 10 or 20 as *)
(* the L1 had.                                                             *)
Typed == \A k \in Insts : listInst[k].type = 2 <=> listInst[k].mem # 0
Told(lats) == {k \in Asked : listInst[k].latency \in lats}
MissInv ==
  Typed =>
    /\ \A k \in Insts \ Asked : listInst[k].type = 2 => listInst[k].latency = 0
    /\ Cardinality(Told({20})) = stats[Last].readMisses
    /\ Cardinality(Told({10, 20})) = stats[1].readMisses

(* One more has been told lat. *)
LEMMA ToldMore ==
  ASSUME NEW lats, NEW k \in Insts, IsFiniteSet(Asked), Asked' = Asked \cup {k}, k \notin Asked,
         \A m \in Insts \ {k} : Calm(m), Asked \subseteq Insts
  PROVE  /\ Cardinality(Told(lats)) \in Nat
         /\ Cardinality(Told(lats)') =
              Cardinality(Told(lats)) + One(listInst'[k].latency \in lats)
<1>1. Told(lats) \in SUBSET Asked
  BY DEF Told
<1>2. IsFiniteSet(Told(lats)) /\ Cardinality(Told(lats)) \in Nat
  BY <1>1, FS_Subset, FS_CardinalityType
<1>3. CASE listInst'[k].latency \in lats
  <2>1. PICK A : A = Told(lats)
    OBVIOUS
  <2>2. Told(lats)' = A \cup {k} /\ k \notin A
    BY <1>3, <2>1 DEF Told, Calm
  <2>3. Cardinality(A \cup {k}) = Cardinality(A) + 1
    BY <1>2, <2>1, <2>2, FS_AddElement
  <2> QED BY <1>2, <1>3, <2>1, <2>2, <2>3 DEF One
<1>4. CASE ~(listInst'[k].latency \in lats)
  <2>1. Told(lats)' = Told(lats)
    BY <1>4 DEF Told, Calm
  <2> QED BY <1>2, <1>4, <2>1 DEF One
<1> QED BY <1>3, <1>4

LEMMA MissLookup ==
  ASSUME IInv, ListInv, StampInv, Addressed, CacheInv, MissInv, Lookup
  PROVE  MissInv'
<1> SUFFICES ASSUME Typed'
             PROVE  /\ \A k \in (Insts \ Asked)' :
                         listInst'[k].type = 2 => listInst'[k].latency = 0
                    /\ Cardinality(Told({20})') = stats'[Last'].readMisses
                    /\ Cardinality(Told({10, 20})') = stats'[1].readMisses
  BY DEF MissInv
<1>1. PICK k \in Insts :
        /\ Asked' = Asked \cup {k} /\ k \notin Asked /\ listInst[k].mem # 0
        /\ listInst'[k].latency = (listInst[k].latency + last'.latency) % 256
        /\ \A m \in Insts \ {k} : Calm(m)
  BY LookupAsks
<1>2. Insts' = Insts /\ IsFiniteSet(Asked) /\ \A m \in Insts : SameLine(m)
  BY LookupAsks
<1>3. Typed
  BY <1>2 DEF Typed, SameLine
<1>4. listInst[k].latency = 0
  BY <1>1, <1>3 DEF MissInv, Typed
<1>5. PICK a \in Addr : Request("r", a)
  BY LookupRequest
<1>6. /\ Last' = Last /\ last'.latency \in {5, 10, 20}
      /\ stats'[1].readMisses = stats[1].readMisses + One(last'.latency \in {10, 20})
      /\ stats'[Last].readMisses = stats[Last].readMisses + One(last'.latency = 20)
  BY <1>5, ReadMisses, SystemAssumption
<1>7. listInst'[k].latency = last'.latency
  <2>1. (0 + 5) % 256 = 5 /\ (0 + 10) % 256 = 10 /\ (0 + 20) % 256 = 20
    OBVIOUS
  <2> QED BY <1>1, <1>4, <1>6, <2>1
<1>8. /\ Cardinality(Told({20})') = Cardinality(Told({20})) + One(last'.latency \in {20})
      /\ Cardinality(Told({10, 20})') =
           Cardinality(Told({10, 20})) + One(last'.latency \in {10, 20})
  <2>1. Asked \subseteq Insts
    BY DEF Asked
  <2> QED BY <1>1, <1>2, <1>7, <2>1, ToldMore
<1>9. ASSUME NEW m \in Insts', m \notin Asked', listInst'[m].type = 2
      PROVE  listInst'[m].latency = 0
  <2>1. m \in Insts \ {k} /\ m \notin Asked
    BY <1>1, <1>2, <1>9
  <2> QED BY <1>1, <1>2, <1>3, <1>9, <2>1 DEF MissInv, Calm, SameLine
<1>10. One(last'.latency \in {20}) = One(last'.latency = 20)
  BY DEF One
<1> QED BY <1>3, <1>6, <1>8, <1>9, <1>10 DEF MissInv

LEMMA MissOthers ==
  ASSUME IInv, ListInv, DepInv, StampInv, MissInv, [SystemNext]_sysVars, ~Lookup,
         Finish => cycle' = cycle
  PROVE  MissInv'
<1>1. [Next]_vars /\ (~AtLookup \/ UNCHANGED vars) /\ UNCHANGED <<stats, l2Present>>
  BY SystemStep DEF SystemNext, Quiet, sysVars, cacheVars
<1>2. Asked' = Asked /\ Asked \subseteq Insts
  BY NobodyAsks DEF Asked
<1>3. /\ Insts \subseteq Insts' /\ \A k \in Insts : Calm(k) /\ SameLine(k)
      /\ \A k \in Insts' \ Insts : listInst'[k].type = 2 => listInst'[k].latency = 0
  BY <1>1, StepOnLatency
<1>4. Typed' => Typed
  BY <1>3 DEF Typed, SameLine
<1>5. \A lats : Told(lats)' = Told(lats)
  <2> TAKE lats
  <2> QED BY <1>2, <1>3 DEF Told, Calm
<1>6. Last' = Last
  BY <1>1 DEF Last, HasNext, Level
<1>7. ASSUME Typed, NEW m \in Insts', m \notin Asked', listInst'[m].type = 2
      PROVE  listInst'[m].latency = 0
  <2>1. CASE m \in Insts
    BY <1>2, <1>3, <1>7, <2>1 DEF MissInv, Calm, SameLine
  <2>2. CASE m \notin Insts
    BY <1>3, <1>7, <2>2
  <2> QED BY <2>1, <2>2
<1>8. /\ Told({20})' = Told({20}) /\ Told({10, 20})' = Told({10, 20})
  BY <1>5
<1> QED BY <1>1, <1>4, <1>6, <1>7, <1>8 DEF MissInv

LEMMA MissInvHolds ==
  ASSUME CanKeepPace, CyclesSuffice
  PROVE  SystemSpec => [](IInv /\ TimeInv /\ DoneInv /\ OrderInv /\ MissInv)
<1>1. SystemInit => MissInv
  <2> SUFFICES ASSUME SystemInit PROVE MissInv
    OBVIOUS
  <2>1. Insts = {} /\ stats[1].readMisses = 0 /\ stats[Last].readMisses = 0
    <3>1. Insts = {}
      BY EmptySeq DEF SystemInit, Init, Insts
    <3>2. stats = [l \in Level |-> NoStats] /\ 1 \in Level /\ Last \in Level
      BY Levels DEF SystemInit, CacheInit, Last
    <3> QED BY <3>1, <3>2 DEF NoStats
  <2>2. Asked = {} /\ Told({20}) = {} /\ Told({10, 20}) = {}
    BY <2>1 DEF Asked, Told
  <2> QED BY <2>1, <2>2, FS_EmptySet DEF MissInv
<1>2. /\ IInv /\ ListInv /\ DepInv /\ StampInv /\ TimeInv /\ LatencyInv /\ PaceInv /\ InTrace
      /\ Addressed /\ CacheInv /\ MissInv /\ [SystemNext]_sysVars
      => MissInv'
  <2> SUFFICES ASSUME IInv, ListInv, DepInv, StampInv, TimeInv, LatencyInv, PaceInv, InTrace,
                      Addressed, CacheInv, MissInv, [SystemNext]_sysVars
               PROVE  MissInv'
    OBVIOUS
  <2>1. CASE Lookup
    BY <2>1, MissLookup
  <2>2. CASE ~Lookup
    <3>1. Finish => cycle' = cycle
      <4>1. cycle' = cycle \/ stage' = "retire"
        BY SystemStep, StepOnClock
      <4> QED BY <4>1 DEF Finish, GoTo
    <3> QED BY <2>2, <3>1, MissOthers
  <2> QED BY <2>1, <2>2
<1>3. SystemSpec => Spec
  BY SystemImplementsScheduler DEF ImplementsScheduler
<1> QED BY <1>1, <1>2, <1>3, DoneInvHolds, HistoryInvHolds, SystemInvHolds,
           SystemImplementsCaches, CacheInvHolds, PTL DEF SystemSpec

(* A memory instruction is in EX for as long as its own request was        *)
(* answered: the report's times and the report's misses agree              *)
(* (dis_exec_cache_lookup, cache_evict_and_add_tag), for every trace, every *)
(* machine that keeps pace and every geometry.                             *)
THEOREM SystemTimesMatch ==
  ASSUME CanKeepPace, CyclesSuffice
  PROVE  SystemSpec => []TimesMatchStats
<1>1. IInv /\ TimeInv /\ DoneInv /\ OrderInv /\ MissInv => TimesMatchStats
  <2> SUFFICES ASSUME IInv, TimeInv, DoneInv, OrderInv, MissInv, stage = "done", Typed
               PROVE  /\ Cardinality(Slow) = stats[Last].readMisses
                      /\ Cardinality(Slow \cup Middle) = stats[1].readMisses
    BY DEF TimesMatchStats, Typed
  <2>1. ASSUME NEW k \in Insts
        PROVE  /\ State(k) = "WB"
               /\ At(k, "WB") = At(k, "EX") + 20 <=> listInst[k].latency = 20
               /\ At(k, "WB") = At(k, "EX") + 10 <=> listInst[k].latency = 10
               /\ k \in Asked <=> listInst[k].type = 2
    <3>1. State(k) = "WB"
      BY DEF DoneInv, DoneComplete, InState
    <3>2. At(k, "EX") \in Nat /\ listInst[k].latency \in Nat
      BY StampsNat DEF IInv, TypeOK
    <3>3. At(k, "WB") = At(k, "EX") + listInst[k].latency
      BY <3>1 DEF TimeInv, TimeOf, Due
    <3>4. Reached(k, "EX") /\ At(k, "EX") < cycle
      <4>1. At(k, "EX") < At(k, "WB") /\ At(k, "WB") <= cycle
        BY <3>1 DEF OrderInv, OrderOf
      <4>2. At(k, "WB") \in Nat /\ cycle \in Nat
        BY StampTypes DEF InstState
      <4>3. "EX" \in Passed("WB")
        BY ReachedStates DEF InstState
      <4> QED BY <3>1, <3>2, <4>1, <4>2, <4>3 DEF Reached
    <3>5. k \in Asked <=> listInst[k].mem # 0
      BY <3>1, <3>4 DEF Asked, Pending
    <3> QED BY <3>1, <3>2, <3>3, <3>5 DEF Typed
  <2>2. Slow = Told({20})
    BY <2>1 DEF Slow, Told, InState, Asked
  <2>3. Slow \cup Middle = Told({10, 20})
    BY <2>1 DEF Slow, Middle, Told, InState, Asked
  <2> QED BY <2>2, <2>3 DEF MissInv
<1> QED BY <1>1, MissInvHolds, PTL

(* With the caches no instruction starves: the k-th is written back within *)
(* 2 * k * Longest cycles, whatever the caches answer.                     *)
THEOREM SystemKeepsPace ==
  ASSUME CanKeepPace
  PROVE  SystemSpec => []KeepsPace
BY SystemImplementsScheduler, PaceIsKept, PTL DEF ImplementsScheduler
=============================================================================
