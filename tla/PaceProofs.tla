------------------------------ MODULE PaceProofs ------------------------------
(***************************************************************************)
(* The simulation ends, and what it reports can be believed: the k-th      *)
(* instruction is written back by cycle 2 * k * Longest (KeepsPace), the   *)
(* loop is left when all is done (DoneComplete) and the report is a        *)
(* schedule the machine can run (ReportIsASchedule).                       *)
(***************************************************************************)
EXTENDS TimingProofs, WellFoundedInduction

(* What keeping pace needs: a place to fetch to and one to issue from, and *)
(* what being on time needs.                                               *)
CanKeepPace == N > 0 /\ S > 0 /\ CanBeOnTime

(* The cycle by which an instruction is written back; the one before it    *)
(* gives the cycle by which it is the oldest.                              *)
Deadline(k) == 2 * k * Longest

Oldest(k) == State(k) # "WB" /\ \A j \in Insts : j < k => State(j) = "WB"
AllDone == \A k \in Insts : State(k) = "WB"

(* The stages after instructions enter EX. *)
Issued == stage \in {"dispatch", "fetch", "advance"}

(* How far the oldest instruction is, from the cycle b in which it became  *)
(* the oldest, or before.  In IF and in ID it spends a cycle; in IS it     *)
(* waits for a place in list_exec only, held by instructions that entered  *)
(* EX by then.                                                             *)
OnPace(k) ==
  LET b == Deadline(k - 1)
  IN  /\ State(k) = "IF" => At(k, "IF") <= b
      /\ State(k) = "ID" => /\ At(k, "ID") <= b + 1 /\ cycle <= b + 2
                            /\ Late => cycle <= b + 1
      /\ State(k) = "IS" => /\ cycle <= b + Longest
                            /\ Issued => cycle < b + Longest
                            /\ \A j \in Insts : State(j) = "EX" => At(j, "EX") <= b
      /\ State(k) = "EX" => At(k, "EX") <= b + Longest

LatencyInv == \A k \in Insts : listInst[k].latency <= Longest
PaceInv ==
  /\ \A k \in Insts : State(k) = "WB" => At(k, "WB") <= Deadline(k)
  /\ stage # "done" => /\ \A k \in Insts : Oldest(k) => OnPace(k)
                       /\ AllDone => cycle <= Deadline(Len(listInst))
  /\ stage = "done" => cycle = 0 \/ AllDone

-----------------------------------------------------------------------------
(* There is a longest latency, and it is one. *)
LEMMA LongestIs ==
  ASSUME CanBeOnTime
  PROVE  /\ Longest \in Nat /\ 5 <= Longest
         /\ HasL1 => \A lat \in LookupLatency : lat + 5 <= Longest
<1>1. Latencies \subseteq 5..255 /\ 5 \in Latencies
  <2>1. CASE HasL1
    <3>1. \A lat \in LookupLatency : lat \in Nat /\ lat + 5 < 256
      BY <2>1, CacheAssumption DEF CanBeOnTime
    <3> QED BY <2>1, <3>1 DEF Latencies
  <2>2. CASE ~HasL1
    BY <2>2 DEF Latencies
  <2> QED BY <2>1, <2>2
<1> DEFINE R == OpToRel(<, Nat)
           T == {n \in 0..250 : 255 - n \in Latencies}
<1>2. IsWellFoundedOn(R, Nat)
  BY NatLessThanWellFounded
<1>3. ASSUME NEW x \in Nat, NEW y \in Nat, x < y PROVE <<x, y>> \in R
  BY <1>3 DEF OpToRel
<1>4. 250 \in T /\ T \subseteq Nat
  BY <1>1
<1>5. \A m \in Latencies : 255 - m \in T
  BY <1>1
<1>6. \A n \in T : 255 - n \in Latencies /\ n \in Nat
  OBVIOUS
<1> HIDE DEF R, T
<1>7. PICK x \in T : \A y \in T : ~(<<y, x>> \in R)
  BY <1>2, <1>4, WFMin
<1>8. \A y \in T : x <= y
  <2>1. ASSUME NEW y \in T PROVE x <= y
    <3>1. ~(<<y, x>> \in R) /\ x \in Nat /\ y \in Nat
      BY <1>6, <1>7
    <3>2. ~(y < x)
      BY <1>3, <3>1
    <3> QED BY <3>1, <3>2
  <2> QED BY <2>1
<1>9. \E m \in Latencies : \A n \in Latencies : n <= m
  <2>1. 255 - x \in Latencies /\ x \in Nat
    BY <1>6
  <2>2. ASSUME NEW n \in Latencies PROVE n <= 255 - x
    <3>1. x <= 255 - n /\ n \in 5..255
      BY <1>1, <1>5, <1>8
    <3> QED BY <2>1, <3>1
  <2> QED BY <2>1, <2>2
<1>10. Longest \in Latencies /\ \A n \in Latencies : n <= Longest
  BY <1>9 DEF Longest
<1>11. ASSUME HasL1, NEW lat \in LookupLatency PROVE lat + 5 <= Longest
  <2>1. lat \in Nat /\ 5 + lat \in Latencies
    BY <1>11, CacheAssumption DEF Latencies
  <2>2. 5 + lat <= Longest /\ Longest \in 5..255
    BY <1>1, <1>10, <2>1
  <2> QED BY <2>1, <2>2
<1> QED BY <1>1, <1>10, <1>11

LEMMA DeadlineGrows ==
  ASSUME CanBeOnTime
  PROVE  /\ \A k \in Nat : Deadline(k) \in Nat
         /\ \A k \in Nat \ {0} : k - 1 \in Nat /\ Deadline(k) = Deadline(k - 1) + 2 * Longest
         /\ \A j, k \in Nat : j <= k => Deadline(j) <= Deadline(k)
<1>1. PICK m \in Nat : m = Longest
  BY LongestIs
<1>2. \A k \in Nat : Deadline(k) = 2 * k * m
  BY <1>1 DEF Deadline
<1>3. \A k \in Nat : 2 * k * m \in Nat
  OBVIOUS
<1>4. ASSUME NEW k \in Nat \ {0}
      PROVE  k - 1 \in Nat /\ 2 * k * m = 2 * (k - 1) * m + 2 * m
  OBVIOUS
<1>5. ASSUME NEW j \in Nat, NEW k \in Nat, j <= k
      PROVE  2 * j * m <= 2 * k * m
  <2>1. PICK d \in Nat : k = j + d
    <3>1. k - j \in Nat /\ k = j + (k - j)
      BY <1>5
    <3> QED BY <3>1
  <2>2. 2 * k * m = 2 * j * m + 2 * d * m
    BY <2>1
  <2>3. 2 * j * m \in Nat /\ 2 * d * m \in Nat /\ 2 * k * m \in Nat
    BY <1>3
  <2> HIDE DEF Deadline
  <2> QED BY <2>2, <2>3
<1> QED BY <1>1, <1>2, <1>3, <1>4, <1>5

(* No instruction's latency is longer: it has its own, or the lookup of a  *)
(* load added what is allowed for.                                         *)
LEMMA NextLatencyInv ==
  ASSUME CanBeOnTime
  PROVE  IInv /\ ListInv /\ TimeInv /\ LatencyInv /\ [Next]_vars => LatencyInv'
<1> SUFFICES ASSUME IInv, ListInv, TimeInv, LatencyInv, [Next]_vars PROVE LatencyInv'
  OBVIOUS
<1>0. listInst \in Seq(InstData) /\ cycle \in Nat
  BY DEF IInv, TypeOK
<1>1. \A k \in Insts : listInst[k].latency \in Nat /\ At(k, "EX") \in Nat
  BY <1>0, StampsNat
<1>2. ASSUME Insts' = Insts, \A k \in Insts : Calm(k)
      PROVE  LatencyInv'
  BY <1>2 DEF LatencyInv, Calm
<1>3. CASE GoesOn \/ Finish
  <2>1. listInst' = listInst
    BY <1>3, GoesOnEffect DEF Finish
  <2> QED BY <1>2, <2>1 DEF Calm, Insts
<1>4. ASSUME NEW lat \in Answers, lat \in Nat, ExecuteWait(lat) \/ ExecuteComplete(lat)
      PROVE  LatencyInv'
  <2>1. /\ stage = "execute" /\ pos \in 1..Len(exec) /\ exec \in Seq(Node)
        /\ pos \in Nat /\ Len(exec) \in Nat
    BY <1>4, LenProperties DEF IInv, TypeOK, ExecuteWait, ExecuteComplete
  <2>2. PICK k \in Insts : k = exec[pos].data
    <3>1. exec[pos] \in Node
      BY <2>1, ElementOfSeq
    <3> QED BY <3>1 DEF Node
  <2> DEFINE L == AfterLookup(k, lat)
  <2>3. L[k].latency <= Longest
    <3>1. CASE LooksUp(k)
      <4>1. State(k) = "EX"
        <5>1. k \in DataOf(exec)
          BY <2>1, <2>2 DEF DataOf
        <5> QED BY <5>1 DEF ListInv, Placed
      <4>2. Own(k)
        <5>1. Waiting(k)
          BY <2>1, <2>2 DEF ListInv, OnceIn, Waiting
        <5>2. InTime(k)
          BY <2>1, <4>1 DEF TimeInv, TimeOf
        <5>3. At(k, "EX") = cycle - 1
          BY <1>0, <1>1, <3>1 DEF LooksUp
        <5> QED BY <5>1, <5>2, <5>3 DEF InTime
      <4>3. lat \in LookupLatency /\ lat + 5 < 256 /\ lat + 5 <= Longest
        BY <2>2, <3>1, LongestIs DEF Answers, CanBeOnTime, LooksUp
      <4>4. PICK own \in Nat : own = listInst[k].latency
        BY <1>1
      <4>5. own <= 5 /\ lat \in Nat /\ Longest \in Nat
        BY <1>4, <4>2, <4>4, LongestIs DEF Own
      <4>6. own + lat \in 0..255 /\ own + lat <= Longest
        BY <4>3, <4>5
      <4>7. \A n \in 0..255 : n % 256 = n
        OBVIOUS
      <4>8. L[k].latency = (own + lat) % 256
        BY <1>0, <1>4, <3>1, <4>4, LookupLatencies
      <4> QED BY <4>6, <4>7, <4>8
    <3>2. CASE ~LooksUp(k)
      BY <1>0, <1>4, <3>2, LookupLatencies DEF LatencyInv
    <3> QED BY <3>1, <3>2
  <2>4. \A m \in Insts : L[m].latency <= Longest
    BY <1>0, <1>4, <2>3, LookupLatencies DEF LatencyInv
  <2>5. L \in Seq(InstData) /\ Len(L) = Len(listInst) /\ "WB" \in InstState
    BY <1>0, <1>4, AfterLookupProperties DEF InstState
  <2>6. CASE ExecuteWait(lat)
    <3>1. listInst' = L /\ Insts' = Insts
      BY <2>2, <2>5, <2>6 DEF ExecuteWait, Insts
    <3> QED BY <2>4, <3>1 DEF LatencyInv
  <2>7. CASE ExecuteComplete(lat)
    <3>1. listInst' = Enter(L, k, "WB")
      BY <2>2, <2>7 DEF ExecuteComplete
    <3>2. \A m \in Insts : listInst'[m].latency = L[m].latency
      BY <2>5, <3>1, EnterLatency
    <3>3. Insts' = Insts
      BY <1>4, <2>7, ExecuteCompleteEffect DEF OneEnters, Insts
    <3> QED BY <2>4, <3>2, <3>3 DEF LatencyInv
  <2> QED BY <1>4, <2>6, <2>7
<1>5. CASE IssuePush
  <2>1. listInst' = Enter(listInst, issue[pos].data, "EX") /\ "EX" \in InstState
    BY <1>5 DEF IssuePush, InstState
  <2>2. issue[pos].data \in Insts /\ Insts' = Insts
    BY <1>5, IssuePushEffect DEF OneEnters, Insts
  <2> QED BY <1>0, <1>2, <2>1, <2>2, EnterLatency DEF Calm
<1>6. CASE DispatchMove
  <2>1. listInst' = Enter(listInst, disp[pos], "IS") /\ "IS" \in InstState
    BY <1>6 DEF DispatchMove, InstState
  <2>2. disp[pos] \in Insts /\ Insts' = Insts
    BY <1>6, DispatchMoveEffect DEF OneEnters, Insts
  <2> QED BY <1>0, <1>2, <2>1, <2>2, EnterLatency DEF Calm
<1>7. CASE DispatchDone
  <2>1. ASSUME NEW m \in Insts
        PROVE  Calm(m)
    <3>1. listInst[m] \in InstData
      BY <1>0, ElementOfSeq DEF Insts
    <3>2. listInst'[m] \in {listInst[m], [listInst[m] EXCEPT !.state = "ID",
                                                             !.cycle["ID"] = cycle]}
      BY <1>7 DEF DispatchDone
    <3>3. listInst'[m].latency = listInst[m].latency
      BY <3>1, <3>2 DEF InstData
    <3> QED BY <3>3 DEF Calm
  <2>2. Insts' = Insts
    BY <1>7, DispatchDoneEffect DEF Insts
  <2> QED BY <1>2, <2>1, <2>2
<1>8. ASSUME NEW e \in TraceEntry, FetchInst(e)
      PROVE  LatencyInv'
  <2>1. PICK new : new = Len(listInst) + 1
    OBVIOUS
  <2>2. Len(listInst) \in Nat /\ Insts' = Insts \cup {new} /\ listInst'[new] = NewInst(e)
    BY <1>8, <2>1, FetchInstEffect DEF Insts
  <2>3. \A m \in Insts : listInst'[m].latency = listInst[m].latency
    <3>1. listInst' = Append(listInst, NewInst(e)) /\ NewInst(e) \in InstData
      BY <1>8, FetchInstEffect DEF FetchInst
    <3> QED BY <1>0, <3>1, AppendProperties DEF Insts
  <2>4. NewInst(e).latency <= 5
    <3>1. NewInst(e).latency = IF e.type = 2 /\ HasL1 THEN 0 ELSE Latency(e.type)
      BY DEF NewInst
    <3>2. e.type \in 0..2
      BY TraceAssumption DEF Entry
    <3>3. \A t \in 0..2 : Latency(t) \in 1..5
      BY DEF Latency
    <3> QED BY <3>1, <3>2, <3>3
  <2>5. NewInst(e).latency \in Nat
    <3>1. NewInst(e) \in InstData
      BY <1>8, FetchInstEffect
    <3>2. NewInst(e).latency \in 0..255
      BY <3>1 DEF InstData
    <3> QED BY <3>2
  <2>6. NewInst(e).latency <= Longest
    BY <2>4, <2>5, LongestIs
  <2> QED BY <2>2, <2>3, <2>6 DEF LatencyInv
<1> QED BY <1>3, <1>4, <1>5, <1>6, <1>7, <1>8, StepCases
-----------------------------------------------------------------------------
(* When not all is done, one instruction is the oldest that is not.        *)
LEMMA OldestIs ==
  ASSUME IInv, NEW k \in Insts, State(k) # "WB"
  PROVE  \E m \in Insts : m <= k /\ Oldest(m)
<1> DEFINE R == OpToRel(<, Nat)
           T == {m \in Insts : State(m) # "WB"}
<1>1. IsWellFoundedOn(R, Nat)
  BY NatLessThanWellFounded
<1>2. ASSUME NEW x \in Nat, NEW y \in Nat, x < y PROVE <<x, y>> \in R
  BY <1>2 DEF OpToRel
<1>3. T \subseteq Nat /\ k \in T
  BY StampTypes DEF Insts
<1>4. \A m \in Insts : m \in Nat /\ (m \in T <=> State(m) # "WB")
  BY StampTypes DEF Insts
<1>5. T \subseteq Insts
  OBVIOUS
<1> HIDE DEF R, T
<1>6. PICK m \in T : \A y \in T : ~(<<y, m>> \in R)
  BY <1>1, <1>3, WFMin
<1>7. ASSUME NEW j \in Insts, j < m PROVE State(j) = "WB"
  <2>1. m \in Nat /\ j \in Nat
    BY <1>3, <1>4
  <2>2. <<j, m>> \in R
    BY <1>2, <1>7, <2>1
  <2> QED BY <1>4, <1>6, <2>2
<1>8. m <= k
  <2>1. m \in Nat /\ k \in Nat /\ ~(k < m)
    BY <1>3, <1>4, <1>7
  <2> QED BY <2>1
<1> QED BY <1>4, <1>5, <1>6, <1>7, <1>8 DEF Oldest

LEMMA OneOldest ==
  ASSUME IInv, NEW j \in Insts, NEW k \in Insts, Oldest(k), State(j) # "WB"
  PROVE  k <= j
<1>1. j \in Nat /\ k \in Nat
  BY StampTypes DEF Insts
<1>2. ~(j < k)
  BY DEF Oldest
<1> QED BY <1>1, <1>2

(* While an instruction is the oldest its deadline has not passed. *)
LEMMA OnPaceInTime ==
  ASSUME CanBeOnTime, IInv, StampInv, TimeInv, LatencyInv, stage # "done",
         NEW k \in Insts, Oldest(k), OnPace(k)
  PROVE  cycle <= Deadline(k)
<1>1. /\ cycle \in Nat /\ State(k) \in InstState /\ k \in Nat \ {0}
      /\ At(k, "IF") \in Nat /\ At(k, "EX") \in Nat /\ listInst[k].latency \in Nat
  <2>1. cycle \in Nat /\ State(k) \in InstState /\ k \in Nat \ {0}
    BY StampTypes DEF Insts
  <2>2. At(k, "IF") \in Nat
    BY StampTypes DEF InstState
  <2>3. At(k, "EX") \in Nat /\ listInst[k].latency \in Nat
    BY StampsNat DEF IInv, TypeOK
  <2> QED BY <2>1, <2>2, <2>3
<1>2. PICK b \in Nat : b = Deadline(k - 1)
  BY <1>1, DeadlineGrows
<1>3. PICK m \in Nat : m = Longest /\ 5 <= m
  BY LongestIs
<1>4. Deadline(k) = b + 2 * m
  BY <1>1, <1>2, <1>3, DeadlineGrows
<1>5. CASE State(k) = "IF"
  <2>1. At(k, "IF") <= b /\ At(k, "IF") = IF Late THEN cycle ELSE cycle - 1
    BY <1>2, <1>5 DEF OnPace, StampInv, StampOK, Stamped
  <2> QED BY <1>1, <1>3, <1>4, <2>1
<1>6. CASE State(k) = "ID"
  <2>1. cycle <= b + 2
    BY <1>2, <1>6 DEF OnPace
  <2> QED BY <1>1, <1>3, <1>4, <2>1
<1>7. CASE State(k) = "IS"
  <2>1. cycle <= b + m
    BY <1>2, <1>3, <1>7 DEF OnPace
  <2> QED BY <1>1, <1>3, <1>4, <2>1
<1>8. CASE State(k) = "EX"
  <2>1. At(k, "EX") <= b + m /\ listInst[k].latency <= m
    BY <1>2, <1>3, <1>8 DEF OnPace, LatencyInv
  <2>2. cycle <= At(k, "EX") + 1 \/ cycle <= At(k, "EX") + listInst[k].latency
    <3>1. InTime(k)
      BY <1>8 DEF TimeInv, TimeOf
    <3>2. At(k, "EX") <= cycle
      BY <3>1 DEF InTime
    <3>3. CASE At(k, "EX") >= cycle - 1
      BY <1>1, <3>3
    <3>4. CASE At(k, "EX") < cycle - 1
      <4>1. cycle <= Due(k) \/ cycle < Due(k)
        <5>1. At(k, "EX") < cycle
          BY <1>1, <3>4
        <5> QED BY <3>1, <3>4, <5>1 DEF InTime
      <4> QED BY <1>1, <4>1 DEF Due
    <3> QED BY <1>1, <3>3, <3>4
  <2> QED BY <1>1, <1>3, <1>4, <2>1, <2>2
<1>9. State(k) # "WB"
  BY DEF Oldest
<1> QED BY <1>1, <1>5, <1>6, <1>7, <1>8, <1>9 DEF InstState

(* No stamp lies ahead by more than what one is on its way in ID. *)
LEMMA StampBounds ==
  ASSUME IInv, StampInv, stage # "done"
  PROVE  \A j \in Insts : /\ At(j, "IF") \in Nat /\ At(j, "ID") \in Nat /\ At(j, "EX") \in Nat
                          /\ At(j, "IF") <= cycle
                          /\ State(j) = "ID" => At(j, "ID") <= cycle + 1
                          /\ State(j) = "EX" => At(j, "EX") <= cycle
<1>1. cycle \in Nat
  BY StampTypes
<1>2. SUFFICES ASSUME NEW j \in Insts
      PROVE  /\ At(j, "IF") \in Nat /\ At(j, "ID") \in Nat /\ At(j, "EX") \in Nat
             /\ At(j, "IF") <= cycle
             /\ State(j) = "ID" => At(j, "ID") <= cycle + 1
             /\ State(j) = "EX" => At(j, "EX") <= cycle
  OBVIOUS
<1>3. At(j, "IF") \in Nat /\ At(j, "ID") \in Nat /\ At(j, "EX") \in Nat
  <2>1. "IF" \in InstState /\ "ID" \in InstState /\ "EX" \in InstState
    BY DEF InstState
  <2> QED BY <2>1, StampTypes
<1>4. Stamped(j) /\ Paced(j)
  BY DEF StampInv, StampOK
<1>5. At(j, "IF") <= cycle
  BY <1>4 DEF Stamped
<1>6. State(j) = "ID" => At(j, "ID") = At(j, "IF") + 1
  BY <1>4 DEF Paced, Reached, Passed
<1>7. State(j) = "EX" => At(j, "EX") <= cycle
  BY <1>4 DEF Stamped, Reached, Passed
<1> QED BY <1>1, <1>3, <1>5, <1>6, <1>7

-----------------------------------------------------------------------------
(* The steps.  First those that change no instruction's state. *)
LEMMA StillOldest ==
  ASSUME Still
  PROVE  /\ Insts' = Insts /\ (AllDone' <=> AllDone) /\ Len(listInst') = Len(listInst)
         /\ \A k \in Insts : Oldest(k)' <=> Oldest(k)
<1>1. Insts' = Insts /\ \A k \in Insts : State(k)' = State(k)
  BY DEF Still, Same, Insts, State
<1> QED BY <1>1 DEF Oldest, AllDone, Still

LEMMA PaceStill ==
  ASSUME PaceInv, Still, cycle' = cycle, stage # "done", stage' # "done",
         \A k \in Insts : Oldest(k) /\ State(k) = "ID" /\ Late' => Late,
         \A k \in Insts : Oldest(k) /\ State(k) = "IS" /\ Issued' =>
                            Issued \/ cycle < Deadline(k - 1) + Longest
  PROVE  PaceInv'
<1>1. /\ Insts' = Insts /\ (AllDone' <=> AllDone) /\ Len(listInst') = Len(listInst)
      /\ \A k \in Insts : Oldest(k)' <=> Oldest(k)
  BY StillOldest
<1>2. \A k \in Insts : State(k)' = State(k) /\ \A st : At(k, st)' = At(k, st)
  BY DEF Still, Same, State, At
<1>3. ASSUME NEW k \in Insts, Oldest(k)' PROVE OnPace(k)'
  <2>1. Oldest(k) /\ OnPace(k)
    BY <1>1, <1>3 DEF PaceInv
  <2> QED BY <1>1, <1>2, <2>1 DEF OnPace
<1>4. AllDone' => cycle' <= Deadline(Len(listInst'))
  BY <1>1 DEF PaceInv
<1>5. \A k \in Insts' : State(k)' = "WB" => At(k, "WB")' <= Deadline(k)
  BY <1>1, <1>2 DEF PaceInv
<1> QED BY <1>1, <1>3, <1>4, <1>5 DEF PaceInv

(* When the issue stage ends and the oldest instruction is left in IS, it  *)
(* was ready, nothing older entered EX, and list_exec is full: the first   *)
(* of its nodes entered EX by the time this became the oldest.             *)
LEMMA IssueDonePace ==
  ASSUME CanKeepPace, IInv, ListInv, DepInv, StampInv, IssuedInv, TimeInv, LatencyInv, PaceInv,
         IssueDone, NEW k \in Insts, Oldest(k), State(k) = "IS"
  PROVE  cycle < Deadline(k - 1) + Longest
<1>1. /\ stage = "issue" /\ pos > Len(issue) /\ Len(issue) \in Nat /\ pos \in Nat
      /\ Len(exec) \in Nat /\ exec \in Seq(Node) /\ cycle \in Nat /\ N \in Nat /\ N > 0
  BY LenProperties, BandwidthAssumption DEF IssueDone, IInv, TypeOK, CanKeepPace
<1>2. PICK i \in 1..Len(issue) : issue[i].data = k
  <2>1. k \in DataOf(issue)
    BY DEF ListInv, Placed
  <2> QED BY <2>1 DEF DataOf
<1>3. OperandsReady(issue[i])
  <2>1. \A r : \A j \in Producers(k, r) : j \in Insts /\ j < k
    BY StampTypes, OneProducer
  <2>2. \A r \in Sources(k) : \A j \in Producers(k, r) : State(j) = "WB"
    BY <2>1 DEF Oldest
  <2> QED BY <1>2, <2>2, ReadyWhenDone
<1>4. Refused /\ OlderEntered(k)
  <2>1. i < pos
    BY <1>1
  <2> QED BY <1>1, <1>2, <1>3, <2>1 DEF IssuedInv
<1>5. Entering("EX") = {}
  <2>1. SUFFICES ASSUME NEW j \in Entering("EX") PROVE FALSE
    OBVIOUS
  <2>2. j \in Insts /\ At(j, "EX") = cycle /\ j < k
    BY <1>4 DEF Entering, OlderEntered
  <2>3. State(j) = "WB"
    BY <2>2 DEF Oldest
  <2>4. At(j, "EX") < cycle
    BY <1>1, <2>2, <2>3 DEF StampInv, StampOK, Stamped
  <2> QED BY <1>1, <2>2, <2>4
<1>6. count = 0
  <2>1. Cardinality({}) = 0
    BY FS_EmptySet
  <2> QED BY <1>1, <1>5, <2>1 DEF IssuedInv
<1>7. Len(exec) >= 5 * N
  <2>1. ~(len.exec < 5 * N)
    BY <1>1, <1>4, <1>6 DEF Refused, CanPush
  <2> QED BY <1>1, <2>1 DEF ListInv, Counted
<1>8. 1 \in 1..Len(exec)
  BY <1>1, <1>7
<1>9. PICK j \in Insts : j = exec[1].data
  <2>1. exec[1] \in Node
    BY <1>1, <1>8, ElementOfSeq
  <2> QED BY <2>1 DEF Node
<1>10. State(j) = "EX"
  <2>1. j \in DataOf(exec)
    BY <1>8, <1>9 DEF DataOf
  <2> QED BY <2>1 DEF ListInv, Placed
<1>11. InTime(j) /\ ~Waiting(j)
  BY <1>1, <1>10 DEF TimeInv, TimeOf, Waiting
<1>12. At(j, "EX") # cycle
  <2>1. Reached(j, "EX")
    BY <1>10 DEF Reached, Passed
  <2> QED BY <1>5, <2>1 DEF Entering
<1>13. At(j, "EX") \in Nat /\ listInst[j].latency \in Nat
  BY StampsNat DEF IInv, TypeOK
<1>14. cycle < At(j, "EX") + listInst[j].latency
  <2>1. At(j, "EX") < cycle
    BY <1>1, <1>11, <1>12, <1>13 DEF InTime
  <2> QED BY <1>11, <2>1 DEF InTime, Due
<1>15. At(j, "EX") <= Deadline(k - 1)
  <2>1. OnPace(k)
    BY <1>1 DEF PaceInv
  <2> QED BY <1>10, <2>1 DEF OnPace
<1>16. listInst[j].latency <= Longest
  BY DEF LatencyInv
<1>17. Deadline(k - 1) \in Nat /\ Longest \in Nat
  <2>1. k - 1 \in Nat
    BY StampTypes DEF Insts
  <2> QED BY <2>1, DeadlineGrows, LongestIs DEF CanKeepPace
<1> QED BY <1>1, <1>13, <1>14, <1>15, <1>16, <1>17

(* A node is on a list as long as something is in flight. *)
LEMMA BusyNotDone ==
  ASSUME IInv, ListInv
  PROVE  Busy <=> ~AllDone
<1>1. /\ Len(disp) \in Nat /\ Len(issue) \in Nat /\ Len(exec) \in Nat
      /\ len.disp = Len(disp) /\ len.issue = Len(issue) /\ len.exec = Len(exec)
  BY LenProperties DEF IInv, TypeOK, ListInv, Counted
<1>2. ASSUME AllDone PROVE ~Busy
  <2>1. Len(disp) = 0
    <3>1. SUFFICES ASSUME 1 \in 1..Len(disp) PROVE FALSE
      BY <1>1
    <3>2. disp[1] \in Insts /\ disp[1] \in ItemsOf(disp)
      BY <3>1, ElementOfSeq DEF IInv, TypeOK, ItemsOf
    <3> QED BY <1>2, <3>2 DEF ListInv, Placed, AllDone
  <2>2. Len(issue) = 0
    <3>1. SUFFICES ASSUME 1 \in 1..Len(issue) PROVE FALSE
      BY <1>1
    <3>2. issue[1] \in Node /\ issue[1].data \in DataOf(issue)
      BY <3>1, ElementOfSeq DEF IInv, TypeOK, DataOf
    <3>3. issue[1].data \in Insts
      BY <3>2 DEF Node
    <3> QED BY <1>2, <3>2, <3>3 DEF ListInv, Placed, AllDone
  <2>3. Len(exec) = 0
    <3>1. SUFFICES ASSUME 1 \in 1..Len(exec) PROVE FALSE
      BY <1>1
    <3>2. exec[1] \in Node /\ exec[1].data \in DataOf(exec)
      BY <3>1, ElementOfSeq DEF IInv, TypeOK, DataOf
    <3>3. exec[1].data \in Insts
      BY <3>2 DEF Node
    <3> QED BY <1>2, <3>2, <3>3 DEF ListInv, Placed, AllDone
  <2> QED BY <1>1, <2>1, <2>2, <2>3 DEF Busy
<1>3. ASSUME ~AllDone PROVE Busy
  <2>1. PICK k \in Insts : State(k) # "WB"
    BY <1>3 DEF AllDone
  <2>2. State(k) \in {"IF", "ID", "IS", "EX"}
    BY <2>1, StampTypes DEF InstState
  <2>3. CASE State(k) \in {"IF", "ID"}
    <3>1. k \in ItemsOf(disp)
      BY <2>3 DEF ListInv, Placed
    <3>2. Len(disp) # 0
      BY <1>1, <3>1 DEF ItemsOf
    <3> QED BY <1>1, <3>2 DEF Busy
  <2>4. CASE State(k) = "IS"
    <3>1. k \in DataOf(issue)
      BY <2>4 DEF ListInv, Placed
    <3>2. Len(issue) # 0
      BY <1>1, <3>1 DEF DataOf
    <3> QED BY <1>1, <3>2 DEF Busy
  <2>5. CASE State(k) = "EX"
    <3>1. k \in DataOf(exec)
      BY <2>5 DEF ListInv, Placed
    <3>2. Len(exec) # 0
      BY <1>1, <3>1 DEF DataOf
    <3> QED BY <1>1, <3>2 DEF Busy
  <2> QED BY <2>2, <2>3, <2>4, <2>5
<1> QED BY <1>2, <1>3

(* A step that goes on; the next cycle begins with the oldest instruction  *)
(* where it has to be.                                                     *)
LEMMA PaceGoesOn ==
  ASSUME CanKeepPace, IInv, ListInv, DepInv, StampInv, IssuedInv, TimeInv, LatencyInv, PaceInv,
         GoesOn
  PROVE  PaceInv'
<1>1. listInst' = listInst /\ Still
  BY GoesOnEffect, StillUnchanged
<1>2. CASE stage = "done"
  <2>1. UNCHANGED <<stage, cycle>>
    BY <1>2 DEF GoesOn, Retire, ExecuteDone, IssueSkip, IssueDone, DispatchSkip, FetchEOF,
       FetchDone, FetchSkip, Advance, vars
  <2>2. Insts' = Insts /\ (AllDone' <=> AllDone)
    BY <1>1, StillOldest
  <2>3. \A k \in Insts : State(k)' = State(k) /\ At(k, "WB")' = At(k, "WB")
    BY <1>1 DEF State, At
  <2> QED BY <1>2, <2>1, <2>2, <2>3 DEF PaceInv
<1>3. CASE Advance
  <2>1. cycle' = cycle + 1 /\ stage = "advance" /\ stage' = "retire" /\ Busy
    BY <1>3, AdvanceCycle DEF Advance
  <2>2. /\ Insts' = Insts /\ (AllDone' <=> AllDone) /\ ~AllDone
        /\ \A k \in Insts : Oldest(k)' <=> Oldest(k)
    BY <1>1, <2>1, StillOldest, BusyNotDone
  <2>3. \A k \in Insts : State(k)' = State(k) /\ \A st : At(k, st)' = At(k, st)
    BY <1>1 DEF State, At
  <2>4. ASSUME NEW k \in Insts, Oldest(k)' PROVE OnPace(k)'
    <3>1. OnPace(k)
      BY <2>1, <2>2, <2>4 DEF PaceInv
    <3>2. Deadline(k - 1) \in Nat /\ Longest \in Nat /\ cycle \in Nat
      <4>1. k - 1 \in Nat /\ cycle \in Nat
        BY StampTypes DEF Insts
      <4> QED BY <4>1, DeadlineGrows, LongestIs DEF CanKeepPace
    <3>3. State(k) = "ID" => cycle' <= Deadline(k - 1) + 2
      BY <2>1, <3>1, <3>2 DEF OnPace, Late
    <3>4. State(k) = "IS" => cycle' <= Deadline(k - 1) + Longest
      BY <2>1, <3>1, <3>2 DEF OnPace, Issued
    <3>5. ~Late' /\ ~Issued'
      BY <2>1 DEF Late, Issued
    <3> QED BY <2>2, <2>3, <3>1, <3>3, <3>4, <3>5 DEF OnPace
  <2> QED BY <2>1, <2>2, <2>3, <2>4 DEF PaceInv
<1>4. CASE stage # "done" /\ ~Advance
  <2>1. cycle' = cycle /\ stage' # "done" /\ (Late' => Late)
    <3>1. cycle' = cycle
      BY <1>4, GoesOnStage
    <3>2. stage' # "done" /\ (Late' => Late)
      BY <1>4 DEF GoesOn, Retire, ExecuteDone, IssueSkip, IssueDone, DispatchSkip, FetchEOF,
         FetchDone, FetchSkip, vars, GoTo, Late
    <3> QED BY <3>1, <3>2
  <2>2. (Issued' => Issued) \/ IssueDone
    BY <1>4 DEF GoesOn, Retire, ExecuteDone, IssueSkip, DispatchSkip, FetchEOF,
       FetchDone, FetchSkip, vars, GoTo, Issued
  <2>3. \A k \in Insts : Oldest(k) /\ State(k) = "IS" /\ Issued' =>
                           Issued \/ cycle < Deadline(k - 1) + Longest
    BY <2>2, IssueDonePace
  <2> QED BY <1>1, <1>4, <2>1, <2>3, PaceStill
<1> QED BY <1>2, <1>3, <1>4 DEF GoesOn, Advance
(* What the clauses of PaceInv are for an instruction a step leaves in the *)
(* state it is in, or not.                                                 *)
LEMMA PaceFetchInst ==
  ASSUME CanKeepPace, IInv, PaceInv, NEW e \in TraceEntry, FetchInst(e)
  PROVE  PaceInv'
<1>0. PICK new : new = Len(listInst) + 1
  OBVIOUS
<1>1. /\ Len(listInst) \in Nat /\ Insts' = Insts \cup {new} /\ Len(listInst') = new
      /\ \A m \in Insts : Same(m)
  BY <1>0, FetchInstEffect DEF Insts
<1>2. \A m \in Insts : State(m)' = State(m) /\ \A st : At(m, st)' = At(m, st)
  BY <1>1 DEF Same, State, At
<1>3. stage = "fetch" /\ UNCHANGED <<stage, cycle>>
  BY DEF FetchInst
<1>4. State(new)' = "IF" /\ At(new, "IF")' = cycle
  <2>1. listInst'[new] = NewInst(e)
    BY <1>0, FetchInstEffect
  <2>2. NewInst(e).state = "IF" /\ NewInst(e).cycle["IF"] = cycle
    BY DEF NewInst, InstState
  <2> QED BY <2>1, <2>2 DEF State, At
<1>5. \A m \in Insts : m \in Nat /\ m < new /\ ~(new < m)
  BY <1>0, <1>1 DEF Insts
<1>6. ASSUME NEW k \in Insts', Oldest(k)' PROVE OnPace(k)'
  <2>1. CASE k = new
    <3>1. AllDone
      BY <1>1, <1>2, <1>5, <1>6, <2>1 DEF Oldest, AllDone
    <3>2. cycle <= Deadline(new - 1)
      <4>1. cycle <= Deadline(Len(listInst))
        BY <1>3, <3>1 DEF PaceInv
      <4>2. Len(listInst) = new - 1
        BY <1>0, <1>1
      <4> QED BY <4>1, <4>2
    <3> QED BY <1>3, <1>4, <2>1, <3>2 DEF OnPace
  <2>2. CASE k \in Insts
    <3>1. Oldest(k) /\ OnPace(k)
      BY <1>1, <1>2, <1>3, <1>6, <2>2 DEF Oldest, PaceInv
    <3>2. Late' = Late /\ Issued' = Issued
      BY <1>3 DEF Late, Issued
    <3>3. \A j \in Insts' : State(j)' = "EX" => j \in Insts /\ State(j) = "EX"
      BY <1>1, <1>2, <1>4
    <3> QED BY <1>2, <1>3, <2>2, <3>1, <3>2, <3>3 DEF OnPace
  <2> QED BY <1>1, <2>1, <2>2
<1>7. ~AllDone'
  BY <1>1, <1>4 DEF AllDone
<1>8. \A k \in Insts' : State(k)' = "WB" => At(k, "WB")' <= Deadline(k)
  BY <1>1, <1>2, <1>4 DEF PaceInv
<1> QED BY <1>3, <1>6, <1>7, <1>8 DEF PaceInv

(* One instruction enters IS or EX: the oldest stays the oldest. *)
LEMMA MovesOldest ==
  ASSUME IInv, NEW x \in Insts, NEW st \in {"IS", "EX"}, OneEnters(x, st), State(x) # "WB"
  PROVE  /\ Insts' = Insts /\ Len(listInst') = Len(listInst)
         /\ ~AllDone /\ ~AllDone' /\ State(x)' = st /\ At(x, st)' = cycle
         /\ \A k \in Insts : (Oldest(k)' <=> Oldest(k)) /\ (State(k)' = "WB" <=> State(k) = "WB")
         /\ \A k \in Insts \ {x} : State(k)' = State(k) /\ \A s \in InstState : At(k, s)' = At(k, s)
         /\ \A s \in InstState \ {st} : At(x, s)' = At(x, s)
<1>1. "IS" \in InstState /\ "EX" \in InstState
  BY DEF InstState
<1>2. /\ Insts' = Insts /\ Len(listInst') = Len(listInst) /\ State(x)' = st /\ At(x, st)' = cycle
      /\ \A k \in Insts \ {x} : State(k)' = State(k) /\ \A s \in InstState : At(k, s)' = At(k, s)
      /\ \A s \in InstState \ {st} : At(x, s)' = At(x, s)
  BY <1>1, OneEntersStates
<1>3. \A k \in Insts : State(k)' = "WB" <=> State(k) = "WB"
  BY <1>2
<1>4. \A k \in Insts : Oldest(k)' <=> Oldest(k)
  BY <1>2, <1>3 DEF Oldest
<1>5. ~AllDone /\ ~AllDone'
  BY <1>2, <1>3 DEF AllDone
<1> QED BY <1>2, <1>3, <1>4, <1>5

(* dis_issue: nothing younger enters EX while the oldest waits in IS. *)
LEMMA PaceIssuePush ==
  ASSUME CanKeepPace, IInv, ListInv, DepInv, IssuedInv, PaceInv, IssuePush
  PROVE  PaceInv'
<1>1. /\ stage = "issue" /\ UNCHANGED <<stage, cycle>> /\ Len(issue) \in Nat /\ pos \in Nat
      /\ pos \in 1..Len(issue) /\ N \in Nat /\ cycle \in Nat
  BY LenProperties, BandwidthAssumption DEF IssuePush, IInv, TypeOK
<1>2. PICK x \in Insts : x = issue[pos].data /\ OneEnters(x, "EX")
  BY IssuePushEffect
<1>3. State(x) = "IS" /\ CanPush("exec") /\ count < N /\ count \in Nat
  BY <1>2 DEF IssuePush, CanIssue, IInv, TypeOK
<1>4. /\ Insts' = Insts /\ ~AllDone' /\ State(x)' = "EX" /\ At(x, "EX")' = cycle
      /\ \A k \in Insts : (Oldest(k)' <=> Oldest(k)) /\ (State(k)' = "WB" <=> State(k) = "WB")
      /\ \A k \in Insts \ {x} : State(k)' = State(k) /\ \A s \in InstState : At(k, s)' = At(k, s)
  BY <1>2, <1>3, MovesOldest
<1>5. {"IF", "ID", "IS", "EX", "WB"} \subseteq InstState
  BY DEF InstState
<1>6. ASSUME NEW k \in Insts, Oldest(k)' PROVE OnPace(k)'
  <2>1. Oldest(k) /\ OnPace(k)
    BY <1>1, <1>4, <1>6 DEF PaceInv
  <2>2. CASE k = x
    <3>1. cycle <= Deadline(k - 1) + Longest
      BY <1>3, <2>1, <2>2 DEF OnPace
    <3> QED BY <1>1, <1>4, <2>2, <3>1 DEF OnPace
  <2>3. CASE k # x
    <3>1. State(k) # "IS"
      <4>1. SUFFICES ASSUME State(k) = "IS" PROVE FALSE
        OBVIOUS
      <4>2. PICK i \in 1..Len(issue) : issue[i].data = k
        <5>1. k \in DataOf(issue)
          BY <4>1 DEF ListInv, Placed
        <5> QED BY <5>1 DEF DataOf
      <4>3. i < pos
        <5>1. k <= x /\ k \in Nat /\ x \in Nat
          <6>1. State(x) # "WB"
            BY <1>3
          <6> QED BY <2>1, <6>1, OneOldest, StampTypes DEF Insts
        <5>2. i \in Nat /\ (pos < i => issue[pos].data < issue[i].data) /\ i # pos
          BY <1>1, <1>2, <2>3, <4>2 DEF IInv, InOrder
        <5>3. ~(pos < i)
          BY <1>2, <4>2, <5>1, <5>2
        <5> QED BY <1>1, <5>2, <5>3
      <4>4. OperandsReady(issue[i])
        <5>1. \A r : \A j \in Producers(k, r) : j \in Insts /\ j < k
          BY StampTypes, OneProducer
        <5>2. \A r \in Sources(k) : \A j \in Producers(k, r) : State(j) = "WB"
          BY <2>1, <5>1 DEF Oldest
        <5> QED BY <4>2, <5>2, ReadyWhenDone
      <4>5. Refused
        BY <1>1, <4>3, <4>4 DEF IssuedInv
      <4> QED BY <1>1, <1>3, <4>5 DEF Refused
    <3>2. /\ State(k)' = State(k) /\ At(k, "IF")' = At(k, "IF") /\ At(k, "ID")' = At(k, "ID")
          /\ At(k, "EX")' = At(k, "EX")
      BY <1>4, <1>5, <2>3
    <3>3. ~Late /\ ~Issued /\ ~Late' /\ ~Issued'
      BY <1>1 DEF Late, Issued
    <3> QED BY <1>1, <2>1, <3>1, <3>2, <3>3 DEF OnPace
  <2> QED BY <2>2, <2>3
<1>7. \A k \in Insts : State(k)' = "WB" => At(k, "WB")' <= Deadline(k)
  BY <1>4, <1>5 DEF PaceInv
<1> QED BY <1>1, <1>4, <1>6, <1>7 DEF PaceInv

(* dis_dispatch: what it moves is older than all that is in list_disp, and *)
(* when that is the oldest of all nothing is in EX.                        *)
LEMMA PaceDispatchMove ==
  ASSUME CanKeepPace, IInv, ListInv, DepInv, PaceInv, DispatchMove
  PROVE  PaceInv'
<1>1. stage = "dispatch" /\ UNCHANGED <<stage, cycle>> /\ cycle \in Nat /\ Len(disp) \in Nat
  BY LenProperties DEF DispatchMove, IInv, TypeOK
<1>2. PICK x \in Insts : x = disp[1] /\ OneEnters(x, "IS") /\ 1 \in 1..Len(disp) /\ pos = 1
  BY DispatchMoveEffect
<1>3. State(x) = "ID"
  BY <1>2 DEF DispatchMove, CanDispatch
<1>4. /\ Insts' = Insts /\ ~AllDone' /\ State(x)' = "IS"
      /\ \A k \in Insts : (Oldest(k)' <=> Oldest(k)) /\ (State(k)' = "WB" <=> State(k) = "WB")
      /\ \A k \in Insts \ {x} : State(k)' = State(k) /\ \A s \in InstState : At(k, s)' = At(k, s)
  BY <1>2, <1>3, MovesOldest
<1>5. {"IF", "ID", "IS", "EX", "WB"} \subseteq InstState
  BY DEF InstState
<1>6. ASSUME NEW k \in Insts, Oldest(k)' PROVE OnPace(k)'
  <2>1. Oldest(k) /\ OnPace(k)
    BY <1>1, <1>4, <1>6 DEF PaceInv
  <2>2. CASE k = x
    <3>1. \A j \in Insts : State(j)' # "EX"
      <4>1. SUFFICES ASSUME NEW j \in Insts, State(j) = "EX" PROVE FALSE
        BY <1>4
      <4>2. Reached(j, "IS") /\ ~Reached(k, "IS")
        BY <1>3, <2>2, <4>1 DEF Reached, Passed
      <4>3. j < k
        BY <4>2 DEF DepInv, DispatchedOlder
      <4> QED BY <2>1, <4>1, <4>3 DEF Oldest
    <3>2. cycle <= Deadline(k - 1) + 2
      BY <1>3, <2>1, <2>2 DEF OnPace
    <3>3. Deadline(k - 1) \in Nat /\ Longest \in Nat /\ 5 <= Longest
      <4>1. k - 1 \in Nat
        BY StampTypes DEF Insts
      <4> QED BY <4>1, DeadlineGrows, LongestIs DEF CanKeepPace
    <3>4. cycle <= Deadline(k - 1) + Longest /\ cycle < Deadline(k - 1) + Longest
      BY <1>1, <3>2, <3>3
    <3> QED BY <1>1, <1>4, <2>2, <3>1, <3>4 DEF OnPace
  <2>3. CASE k # x
    <3>1. State(k) \in {"IS", "EX"}
      <4>1. SUFFICES ASSUME State(k) \notin {"IS", "EX"} PROVE FALSE
        OBVIOUS
      <4>2. State(k) \in {"IF", "ID"}
        BY <2>1, <4>1, StampTypes DEF InstState, Oldest
      <4>3. PICK i \in 1..Len(disp) : disp[i] = k
        <5>1. k \in ItemsOf(disp)
          BY <4>2 DEF ListInv, Placed
        <5> QED BY <5>1 DEF ItemsOf
      <4>4. 1 < i
        BY <1>1, <1>2, <2>3, <4>3
      <4>5. x < k
        BY <1>2, <4>3, <4>4 DEF IInv, InOrder
      <4> QED BY <1>3, <2>1, <4>5 DEF Oldest
    <3>2. State(k)' = State(k) /\ At(k, "EX")' = At(k, "EX")
      BY <1>4, <1>5, <2>3
    <3>3. \A j \in Insts : State(j)' = "EX" => State(j) = "EX" /\ At(j, "EX")' = At(j, "EX")
      BY <1>4, <1>5
    <3>4. Issued /\ Issued'
      BY <1>1 DEF Issued
    <3> QED BY <1>1, <1>4, <2>1, <3>1, <3>2, <3>3, <3>4 DEF OnPace
  <2> QED BY <2>2, <2>3
<1>7. \A k \in Insts : State(k)' = "WB" => At(k, "WB")' <= Deadline(k)
  BY <1>3, <1>4, <1>5 DEF PaceInv
<1> QED BY <1>1, <1>4, <1>6, <1>7 DEF PaceInv
(* At the end of the dispatch stage the oldest instruction, if it is in    *)
(* ID, got there just now: the scheduling queue is empty before it.        *)
LEMMA PaceDispatchDone ==
  ASSUME CanKeepPace, IInv, ListInv, StampInv, QueueInv, QueueInv', PaceInv, DispatchDone
  PROVE  PaceInv'
<1>1. /\ stage = "dispatch" /\ stage' = "fetch" /\ cycle' = cycle /\ cycle \in Nat
      /\ len' = len /\ S \in Nat /\ S > 0 /\ Len(issue) \in Nat
  BY LenProperties, BandwidthAssumption DEF DispatchDone, GoTo, IInv, TypeOK, CanKeepPace
<1>2. /\ Len(listInst') = Len(listInst) /\ Insts' = Insts
      /\ \A m \in Insts : Same(m) \/ (State(m) = "IF" /\ Enters(m, "ID"))
  BY DispatchDoneEffect DEF Insts
<1>3. {"IF", "ID", "IS", "EX", "WB"} \subseteq InstState
  BY DEF InstState
<1>4. \A m \in Insts :
        \/ State(m)' = State(m) /\ \A st \in InstState : At(m, st)' = At(m, st)
        \/ /\ State(m) = "IF" /\ State(m)' = "ID" /\ At(m, "ID")' = cycle
           /\ \A st \in InstState \ {"ID"} : At(m, st)' = At(m, st)
  BY <1>2, <1>3, SameStamps, EntersStamps
<1>5. \A m \in Insts : /\ State(m)' = "WB" <=> State(m) = "WB"
                       /\ State(m)' = "EX" <=> State(m) = "EX"
                       /\ State(m)' = "IS" <=> State(m) = "IS"
                       /\ At(m, "EX")' = At(m, "EX") /\ At(m, "WB")' = At(m, "WB")
  BY <1>3, <1>4
<1>6. ASSUME NEW k \in Insts, Oldest(k)' PROVE OnPace(k)'
  <2>1. Oldest(k) /\ OnPace(k)
    BY <1>1, <1>2, <1>5, <1>6 DEF Oldest, PaceInv
  <2>2. Deadline(k - 1) \in Nat
    <3>1. k - 1 \in Nat
      BY StampTypes DEF Insts
    <3> QED BY <3>1, DeadlineGrows DEF CanKeepPace
  <2>3. Issued /\ Issued' /\ Late' /\ ~Late
    BY <1>1 DEF Issued, Late
  <2>4. State(k)' # "IF"
    <3>1. State(k) = "IF" => Enters(k, "ID")
      BY AllGoToID
    <3>2. State(k) = "IF" => State(k)' = "ID"
      BY <1>3, <3>1, EntersStamps
    <3> QED BY <1>4, <3>2
  <2>5. State(k)' = "ID" => At(k, "ID")' = cycle /\ cycle <= Deadline(k - 1) + 1
    <3>1. CASE State(k) = "IF"
      <4>1. At(k, "ID")' = cycle
        BY <1>3, <3>1, AllGoToID, EntersStamps
      <4>2. At(k, "IF") <= Deadline(k - 1) /\ At(k, "IF") = cycle - 1
        BY <1>1, <2>1, <2>3, <3>1 DEF OnPace, StampInv, StampOK, Stamped
      <4> QED BY <1>1, <2>2, <4>1, <4>2
    <3>2. CASE State(k) = "ID"
      <4>1. State(k)' = "ID" /\ At(k, "ID")' = At(k, "ID")
        BY <1>3, <1>4, <3>2
      <4>2. len.issue = 0
        <5>1. SUFFICES ASSUME 1 \in 1..Len(issue) PROVE FALSE
          BY <1>1 DEF ListInv, Counted
        <5>2. PICK j \in Insts : j = issue[1].data
          <6>1. issue[1] \in Node
            BY <5>1, ElementOfSeq DEF IInv, TypeOK
          <6> QED BY <6>1 DEF Node
        <5>3. State(j) = "IS"
          <6>1. j \in DataOf(issue)
            BY <5>1, <5>2 DEF DataOf
          <6> QED BY <6>1 DEF ListInv, Placed
        <5>4. PICK i \in 1..Len(disp) : disp[i] = k
          <6>1. k \in ItemsOf(disp)
            BY <3>2 DEF ListInv, Placed
          <6> QED BY <6>1 DEF ItemsOf
        <5>5. j < k
          BY <5>1, <5>2, <5>4 DEF IInv, InOrder
        <5> QED BY <2>1, <5>3, <5>5 DEF Oldest
      <4>3. len'.issue # S
        BY <1>1, <4>2
      <4>4. At(k, "ID")' = cycle'
        <5>1. \A m \in Insts' : State(m)' = "ID" => At(m, "ID")' = cycle'
          BY <1>1, <4>3 DEF QueueInv, InState
        <5> QED BY <1>2, <4>1, <5>1
      <4>5. At(k, "ID") <= Deadline(k - 1) + 1
        BY <2>1, <3>2 DEF OnPace
      <4> QED BY <1>1, <4>1, <4>4, <4>5
    <3> QED BY <1>4, <3>1, <3>2
  <2>6. cycle <= Deadline(k - 1) + 1 => cycle <= Deadline(k - 1) + 2
    BY <1>1, <2>2
  <2> QED BY <1>1, <1>2, <1>5, <2>1, <2>3, <2>4, <2>5, <2>6 DEF OnPace
<1>7. AllDone' <=> AllDone
  BY <1>2, <1>5 DEF AllDone
<1> QED BY <1>1, <1>2, <1>5, <1>6, <1>7 DEF PaceInv

(* An instruction is written back, no later than the oldest had to be; and *)
(* whichever is the oldest after it is on pace.                            *)
LEMMA PaceExecuteComplete ==
  ASSUME CanKeepPace, IInv, ListInv, StampInv, TimeInv, LatencyInv, PaceInv,
         NEW lat \in Nat, ExecuteComplete(lat)
  PROVE  PaceInv'
<1>1. /\ stage = "execute" /\ UNCHANGED <<stage, cycle>> /\ cycle \in Nat
      /\ Len(listInst) \in Nat /\ "WB" \in InstState /\ exec \in Seq(Node)
  BY LenProperties DEF ExecuteComplete, IInv, TypeOK, InstState
<1>2. PICK x \in Insts : x = exec[pos].data /\ OneEnters(x, "WB") /\ pos \in 1..Len(exec)
  BY ExecuteCompleteEffect
<1>3. State(x) = "EX"
  <2>1. x \in DataOf(exec)
    BY <1>2 DEF DataOf
  <2> QED BY <2>1 DEF ListInv, Placed
<1>4. /\ Insts' = Insts /\ Len(listInst') = Len(listInst)
      /\ State(x)' = "WB" /\ At(x, "WB")' = cycle
      /\ \A k \in Insts \ {x} : State(k)' = State(k) /\ \A s : At(k, s)' = At(k, s)
  BY <1>1, <1>2, OneEntersStates
<1>5. PICK m \in Insts : m <= x /\ Oldest(m)
  BY <1>3, OldestIs
<1>6. cycle <= Deadline(m)
  <2>1. OnPace(m)
    BY <1>1, <1>5 DEF PaceInv
  <2> QED BY <1>1, <1>5, <2>1, OnPaceInTime DEF CanKeepPace
<1>7. \A k \in Insts : k \in Nat \ {0} /\ k - 1 \in Nat /\ k <= Len(listInst)
  BY <1>1 DEF Insts
<1>8. \A j, k \in Nat : j <= k => Deadline(j) <= Deadline(k)
  BY DeadlineGrows DEF CanKeepPace
<1>9. \A k \in Nat : Deadline(k) \in Nat
  BY DeadlineGrows DEF CanKeepPace
<1>10. ASSUME NEW k \in Nat, m <= k PROVE cycle <= Deadline(k)
  <2>1. Deadline(m) <= Deadline(k) /\ Deadline(m) \in Nat /\ Deadline(k) \in Nat
    BY <1>7, <1>8, <1>9, <1>10
  <2> QED BY <1>1, <1>6, <2>1
<1>11. \A k \in Insts' : State(k)' = "WB" => At(k, "WB")' <= Deadline(k)
  <2>1. cycle <= Deadline(x)
    BY <1>5, <1>7, <1>10
  <2>2. \A k \in Insts \ {x} : State(k)' = "WB" => At(k, "WB")' <= Deadline(k)
    BY <1>4 DEF PaceInv
  <2> QED BY <1>4, <2>1, <2>2
<1>12. ASSUME NEW k \in Insts, Oldest(k)' PROVE OnPace(k)'
  <2>1. k # x /\ State(k)' = State(k) /\ State(k) # "WB" /\ \A s : At(k, s)' = At(k, s)
    BY <1>4, <1>12 DEF Oldest
  <2>2. m <= k
    BY <1>5, <2>1, OneOldest
  <2>3. CASE m = k
    <3>1. OnPace(k)
      BY <1>1, <1>5, <2>3 DEF PaceInv
    <3>2. Late' = Late /\ Issued' = Issued
      BY <1>1 DEF Late, Issued
    <3>3. \A j \in Insts : State(j)' = "EX" => State(j) = "EX" /\ At(j, "EX")' = At(j, "EX")
      BY <1>4
    <3> QED BY <1>1, <1>4, <2>1, <3>1, <3>2, <3>3 DEF OnPace
  <2>4. CASE m # k
    <3>1. m <= k - 1
      BY <1>7, <2>2, <2>4
    <3>2. PICK b \in Nat : b = Deadline(k - 1)
      BY <1>7, <1>9
    <3>3. PICK l \in Nat : l = Longest /\ 5 <= l
      BY LongestIs DEF CanKeepPace
    <3>4. cycle <= b
      BY <1>7, <1>10, <3>1, <3>2
    <3>5. \A n \in Nat : n <= cycle => n <= b /\ n <= b + l
      BY <1>1, <3>4
    <3>6. cycle <= b + 1 /\ cycle <= b + 2 /\ cycle <= b + l /\ cycle < b + l
      BY <1>1, <3>3, <3>4
    <3>7. State(k) = "ID" => At(k, "ID") <= b + 1
      BY <1>1, <3>4, StampBounds
    <3>8. State(k) = "IF" => At(k, "IF") <= b
      BY <1>1, <3>5, StampBounds
    <3>9. \A j \in Insts : State(j) = "EX" => At(j, "EX") <= b /\ At(j, "EX") <= b + l
      BY <1>1, <3>5, StampBounds
    <3>10. \A j \in Insts : State(j)' = "EX" => State(j) = "EX" /\ At(j, "EX")' = At(j, "EX")
      BY <1>4
    <3> QED BY <1>1, <1>4, <2>1, <3>2, <3>3, <3>6, <3>7, <3>8, <3>9, <3>10 DEF OnPace
  <2> QED BY <2>3, <2>4
<1>13. cycle <= Deadline(Len(listInst))
  BY <1>1, <1>7, <1>10
<1> QED BY <1>1, <1>4, <1>11, <1>12, <1>13 DEF PaceInv

(* The loop is left with nothing in flight, or because the counter of      *)
(* cycles wrapped to zero.                                                 *)
LEMMA PaceFinish ==
  ASSUME IInv, ListInv, PaceInv, Finish
  PROVE  PaceInv'
<1>1. /\ listInst' = listInst /\ stage' = "done" /\ ~(Busy /\ NextCycle # 0)
      /\ cycle' = IF Busy THEN NextCycle ELSE cycle
  BY DEF Finish, GoTo
<1>2. /\ Insts' = Insts /\ (AllDone' <=> AllDone)
      /\ \A k \in Insts : State(k)' = State(k) /\ At(k, "WB")' = At(k, "WB")
  BY <1>1, StillUnchanged, StillOldest DEF State, At
<1>3. cycle' = 0 \/ AllDone
  BY <1>1, BusyNotDone
<1> QED BY <1>1, <1>2, <1>3 DEF PaceInv
-----------------------------------------------------------------------------
LEMMA NextPaceInv ==
  ASSUME CanKeepPace
  PROVE  /\ IInv /\ ListInv /\ DepInv /\ StampInv /\ QueueInv /\ IssuedInv /\ TimeInv
         /\ LatencyInv /\ PaceInv /\ QueueInv' /\ [Next]_vars
         => PaceInv'
<1> SUFFICES ASSUME IInv, ListInv, DepInv, StampInv, QueueInv, IssuedInv, TimeInv, LatencyInv,
                    PaceInv, QueueInv', [Next]_vars
             PROVE  PaceInv'
  OBVIOUS
<1>1. ASSUME NEW lat \in Nat, ExecuteWait(lat)
      PROVE  PaceInv'
  <2>1. UNCHANGED <<stage, cycle>> /\ stage = "execute" /\ Still
    BY <1>1, ExecuteWaitEffect DEF ExecuteWait
  <2> QED BY <2>1, PaceStill DEF Late, Issued
<1>2. ASSUME NEW lat \in Nat, ExecuteComplete(lat)
      PROVE  PaceInv'
  BY <1>2, PaceExecuteComplete
<1>3. ASSUME NEW e \in TraceEntry, FetchInst(e)
      PROVE  PaceInv'
  BY <1>3, PaceFetchInst
<1> QED BY <1>1, <1>2, <1>3, StepCases, PaceGoesOn, PaceIssuePush, PaceDispatchMove,
           PaceDispatchDone, PaceFinish

LEMMA PaceInvHolds ==
  ASSUME CanKeepPace
  PROVE  Spec => []( /\ IInv /\ ListInv /\ DepInv /\ StampInv /\ QueueInv /\ IssuedInv
                     /\ TimeInv /\ LatencyInv /\ PaceInv)
<1>1. N < CounterMod /\ CanBeOnTime
  BY DEF CanKeepPace, CanBeOnTime
<1>2. Init => TimeInv /\ LatencyInv /\ PaceInv
  <2> SUFFICES ASSUME Init PROVE TimeInv /\ LatencyInv /\ PaceInv
    OBVIOUS
  <2>1. Len(listInst) = 0 /\ Insts = {} /\ stage = "retire" /\ cycle = 0
    BY EmptySeq DEF Init, Insts
  <2>2. Deadline(0) \in Nat
    BY <1>1, DeadlineGrows
  <2> QED BY <2>1, <2>2 DEF TimeInv, LatencyInv, PaceInv
<1>3. /\ IInv /\ ListInv /\ DepInv /\ StampInv /\ QueueInv /\ IssuedInv /\ TimeInv /\ LatencyInv
      /\ PaceInv /\ QueueInv' /\ [Next]_vars
      => PaceInv'
  BY NextPaceInv
<1>4. IInv /\ ListInv /\ DepInv /\ TimeInv /\ [Next]_vars => TimeInv'
  BY <1>1, NextTimeInv
<1>5. IInv /\ ListInv /\ TimeInv /\ LatencyInv /\ [Next]_vars => LatencyInv'
  BY <1>1, NextLatencyInv
<1>6. Spec => [](IInv /\ ListInv /\ DepInv /\ StampInv /\ QueueInv /\ IssuedInv)
  BY <1>1, IssuedInvHolds
<1> QED BY <1>2, <1>3, <1>4, <1>5, <1>6, PTL DEF Spec

LEMMA PaceInvKeepsPace ==
  ASSUME CanKeepPace, IInv, StampInv, TimeInv, LatencyInv, PaceInv
  PROVE  KeepsPace
<1>1. /\ cycle \in Nat /\ \A k \in Insts : k \in Nat
  BY StampTypes DEF Insts
<1>2. /\ \A k \in Nat : Deadline(k) \in Nat
      /\ \A j, k \in Nat : j <= k => Deadline(j) <= Deadline(k)
  BY DeadlineGrows DEF CanKeepPace
<1>3. \A k \in Insts : State(k) = "WB" => At(k, "WB") <= Deadline(k)
  BY DEF PaceInv
<1>4. ASSUME NEW k \in Insts, State(k) # "WB"
      PROVE  cycle <= Deadline(k)
  <2>1. CASE stage = "done"
    <3>1. cycle = 0
      BY <1>4, <2>1 DEF PaceInv, AllDone
    <3>2. Deadline(k) \in Nat
      BY <1>1, <1>2
    <3> QED BY <3>1, <3>2
  <2>2. CASE stage # "done"
    <3>1. PICK m \in Insts : m <= k /\ Oldest(m)
      BY <1>4, OldestIs
    <3>2. cycle <= Deadline(m)
      <4>1. OnPace(m)
        BY <2>2, <3>1 DEF PaceInv
      <4> QED BY <2>2, <3>1, <4>1, OnPaceInTime DEF CanKeepPace
    <3>3. Deadline(m) <= Deadline(k) /\ Deadline(m) \in Nat /\ Deadline(k) \in Nat
      BY <1>1, <1>2, <3>1
    <3> QED BY <1>1, <3>2, <3>3
  <2> QED BY <2>1, <2>2
<1> QED BY <1>3, <1>4 DEF KeepsPace, Deadline

(* No instruction starves: the k-th is written back within 2 * k * Longest *)
(* cycles of the start, for every width, queue size, register set, trace   *)
(* and answers of the cache, when there is a place to fetch to and to      *)
(* issue from (which S = 0 does not leave, the run ZeroQueue), dis_issue's *)
(* counter does not wrap, and every load has an address.                   *)
THEOREM PaceIsKept ==
  ASSUME CanKeepPace
  PROVE  Spec => []KeepsPace
<1>1. IInv /\ StampInv /\ TimeInv /\ LatencyInv /\ PaceInv => KeepsPace
  BY PaceInvKeepsPace
<1> QED BY <1>1, PaceInvHolds, PTL
-----------------------------------------------------------------------------
(* What the sort for the report makes of a list of all instructions: in a  *)
(* list of 1 to n, in any order, j has j - 1 before it.                    *)
LEMMA OlderCount ==
  ASSUME NEW n \in Nat, NEW s \in [1..n -> 1..n], Len(s) = n, Once(s),
         \A v \in 1..n : \E m \in 1..n : s[m] = v, NEW j \in 1..n
  PROVE  Cardinality(Older(s, Self, j)) = s[j] - 1
<1> DEFINE A == {m \in 1..n : s[m] < s[j]}
           h(v) == CHOOSE m \in 1..n : s[m] = v
           g == [v \in 1..(s[j] - 1) |-> h(v)]
<1>1. Older(s, Self, j) = A
  BY DEF Older, Self
<1>2. s[j] \in 1..n /\ s[j] - 1 \in Nat
  OBVIOUS
<1>3. \A v \in 1..(s[j] - 1) : v \in 1..n /\ v < s[j]
  <2>1. PICK b \in 1..n : b = s[j]
    OBVIOUS
  <2>2. \A v \in 1..(b - 1) : v \in 1..n /\ v < b
    OBVIOUS
  <2> QED BY <2>1, <2>2
<1>4. ASSUME NEW v \in 1..(s[j] - 1) PROVE h(v) \in 1..n /\ s[h(v)] = v
  <2>1. \E m \in 1..n : s[m] = v
    BY <1>3
  <2> QED BY <2>1
<1> HIDE DEF h
<1>5. g \in [1..(s[j] - 1) -> A]
  <2>1. \A v \in 1..(s[j] - 1) : h(v) \in A
    BY <1>3, <1>4
  <2> QED BY <2>1
<1>6. \A v, w \in 1..(s[j] - 1) : g[v] = g[w] => v = w
  BY <1>4
<1>7. ASSUME NEW m \in A PROVE \E v \in 1..(s[j] - 1) : g[v] = m
  <2>1. s[m] \in 1..(s[j] - 1) /\ m \in 1..n
    BY <1>2
  <2>2. g[s[m]] \in 1..n /\ s[g[s[m]]] = s[m]
    BY <1>4, <2>1
  <2>3. g[s[m]] = m
    BY <2>1, <2>2 DEF Once
  <2> QED BY <2>1, <2>3
<1> HIDE DEF A, g
<1>8. g \in Bijection(1..(s[j] - 1), A)
  BY <1>5, <1>6, <1>7 DEF Bijection, Injection, IsInjective, Surjection
<1>9. ExistsBijection(1..(s[j] - 1), A)
  BY <1>8 DEF ExistsBijection
<1> QED BY <1>1, <1>2, <1>9, FS_CountingElements

LEMMA SortedIs ==
  ASSUME NEW n \in Nat, NEW s \in Seq(1..n), Len(s) = n, Once(s),
         \A v \in 1..n : \E m \in 1..n : s[m] = v
  PROVE  Sorted(s, Self) = [k \in 1..n |-> k]
<1>1. s \in [1..n -> 1..n]
  BY LenProperties
<1>2. \A j \in 1..n : Cardinality(Older(s, Self, j)) = s[j] - 1
  BY <1>1, OlderCount
<1>3. CASE \A i, j \in 1..n : i < j => s[i] < s[j]
  <2>1. ASSUME NEW j \in 1..n PROVE s[j] = j
    <3>1. \A m \in 1..n : s[m] < s[j] <=> m < j
      <4>1. ASSUME NEW m \in 1..n PROVE s[m] < s[j] <=> m < j
        <5>1. PICK a \in 1..n : a = s[m]
          BY <1>1
        <5>2. PICK b \in 1..n : b = s[j]
          BY <1>1
        <5>3. (m < j => a < b) /\ (j < m => b < a)
          BY <1>3, <5>1, <5>2
        <5>4. m = j => a = b
          BY <5>1, <5>2
        <5>5. a < b <=> m < j
          BY <5>3, <5>4
        <5> QED BY <5>1, <5>2, <5>5
      <4> QED BY <4>1
    <3>2. Older(s, Self, j) = 1..(j - 1)
      <4>1. Older(s, Self, j) = {m \in 1..n : m < j}
        BY <3>1 DEF Older, Self
      <4>2. \A m \in 1..n : m < j => m \in 1..(j - 1)
        OBVIOUS
      <4>3. \A m \in 1..(j - 1) : m \in 1..n /\ m < j
        OBVIOUS
      <4> QED BY <4>1, <4>2, <4>3
    <3>3. Cardinality(1..(j - 1)) = j - 1
      <4>1. 1 <= j
        OBVIOUS
      <4>2. j - 1 \in Int /\ 1 \in Int
        OBVIOUS
      <4>3. Cardinality(1..(j - 1)) = IF 1 > j - 1 THEN 0 ELSE (j - 1) - 1 + 1
        BY <4>2, FS_Interval
      <4> QED BY <4>1, <4>3
    <3>4. s[j] - 1 = j - 1 /\ s[j] \in Int
      BY <1>1, <1>2, <3>2, <3>3
    <3> QED BY <3>4
  <2>2. Sorted(s, Self) = s
    BY <1>3 DEF Sorted, Self
  <2>3. s = [k \in 1..n |-> s[k]]
    BY <1>1
  <2> QED BY <2>1, <2>2, <2>3
<1>4. CASE ~(\A i, j \in 1..n : i < j => s[i] < s[j])
  <2>1. Sorted(s, Self) =
          [i \in 1..n |-> s[CHOOSE j \in 1..n : Cardinality(Older(s, Self, j)) = i - 1]]
    BY <1>4 DEF Sorted, Self
  <2>2. ASSUME NEW i \in 1..n
        PROVE  s[CHOOSE j \in 1..n : Cardinality(Older(s, Self, j)) = i - 1] = i
    <3>1. PICK m \in 1..n : s[m] = i
      OBVIOUS
    <3>2. Cardinality(Older(s, Self, m)) = i - 1
      BY <1>2, <3>1
    <3>3. PICK c \in 1..n : /\ c = CHOOSE j \in 1..n : Cardinality(Older(s, Self, j)) = i - 1
                            /\ Cardinality(Older(s, Self, c)) = i - 1
      BY <3>2
    <3>4. s[c] - 1 = i - 1 /\ s[c] \in 1..n
      BY <1>1, <1>2, <3>3
    <3>5. s[c] = i
      BY <3>4
    <3> QED BY <3>3, <3>5
  <2> QED BY <2>1, <2>2
<1> QED BY <1>3, <1>4

-----------------------------------------------------------------------------
(* The counter of cycles does not wrap before the trace is worked off. *)
CyclesSuffice == Deadline(MaxTrace) + 1 < CycleMod

(* A stage of fetching leaves something in list_disp, or finds the end of  *)
(* the trace.                                                              *)
DoneInv ==
  /\ stage = "fetch" => count = 0 \/ len.disp > 0
  /\ stage = "advance" => traceDone \/ len.disp > 0
  /\ DoneComplete

LEMMA NotWrapped ==
  ASSUME CanKeepPace, CyclesSuffice, IInv, ListInv, StampInv, TimeInv, LatencyInv, PaceInv,
         InTrace, stage # "done", Busy
  PROVE  NextCycle = cycle + 1 /\ NextCycle # 0
<1>1. PICK k \in Insts : State(k) # "WB"
  BY BusyNotDone DEF AllDone
<1>2. PICK m \in Insts : m <= k /\ Oldest(m)
  BY <1>1, OldestIs
<1>3. cycle <= Deadline(m)
  <2>1. OnPace(m)
    BY <1>2 DEF PaceInv
  <2> QED BY <1>2, <2>1, OnPaceInTime DEF CanKeepPace
<1>4. /\ cycle \in Nat /\ m \in Nat /\ MaxTrace \in Nat /\ m <= MaxTrace /\ CycleMod \in Nat
  BY StampTypes, TraceAssumption, WidthAssumption DEF InTrace, Insts
<1>5. Deadline(m) <= Deadline(MaxTrace) /\ Deadline(m) \in Nat /\ Deadline(MaxTrace) \in Nat
  BY <1>4, DeadlineGrows DEF CanKeepPace
<1>6. cycle + 1 \in 1..(CycleMod - 1)
  BY <1>3, <1>4, <1>5 DEF CyclesSuffice
<1>7. \A a \in 1..(CycleMod - 1) : a % CycleMod = a
  BY <1>4
<1> QED BY <1>6, <1>7 DEF NextCycle

LEMMA NextDoneInv ==
  ASSUME CanKeepPace, CyclesSuffice
  PROVE  /\ IInv /\ ListInv /\ StampInv /\ TimeInv /\ LatencyInv /\ PaceInv /\ InTrace /\ DoneInv
         /\ [Next]_vars
         => DoneInv'
<1> SUFFICES ASSUME IInv, ListInv, StampInv, TimeInv, LatencyInv, PaceInv, InTrace, DoneInv,
                    [Next]_vars
             PROVE  DoneInv'
  OBVIOUS
<1>1. N \in Nat /\ N > 0 /\ count \in Nat /\ len.disp \in Nat
  BY BandwidthAssumption DEF CanKeepPace, IInv, TypeOK
<1>2. CASE UNCHANGED vars
  <2>1. UNCHANGED <<stage, count, len, traceDone, listInst, wback>>
    BY <1>2 DEF vars, lists
  <2> QED BY <2>1 DEF DoneInv, DoneComplete, InState, Insts, State
<1>3. CASE Finish
  <2>1. stage = "advance" /\ stage' = "done" /\ UNCHANGED <<traceDone, listInst>>
    BY <1>3 DEF Finish, GoTo
  <2>2. ~Busy
    BY <1>3, <2>1, NotWrapped DEF Finish
  <2>3. AllDone
    BY <2>2, BusyNotDone
  <2>4. traceDone
    BY <1>1, <2>1, <2>2 DEF DoneInv, Busy
  <2>5. wback' = [k \in Insts |-> k]
    <3>1. Len(listInst) \in Nat /\ wback \in Seq(Insts) /\ Once(wback) /\ Len(wback) \in Nat
      BY StampTypes, LenProperties DEF ListInv
    <3>2. ItemsOf(wback) = Insts
      <4>1. \A k \in Insts : k \in ItemsOf(wback)
        BY <2>3 DEF ListInv, Placed, AllDone
      <4>2. \A i \in 1..Len(wback) : wback[i] \in Insts
        BY <3>1, ElementOfSeq
      <4> QED BY <4>1, <4>2 DEF ItemsOf
    <3>3. Cardinality(Insts) = Len(wback)
      BY <3>1, <3>2, ItemsCount
    <3>4. Cardinality(Insts) = Len(listInst)
      <4>0. 1 \in Int /\ Len(listInst) \in Int
        BY <3>1
      <4>1. Cardinality(1..Len(listInst)) = IF 1 > Len(listInst) THEN 0 ELSE Len(listInst) - 1 + 1
        BY <4>0, FS_Interval
      <4> QED BY <3>1, <4>1 DEF Insts
    <3>5. \A v \in 1..Len(listInst) : \E m \in 1..Len(listInst) : wback[m] = v
      BY <3>2, <3>3, <3>4 DEF ItemsOf, Insts
    <3>6. wback' = Sorted(wback, Self)
      BY <1>3 DEF Finish
    <3> QED BY <3>1, <3>3, <3>4, <3>5, <3>6, SortedIs DEF Insts
  <2>6. Insts' = Insts /\ InState({"WB"})' = Insts
    BY <2>1, <2>3 DEF Insts, InState, State, AllDone
  <2> QED BY <2>1, <2>4, <2>5, <2>6 DEF DoneInv, DoneComplete
<1>4. ASSUME NEW e \in TraceEntry, FetchInst(e)
      PROVE  DoneInv'
  <2>1. stage' = "fetch" /\ len' = [len EXCEPT !.disp = @ + 1] /\ len \in [disp : Nat, issue : Nat, exec : Nat]
    BY <1>4 DEF FetchInst, IInv, TypeOK
  <2>2. len'.disp = len.disp + 1
    BY <2>1
  <2> QED BY <1>1, <2>1, <2>2 DEF DoneInv, DoneComplete
<1>5. CASE FetchEOF
  BY <1>5 DEF FetchEOF, GoTo, DoneInv, DoneComplete
<1>6. CASE FetchSkip
  BY <1>6 DEF FetchSkip, GoTo, DoneInv, DoneComplete
<1>7. CASE FetchDone
  <2>1. stage = "fetch" /\ stage' = "advance" /\ len' = len /\ ~CanFetch
    BY <1>7 DEF FetchDone, GoTo
  <2>2. len.disp > 0
    BY <1>1, <2>1 DEF DoneInv, CanFetch, CanPush
  <2> QED BY <2>1, <2>2 DEF DoneInv, DoneComplete
<1>8. CASE DispatchDone
  BY <1>8 DEF DispatchDone, GoTo, DoneInv, DoneComplete
<1>9. CASE \/ Retire \/ ExecuteDone \/ IssuePush \/ IssueSkip \/ IssueDone \/ DispatchMove
           \/ DispatchSkip \/ Advance
           \/ \E lat \in Answers : lat \in Nat /\ (ExecuteWait(lat) \/ ExecuteComplete(lat))
  <2>1. stage' \in {"execute", "issue", "dispatch", "retire"}
    BY <1>9 DEF Retire, ExecuteDone, IssuePush, IssueSkip, IssueDone, DispatchMove,
       DispatchSkip, Advance, ExecuteWait, ExecuteComplete, GoTo
  <2> QED BY <2>1 DEF DoneInv, DoneComplete
<1> QED BY <1>2, <1>3, <1>4, <1>5, <1>6, <1>7, <1>8, <1>9, StepCases DEF GoesOn

LEMMA DoneInvHolds ==
  ASSUME CanKeepPace, CyclesSuffice
  PROVE  Spec => []( /\ IInv /\ ListInv /\ DepInv /\ StampInv /\ QueueInv /\ IssuedInv
                     /\ TimeInv /\ LatencyInv /\ PaceInv /\ InTrace /\ DoneInv)
<1>1. Init => InTrace /\ DoneInv
  BY EmptySeq, TraceAssumption DEF Init, InTrace, DoneInv, DoneComplete
<1>2. IInv /\ InTrace /\ [Next]_vars => InTrace'
  BY NextInTrace
<1>3. /\ IInv /\ ListInv /\ StampInv /\ TimeInv /\ LatencyInv /\ PaceInv /\ InTrace /\ DoneInv
      /\ [Next]_vars
      => DoneInv'
  BY NextDoneInv
<1> QED BY <1>1, <1>2, <1>3, PaceInvHolds, PTL DEF Spec

(* The loop of dis_parse_tracefile is left only when the trace is used up  *)
(* and everything is written back, and the report has every instruction in *)
(* trace order, though it ends on three length counters and on a counter   *)
(* of cycles that may wrap: for every machine that keeps pace, and every   *)
(* trace short enough for the counter.                                     *)
THEOREM DoneIsComplete ==
  ASSUME CanKeepPace, CyclesSuffice
  PROVE  Spec => []DoneComplete
<1>1. DoneInv => DoneComplete
  BY DEF DoneInv
<1> QED BY <1>1, DoneInvHolds, PTL
-----------------------------------------------------------------------------
(* The report.  What a step does to stamps, whatever it is.                *)
MovesTo(k, st) ==
  /\ State(k)' = st /\ At(k, st)' = cycle /\ cycle' = cycle
  /\ \A s \in InstState \ {st} : At(k, s)' = At(k, s)
MovesOn(k) ==
  \/ State(k) = "IF" /\ MovesTo(k, "ID") /\ stage = "dispatch" /\ stage' = "fetch"
  \/ State(k) = "ID" /\ MovesTo(k, "IS") /\ stage = "dispatch" /\ stage' = stage
  \/ State(k) = "IS" /\ MovesTo(k, "EX") /\ stage = "issue" /\ stage' = stage
  \/ State(k) = "EX" /\ MovesTo(k, "WB") /\ stage = "execute" /\ stage' = stage
Rests(k) == State(k)' = State(k) /\ \A s \in InstState : At(k, s)' = At(k, s)
Arrives(k) == State(k)' = "IF" /\ At(k, "IF")' = cycle /\ cycle' = cycle /\ stage' = stage /\ stage = "fetch"

LEMMA StepOnStamps ==
  ASSUME IInv, ListInv, [Next]_vars
  PROVE  /\ Insts \subseteq Insts' /\ \A k \in Insts : Rests(k) \/ MovesOn(k)
         /\ \A k \in Insts' \ Insts : Arrives(k)
<1>1. ASSUME Still
      PROVE  Insts' = Insts /\ \A k \in Insts : Rests(k)
  BY <1>1, SameStamps DEF Still, Insts, Rests
<1>2. ASSUME NEW x \in Insts, NEW st \in InstState, OneEnters(x, st), cycle' = cycle
      PROVE  /\ Insts' = Insts /\ MovesTo(x, st) /\ \A k \in Insts \ {x} : Rests(k)
  <2>1. Insts' = Insts /\ \A k \in Insts \ {x} : Rests(k)
    BY <1>2, SameStamps DEF OneEnters, Insts, Rests
  <2>2. State(x)' = st /\ At(x, st)' = cycle /\ \A s \in InstState \ {st} : At(x, s)' = At(x, s)
    BY <1>2, EntersStamps DEF OneEnters
  <2> QED BY <1>2, <2>1, <2>2 DEF MovesTo
<1>3. CASE GoesOn \/ Finish
  <2>1. Still
    BY <1>3, GoesOnEffect, StillUnchanged DEF Finish
  <2> QED BY <1>1, <2>1
<1>4. ASSUME NEW lat \in Nat, ExecuteWait(lat)
      PROVE  Insts' = Insts /\ \A k \in Insts : Rests(k)
  BY <1>1, <1>4, ExecuteWaitEffect
<1>5. ASSUME NEW lat \in Nat, ExecuteComplete(lat)
      PROVE  Insts' = Insts /\ \A k \in Insts : Rests(k) \/ MovesOn(k)
  <2>1. PICK x \in Insts : x = exec[pos].data /\ OneEnters(x, "WB") /\ pos \in 1..Len(exec)
    BY <1>5, ExecuteCompleteEffect
  <2>2. State(x) = "EX"
    <3>1. x \in DataOf(exec)
      BY <2>1 DEF DataOf
    <3> QED BY <3>1 DEF ListInv, Placed
  <2>3. UNCHANGED <<stage, cycle>> /\ stage = "execute"
    BY <1>5 DEF ExecuteComplete
  <2>4. "WB" \in InstState
    BY DEF InstState
  <2>5. Insts' = Insts /\ MovesTo(x, "WB") /\ \A k \in Insts \ {x} : Rests(k)
    BY <1>2, <2>1, <2>3, <2>4
  <2> QED BY <2>2, <2>3, <2>5 DEF MovesOn
<1>6. CASE IssuePush
  <2>1. PICK x \in Insts : x = issue[pos].data /\ OneEnters(x, "EX")
    BY <1>6, IssuePushEffect
  <2>2. State(x) = "IS" /\ UNCHANGED <<stage, cycle>> /\ stage = "issue"
    BY <1>6, <2>1 DEF IssuePush, CanIssue
  <2>3. "EX" \in InstState
    BY DEF InstState
  <2>4. Insts' = Insts /\ MovesTo(x, "EX") /\ \A k \in Insts \ {x} : Rests(k)
    BY <1>2, <2>1, <2>2, <2>3
  <2> QED BY <2>2, <2>4 DEF MovesOn
<1>7. CASE DispatchMove
  <2>1. PICK x \in Insts : x = disp[pos] /\ OneEnters(x, "IS")
    BY <1>7, DispatchMoveEffect
  <2>2. State(x) = "ID" /\ UNCHANGED <<stage, cycle>> /\ stage = "dispatch"
    BY <1>7, <2>1 DEF DispatchMove, CanDispatch
  <2>3. "IS" \in InstState
    BY DEF InstState
  <2>4. Insts' = Insts /\ MovesTo(x, "IS") /\ \A k \in Insts \ {x} : Rests(k)
    BY <1>2, <2>1, <2>2, <2>3
  <2> QED BY <2>2, <2>4 DEF MovesOn
<1>8. CASE DispatchDone
  <2>1. /\ stage = "dispatch" /\ stage' = "fetch" /\ cycle' = cycle
        /\ Insts' = Insts /\ \A m \in Insts : Same(m) \/ (State(m) = "IF" /\ Enters(m, "ID"))
    BY <1>8, DispatchDoneEffect DEF DispatchDone, GoTo, Insts
  <2>2. ASSUME NEW m \in Insts, State(m) = "IF", Enters(m, "ID")
        PROVE  MovesOn(m)
    <3>1. "ID" \in InstState
      BY DEF InstState
    <3>2. MovesTo(m, "ID")
      BY <2>1, <2>2, <3>1, EntersStamps DEF MovesTo
    <3> QED BY <2>1, <2>2, <3>2 DEF MovesOn
  <2>3. \A m \in Insts : Same(m) => Rests(m)
    BY SameStamps DEF Rests
  <2> QED BY <2>1, <2>2, <2>3
<1>9. ASSUME NEW e \in TraceEntry, FetchInst(e)
      PROVE  /\ Insts \subseteq Insts' /\ \A k \in Insts : Rests(k)
             /\ \A k \in Insts' \ Insts : Arrives(k)
  <2>1. PICK new : new = Len(listInst) + 1
    OBVIOUS
  <2>2. /\ Insts' = Insts \cup {new} /\ \A m \in Insts : Same(m)
        /\ listInst'[new] = NewInst(e)
    BY <1>9, <2>1, FetchInstEffect DEF Insts
  <2>3. NewInst(e).state = "IF" /\ NewInst(e).cycle["IF"] = cycle
    BY DEF NewInst, InstState
  <2>4. UNCHANGED <<stage, cycle>> /\ stage = "fetch"
    BY <1>9 DEF FetchInst
  <2>5. Arrives(new)
    BY <2>2, <2>3, <2>4 DEF Arrives, State, At
  <2>6. \A m \in Insts : Rests(m)
    BY <2>2, SameStamps DEF Rests
  <2> QED BY <2>2, <2>5, <2>6
<1> QED BY <1>3, <1>4, <1>5, <1>6, <1>7, <1>8, <1>9, StepCases

(* The counter of cycles stands still, or goes up by one when the stages   *)
(* of a cycle are over and something is in flight.                         *)
LEMMA StepOnClock ==
  ASSUME CanKeepPace, CyclesSuffice, IInv, ListInv, DepInv, StampInv, TimeInv, LatencyInv,
         PaceInv, InTrace, [Next]_vars
  PROVE  /\ \/ cycle' = cycle /\ (Late => Late' \/ stage' = "done")
            \/ cycle' = cycle + 1 /\ Late /\ ~AllDone /\ stage' = "retire"
         /\ stage = "done" => stage' = "done"
         /\ stage' = "done" => stage = "done" \/ (stage = "advance" /\ AllDone)
<1>1. CASE GoesOn /\ ~Advance
  <2>1. cycle' = cycle
    BY <1>1, GoesOnStage
  <2> QED BY <1>1, <2>1 DEF GoesOn, Retire, ExecuteDone, IssueSkip, IssueDone, DispatchSkip,
                          FetchEOF, FetchDone, FetchSkip, vars, GoTo, Late
<1>2. CASE Advance
  BY <1>2, AdvanceCycle, BusyNotDone DEF Advance, Late
<1>3. CASE Finish
  <2>1. stage = "advance" /\ stage' = "done"
    BY <1>3 DEF Finish, GoTo
  <2>2. ~Busy
    BY <1>3, <2>1, NotWrapped DEF Finish
  <2>3. cycle' = cycle
    BY <1>3, <2>2 DEF Finish
  <2> QED BY <2>1, <2>2, <2>3, BusyNotDone
<1>4. CASE DispatchDone
  BY <1>4 DEF DispatchDone, GoTo, Late
<1>5. CASE \/ IssuePush \/ DispatchMove \/ \E e \in TraceEntry : FetchInst(e)
           \/ \E lat \in Answers : lat \in Nat /\ (ExecuteWait(lat) \/ ExecuteComplete(lat))
  <2>1. UNCHANGED <<stage, cycle>> /\ stage # "done"
    BY <1>5 DEF IssuePush, DispatchMove, FetchInst, ExecuteWait, ExecuteComplete
  <2> QED BY <2>1 DEF Late
<1> QED BY <1>1, <1>2, <1>3, <1>4, <1>5, StepCases
-----------------------------------------------------------------------------
(* Every stage takes time, and no stamp lies ahead. *)
OrderOf(k) ==
  /\ stage # "done" /\ State(k) = "ID" => /\ At(k, "ID") <= cycle
                                          /\ ~Late => At(k, "ID") < cycle
  /\ State(k) \in {"IS", "EX", "WB"} => At(k, "ID") < At(k, "IS")
  /\ State(k) \in {"EX", "WB"} => At(k, "IS") < At(k, "EX")
  /\ State(k) = "WB" => At(k, "EX") < At(k, "WB") /\ At(k, "WB") <= cycle
OrderInv == \A k \in Insts : OrderOf(k)

LEMMA NextOrderInv ==
  ASSUME CanKeepPace, CyclesSuffice
  PROVE  /\ IInv /\ ListInv /\ DepInv /\ StampInv /\ TimeInv /\ LatencyInv /\ PaceInv /\ InTrace
         /\ OrderInv /\ [Next]_vars
         => OrderInv'
<1> SUFFICES ASSUME IInv, ListInv, DepInv, StampInv, TimeInv, LatencyInv, PaceInv, InTrace,
                    OrderInv, [Next]_vars
             PROVE  OrderInv'
  OBVIOUS
<1>1. /\ Insts \subseteq Insts' /\ \A k \in Insts : Rests(k) \/ MovesOn(k)
      /\ \A k \in Insts' \ Insts : Arrives(k)
  BY StepOnStamps
<1>2. /\ \/ cycle' = cycle /\ (Late => Late' \/ stage' = "done")
         \/ cycle' = cycle + 1
      /\ stage = "done" => stage' = "done"
  BY StepOnClock
<1>3. cycle \in Nat /\ \A k \in Insts : \A st \in InstState : At(k, st) \in Nat
  BY StampTypes
<1>4. {"IF", "ID", "IS", "EX", "WB"} \subseteq InstState
  BY DEF InstState
<1>5. ASSUME NEW k \in Insts, Rests(k) PROVE OrderOf(k)'
  <2>1. /\ At(k, "ID") \in Nat /\ At(k, "WB") \in Nat
        /\ State(k)' = State(k) /\ At(k, "ID")' = At(k, "ID") /\ At(k, "IS")' = At(k, "IS")
        /\ At(k, "EX")' = At(k, "EX") /\ At(k, "WB")' = At(k, "WB")
    BY <1>3, <1>4, <1>5 DEF Rests
  <2>2. OrderOf(k)
    BY DEF OrderInv
  <2>3. cycle' \in Nat /\ cycle <= cycle'
    BY <1>2, <1>3
  <2>4. State(k) = "WB" => At(k, "WB") <= cycle'
    BY <1>3, <2>1, <2>2, <2>3 DEF OrderOf
  <2>5. ASSUME stage' # "done", State(k) = "ID"
        PROVE  At(k, "ID") <= cycle' /\ (~Late' => At(k, "ID") < cycle')
    <3>1. At(k, "ID") <= cycle /\ (~Late => At(k, "ID") < cycle)
      BY <1>2, <2>2, <2>5 DEF OrderOf
    <3>2. CASE cycle' = cycle
      <4>1. Late => Late'
        BY <1>2, <1>3, <2>5, <3>2
      <4> QED BY <3>1, <3>2, <4>1
    <3>3. CASE cycle' = cycle + 1
      BY <1>3, <2>1, <3>1, <3>3
    <3> QED BY <1>2, <3>2, <3>3
  <2> QED BY <2>1, <2>2, <2>4, <2>5 DEF OrderOf
<1>6. ASSUME NEW k \in Insts, MovesOn(k) PROVE OrderOf(k)'
  <2>0. OrderOf(k) /\ (stage # "done" => Stamped(k)) /\ Paced(k)
    BY DEF OrderInv, StampInv, StampOK
  <2>1. CASE State(k) = "IF" /\ MovesTo(k, "ID") /\ stage = "dispatch" /\ stage' = "fetch"
    <3>1. State(k)' = "ID" /\ At(k, "ID")' = cycle /\ cycle' = cycle /\ Late'
      BY <2>1 DEF MovesTo, Late
    <3> QED BY <1>3, <3>1 DEF OrderOf
  <2>2. CASE State(k) = "ID" /\ MovesTo(k, "IS") /\ stage = "dispatch" /\ stage' = stage
    <3>1. State(k)' = "IS" /\ At(k, "IS")' = cycle /\ At(k, "ID")' = At(k, "ID")
      BY <1>4, <2>2 DEF MovesTo
    <3>2. At(k, "ID") < cycle
      BY <2>0, <2>2 DEF OrderOf, Late
    <3> QED BY <3>1, <3>2 DEF OrderOf
  <2>3. CASE State(k) = "IS" /\ MovesTo(k, "EX") /\ stage = "issue" /\ stage' = stage
    <3>1. State(k)' = "EX" /\ At(k, "EX")' = cycle /\ At(k, "ID")' = At(k, "ID")
          /\ At(k, "IS")' = At(k, "IS")
      BY <1>4, <2>3 DEF MovesTo
    <3>2. At(k, "IS") < cycle /\ At(k, "ID") < At(k, "IS")
      BY <2>0, <2>3 DEF OrderOf, Stamped, Reached, Passed, BeforeIS
    <3> QED BY <3>1, <3>2 DEF OrderOf
  <2>4. CASE State(k) = "EX" /\ MovesTo(k, "WB") /\ stage = "execute" /\ stage' = stage
    <3>1. State(k)' = "WB" /\ At(k, "WB")' = cycle /\ At(k, "ID")' = At(k, "ID")
          /\ At(k, "IS")' = At(k, "IS") /\ At(k, "EX")' = At(k, "EX") /\ cycle' = cycle
      BY <1>4, <2>4 DEF MovesTo
    <3>2. At(k, "EX") < cycle /\ At(k, "ID") < At(k, "IS") /\ At(k, "IS") < At(k, "EX")
      BY <2>0, <2>4 DEF OrderOf, Stamped, Reached, Passed, BeforeEX
    <3> QED BY <1>3, <3>1, <3>2 DEF OrderOf
  <2> QED BY <1>6, <2>1, <2>2, <2>3, <2>4 DEF MovesOn
<1>7. ASSUME NEW k \in Insts' \ Insts PROVE OrderOf(k)'
  BY <1>1, <1>7 DEF Arrives, OrderOf
<1> QED BY <1>1, <1>5, <1>6, <1>7 DEF OrderInv

-----------------------------------------------------------------------------
(* Who was fetched and not dispatched in a cycle, and who waited to issue; *)
(* and that somebody was in flight.                                        *)
Waits(c) ==
  {k \in Insts : At(k, "IF") <= c /\ (State(k) \in {"IS", "EX", "WB"} => c < At(k, "IS"))}
Queued(c) ==
  {k \in Insts : /\ State(k) \in {"IS", "EX", "WB"} /\ At(k, "IS") <= c
                 /\ State(k) \in {"EX", "WB"} => c < At(k, "EX")}
Covered(c) == \E k \in Insts : At(k, "IF") <= c /\ (State(k) = "WB" => c <= At(k, "WB"))
Bounded(c) == Cardinality(Waits(c)) <= 2 * N /\ Cardinality(Queued(c)) <= S

HistoryInv ==
  /\ len.disp <= 2 * N
  /\ \A c \in Nat : c < cycle \/ (c = cycle /\ stage = "done") => Bounded(c)
  /\ \A c \in Nat : c <= cycle /\ cycle > 0 => Covered(c)

(* A cycle that is past stays as it was. *)
LEMMA PastStays ==
  ASSUME IInv, NEW c \in Nat, c <= cycle,
         Insts \subseteq Insts', \A k \in Insts : Rests(k) \/ MovesOn(k),
         \A k \in Insts' \ Insts : Arrives(k)
  PROVE  /\ c < cycle => Waits(c)' = Waits(c) /\ Queued(c)' = Queued(c)
         /\ Covered(c) => Covered(c)'
<1>1. cycle \in Nat /\ \A k \in Insts : \A st \in InstState : At(k, st) \in Nat
  BY StampTypes
<1>2. {"IF", "ID", "IS", "EX", "WB"} \subseteq InstState
  BY DEF InstState
<1>3. ASSUME NEW k \in Insts
      PROVE  /\ At(k, "IF")' = At(k, "IF")
             /\ \/ /\ State(k)' = State(k) /\ At(k, "IS")' = At(k, "IS")
                   /\ At(k, "EX")' = At(k, "EX") /\ At(k, "WB")' = At(k, "WB")
                \/ State(k) = "IF" /\ State(k)' = "ID"
                \/ State(k) = "ID" /\ State(k)' = "IS" /\ At(k, "IS")' = cycle
                \/ /\ State(k) = "IS" /\ State(k)' = "EX" /\ At(k, "EX")' = cycle
                   /\ At(k, "IS")' = At(k, "IS")
                \/ /\ State(k) = "EX" /\ State(k)' = "WB" /\ At(k, "WB")' = cycle
                   /\ At(k, "IS")' = At(k, "IS") /\ At(k, "EX")' = At(k, "EX")
  BY <1>2 DEF Rests, MovesOn, MovesTo
<1>4. \A k \in Insts' \ Insts : State(k)' = "IF" /\ At(k, "IF")' = cycle
  BY DEF Arrives
<1>5. ASSUME c < cycle PROVE Waits(c)' = Waits(c)
  <2>1. \A k \in Insts : k \in Waits(c)' <=> k \in Waits(c)
    <3>1. ASSUME NEW k \in Insts PROVE k \in Waits(c)' <=> k \in Waits(c)
      BY <1>3, <1>5 DEF Waits
    <3> QED BY <3>1
  <2>2. \A k \in Insts' \ Insts : ~(At(k, "IF")' <= c)
    BY <1>1, <1>4, <1>5
  <2> QED BY <2>1, <2>2 DEF Waits
<1>6. ASSUME c < cycle PROVE Queued(c)' = Queued(c)
  <2>1. \A k \in Insts : k \in Queued(c)' <=> k \in Queued(c)
    <3>1. ASSUME NEW k \in Insts PROVE k \in Queued(c)' <=> k \in Queued(c)
      <4>1. ~(cycle <= c)
        BY <1>1, <1>6
      <4> QED BY <1>3, <1>6, <4>1 DEF Queued
    <3> QED BY <3>1
  <2>2. \A k \in Insts' \ Insts : State(k)' = "IF"
    BY <1>4
  <2> QED BY <2>1, <2>2 DEF Queued
<1>7. ASSUME Covered(c) PROVE Covered(c)'
  <2>1. PICK k \in Insts : At(k, "IF") <= c /\ (State(k) = "WB" => c <= At(k, "WB"))
    BY <1>7 DEF Covered
  <2>2. At(k, "IF")' <= c /\ (State(k)' = "WB" => c <= At(k, "WB")')
    BY <1>3, <2>1
  <2> QED BY <2>2 DEF Covered
<1> QED BY <1>5, <1>6, <1>7

(* In the present one they are the instructions of two lists. *)
LEMMA NowBounded ==
  ASSUME IInv, ListInv, StampInv, QueueInv, stage # "done", len.disp <= 2 * N
  PROVE  Bounded(cycle)
<1>1. /\ disp \in Seq(Insts) /\ issue \in Seq(Node) /\ cycle \in Nat
      /\ len.disp = Len(disp) /\ len.issue = Len(issue)
  BY DEF IInv, TypeOK, ListInv, Counted
<1>2. \A k \in Insts : State(k) \in InstState /\ \A st \in InstState : At(k, st) \in Nat
  BY StampTypes
<1>3. {"IF", "ID", "IS", "EX", "WB"} \subseteq InstState
  BY DEF InstState
<1>4. ASSUME NEW k \in Insts
      PROVE  /\ At(k, "IF") <= cycle
             /\ State(k) \in {"IS", "EX", "WB"} => At(k, "IS") <= cycle
             /\ State(k) \in {"EX", "WB"} => At(k, "EX") <= cycle
  <2>1. Stamped(k)
    BY DEF StampInv, StampOK
  <2>2. /\ Reached(k, "IF")
        /\ State(k) \in {"IS", "EX", "WB"} => Reached(k, "IS")
        /\ State(k) \in {"EX", "WB"} => Reached(k, "EX")
    BY <1>2 DEF Reached, Passed, InstState
  <2> QED BY <1>3, <2>1, <2>2 DEF Stamped
<1>5. Waits(cycle) = ItemsOf(disp)
  <2>1. \A k \in Insts : k \in Waits(cycle) <=> State(k) \in {"IF", "ID"}
    <3>1. ASSUME NEW k \in Insts PROVE k \in Waits(cycle) <=> State(k) \in {"IF", "ID"}
      <4>1. At(k, "IS") \in Nat /\ State(k) \in InstState
        BY <1>2, <1>3
      <4>2. State(k) \in {"IS", "EX", "WB"} => ~(cycle < At(k, "IS"))
        BY <1>1, <1>4, <4>1
      <4> QED BY <1>4, <4>1, <4>2 DEF Waits, InstState
    <3> QED BY <3>1
  <2>2. \A i \in 1..Len(disp) : disp[i] \in Insts
    BY <1>1, ElementOfSeq
  <2>3. ItemsOf(disp) \subseteq Insts /\ Waits(cycle) \subseteq Insts
    BY <2>2 DEF ItemsOf, Waits
  <2>4. \A k \in Insts : State(k) \in {"IF", "ID"} <=> k \in ItemsOf(disp)
    BY DEF ListInv, Placed
  <2> QED BY <2>1, <2>3, <2>4
<1>6. Queued(cycle) = DataOf(issue)
  <2>1. \A k \in Insts : k \in Queued(cycle) <=> State(k) = "IS"
    <3>1. ASSUME NEW k \in Insts PROVE k \in Queued(cycle) <=> State(k) = "IS"
      <4>1. At(k, "EX") \in Nat /\ State(k) \in InstState
        BY <1>2, <1>3
      <4>2. State(k) \in {"EX", "WB"} => ~(cycle < At(k, "EX"))
        BY <1>1, <1>4, <4>1
      <4> QED BY <1>4, <4>1, <4>2 DEF Queued
    <3> QED BY <3>1
  <2>2. \A i \in 1..Len(issue) : issue[i].data \in Insts
    <3>1. \A i \in 1..Len(issue) : issue[i] \in Node
      BY <1>1, ElementOfSeq
    <3> QED BY <3>1 DEF Node
  <2>3. DataOf(issue) \subseteq Insts /\ Queued(cycle) \subseteq Insts
    BY <2>2 DEF DataOf, Queued
  <2>4. \A k \in Insts : State(k) = "IS" <=> k \in DataOf(issue)
    BY DEF ListInv, Placed
  <2> QED BY <2>1, <2>3, <2>4
<1>7. Cardinality(ItemsOf(disp)) = Len(disp) /\ Cardinality(DataOf(issue)) = Len(issue)
  BY <1>1, OrderedOnce, ItemsCount, DataCount
<1> QED BY <1>1, <1>5, <1>6, <1>7 DEF Bounded, QueueInv
LEMMA NextDispBounded ==
  ASSUME IInv, len.disp <= 2 * N, [Next]_vars
  PROVE  (len.disp)' <= 2 * N
<1>1. N \in Nat /\ len \in [disp : Nat, issue : Nat, exec : Nat]
  BY BandwidthAssumption DEF IInv, TypeOK
<1>2. CASE GoesOn \/ Finish
  <2>1. len' = len
    BY <1>2, GoesOnEffect DEF Finish, lists
  <2> QED BY <2>1
<1>3. ASSUME NEW lat \in Nat, ExecuteWait(lat) PROVE (len.disp)' <= 2 * N
  <2>1. len' = len
    BY <1>3 DEF ExecuteWait, lists
  <2> QED BY <2>1
<1>4. ASSUME NEW lat \in Nat, ExecuteComplete(lat) PROVE (len.disp)' <= 2 * N
  <2>1. len' = [len EXCEPT !.exec = Dec(@)]
    BY <1>4 DEF ExecuteComplete
  <2>2. len'.disp = len.disp
    BY <1>1, <2>1
  <2> QED BY <2>2
<1>5. CASE IssuePush
  <2>1. len' = [len EXCEPT !.exec = @ + 1, !.issue = Dec(@)]
    BY <1>5 DEF IssuePush
  <2>2. len'.disp = len.disp
    BY <1>1, <2>1
  <2> QED BY <2>2
<1>6. CASE DispatchMove
  <2>1. len' = [len EXCEPT !.issue = @ + 1, !.disp = Dec(@)]
    BY <1>6 DEF DispatchMove
  <2>2. len'.disp = Dec(len.disp)
    BY <1>1, <2>1
  <2>3. Dec(len.disp) <= len.disp /\ Dec(len.disp) \in Nat /\ len.disp \in Nat
    BY <1>1 DEF Dec
  <2> QED BY <1>1, <2>2, <2>3
<1>7. CASE DispatchDone
  <2>1. len' = len
    BY <1>7 DEF DispatchDone
  <2> QED BY <2>1
<1>8. ASSUME NEW e \in TraceEntry, FetchInst(e) PROVE (len.disp)' <= 2 * N
  <2>1. len' = [len EXCEPT !.disp = @ + 1] /\ len.disp < 2 * N
    BY <1>8 DEF FetchInst, CanFetch, CanPush
  <2>2. len'.disp = len.disp + 1 /\ len.disp \in Nat
    BY <1>1, <2>1
  <2> QED BY <1>1, <2>1, <2>2
<1> QED BY <1>2, <1>3, <1>4, <1>5, <1>6, <1>7, <1>8, StepCases

LEMMA NextHistoryInv ==
  ASSUME CanKeepPace, CyclesSuffice
  PROVE  /\ IInv /\ ListInv /\ DepInv /\ StampInv /\ QueueInv /\ TimeInv /\ LatencyInv /\ PaceInv
         /\ InTrace /\ HistoryInv /\ [Next]_vars
         => HistoryInv'
<1> SUFFICES ASSUME IInv, ListInv, DepInv, StampInv, QueueInv, TimeInv, LatencyInv, PaceInv,
                    InTrace, HistoryInv, [Next]_vars
             PROVE  HistoryInv'
  OBVIOUS
<1>1. /\ Insts \subseteq Insts' /\ \A k \in Insts : Rests(k) \/ MovesOn(k)
      /\ \A k \in Insts' \ Insts : Arrives(k)
  BY StepOnStamps
<1>2. /\ cycle' = cycle \/ (cycle' = cycle + 1 /\ Late /\ ~AllDone /\ stage' = "retire")
      /\ stage = "done" => stage' = "done"
      /\ stage' = "done" => stage = "done" \/ (stage = "advance" /\ AllDone)
  BY StepOnClock
<1>3. cycle \in Nat /\ \A k \in Insts : \A st \in InstState : At(k, st) \in Nat
  BY StampTypes
<1>4. (len.disp)' <= 2 * N
  BY NextDispBounded DEF HistoryInv
<1>5. ASSUME NEW c \in Nat, c < cycle
      PROVE  Bounded(c)' /\ (cycle > 0 /\ Covered(c) => Covered(c)')
  <2>1. Waits(c)' = Waits(c) /\ Queued(c)' = Queued(c) /\ (Covered(c) => Covered(c)')
    BY <1>1, <1>3, <1>5, PastStays
  <2>2. Bounded(c)
    BY <1>5 DEF HistoryInv
  <2> QED BY <2>1, <2>2 DEF Bounded
<1>6. ASSUME cycle' # cycle \/ stage = "advance"
      PROVE  Insts' = Insts /\ \A k \in Insts : Rests(k)
  <2>1. \A k \in Insts : ~MovesOn(k)
    BY <1>6 DEF MovesOn, MovesTo
  <2>2. \A k \in Insts' \ Insts : FALSE
    BY <1>1, <1>6 DEF Arrives
  <2> QED BY <1>1, <2>1, <2>2
<1>7. ASSUME NEW c \in Nat, Insts' = Insts, \A k \in Insts : Rests(k)
      PROVE  Waits(c)' = Waits(c) /\ Queued(c)' = Queued(c)
  <2>1. {"IF", "IS", "EX"} \subseteq InstState
    BY DEF InstState
  <2>2. \A k \in Insts : /\ State(k)' = State(k) /\ At(k, "IF")' = At(k, "IF")
                         /\ At(k, "IS")' = At(k, "IS") /\ At(k, "EX")' = At(k, "EX")
    BY <1>7, <2>1 DEF Rests
  <2>3. \A k \in Insts : k \in Waits(c)' <=> k \in Waits(c)
    BY <1>7, <2>2 DEF Waits
  <2>4. \A k \in Insts : k \in Queued(c)' <=> k \in Queued(c)
    BY <1>7, <2>2 DEF Queued
  <2> QED BY <1>7, <2>3, <2>4 DEF Waits, Queued
<1>8. ASSUME NEW c \in Nat, c < cycle' \/ (c = cycle' /\ stage' = "done")
      PROVE  Bounded(c)'
  <2>1. CASE c < cycle
    BY <1>5, <2>1
  <2>2. CASE stage = "done" /\ c = cycle
    <3>1. \A k \in Insts : ~MovesOn(k)
      BY <1>2, <2>2 DEF MovesOn
    <3>2. \A k \in Insts' \ Insts : FALSE
      BY <1>1, <2>2 DEF Arrives
    <3>3. Insts' = Insts /\ \A k \in Insts : Rests(k)
      BY <1>1, <3>1, <3>2
    <3>4. Waits(c)' = Waits(c) /\ Queued(c)' = Queued(c)
      BY <1>7, <3>3
    <3>5. Bounded(c)
      BY <2>2 DEF HistoryInv
    <3> QED BY <3>4, <3>5 DEF Bounded
  <2>3. CASE stage # "done" /\ c = cycle
    <3>1. cycle' # cycle \/ stage = "advance"
      BY <1>2, <1>3, <1>8, <2>3
    <3>2. Waits(c)' = Waits(c) /\ Queued(c)' = Queued(c)
      BY <1>6, <1>7, <3>1
    <3>3. Bounded(c)
      BY <2>3, NowBounded DEF HistoryInv
    <3> QED BY <3>2, <3>3 DEF Bounded
  <2>4. c < cycle \/ (c = cycle /\ (stage = "done" \/ stage # "done"))
    BY <1>2, <1>3, <1>8
  <2> QED BY <2>1, <2>2, <2>3, <2>4
<1>9. ASSUME NEW c \in Nat, c <= cycle', cycle' > 0
      PROVE  Covered(c)'
  <2>1. CASE c <= cycle /\ cycle > 0
    <3>1. Covered(c)
      BY <2>1 DEF HistoryInv
    <3> QED BY <1>1, <1>3, <2>1, <3>1, PastStays
  <2>2. CASE c >= cycle /\ cycle' = cycle + 1 /\ Late /\ ~AllDone
    <3>1. PICK k \in Insts : State(k) # "WB"
      BY <2>2 DEF AllDone
    <3>2. At(k, "IF") <= cycle /\ At(k, "IF") \in Nat
      BY <1>3, <2>2 DEF StampInv, StampOK, Stamped, Late, InstState
    <3>3. Insts' = Insts /\ Rests(k)
      BY <1>3, <1>6, <2>2
    <3>4. State(k)' # "WB" /\ At(k, "IF")' <= c
      BY <1>3, <2>2, <3>1, <3>2, <3>3 DEF Rests, InstState
    <3> QED BY <3>3, <3>4 DEF Covered
  <2>3. (c <= cycle /\ cycle > 0) \/ (c >= cycle /\ cycle' = cycle + 1 /\ Late /\ ~AllDone)
    BY <1>2, <1>3, <1>9
  <2> QED BY <2>1, <2>2, <2>3
<1> QED BY <1>4, <1>8, <1>9 DEF HistoryInv
LEMMA HistoryInvHolds ==
  ASSUME CanKeepPace, CyclesSuffice
  PROVE  Spec => [](IInv /\ DepInv /\ StampInv /\ DoneInv /\ OrderInv /\ HistoryInv)
<1>1. Init => OrderInv /\ HistoryInv
  <2> SUFFICES ASSUME Init PROVE OrderInv /\ HistoryInv
    OBVIOUS
  <2>1. Insts = {} /\ cycle = 0 /\ stage = "retire" /\ len.disp = 0
    BY EmptySeq DEF Init, Insts
  <2>2. N \in Nat
    BY BandwidthAssumption
  <2> QED BY <2>1, <2>2 DEF OrderInv, HistoryInv
<1>2. /\ IInv /\ ListInv /\ DepInv /\ StampInv /\ TimeInv /\ LatencyInv /\ PaceInv /\ InTrace
      /\ OrderInv /\ [Next]_vars
      => OrderInv'
  BY NextOrderInv
<1>3. /\ IInv /\ ListInv /\ DepInv /\ StampInv /\ QueueInv /\ TimeInv /\ LatencyInv /\ PaceInv
      /\ InTrace /\ HistoryInv /\ [Next]_vars
      => HistoryInv'
  BY NextHistoryInv
<1> QED BY <1>1, <1>2, <1>3, DoneInvHolds, PTL DEF Spec

(* When all is over a stage is printed with the time between two stamps:   *)
(* no difference has wrapped.                                              *)
LEMMA PrintedTimes ==
  ASSUME IInv, DepInv, StampInv, DoneInv, OrderInv, stage = "done", NEW k \in Insts
  PROVE  /\ State(k) = "WB"
         /\ At(k, "ID") = At(k, "IF") + 1
         /\ At(k, "ID") < At(k, "IS") /\ At(k, "IS") < At(k, "EX")
         /\ At(k, "EX") < At(k, "WB") /\ At(k, "WB") <= cycle
         /\ Lasts(k, "IF") = 1
         /\ Lasts(k, "ID") = At(k, "IS") - At(k, "ID")
         /\ Lasts(k, "IS") = At(k, "EX") - At(k, "IS")
         /\ Lasts(k, "EX") = At(k, "WB") - At(k, "EX")
         /\ Lasts(k, "WB") = 1
<1>1. State(k) = "WB"
  BY DEF DoneInv, DoneComplete, InState
<1>2. /\ cycle \in Nat /\ cycle < CycleMod /\ CycleMod \in Nat
      /\ At(k, "IF") \in Nat /\ At(k, "ID") \in Nat /\ At(k, "IS") \in Nat
      /\ At(k, "EX") \in Nat /\ At(k, "WB") \in Nat
  BY StampTypes, WidthAssumption DEF DepInv, StampsPast, InstState
<1>3. At(k, "ID") = At(k, "IF") + 1
  <2>1. Reached(k, "ID")
    BY <1>1 DEF Reached, Passed, InstState
  <2> QED BY <2>1 DEF StampInv, StampOK, Paced
<1>4. /\ At(k, "ID") < At(k, "IS") /\ At(k, "IS") < At(k, "EX")
      /\ At(k, "EX") < At(k, "WB") /\ At(k, "WB") <= cycle
  BY <1>1 DEF OrderInv, OrderOf
<1>5. \A a \in 1..(CycleMod - 1) : a % CycleMod = a
  BY <1>2
<1>6. /\ At(k, "ID") - At(k, "IF") = 1
      /\ 1 \in 1..(CycleMod - 1)
      /\ At(k, "IS") - At(k, "ID") \in 1..(CycleMod - 1)
      /\ At(k, "EX") - At(k, "IS") \in 1..(CycleMod - 1)
      /\ At(k, "WB") - At(k, "EX") \in 1..(CycleMod - 1)
  BY <1>2, <1>3, <1>4
<1>7. /\ Lasts(k, "IF") = (At(k, "ID") - At(k, "IF")) % CycleMod
      /\ Lasts(k, "ID") = (At(k, "IS") - At(k, "ID")) % CycleMod
      /\ Lasts(k, "IS") = (At(k, "EX") - At(k, "IS")) % CycleMod
      /\ Lasts(k, "EX") = (At(k, "WB") - At(k, "EX")) % CycleMod
      /\ Lasts(k, "WB") = 1
  BY DEF Lasts, Until
<1> QED BY <1>1, <1>3, <1>4, <1>5, <1>6, <1>7

LEMMA DoneIsASchedule ==
  ASSUME IInv, DepInv, StampInv, DoneInv, OrderInv, HistoryInv
  PROVE  ReportIsASchedule
<1> SUFFICES ASSUME stage = "done"
             PROVE  /\ \A c \in 0..cycle :
                         /\ Cardinality(PrintedIn("IF", c) \cup PrintedIn("ID", c)) <= 2 * N
                         /\ Cardinality(PrintedIn("IS", c)) <= S
                         /\ Insts # {} => \E st \in InstState : PrintedIn(st, c) # {}
                    /\ \A k \in Insts : /\ \A st \in InstState : Lasts(k, st) > 0
                                        /\ At(k, "WB") < cycle + 1
  <2>1. cycle \in Nat /\ NumCycles = cycle + 1 /\ NumCycles - 1 = cycle
    BY StampTypes DEF NumCycles
  <2> QED BY <2>1 DEF ReportIsASchedule
<1>1. /\ cycle \in Nat
      /\ \A k \in Insts : /\ At(k, "IF") \in Nat /\ At(k, "ID") \in Nat /\ At(k, "IS") \in Nat
                          /\ At(k, "EX") \in Nat /\ At(k, "WB") \in Nat
  BY StampTypes DEF InstState
<1>2. ASSUME NEW k \in Insts, NEW c \in Nat
      PROVE  /\ k \in PrintedIn("IF", c) <=> At(k, "IF") <= c /\ c < At(k, "ID")
             /\ k \in PrintedIn("ID", c) <=> At(k, "ID") <= c /\ c < At(k, "IS")
             /\ k \in PrintedIn("IS", c) <=> At(k, "IS") <= c /\ c < At(k, "EX")
             /\ k \in PrintedIn("EX", c) <=> At(k, "EX") <= c /\ c < At(k, "WB")
             /\ k \in PrintedIn("WB", c) <=> At(k, "WB") = c
  <2>1. /\ k \in PrintedIn("IF", c) <=> c \in At(k, "IF")..(At(k, "IF") + Lasts(k, "IF") - 1)
        /\ k \in PrintedIn("ID", c) <=> c \in At(k, "ID")..(At(k, "ID") + Lasts(k, "ID") - 1)
        /\ k \in PrintedIn("IS", c) <=> c \in At(k, "IS")..(At(k, "IS") + Lasts(k, "IS") - 1)
        /\ k \in PrintedIn("EX", c) <=> c \in At(k, "EX")..(At(k, "EX") + Lasts(k, "EX") - 1)
        /\ k \in PrintedIn("WB", c) <=> c \in At(k, "WB")..(At(k, "WB") + Lasts(k, "WB") - 1)
    BY DEF PrintedIn
  <2>2. /\ At(k, "IF") + Lasts(k, "IF") - 1 = At(k, "ID") - 1
        /\ At(k, "ID") + Lasts(k, "ID") - 1 = At(k, "IS") - 1
        /\ At(k, "IS") + Lasts(k, "IS") - 1 = At(k, "EX") - 1
        /\ At(k, "EX") + Lasts(k, "EX") - 1 = At(k, "WB") - 1
        /\ At(k, "WB") + Lasts(k, "WB") - 1 = At(k, "WB")
    BY <1>1, PrintedTimes
  <2> QED BY <1>1, <2>1, <2>2
<1>3. ASSUME NEW c \in 0..cycle
      PROVE  /\ Cardinality(PrintedIn("IF", c) \cup PrintedIn("ID", c)) <= 2 * N
             /\ Cardinality(PrintedIn("IS", c)) <= S
             /\ Insts # {} => \E st \in InstState : PrintedIn(st, c) # {}
  <2>1. c \in Nat /\ c <= cycle
    BY <1>1, <1>3
  <2>2. Bounded(c)
    BY <1>1, <2>1 DEF HistoryInv
  <2>3. PrintedIn("IF", c) \cup PrintedIn("ID", c) = Waits(c)
    <3>1. ASSUME NEW k \in Insts
          PROVE  k \in PrintedIn("IF", c) \/ k \in PrintedIn("ID", c) <=> k \in Waits(c)
      <4>1. k \in Waits(c) <=> At(k, "IF") <= c /\ c < At(k, "IS")
        BY PrintedTimes DEF Waits
      <4>2. At(k, "IF") <= At(k, "ID") /\ At(k, "ID") <= At(k, "IS")
        BY <1>1, PrintedTimes
      <4> QED BY <1>1, <1>2, <2>1, <4>1, <4>2
    <3> QED BY <3>1 DEF PrintedIn, Waits
  <2>4. PrintedIn("IS", c) = Queued(c)
    <3>1. ASSUME NEW k \in Insts PROVE k \in PrintedIn("IS", c) <=> k \in Queued(c)
      BY <1>2, <2>1, PrintedTimes DEF Queued
    <3> QED BY <3>1 DEF PrintedIn, Queued
  <2>5. ASSUME Insts # {} PROVE \E st \in InstState : PrintedIn(st, c) # {}
    <3>1. cycle > 0
      <4>1. PICK j \in Insts : TRUE
        BY <2>5
      <4>2. At(j, "EX") < At(j, "WB") /\ At(j, "WB") <= cycle
        BY PrintedTimes
      <4> QED BY <1>1, <4>2
    <3>2. PICK k \in Insts : At(k, "IF") <= c /\ (State(k) = "WB" => c <= At(k, "WB"))
      BY <2>1, <3>1 DEF HistoryInv, Covered
    <3>3. At(k, "IF") <= c /\ c <= At(k, "WB")
      BY <3>2, PrintedTimes
    <3>4. \/ k \in PrintedIn("IF", c) \/ k \in PrintedIn("ID", c) \/ k \in PrintedIn("IS", c)
          \/ k \in PrintedIn("EX", c) \/ k \in PrintedIn("WB", c)
      BY <1>1, <1>2, <2>1, <3>3
    <3> QED BY <3>4 DEF InstState
  <2> QED BY <2>2, <2>3, <2>4, <2>5 DEF Bounded
<1>4. ASSUME NEW k \in Insts
      PROVE  (\A st \in InstState : Lasts(k, st) > 0) /\ At(k, "WB") < cycle + 1
  <2>1. /\ Lasts(k, "IF") > 0 /\ Lasts(k, "ID") > 0 /\ Lasts(k, "IS") > 0
        /\ Lasts(k, "EX") > 0 /\ Lasts(k, "WB") > 0
    BY <1>1, PrintedTimes
  <2>2. At(k, "WB") < cycle + 1
    BY <1>1, PrintedTimes
  <2> QED BY <2>1, <2>2 DEF InstState
<1> QED BY <1>3, <1>4

(* The report is a schedule a machine of these sizes can run, read from    *)
(* the printed starts and durations alone: no cycle has more instructions  *)
(* than the lists of dis_fetch and dis_dispatch hold, none is idle, every  *)
(* stage takes time, and the number of cycles is that of the schedule.     *)
THEOREM ReportIsSchedule ==
  ASSUME CanKeepPace, CyclesSuffice
  PROVE  Spec => []ReportIsASchedule
<1>1. IInv /\ DepInv /\ StampInv /\ DoneInv /\ OrderInv /\ HistoryInv => ReportIsASchedule
  BY DoneIsASchedule
<1> QED BY <1>1, HistoryInvHolds, PTL
=============================================================================
