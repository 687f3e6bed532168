---------------------------- MODULE InstListsProofs ----------------------------
(***************************************************************************)
(* The lists in memory are well made and hold every node, through loops    *)
(* that free the node they stand on and through the merge sort in place,   *)
(* and are the sequences of InstQueues, for any number of nodes and        *)
(* addresses.                                                              *)
(***************************************************************************)
EXTENDS InstListsProperties, SequenceTheorems, FiniteSetTheorems, WellFoundedInduction, TLAPS

(* Every non-empty set of numbers has a least one. *)
LEMMA LeastOf ==
  ASSUME NEW T \in SUBSET Nat, T # {}
  PROVE  \E w \in T : \A v \in T : w <= v
<1> DEFINE R == OpToRel(<, Nat)
<1>1. IsWellFoundedOn(R, Nat)
  BY NatLessThanWellFounded
<1>2. ASSUME NEW x \in Nat, NEW y \in Nat, x < y PROVE <<x, y>> \in R
  BY <1>2 DEF OpToRel
<1> HIDE DEF R
<1>3. PICK x \in T : \A y \in T : ~(<<y, x>> \in R)
  BY <1>1, WFMin
<1>4. ASSUME NEW y \in T PROVE x <= y
  <2>1. ~(<<y, x>> \in R) /\ x \in Nat /\ y \in Nat
    BY <1>3
  <2>2. ~(y < x)
    BY <1>2, <2>1
  <2> QED BY <2>1, <2>2
<1> QED BY <1>4
-----------------------------------------------------------------------------
(* A walk of k steps exists, whatever is in memory. *)
Goes(h, m, c, k) ==
  h = [i \in 0..k |->
         IF i = 0 THEN c ELSE LET d == h[i - 1] IN IF d = NULL THEN NULL ELSE m[d].next]

LEMMA StepsExist ==
  ASSUME NEW m, NEW c
  PROVE  \A k \in Nat : \E h : Goes(h, m, c, k)
<1> DEFINE Next1(d) == IF d = NULL THEN NULL ELSE m[d].next
           Is(h, n) == h = [i \in 0..n |-> IF i = 0 THEN c ELSE Next1(h[i - 1])]
           T == {n \in Nat : ~(\E h : Is(h, n))}
<1>1. SUFFICES T = {}
  BY DEF Goes
<1>2. ASSUME T # {} PROVE FALSE
  <2>1. PICK n \in T : \A v \in T : n <= v
    BY <1>2, LeastOf, T \subseteq Nat
  <2>2. n \in Nat /\ ~(\E h : Is(h, n))
    OBVIOUS
  <2>3. n # 0
    <3>1. ASSUME n = 0 PROVE FALSE
      <4> DEFINE h == [i \in 0..0 |-> c]
      <4>1. h = [i \in 0..0 |-> IF i = 0 THEN c ELSE Next1(h[i - 1])]
        OBVIOUS
      <4> QED BY <2>2, <3>1, <4>1
    <3> QED BY <3>1
  <2>4. PICK g : Is(g, n - 1)
    <3>1. n - 1 \in Nat /\ ~(n <= n - 1)
      BY <2>2, <2>3
    <3> QED BY <2>1, <3>1
  <2> DEFINE h == [i \in 0..n |-> IF i < n THEN g[i] ELSE Next1(g[n - 1])]
  <2>5. \A i \in 0..(n - 1) : g[i] = IF i = 0 THEN c ELSE Next1(g[i - 1])
    BY <2>4
  <2>6. \A i \in 0..n : h[i] = IF i = 0 THEN c ELSE Next1(h[i - 1])
    <3>1. ASSUME NEW i \in 0..n PROVE h[i] = IF i = 0 THEN c ELSE Next1(h[i - 1])
      <4> HIDE DEF Next1
      <4>1. CASE i = 0
        BY <2>2, <2>3, <2>5, <4>1
      <4>2. CASE i # 0 /\ i < n
        <5>1. i \in 0..(n - 1) /\ i - 1 \in 0..n /\ i - 1 < n
          BY <2>2, <4>2
        <5>2. h[i] = g[i] /\ h[i - 1] = g[i - 1]
          BY <4>2, <5>1
        <5> QED BY <2>5, <4>2, <5>1, <5>2
      <4>3. CASE i = n
        <5>1. n - 1 \in 0..n /\ n - 1 < n /\ i # 0
          BY <2>2, <2>3, <4>3
        <5>2. h[i] = Next1(g[n - 1]) /\ h[i - 1] = g[n - 1]
          BY <4>3, <5>1
        <5> QED BY <5>1, <5>2
      <4> QED BY <2>2, <4>1, <4>2, <4>3
    <3> QED BY <3>1
  <2>7. Is(h, n)
    <3>1. h = [i \in 0..n |-> h[i]]
      OBVIOUS
    <3> HIDE DEF h, Next1
    <3> QED BY <2>6, <3>1
  <2> HIDE DEF Is
  <2> QED BY <2>2, <2>7
<1> QED BY <1>1, <1>2

(* Where a walk is after i steps, as the function DList.tla computes it. *)
LEMMA AtIs ==
  ASSUME NEW m, NEW c
  PROVE  /\ Cardinality(Cell) \in Nat
         /\ At(m, c)[0] = c
         /\ \A i \in 1..Cardinality(Cell) :
              At(m, c)[i] = IF At(m, c)[i - 1] = NULL THEN NULL ELSE m[At(m, c)[i - 1]].next
<1>1. Cardinality(Cell) \in Nat
  BY CellAssumption, FS_CardinalityType
<1>2. At(m, c) = [i \in 0..Cardinality(Cell) |->
                    IF i = 0 THEN c
                    ELSE LET d == At(m, c)[i - 1] IN IF d = NULL THEN NULL ELSE m[d].next]
  <2>1. \E h : Goes(h, m, c, Cardinality(Cell))
    BY <1>1, StepsExist
  <2> QED BY <2>1, Zenon DEF At, Goes
<1> QED BY <1>1, <1>2
-----------------------------------------------------------------------------
(* A piece of a list: different nodes, each linked to the next.  A chain   *)
(* is one that ends.                                                       *)
Nodes(s) == {s[i] : i \in 1..Len(s)}
Distinct(s) == \A i, j \in 1..Len(s) : i # j => s[i] # s[j]
First(s) == IF s = <<>> THEN NULL ELSE s[1]
Linked(m, s) == \A i \in 1..(Len(s) - 1) : m[s[i]].next = s[i + 1]
Ends(m, s) == s # <<>> => m[s[Len(s)]].next = NULL
Back(m, s) == \A i \in 2..Len(s) : m[s[i]].prev = s[i - 1]

(* Different nodes are no more than there are addresses. *)
LEMMA PieceFits ==
  ASSUME NEW s \in Seq(Cell), Distinct(s)
  PROVE  /\ Len(s) \in Nat /\ Cardinality(Cell) \in Nat
         /\ Len(s) <= Cardinality(Cell)
         /\ IsFiniteSet(Nodes(s)) /\ Cardinality(Nodes(s)) = Len(s)
         /\ Nodes(s) \subseteq Cell
<1>1. s \in [1..Len(s) -> Cell]
  BY LenProperties
<1>0. Len(s) \in Nat
  BY LenProperties
<1>2. s \in Injection(1..Len(s), Cell)
  BY <1>1 DEF Distinct, Injection, IsInjective
<1>3. s \in Bijection(1..Len(s), Nodes(s))
  <2>1. s \in [1..Len(s) -> Nodes(s)]
    BY <1>1 DEF Nodes
  <2>2. \A x \in Nodes(s) : \E i \in 1..Len(s) : s[i] = x
    BY DEF Nodes
  <2> QED BY <2>1, <2>2 DEF Bijection, Injection, Surjection, Distinct, IsInjective
<1>4. Cardinality(1..Len(s)) = Len(s) /\ IsFiniteSet(1..Len(s))
  <2>1. PICK n \in Nat : n = Len(s)
    BY <1>0
  <2>2. IsFiniteSet(1..n) /\ Cardinality(1..n) = IF 1 > n THEN 0 ELSE n - 1 + 1
    BY FS_Interval
  <2>3. Cardinality(1..n) = n
    BY <2>2
  <2> QED BY <2>1, <2>2, <2>3
<1>5. Cardinality(1..Len(s)) <= Cardinality(Cell)
  BY <1>2, CellAssumption, FS_Injection
<1>6. IsFiniteSet(Nodes(s)) /\ Cardinality(Nodes(s)) = Cardinality(1..Len(s))
  BY <1>3, <1>4, FS_Bijection DEF ExistsBijection
<1>7. Nodes(s) \subseteq Cell
  BY <1>1 DEF Nodes
<1> QED BY <1>0, <1>4, <1>5, <1>6, <1>7, CellAssumption, FS_CardinalityType

(* The places of a sequence. *)
LEMMA PieceInterval ==
  ASSUME NEW s \in Seq(Cell)
  PROVE  Cardinality(1..Len(s)) = Len(s) /\ IsFiniteSet(1..Len(s))
<1>1. Len(s) \in Nat
  BY LenProperties
<1>2. PICK n \in Nat : n = Len(s)
  BY <1>1
<1>3. IsFiniteSet(1..n) /\ Cardinality(1..n) = IF 1 > n THEN 0 ELSE n - 1 + 1
  BY FS_Interval
<1>4. Cardinality(1..n) = n
  BY <1>3
<1> QED BY <1>2, <1>3, <1>4

(* The walk along a piece meets its nodes, in their order. *)
LEMMA StepsFollow ==
  ASSUME NEW m, NEW s \in Seq(Cell), Distinct(s), Linked(m, s), s # <<>>
  PROVE  \A i \in 1..Len(s) : At(m, s[1])[i - 1] = s[i]
<1> DEFINE at == At(m, s[1])
           T == {i \in 1..Len(s) : at[i - 1] # s[i]}
<1>1. Len(s) \in Nat /\ Len(s) <= Cardinality(Cell) /\ Cardinality(Cell) \in Nat
  BY PieceFits
<1>2. at[0] = s[1] /\ \A i \in 1..Cardinality(Cell) :
                         at[i] = IF at[i - 1] = NULL THEN NULL ELSE m[at[i - 1]].next
  BY AtIs
<1>3. \A i \in 1..Len(s) : s[i] \in Cell /\ s[i] # NULL
  BY ElementOfSeq, CellAssumption
<1> HIDE DEF at
<1>4. ASSUME T # {} PROVE FALSE
  <2>1. PICK n \in T : \A v \in T : n <= v
    <3>1. T \in SUBSET Nat
      BY <1>1
    <3> QED BY <1>4, <3>1, LeastOf
  <2>2. n \in 1..Len(s) /\ at[n - 1] # s[n] /\ n \in Nat
    BY <1>1
  <2>3. n # 1
    BY <1>2, <2>2
  <2>4. n - 1 \in 1..Len(s) /\ ~(n <= n - 1) /\ n - 1 \in 1..Cardinality(Cell)
    BY <1>1, <2>2, <2>3
  <2>5. at[(n - 1) - 1] = s[n - 1]
    BY <2>1, <2>4
  <2>6. at[n - 1] = m[s[n - 1]].next
    BY <1>2, <1>3, <2>4, <2>5
  <2>7. n - 1 \in 1..(Len(s) - 1) /\ (n - 1) + 1 = n
    BY <1>1, <2>2, <2>3
  <2>8. m[s[n - 1]].next = s[n]
    BY <2>7 DEF Linked
  <2> QED BY <2>2, <2>6, <2>8
<1> QED BY <1>4 DEF at

(* The walk from the first node of a piece begins with the piece. *)
LEMMA WalkBegins ==
  ASSUME NEW m, NEW s \in Seq(Cell), Distinct(s), Linked(m, s), s # <<>>
  PROVE  /\ Len(Walk(m, s[1])) \in Nat /\ Len(s) <= Len(Walk(m, s[1]))
         /\ \A i \in 1..Len(s) : Walk(m, s[1])[i] = s[i]
<1> DEFINE at == At(m, s[1])
           visits == {i \in 1..Cardinality(Cell) : at[i - 1] # NULL}
<1>1. Len(s) \in Nat /\ Len(s) <= Cardinality(Cell) /\ Cardinality(Cell) \in Nat
  BY PieceFits
<1>2. \A i \in 1..Len(s) : s[i] \in Cell /\ s[i] # NULL
  BY ElementOfSeq, CellAssumption
<1>3. \A i \in 1..Len(s) : at[i - 1] = s[i]
  BY StepsFollow
<1>4. Walk(m, s[1]) = [i \in 1..Cardinality(visits) |-> at[i - 1]]
  BY DEF Walk
<1> HIDE DEF at
<1>5. 1..Len(s) \subseteq visits /\ visits \subseteq 1..Cardinality(Cell)
  BY <1>1, <1>2, <1>3
<1>6. IsFiniteSet(1..Cardinality(Cell)) /\ Cardinality(1..Len(s)) = Len(s)
  BY <1>1, FS_Interval
<1>7. IsFiniteSet(visits) /\ Cardinality(visits) \in Nat
  BY <1>5, <1>6, FS_Subset, FS_CardinalityType
<1>8. Len(s) <= Cardinality(visits)
  BY <1>5, <1>6, <1>7, FS_Subset
<1> HIDE DEF visits
<1>9. Len(Walk(m, s[1])) = Cardinality(visits)
  BY <1>4, <1>7
<1> QED BY <1>1, <1>3, <1>4, <1>7, <1>8, <1>9

(* The walk along a chain is the chain. *)
LEMMA WalkIs ==
  ASSUME NEW m, NEW s \in Seq(Cell), Distinct(s), Linked(m, s), Ends(m, s)
  PROVE  Walk(m, First(s)) = s
<1> DEFINE at == At(m, First(s))
           visits == {i \in 1..Cardinality(Cell) : at[i - 1] # NULL}
           M == Cardinality(Cell)
<1>1. Len(s) \in Nat /\ Len(s) <= M /\ M \in Nat
  BY PieceFits
<1>2. \A i \in 1..Len(s) : s[i] \in Cell /\ s[i] # NULL
  BY ElementOfSeq, CellAssumption
<1>3. \A i \in 1..Len(s) : at[i - 1] = s[i]
  BY StepsFollow, <1>1 DEF First
<1>4. at[0] = First(s) /\ \A i \in 1..M :
                            at[i] = IF at[i - 1] = NULL THEN NULL ELSE m[at[i - 1]].next
  BY AtIs
<1>5. s = <<>> <=> Len(s) = 0
  BY EmptySeq
<1> HIDE DEF at, M
<1>6. at[Len(s)] = NULL \/ Len(s) = M
  <2>1. CASE s = <<>>
    BY <1>4, <1>5, <2>1 DEF First
  <2>2. CASE s # <<>> /\ Len(s) < M
    <3>1. Len(s) \in 1..M /\ Len(s) \in 1..Len(s)
      BY <1>1, <1>5, <2>2
    <3>2. at[Len(s) - 1] = s[Len(s)] /\ s[Len(s)] # NULL
      BY <1>2, <1>3, <3>1
    <3> QED BY <1>4, <2>2, <3>1, <3>2 DEF Ends
  <2> QED BY <1>1, <2>1, <2>2
<1> DEFINE T == {i \in Len(s)..M : at[i] # NULL /\ Len(s) < M}
<1>7. ASSUME T # {} PROVE FALSE
  <2>1. PICK n \in T : \A v \in T : n <= v
    <3>1. T \in SUBSET Nat
      BY <1>1
    <3> QED BY <1>7, <3>1, LeastOf
  <2>2. n \in Len(s)..M /\ at[n] # NULL /\ Len(s) < M
    OBVIOUS
  <2>3. n # Len(s)
    BY <1>1, <1>6, <2>2
  <2>4. n - 1 \in Len(s)..M /\ ~(n <= n - 1) /\ n \in 1..M
    BY <1>1, <2>2, <2>3
  <2>5. at[n - 1] = NULL
    BY <2>1, <2>2, <2>4
  <2> QED BY <1>4, <2>2, <2>4, <2>5
<1>8. visits = 1..Len(s)
  <2>1. ASSUME NEW i \in 1..M PROVE at[i - 1] # NULL <=> i <= Len(s)
    <3>1. CASE i <= Len(s)
      BY <1>1, <1>2, <1>3, <3>1
    <3>2. CASE i > Len(s)
      <4>1. i - 1 \in Len(s)..M /\ Len(s) < M
        BY <1>1, <3>2
      <4> QED BY <1>1, <1>7, <3>2, <4>1
    <3> QED BY <1>1, <3>1, <3>2
  <2> QED BY <1>1, <2>1 DEF M
<1>9. Cardinality(visits) = Len(s)
  BY <1>8, PieceInterval
<1>10. Walk(m, First(s)) = [i \in 1..Len(s) |-> at[i - 1]]
  BY <1>9 DEF Walk, at, M
<1>11. s = [i \in 1..Len(s) |-> s[i]]
  BY LenProperties
<1> QED BY <1>3, <1>10, <1>11
-----------------------------------------------------------------------------
(* A list: its first node leads to the others, each points back at the one *)
(* before it and the first at the last.                                    *)
IsList(m, h, s) ==
  /\ s \in Seq(Cell) /\ Distinct(s) /\ h = First(s)
  /\ Linked(m, s) /\ Ends(m, s) /\ Back(m, s)
  /\ s # <<>> => m[s[1]].prev = s[Len(s)]
NodeRec == [num : 0..MaxInst, prev : Pointer, next : Pointer]

(* One pointer written. *)
PutNext(m, a, x) == [m EXCEPT ![a].next = x]
PutPrev(m, a, x) == [m EXCEPT ![a].prev = x]

LEMMA NextWritten ==
  ASSUME NEW m \in [Cell -> NodeRec], NEW a \in Cell, NEW x \in Pointer
  PROVE  /\ PutNext(m, a, x) \in [Cell -> NodeRec] /\ PutNext(m, a, x)[a].next = x
         /\ PutNext(m, a, x)[a].prev = m[a].prev /\ PutNext(m, a, x)[a].num = m[a].num
         /\ \A c \in Cell \ {a} : PutNext(m, a, x)[c] = m[c]
BY DEF NodeRec, PutNext

LEMMA PrevWritten ==
  ASSUME NEW m \in [Cell -> NodeRec], NEW a \in Cell, NEW x \in Pointer
  PROVE  /\ PutPrev(m, a, x) \in [Cell -> NodeRec] /\ PutPrev(m, a, x)[a].prev = x
         /\ PutPrev(m, a, x)[a].next = m[a].next /\ PutPrev(m, a, x)[a].num = m[a].num
         /\ \A c \in Cell \ {a} : PutPrev(m, a, x)[c] = m[c]
BY DEF NodeRec, PutPrev

(* The walk from the head of a list meets its nodes, and it is well made. *)
LEMMA ListIsMade ==
  ASSUME NEW m, NEW h, NEW s, IsList(m, h, s)
  PROVE  /\ Walk(m, h) = s /\ WellMade(m, h)
         /\ {Walk(m, h)[i] : i \in 1..Len(Walk(m, h))} = Nodes(s)
<1>1. Walk(m, h) = s
  BY WalkIs DEF IsList
<1>2. s \in Seq(Cell) /\ h = First(s)
  BY DEF IsList
<1>3. ASSUME h # NULL PROVE s # <<>> /\ h = s[1]
  BY <1>2, <1>3 DEF First
<1>4. WellMade(m, h)
  <2>1. ASSUME h # NULL
        PROVE  /\ \A i, j \in 1..Len(s) : i # j => s[i] # s[j]
               /\ m[s[Len(s)]].next = NULL /\ m[h].prev = s[Len(s)]
               /\ \A i \in 2..Len(s) : m[s[i]].prev = s[i - 1]
    BY <1>3, <2>1 DEF IsList, Distinct, Ends, Back
  <2> QED BY <1>1, <2>1 DEF WellMade
<1> QED BY <1>1, <1>4 DEF Nodes

(* A list depends on the pointers of its own nodes. *)
LEMMA ListStays ==
  ASSUME NEW m, NEW n, NEW h, NEW s, IsList(m, h, s),
         \A c \in Nodes(s) : n[c].next = m[c].next /\ n[c].prev = m[c].prev
  PROVE  IsList(n, h, s)
<1>1. s \in Seq(Cell) /\ Len(s) \in Nat
  BY LenProperties DEF IsList
<1>2. \A i \in 1..Len(s) : n[s[i]].next = m[s[i]].next /\ n[s[i]].prev = m[s[i]].prev
  BY DEF Nodes
<1>3. s # <<>> => 1 \in 1..Len(s) /\ Len(s) \in 1..Len(s)
  BY <1>1, EmptySeq
<1>4. Linked(n, s)
  BY <1>1, <1>2 DEF IsList, Linked
<1>5. Ends(n, s) /\ (s # <<>> => n[s[1]].prev = s[Len(s)])
  BY <1>2, <1>3 DEF IsList, Ends
<1>6. Back(n, s)
  BY <1>1, <1>2 DEF IsList, Back
<1> QED BY <1>4, <1>5, <1>6 DEF IsList

(* DL_APPEND puts the node behind the others and touches nothing else. *)
LEMMA AppendedNodes ==
  ASSUME NEW s \in Seq(Cell), NEW e \in Cell, Distinct(s), e \notin Nodes(s)
  PROVE  /\ Append(s, e) \in Seq(Cell) /\ Append(s, e) # <<>>
         /\ Len(Append(s, e)) = Len(s) + 1 /\ Len(s) \in Nat
         /\ \A i \in 1..Len(s) : Append(s, e)[i] = s[i]
         /\ Append(s, e)[Len(s) + 1] = e
         /\ Distinct(Append(s, e)) /\ Nodes(Append(s, e)) = Nodes(s) \cup {e}
<1>1. /\ Append(s, e) \in Seq(Cell) /\ Append(s, e) # <<>>
      /\ Len(Append(s, e)) = Len(s) + 1
      /\ \A i \in 1..Len(s) : Append(s, e)[i] = s[i]
      /\ Append(s, e)[Len(s) + 1] = e
  BY AppendProperties
<1>2. Len(s) \in Nat
  BY LenProperties
<1>3. \A i \in 1..(Len(s) + 1) : i \in 1..Len(s) \/ i = Len(s) + 1
  BY <1>2
<1>4. \A i \in 1..Len(s) : s[i] # e /\ i # Len(s) + 1
  BY <1>2 DEF Nodes
<1>5. Distinct(Append(s, e))
  BY <1>1, <1>3, <1>4 DEF Distinct
<1>6. Nodes(Append(s, e)) = Nodes(s) \cup {e}
  <2>1. ASSUME NEW x \in Nodes(Append(s, e)) PROVE x \in Nodes(s) \cup {e}
    BY <1>1, <1>3 DEF Nodes
  <2>2. ASSUME NEW x \in Nodes(s) PROVE x \in Nodes(Append(s, e))
    <3>1. PICK i \in 1..Len(s) : s[i] = x
      BY DEF Nodes
    <3>2. i \in 1..(Len(s) + 1) /\ Append(s, e)[i] = x
      BY <1>1, <1>2, <3>1
    <3> QED BY <1>1, <3>2 DEF Nodes
  <2>3. e \in Nodes(Append(s, e))
    <3>1. Len(s) + 1 \in 1..(Len(s) + 1)
      BY <1>2
    <3> QED BY <1>1, <3>1 DEF Nodes
  <2> QED BY <2>1, <2>2, <2>3
<1> QED BY <1>1, <1>2, <1>5, <1>6

(* What DL_APPEND leaves is a list with the node at its end. *)
LEMMA AppendIs ==
  ASSUME NEW m \in [Cell -> NodeRec], NEW h, NEW s, IsList(m, h, s),
         NEW e \in Cell, e \notin Nodes(s),
         NEW l, l = DLAppend([head |-> h, mem |-> m], e)
  PROVE  /\ IsList(l.mem, l.head, Append(s, e)) /\ l.mem \in [Cell -> NodeRec]
         /\ \A c \in Cell : l.mem[c].num = m[c].num
         /\ \A c \in Cell \ (Nodes(s) \cup {e}) : l.mem[c] = m[c]
<1> DEFINE t == Append(s, e)
<1>1. s \in Seq(Cell) /\ Distinct(s) /\ h = First(s)
  BY DEF IsList
<1>2. /\ t \in Seq(Cell) /\ t # <<>> /\ Len(t) = Len(s) + 1 /\ Len(s) \in Nat
      /\ \A i \in 1..Len(s) : t[i] = s[i]
      /\ t[Len(s) + 1] = e
      /\ Distinct(t)
  BY <1>1, AppendedNodes
<1>3. /\ (s = <<>> <=> Len(s) = 0)
      /\ \A i \in 1..Len(s) : s[i] \in Cell /\ s[i] # e /\ s[i] # NULL
      /\ e # NULL
  BY <1>1, EmptySeq, ElementOfSeq, CellAssumption DEF Nodes
<1>4. CASE s = <<>>
  <2>1. h = NULL /\ Len(s) = 0
    BY <1>1, <1>3, <1>4 DEF First
  <2>2. /\ l.head = e
        /\ l.mem = [m EXCEPT ![e].prev = e, ![e].next = NULL]
    BY <2>1 DEF DLAppend
  <2>3. /\ l.mem \in [Cell -> NodeRec] /\ l.mem[e].prev = e /\ l.mem[e].next = NULL
        /\ \A c \in Cell : l.mem[c].num = m[c].num
        /\ \A c \in Cell \ {e} : l.mem[c] = m[c]
    <3> DEFINE n == PutPrev(m, e, e)
    <3>1. l.mem = PutNext(n, e, NULL)
      BY <2>2 DEF PutNext, PutPrev
    <3>2. NULL \in Pointer /\ e \in Pointer
      BY DEF Pointer
    <3>3. /\ n \in [Cell -> NodeRec] /\ n[e].prev = e /\ n[e].num = m[e].num
          /\ \A c \in Cell \ {e} : n[c] = m[c]
      BY <3>2, PrevWritten
    <3> HIDE DEF n
    <3>4. /\ l.mem \in [Cell -> NodeRec] /\ l.mem[e].next = NULL
          /\ l.mem[e].prev = n[e].prev /\ l.mem[e].num = n[e].num
          /\ \A c \in Cell \ {e} : l.mem[c] = n[c]
      BY <3>1, <3>2, <3>3, NextWritten
    <3> QED BY <3>3, <3>4
  <2>4. First(t) = e /\ t[1] = e /\ Len(t) = 1
    BY <1>2, <2>1 DEF First
  <2> HIDE DEF t
  <2>5. Linked(l.mem, t) /\ Back(l.mem, t) /\ Ends(l.mem, t)
    BY <2>3, <2>4 DEF Linked, Back, Ends
  <2>6. IsList(l.mem, l.head, t)
    BY <1>2, <2>2, <2>3, <2>4, <2>5 DEF IsList
  <2> QED BY <2>3, <2>6 DEF t
<1>5. CASE s # <<>>
  <2> DEFINE last == s[Len(s)]
             first == s[1]
             L == Len(s)
  <2>1. L \in Nat /\ 1 \in 1..L /\ L \in 1..L /\ h = first /\ h # NULL
    BY <1>1, <1>2, <1>3, <1>5 DEF First
  <2>2. m[h].prev = last /\ last \in Cell /\ first \in Cell /\ last # e /\ first # e
    BY <1>3, <1>5, <2>1 DEF IsList
  <2>3. /\ l.head = first
        /\ l.mem = [m EXCEPT ![last].next = e, ![first].prev = e,
                             ![e].prev = last, ![e].next = NULL]
    BY <2>1, <2>2 DEF DLAppend
  <2> HIDE DEF last, first
  <2>4. /\ l.mem \in [Cell -> NodeRec] /\ l.mem[e].prev = last /\ l.mem[e].next = NULL
        /\ \A c \in Cell : l.mem[c].num = m[c].num
        /\ \A c \in Cell \ {last, first, e} : l.mem[c] = m[c]
        /\ \A c \in Cell \ {last, e} : l.mem[c].next = m[c].next
        /\ \A c \in Cell \ {first, e} : l.mem[c].prev = m[c].prev
        /\ l.mem[last].next = e /\ l.mem[first].prev = e
    <3> DEFINE m1 == PutNext(m, last, e)
               m2 == PutPrev(m1, first, e)
               m3 == PutPrev(m2, e, last)
    <3>1. l.mem = PutNext(m3, e, NULL)
      BY <2>3 DEF PutNext, PutPrev
    <3>2. NULL \in Pointer /\ e \in Pointer /\ last \in Pointer
      BY <2>2 DEF Pointer
    <3>3. /\ m1 \in [Cell -> NodeRec] /\ m1[last].next = e
          /\ m1[last].prev = m[last].prev /\ m1[last].num = m[last].num
          /\ \A c \in Cell \ {last} : m1[c] = m[c]
      BY <2>2, <3>2, NextWritten
    <3> HIDE DEF m1
    <3>4. /\ m2 \in [Cell -> NodeRec] /\ m2[first].prev = e
          /\ m2[first].next = m1[first].next /\ m2[first].num = m1[first].num
          /\ \A c \in Cell \ {first} : m2[c] = m1[c]
      BY <2>2, <3>2, <3>3, PrevWritten
    <3> HIDE DEF m2
    <3>5. /\ m3 \in [Cell -> NodeRec] /\ m3[e].prev = last /\ m3[e].num = m2[e].num
          /\ \A c \in Cell \ {e} : m3[c] = m2[c]
      BY <3>2, <3>4, PrevWritten
    <3> HIDE DEF m3
    <3>6. /\ l.mem \in [Cell -> NodeRec] /\ l.mem[e].next = NULL
          /\ l.mem[e].prev = m3[e].prev /\ l.mem[e].num = m3[e].num
          /\ \A c \in Cell \ {e} : l.mem[c] = m3[c]
      BY <3>1, <3>2, <3>5, NextWritten
    <3> QED BY <2>2, <3>3, <3>4, <3>5, <3>6
  <2>5. t[1] = first /\ First(t) = first /\ Len(t) = L + 1 /\ t[L] = last /\ t[L + 1] = e
    BY <1>2, <2>1 DEF First, first, last
  <2>6. \A i \in 1..L : /\ t[i] = s[i] /\ s[i] \in Cell /\ s[i] # e
                        /\ (s[i] = last => i = L) /\ (s[i] = first => i = 1)
    BY <1>1, <1>2, <1>3, <2>1 DEF Distinct, first, last
  <2>7. /\ \A i \in 1..(L - 1) : m[s[i]].next = s[i + 1]
        /\ \A i \in 2..L : m[s[i]].prev = s[i - 1]
    BY DEF IsList, Linked, Back
  <2> HIDE DEF t, L
  <2>8. Linked(l.mem, t)
    <3>1. ASSUME NEW i \in 1..L PROVE l.mem[t[i]].next = t[i + 1]
      <4>1. CASE i = L
        BY <2>4, <2>5, <4>1
      <4>2. CASE i # L
        <5>1. i \in 1..(L - 1) /\ i + 1 \in 1..L
          BY <2>1, <4>2
        <5> QED BY <2>4, <2>6, <2>7, <4>2, <5>1
      <4> QED BY <4>1, <4>2
    <3> QED BY <2>1, <2>5, <3>1 DEF Linked
  <2>9. Back(l.mem, t)
    <3>1. ASSUME NEW i \in 2..(L + 1) PROVE l.mem[t[i]].prev = t[i - 1]
      <4>1. CASE i = L + 1
        BY <2>1, <2>4, <2>5, <4>1
      <4>2. CASE i # L + 1
        <5>1. i \in 2..L /\ i - 1 \in 1..L /\ i \in 1..L /\ i # 1
          BY <2>1, <4>2
        <5> QED BY <2>4, <2>6, <2>7, <5>1
      <4> QED BY <4>1, <4>2
    <3> QED BY <2>5, <3>1 DEF Back
  <2>10. Ends(l.mem, t) /\ l.mem[t[1]].prev = t[Len(t)]
    BY <2>4, <2>5 DEF Ends
  <2>11. IsList(l.mem, l.head, t)
    BY <1>2, <2>3, <2>5, <2>8, <2>9, <2>10 DEF IsList
  <2>12. last \in Nodes(s) /\ first \in Nodes(s)
    BY <2>1 DEF last, first, Nodes, L
  <2> QED BY <2>4, <2>11, <2>12 DEF t
<1> QED BY <1>4, <1>5
-----------------------------------------------------------------------------
(* A sequence without the element at k. *)
LEMMA RemovedIs ==
  ASSUME NEW S, NEW s \in Seq(S), NEW k \in 1..Len(s)
  PROVE  LET t == RemoveAt(s, k)
         IN  /\ t \in Seq(S) /\ Len(t) = Len(s) - 1 /\ Len(s) \in Nat
             /\ \A j \in 1..(k - 1) : t[j] = s[j]
             /\ \A j \in k..(Len(s) - 1) : t[j] = s[j + 1]
<1> DEFINE t == RemoveAt(s, k)
           a == SubSeq(s, 1, k - 1)
           b == SubSeq(s, k + 1, Len(s))
<1>1. /\ a \in Seq(S) /\ Len(a) = k - 1
      /\ \A j \in 1..(k - 1) : a[j] = s[j]
  OBVIOUS
<1>2. /\ b \in Seq(S) /\ Len(b) = Len(s) - k
      /\ \A j \in 1..(Len(s) - k) : b[j] = s[k + j]
  OBVIOUS
<1>3. t = a \o b
  BY DEF RemoveAt
<1>4. Len(s) \in Nat
  BY LenProperties
<1> HIDE DEF a, b, t
<1>5. /\ t \in Seq(S) /\ Len(t) = Len(a) + Len(b)
      /\ \A j \in 1..(Len(a) + Len(b)) : t[j] = IF j <= Len(a) THEN a[j] ELSE b[j - Len(a)]
  BY <1>1, <1>2, <1>3, ConcatProperties
<1>6. Len(t) = Len(s) - 1
  BY <1>1, <1>2, <1>4, <1>5
<1>7. \A j \in 1..(Len(s) - 1) : t[j] = IF j <= k - 1 THEN a[j] ELSE b[j - (k - 1)]
  <2>1. Len(a) = k - 1 /\ Len(a) + Len(b) = Len(s) - 1
    BY <1>1, <1>2, <1>4
  <2> QED BY <1>5, <2>1
<1>8. ASSUME NEW j \in 1..(k - 1) PROVE t[j] = s[j]
  <2>1. j \in 1..(Len(s) - 1) /\ j <= k - 1
    BY <1>4
  <2> QED BY <1>1, <1>7, <2>1
<1>9. ASSUME NEW j \in k..(Len(s) - 1) PROVE t[j] = s[j + 1]
  <2>1. j - (k - 1) \in 1..(Len(s) - k) /\ k + (j - (k - 1)) = j + 1
    BY <1>4
  <2>2. t[j] = b[j - (k - 1)]
    <3>1. j \in 1..(Len(s) - 1) /\ ~(j <= k - 1)
      BY <1>4
    <3> QED BY <1>7, <3>1
  <2> QED BY <1>2, <2>1, <2>2
<1> QED BY <1>4, <1>5, <1>6, <1>8, <1>9 DEF t

LEMMA RemovedNodes ==
  ASSUME NEW s \in Seq(Cell), Distinct(s), NEW k \in 1..Len(s)
  PROVE  LET t == RemoveAt(s, k)
         IN  /\ t \in Seq(Cell) /\ Len(t) = Len(s) - 1 /\ Len(s) \in Nat
             /\ \A j \in 1..(k - 1) : t[j] = s[j]
             /\ \A j \in k..(Len(s) - 1) : t[j] = s[j + 1]
             /\ Distinct(t) /\ Nodes(t) = Nodes(s) \ {s[k]}
<1> DEFINE t == RemoveAt(s, k)
           P(j) == IF j < k THEN j ELSE j + 1
<1>1. /\ t \in Seq(Cell) /\ Len(t) = Len(s) - 1 /\ Len(s) \in Nat
      /\ \A j \in 1..(k - 1) : t[j] = s[j]
      /\ \A j \in k..(Len(s) - 1) : t[j] = s[j + 1]
  BY RemovedIs
<1> HIDE DEF t
<1>2. ASSUME NEW j \in 1..Len(t)
      PROVE  P(j) \in 1..Len(s) /\ P(j) # k /\ t[j] = s[P(j)]
  <2>1. CASE j < k
    BY <1>1, <2>1
  <2>2. CASE j >= k
    BY <1>1, <2>2
  <2> QED BY <1>1, <2>1, <2>2
<1>3. Distinct(t)
  <2>1. ASSUME NEW i \in 1..Len(t), NEW j \in 1..Len(t), i # j PROVE t[i] # t[j]
    <3>1. P(i) # P(j)
      BY <1>1, <2>1
    <3> HIDE DEF P
    <3> QED BY <1>2, <3>1 DEF Distinct
  <2> QED BY <2>1 DEF Distinct
<1>4. Nodes(t) = Nodes(s) \ {s[k]}
  <2>1. ASSUME NEW x \in Nodes(t) PROVE x \in Nodes(s) \ {s[k]}
    <3>1. PICK j \in 1..Len(t) : t[j] = x
      BY DEF Nodes
    <3>2. P(j) \in 1..Len(s) /\ P(j) # k /\ x = s[P(j)]
      BY <1>2, <3>1
    <3> HIDE DEF P
    <3> QED BY <3>2 DEF Nodes, Distinct
  <2>2. ASSUME NEW x \in Nodes(s) \ {s[k]} PROVE x \in Nodes(t)
    <3>1. PICK i \in 1..Len(s) : s[i] = x /\ i # k
      BY DEF Nodes
    <3>2. CASE i < k
      <4>1. i \in 1..Len(t) /\ i \in 1..(k - 1)
        BY <1>1, <3>2
      <4> QED BY <1>1, <3>1, <4>1 DEF Nodes
    <3>3. CASE i > k
      <4>1. i - 1 \in 1..Len(t) /\ i - 1 \in k..(Len(s) - 1) /\ (i - 1) + 1 = i
        BY <1>1, <3>3
      <4>2. t[i - 1] = x
        BY <1>1, <3>1, <4>1
      <4> QED BY <4>1, <4>2 DEF Nodes
    <3> QED BY <1>1, <3>1, <3>2, <3>3
  <2> QED BY <2>1, <2>2
<1> QED BY <1>1, <1>3, <1>4 DEF t

(* DL_DELETE takes the node out, and mends the pointers of its neighbours. *)
LEMMA DeleteIs ==
  ASSUME NEW m \in [Cell -> NodeRec], NEW h, NEW s, IsList(m, h, s), NEW k \in 1..Len(s),
         NEW l, l = DLDelete([head |-> h, mem |-> m], s[k])
  PROVE  /\ IsList(l.mem, l.head, RemoveAt(s, k)) /\ l.mem \in [Cell -> NodeRec]
         /\ \A c \in Cell : l.mem[c].num = m[c].num
         /\ \A c \in Cell \ Nodes(RemoveAt(s, k)) : l.mem[c] = m[c]
<1> DEFINE t == RemoveAt(s, k)
           L == Len(s)
           del == s[k]
<1>1. /\ s \in Seq(Cell) /\ Distinct(s) /\ h = First(s) /\ Linked(m, s) /\ Ends(m, s)
      /\ Back(m, s) /\ (s # <<>> => m[s[1]].prev = s[Len(s)])
  BY DEF IsList
<1>2. /\ t \in Seq(Cell) /\ Len(t) = L - 1 /\ L \in Nat
      /\ \A j \in 1..(k - 1) : t[j] = s[j]
      /\ \A j \in k..(L - 1) : t[j] = s[j + 1]
      /\ Distinct(t) /\ Nodes(t) = Nodes(s) \ {s[k]}
  BY <1>1, RemovedNodes
<1>3. /\ s # <<>> /\ 1 \in 1..L /\ L \in 1..L /\ h = s[1]
      /\ \A i \in 1..L : s[i] \in Cell /\ s[i] # NULL /\ s[i] \in Nodes(s)
      /\ t = <<>> <=> L = 1
  <2>1. s # <<>> /\ 1 \in 1..L /\ L \in 1..L
    BY <1>1, <1>2, EmptySeq
  <2>2. \A i \in 1..L : s[i] \in Cell /\ s[i] # NULL /\ s[i] \in Nodes(s)
    BY <1>1, ElementOfSeq, CellAssumption DEF Nodes
  <2>3. t = <<>> <=> L = 1
    BY <1>2, EmptySeq
  <2> QED BY <1>1, <2>1, <2>2, <2>3 DEF First
<1>4. /\ \A i \in 1..(L - 1) : m[s[i]].next = s[i + 1]
      /\ m[s[L]].next = NULL
      /\ \A i \in 2..L : m[s[i]].prev = s[i - 1]
      /\ m[s[1]].prev = s[L]
      /\ \A i, j \in 1..L : i # j => s[i] # s[j]
  BY <1>1, <1>3 DEF Linked, Ends, Back, Distinct
<1>5. \A i \in 1..L : m[s[i]].next \in Pointer /\ m[s[i]].prev \in Pointer
  BY <1>3 DEF NodeRec
<1> HIDE DEF t, L
<1>6. CASE L = 1
  <2>1. k = 1 /\ m[del].prev = del
    BY <1>3, <1>4, <1>6 DEF L
  <2>2. l = [head |-> NULL, mem |-> m]
    BY <2>1 DEF DLDelete
  <2>3. t = <<>> /\ Len(t) = 0
    BY <1>2, <1>3, <1>6
  <2>4. IsList(m, NULL, t)
    BY <1>2, <2>3 DEF IsList, First, Linked, Ends, Back
  <2> QED BY <2>2, <2>4 DEF t
<1>7. CASE k = 1 /\ L # 1
  <2>1. 2 \in 1..L /\ k \in 1..(L - 1) /\ k + 1 = 2
    BY <1>2, <1>3, <1>7
  <2>2. /\ m[del].prev = s[L] /\ s[L] # del /\ m[del].next = s[2] /\ h = del
        /\ s[2] \in Cell /\ s[L] \in Pointer
    BY <1>3, <1>4, <1>7, <2>1 DEF Pointer
  <2>3. l.head = s[2] /\ l.mem = PutPrev(m, s[2], s[L])
    BY <2>2 DEF DLDelete, PutPrev
  <2>4. /\ l.mem \in [Cell -> NodeRec] /\ l.mem[s[2]].prev = s[L]
        /\ l.mem[s[2]].next = m[s[2]].next /\ l.mem[s[2]].num = m[s[2]].num
        /\ \A c \in Cell \ {s[2]} : l.mem[c] = m[c]
    BY <2>2, <2>3, PrevWritten
  <2>5. /\ Len(t) = L - 1 /\ t # <<>> /\ t[1] = s[2] /\ t[L - 1] = s[L]
        /\ \A j \in 1..(L - 1) : t[j] = s[j + 1]
    <3>1. \A j \in 1..(L - 1) : t[j] = s[j + 1]
      BY <1>2, <1>7
    <3>2. 1 \in 1..(L - 1) /\ L - 1 \in 1..(L - 1) /\ (L - 1) + 1 = L
      BY <1>2, <2>1
    <3> QED BY <1>2, <1>3, <1>7, <3>1, <3>2
  <2> HIDE DEF del
  <2>6. \A j \in 1..(L - 1) : j + 1 \in 1..L /\ t[j] \in Cell /\ l.mem[t[j]].next = m[s[j + 1]].next
    <3>1. ASSUME NEW j \in 1..(L - 1) PROVE j + 1 \in 1..L /\ t[j] = s[j + 1]
      BY <1>2, <2>5
    <3>2. \A i \in 1..L : s[i] \in Cell /\ l.mem[s[i]].next = m[s[i]].next
      BY <1>3, <2>4
    <3> QED BY <3>1, <3>2
  <2>7. Linked(l.mem, t)
    <3>1. ASSUME NEW j \in 1..((L - 1) - 1) PROVE l.mem[t[j]].next = t[j + 1]
      <4>1. j \in 1..(L - 1) /\ j + 1 \in 1..(L - 1)
        BY <1>2
      <4> QED BY <1>4, <2>5, <2>6, <4>1
    <3> QED BY <2>5, <3>1 DEF Linked
  <2>8. Ends(l.mem, t)
    <3>1. L - 1 \in 1..(L - 1) /\ (L - 1) + 1 = L
      BY <1>2, <2>1
    <3>2. l.mem[t[L - 1]].next = NULL
      BY <1>4, <2>6, <3>1
    <3> QED BY <2>5, <3>2 DEF Ends
  <2>9. Back(l.mem, t)
    <3>1. ASSUME NEW j \in 2..(L - 1) PROVE l.mem[t[j]].prev = t[j - 1]
      <4>1. /\ j \in 1..(L - 1) /\ j - 1 \in 1..(L - 1) /\ j + 1 \in 2..L /\ j + 1 # 2
            /\ j + 1 \in 1..L /\ (j - 1) + 1 = j /\ (j + 1) - 1 = j
        BY <1>2
      <4>2. t[j] = s[j + 1] /\ t[j - 1] = s[j] /\ s[j + 1] # s[2] /\ s[j + 1] \in Cell
        BY <1>3, <1>4, <2>1, <2>5, <4>1
      <4>3. m[s[j + 1]].prev = s[j]
        BY <1>4, <4>1
      <4> QED BY <2>4, <4>2, <4>3
    <3> QED BY <2>5, <3>1 DEF Back
  <2>10. IsList(l.mem, l.head, t)
    BY <1>2, <2>3, <2>4, <2>5, <2>7, <2>8, <2>9 DEF IsList, First
  <2>11. s[2] \in Nodes(t)
    <3>1. s[2] \in Nodes(s) /\ s[2] # s[k]
      BY <1>3, <1>4, <1>7, <2>1
    <3> QED BY <1>2, <3>1
  <2> QED BY <2>4, <2>10, <2>11 DEF t, del
<1>8. CASE k # 1
  <2>1. k - 1 \in 1..L /\ k \in 2..L /\ k - 1 # k /\ 1 \in 1..(k - 1) /\ L - 1 \in 1..L
    BY <1>2, <1>3, <1>8 DEF L
  <2> DEFINE front == s[k - 1]
             beyond == m[del].next
             mend == IF beyond # NULL THEN beyond ELSE h
  <2>2. /\ m[del].prev = front /\ front # del /\ h # del /\ front \in Cell /\ del \in Cell
        /\ front \in Pointer /\ beyond \in Pointer
    <3>1. m[del].prev = front /\ front # del
      BY <1>4, <2>1 DEF L
    <3>2. s[1] # del
      BY <1>3, <1>4, <1>8 DEF L
    <3> QED BY <1>3, <1>5, <2>1, <3>1, <3>2 DEF Pointer, L
  <2>3. \/ k < L /\ beyond = s[k + 1] /\ beyond # NULL /\ k + 1 \in 1..L
        \/ k = L /\ beyond = NULL
    <3>1. CASE k < L
      <4>1. k \in 1..(L - 1) /\ k + 1 \in 1..L
        BY <1>2, <2>1, <3>1
      <4> QED BY <1>3, <1>4, <3>1, <4>1
    <3>2. CASE k = L
      BY <1>4, <3>2
    <3> QED BY <1>2, <2>1, <3>1, <3>2
  <2>4. mend \in Cell /\ mend # del
    BY <1>3, <1>4, <2>1, <2>2, <2>3
  <2>5. l.head = h /\ l.mem = PutPrev(PutNext(m, front, beyond), mend, front)
    BY <2>2 DEF DLDelete, PutPrev, PutNext
  <2> DEFINE n == PutNext(m, front, beyond)
  <2>6. /\ n \in [Cell -> NodeRec] /\ n[front].next = beyond
        /\ n[front].prev = m[front].prev /\ n[front].num = m[front].num
        /\ \A c \in Cell \ {front} : n[c] = m[c]
    BY <2>2, NextWritten
  <2> HIDE DEF front, beyond, mend, n
  <2>7. /\ l.mem \in [Cell -> NodeRec] /\ l.mem[mend].prev = front
        /\ l.mem[mend].next = n[mend].next /\ l.mem[mend].num = n[mend].num
        /\ \A c \in Cell \ {mend} : l.mem[c] = n[c]
    BY <2>2, <2>4, <2>5, <2>6, PrevWritten DEF n
  <2> HIDE DEF del
  <2>8. /\ l.mem[front].next = beyond
        /\ \A c \in Cell \ {front} : l.mem[c].next = m[c].next
        /\ \A c \in Cell \ {mend} : l.mem[c].prev = m[c].prev
        /\ \A c \in Cell : l.mem[c].num = m[c].num
    BY <2>2, <2>4, <2>6, <2>7
  <2>9. /\ t # <<>> /\ Len(t) = L - 1 /\ t[1] = s[1] /\ First(t) = h
        /\ \A j \in 1..(k - 1) : t[j] = s[j]
        /\ \A j \in k..(L - 1) : t[j] = s[j + 1]
    <3>1. t # <<>> /\ Len(t) = L - 1 /\ t[1] = s[1]
      BY <1>2, <1>3, <1>8, <2>1
    <3> QED BY <1>2, <1>3, <3>1 DEF First
  <2>10. Linked(l.mem, t)
    <3>1. ASSUME NEW j \in 1..((L - 1) - 1) PROVE l.mem[t[j]].next = t[j + 1]
      <4>1. CASE j < k - 1
        <5>1. j \in 1..(k - 1) /\ j + 1 \in 1..(k - 1) /\ j \in 1..(L - 1) /\ j \in 1..L
          BY <1>2, <2>1, <4>1
        <5>2. s[j] # front /\ s[j] \in Cell
          <6>1. k - 1 \in 1..L /\ j # k - 1
            BY <1>2, <2>1, <4>1, <5>1
          <6> QED BY <1>3, <1>4, <5>1, <6>1 DEF front
        <5>3. t[j] = s[j] /\ t[j + 1] = s[j + 1]
          BY <2>9, <5>1
        <5>4. m[s[j]].next = s[j + 1]
          BY <1>4, <5>1
        <5> QED BY <2>8, <5>2, <5>3, <5>4
      <4>2. CASE j = k - 1
        <5>1. j \in 1..(k - 1) /\ j + 1 \in k..(L - 1) /\ j + 1 = k /\ k < L
          BY <1>2, <2>1, <4>2
        <5>2. t[j] = front /\ t[j + 1] = s[k + 1]
          BY <2>9, <4>2, <5>1 DEF front
        <5> QED BY <2>3, <2>8, <5>1, <5>2
      <4>3. CASE j >= k
        <5>1. /\ j \in k..(L - 1) /\ j + 1 \in k..(L - 1) /\ j + 1 \in 1..(L - 1) /\ j + 1 \in 1..L
              /\ j + 1 # k - 1
          BY <1>2, <2>1, <4>3
        <5>2. s[j + 1] # front /\ s[j + 1] \in Cell
          BY <1>3, <1>4, <2>1, <5>1 DEF front
        <5>3. t[j] = s[j + 1] /\ t[j + 1] = s[(j + 1) + 1]
          BY <2>9, <5>1
        <5>4. m[s[j + 1]].next = s[(j + 1) + 1]
          BY <1>4, <5>1
        <5> QED BY <2>8, <5>2, <5>3, <5>4
      <4> QED BY <1>2, <2>1, <4>1, <4>2, <4>3
    <3> QED BY <2>9, <3>1 DEF Linked
  <2>11. Ends(l.mem, t)
    <3>1. CASE k = L
      <4>1. L - 1 \in 1..(k - 1)
        BY <1>2, <2>1, <3>1
      <4>2. t[L - 1] = front
        BY <2>9, <3>1, <4>1 DEF front
      <4>3. beyond = NULL
        BY <1>2, <2>3, <3>1
      <4> QED BY <2>8, <2>9, <4>2, <4>3 DEF Ends
    <3>2. CASE k < L
      <4>1. L - 1 \in k..(L - 1) /\ (L - 1) + 1 = L /\ L # k - 1
        BY <1>2, <2>1, <3>2
      <4>2. t[L - 1] = s[L] /\ s[L] # front /\ s[L] \in Cell
        BY <1>3, <1>4, <2>1, <2>9, <4>1 DEF front
      <4> QED BY <1>4, <2>8, <2>9, <4>2 DEF Ends
    <3> QED BY <1>2, <2>1, <3>1, <3>2
  <2>12. Back(l.mem, t)
    <3>1. ASSUME NEW j \in 2..(L - 1) PROVE l.mem[t[j]].prev = t[j - 1]
      <4>1. CASE j <= k - 1
        <5>1. j \in 1..(k - 1) /\ j - 1 \in 1..(k - 1) /\ j \in 2..L /\ j \in 1..L /\ j # 1 /\ j # k + 1
          BY <1>2, <2>1, <4>1
        <5>2. s[j] # mend /\ s[j] \in Cell
          BY <1>3, <1>4, <2>3, <5>1 DEF mend
        <5>3. t[j] = s[j] /\ t[j - 1] = s[j - 1]
          BY <2>9, <5>1
        <5>4. m[s[j]].prev = s[j - 1]
          BY <1>4, <5>1
        <5> QED BY <2>8, <5>2, <5>3, <5>4
      <4>2. CASE j = k
        <5>1. j \in k..(L - 1) /\ j - 1 \in 1..(k - 1) /\ k < L
          BY <1>2, <2>1, <4>2
        <5>2. t[j] = mend /\ t[j - 1] = front
          BY <1>2, <2>3, <2>9, <4>2, <5>1 DEF front, mend
        <5> QED BY <2>7, <5>2
      <4>3. CASE j > k
        <5>1. /\ j \in k..(L - 1) /\ j - 1 \in k..(L - 1) /\ (j - 1) + 1 = j
              /\ j + 1 \in 2..L /\ j + 1 \in 1..L /\ (j + 1) - 1 = j /\ j + 1 # k + 1 /\ j + 1 # 1
          BY <1>2, <2>1, <4>3
        <5>2. s[j + 1] # mend /\ s[j + 1] \in Cell
          BY <1>3, <1>4, <2>3, <5>1 DEF mend
        <5>3. m[s[j + 1]].prev = s[j]
          BY <1>4, <5>1
        <5> QED BY <2>8, <2>9, <5>1, <5>2, <5>3
      <4> QED BY <1>2, <2>1, <4>1, <4>2, <4>3
    <3> QED BY <2>9, <3>1 DEF Back
  <2>13. l.mem[t[1]].prev = t[Len(t)]
    <3>1. CASE k = L
      <4>1. L - 1 \in 1..(k - 1) /\ k - 1 = L - 1
        BY <1>2, <2>1, <3>1
      <4>2. t[L - 1] = front
        BY <2>9, <4>1 DEF front
      <4>3. mend = s[1]
        BY <1>2, <1>3, <2>3, <3>1 DEF mend
      <4> QED BY <2>7, <2>9, <4>2, <4>3
    <3>2. CASE k < L
      <4>1. L - 1 \in k..(L - 1) /\ (L - 1) + 1 = L /\ k + 1 # 1 /\ k + 1 \in 1..L
        BY <1>2, <2>1, <3>2
      <4>2. t[L - 1] = s[L] /\ mend = s[k + 1] /\ s[k + 1] # s[1]
        BY <1>3, <1>4, <2>3, <2>9, <3>2, <4>1 DEF mend
      <4> QED BY <1>3, <1>4, <2>8, <2>9, <4>2
    <3> QED BY <1>2, <2>1, <3>1, <3>2
  <2>14. IsList(l.mem, l.head, t)
    BY <1>2, <2>5, <2>9, <2>10, <2>11, <2>12, <2>13 DEF IsList
  <2>15. front \in Nodes(t) /\ mend \in Nodes(t)
    BY <1>2, <1>3, <2>1, <2>2, <2>3, <2>4 DEF front, mend, del, L
  <2> QED BY <2>6, <2>7, <2>8, <2>14, <2>15 DEF t, del
<1> QED BY <1>6, <1>7, <1>8
-----------------------------------------------------------------------------
(* The inductive invariant.  Between two statements of a stage the nodes   *)
(* are on two lists.                                                       *)
Apart(s, t) == Nodes(s) \cap Nodes(t) = {}
OnLists(f, t) ==
  /\ IsList(mem, head.from, f) /\ IsList(mem, head.to, t) /\ Apart(f, t)
  /\ used = Nodes(f) \cup Nodes(t) /\ Len(f) + Len(t) = num
  /\ iter = NULL \/ iter \in Nodes(f)
RunInv == mode = "run" => sort = NoSort /\ \E f, t \in Seq(Cell) : OnLists(f, t)

(* While DL_SORT is at work the second list is in three pieces: what is    *)
(* built, the first of the two runs, and the second with all that follows. *)
Final(s) == IF s = <<>> THEN NULL ELSE s[Len(s)]
Cut(f, b, p, r) ==
  /\ IsList(mem, head.from, f)
  /\ Distinct(b) /\ Distinct(p) /\ Distinct(r)
  /\ Apart(f, b) /\ Apart(f, p) /\ Apart(f, r) /\ Apart(b, p) /\ Apart(b, r) /\ Apart(p, r)
  /\ used = Nodes(f) \cup Nodes(b) \cup Nodes(p) \cup Nodes(r)
  /\ Len(f) + Len(b) + Len(p) + Len(r) = num
  /\ head.to = First(b) /\ sort.tail = Final(b) /\ Linked(mem, b) /\ Back(mem, b)
  /\ Linked(mem, p) /\ sort.psize = Len(p) /\ (p # <<>> => sort.p = p[1])
  /\ Linked(mem, r) /\ Ends(mem, r)
  /\ sort.at = "runs" => p = <<>> /\ sort.p = First(r) /\ (b # <<>> \/ r # <<>>)
  /\ sort.at = "take" => sort.q = First(r) /\ (b # <<>> \/ p # <<>>)

(* How far the passes over runs of insize nodes have come. *)
Counted(b, p, r) ==
  /\ sort.insize \in 1..(2 * MaxInst) /\ sort.qsize \in 0..sort.insize /\ sort.nmerges \in Nat
  /\ sort.nmerges = 0 => b = <<>> /\ p = <<>> /\ sort.at = "runs"
  /\ sort.nmerges > 0 /\ r # <<>> => Len(b) + Len(p) >= sort.insize
  /\ sort.nmerges > 1 => Len(b) + Len(p) + Len(r) > sort.insize

(* The nodes of s after the first x, up to place y, are in the order of    *)
(* their numbers; those of them that are in one run of n are; all of them  *)
(* come before the first y of t.                                           *)
Rises(v, s, x, y) ==
  \A i, j \in 1..Len(s) : x < i /\ i < j /\ j <= y => v[s[i]] < v[s[j]]
InRuns(v, s, x, y, n) ==
  \A i, j \in 1..Len(s) :
    x < i /\ i < j /\ j <= y /\ (i - x - 1) \div n = (j - x - 1) \div n => v[s[i]] < v[s[j]]
Under(v, s, x, t, y) ==
  \A i \in 1..Len(s), j \in 1..Len(t) : x < i /\ j <= y => v[s[i]] < v[t[j]]

(* x nodes of what is built are of the merges before this one, and k nodes *)
(* of r are left of the second run.                                        *)
InOrder(v, b, p, r, x, k, n) ==
  /\ InRuns(v, b, 0, x, 2 * n) /\ Rises(v, b, x, Len(b))
  /\ Under(v, b, x, p, Len(p)) /\ Under(v, b, x, r, k)
  /\ Rises(v, p, 0, Len(p)) /\ Rises(v, r, 0, k) /\ InRuns(v, r, k, Len(r), n)
Room(b, p, r, x) ==
  LET pair == 2 * sort.insize
  IN  /\ x \in 0..Len(b) /\ (sort.at = "runs" => x = Len(b))
      /\ sort.at = "take" \/ r # <<>> => x % pair = 0
      /\ sort.nmerges = 1 => IF sort.at = "take" THEN x = 0 ELSE x <= pair
      /\ sort.at = "take" => /\ Len(b) - x + Len(p) + sort.qsize <= pair
                             /\ r # <<>> => Len(b) - x + Len(p) + sort.qsize = pair
Numbers == [c \in Cell |-> mem[c].num]
LeftOfQ == IF sort.at = "take" THEN sort.qsize ELSE 0
Merging(b, p, r) ==
  \E x \in Nat : Room(b, p, r, x) /\ InOrder(Numbers, b, p, r, x, LeftOfQ, sort.insize)
SortInv ==
  mode = "sort" =>
    /\ iter = NULL
    /\ \E f, b, p, r \in Seq(Cell) :
         Cut(f, b, p, r) /\ Counted(b, p, r) /\ Merging(b, p, r)

(* dis_cleanup has freed the nodes up to where it is. *)
Chain(m, h, s) ==
  s \in Seq(Cell) /\ Distinct(s) /\ h = First(s) /\ Linked(m, s) /\ Ends(m, s)
CleanInv ==
  /\ mode = "cleanFrom" =>
       \E f, t \in Seq(Cell) : /\ Chain(mem, iter, f) /\ Chain(mem, head.to, t) /\ Apart(f, t)
                               /\ used = Nodes(f) \cup Nodes(t)
  /\ mode = "cleanTo" => \E t \in Seq(Cell) : Chain(mem, iter, t) /\ used = Nodes(t)
  /\ mode = "end" => used = {} /\ iter = NULL
  /\ mode \in {"cleanFrom", "cleanTo", "end"} => sort = NoSort

(* The types, and that no two nodes have the same instruction. *)
ShapeInv ==
  /\ mem \in [Cell -> NodeRec] /\ used \subseteq Cell /\ num \in 0..MaxInst
  /\ head \in [from : Pointer, to : Pointer] /\ iter \in Pointer
  /\ mode \in {"run", "sort", "cleanFrom", "cleanTo", "end"}
  /\ sort \in [at : {"off", "runs", "take"}, p : Pointer, q : Pointer, tail : Pointer,
               psize : Nat, qsize : Nat, insize : Nat, nmerges : Nat]
  /\ mode = "sort" => /\ sort.at # "off" /\ {sort.p, sort.q} \subseteq used \cup {NULL}
                      /\ \A c \in used : mem[c].next \in used \cup {NULL}
NumInv ==
  mode \in {"run", "sort"} =>
    /\ \A c \in used : mem[c].num \in 1..num
    /\ \A c, d \in used : c # d => mem[c].num # mem[d].num

MemoryInv == ShapeInv /\ NumInv /\ RunInv /\ SortInv /\ CleanInv
-----------------------------------------------------------------------------
(* Every action keeps the invariant. *)
LEMMA ListBits ==
  ASSUME NEW m, NEW h, NEW s, IsList(m, h, s)
  PROVE  /\ s \in Seq(Cell) /\ Len(s) \in Nat /\ Nodes(s) \subseteq Cell
         /\ (h = NULL <=> s = <<>>) /\ h \in Nodes(s) \cup {NULL}
         /\ \A c \in Nodes(s) : m[c].next \in (Nodes(s) \ {c}) \cup {NULL}
<1>1. s \in Seq(Cell) /\ Len(s) \in Nat /\ h = First(s)
  BY LenProperties DEF IsList
<1>2. s # <<>> => 1 \in 1..Len(s) /\ Len(s) \in 1..Len(s)
  BY <1>1, EmptySeq
<1>3. \A i \in 1..Len(s) : s[i] \in Cell /\ s[i] \in Nodes(s)
  BY <1>1, ElementOfSeq DEF Nodes
<1>4. (h = NULL <=> s = <<>>) /\ h \in Nodes(s) \cup {NULL}
  BY <1>1, <1>2, <1>3, CellAssumption DEF First
<1>5. ASSUME NEW c \in Nodes(s) PROVE m[c].next \in (Nodes(s) \ {c}) \cup {NULL}
  <2>1. PICK i \in 1..Len(s) : s[i] = c
    BY DEF Nodes
  <2>2. s # <<>>
    BY <1>1, <2>1, EmptySeq
  <2>3. CASE i = Len(s)
    BY <2>1, <2>2, <2>3 DEF IsList, Ends
  <2>4. CASE i # Len(s)
    <3>1. i \in 1..(Len(s) - 1) /\ i + 1 \in 1..Len(s) /\ i # i + 1
      BY <1>1, <2>1, <2>4
    <3>2. s[i + 1] # c
      BY <2>1, <3>1 DEF IsList, Distinct
    <3> QED BY <1>3, <2>1, <3>1, <3>2 DEF IsList, Linked
  <2> QED BY <2>3, <2>4
<1>6. Nodes(s) \subseteq Cell
  BY <1>3 DEF Nodes
<1> QED BY <1>1, <1>4, <1>5, <1>6

(* No node is a list. *)
LEMMA EmptyList ==
  ASSUME NEW m
  PROVE  IsList(m, NULL, <<>>) /\ Nodes(<<>>) = {} /\ Len(<<>>) = 0 /\ <<>> \in Seq(Cell)
<1>1. <<>> \in Seq(Cell) /\ Len(<<>>) = 0
  BY EmptySeq
<1>2. Nodes(<<>>) = {}
  BY <1>1 DEF Nodes
<1>3. Distinct(<<>>) /\ Linked(m, <<>>) /\ Ends(m, <<>>) /\ Back(m, <<>>) /\ First(<<>>) = NULL
  BY <1>1 DEF Distinct, Linked, Ends, Back, First
<1> QED BY <1>1, <1>2, <1>3 DEF IsList

(* It holds at the start. *)
LEMMA InitIsWellMade ==
  ASSUME Init
  PROVE  MemoryInv
<1>1. mem = [c \in Cell |-> Blank(0)] /\ used = {} /\ head = [from |-> NULL, to |-> NULL]
      /\ num = 0 /\ mode = "run" /\ iter = NULL /\ sort = NoSort
  BY DEF Init
<1>2. ShapeInv
  BY <1>1, InstAssumption DEF ShapeInv, NodeRec, Blank, Pointer, NoSort
<1>3. NumInv
  BY <1>1 DEF NumInv
<1>4. OnLists(<<>>, <<>>)
  BY <1>1, EmptyList DEF OnLists, Apart
<1>5. RunInv
  BY <1>1, <1>4, EmptyList DEF RunInv
<1>6. SortInv /\ CleanInv
  BY <1>1 DEF SortInv, CleanInv
<1> QED BY <1>2, <1>3, <1>5, <1>6 DEF MemoryInv

(* A node written before it is linked. *)
LEMMA BlankWritten ==
  ASSUME NEW m \in [Cell -> NodeRec], NEW c \in Cell, NEW n \in 0..MaxInst
  PROVE  LET w == [m EXCEPT ![c] = Blank(n)]
         IN  /\ w \in [Cell -> NodeRec] /\ w[c].num = n
             /\ \A d \in Cell \ {c} : w[d] = m[d]
<1>1. Blank(n) \in NodeRec /\ Blank(n).num = n
  BY DEF Blank, NodeRec, Pointer
<1> HIDE DEF Blank, NodeRec
<1> QED BY <1>1

(* A node is allocated, filled in and put behind the first list. *)
LEMMA FetchKeeps ==
  ASSUME MemoryInv, NEW c \in Cell, FetchNode(c)
  PROVE  /\ MemoryInv'
         /\ \E f, t \in Seq(Cell) :
              /\ OnLists(f, t) /\ OnLists(Append(f, c), t)'
              /\ \A d \in used : mem'[d].num = mem[d].num
              /\ mem'[c].num = num + 1 /\ c \notin used
<1> DEFINE m1 == [mem EXCEPT ![c] = Blank(num + 1)]
           l == DLAppend([head |-> head.from, mem |-> m1], c)
<1>1. /\ mode = "run" /\ iter = NULL /\ num < MaxInst /\ c \notin used
      /\ mem' = l.mem /\ head' = [head EXCEPT !.from = l.head]
      /\ used' = used \cup {c} /\ num' = num + 1
      /\ mode' = "run" /\ iter' = NULL /\ sort' = sort
  BY DEF FetchNode, Idle, Calloc
<1>2. /\ mem \in [Cell -> NodeRec] /\ used \subseteq Cell /\ num \in 0..MaxInst
      /\ head \in [from : Pointer, to : Pointer]
      /\ sort \in [at : {"off", "runs", "take"}, p : Pointer, q : Pointer, tail : Pointer,
                   psize : Nat, qsize : Nat, insize : Nat, nmerges : Nat]
  BY DEF MemoryInv, ShapeInv
<1>3. PICK f \in Seq(Cell), t \in Seq(Cell) : OnLists(f, t)
  BY <1>1 DEF MemoryInv, RunInv
<1>4. /\ IsList(mem, head.from, f) /\ IsList(mem, head.to, t) /\ Nodes(f) \cap Nodes(t) = {}
      /\ used = Nodes(f) \cup Nodes(t) /\ Len(f) + Len(t) = num
  BY <1>3 DEF OnLists, Apart
<1>5. num + 1 \in 0..MaxInst
  BY <1>1, <1>2, InstAssumption
<1>6. m1 \in [Cell -> NodeRec] /\ m1[c].num = num + 1 /\ \A d \in Cell \ {c} : m1[d] = mem[d]
  BY <1>2, <1>5, BlankWritten
<1> HIDE DEF m1
<1>7. IsList(m1, head.from, f)
  <2>1. \A d \in Nodes(f) : m1[d].next = mem[d].next /\ m1[d].prev = mem[d].prev
    BY <1>1, <1>2, <1>4, <1>6
  <2> QED BY <1>4, <2>1, ListStays
<1>8. c \notin Nodes(f)
  BY <1>1, <1>4
<1>9. /\ IsList(l.mem, l.head, Append(f, c)) /\ l.mem \in [Cell -> NodeRec]
      /\ \A d \in Cell : l.mem[d].num = m1[d].num
      /\ \A d \in Cell \ (Nodes(f) \cup {c}) : l.mem[d] = m1[d]
  <2>1. m1 \in [Cell -> NodeRec] /\ l = DLAppend([head |-> head.from, mem |-> m1], c)
    BY <1>6
  <2> HIDE DEF l
  <2> QED BY <1>7, <1>8, <2>1, AppendIs
<1> HIDE DEF l
<1>10. IsList(l.mem, head.to, t)
  <2>1. \A d \in Nodes(t) : l.mem[d].next = mem[d].next /\ l.mem[d].prev = mem[d].prev
    BY <1>1, <1>2, <1>4, <1>6, <1>9
  <2> QED BY <1>4, <2>1, ListStays
<1>11. /\ Append(f, c) \in Seq(Cell) /\ Len(Append(f, c)) = Len(f) + 1
       /\ Nodes(Append(f, c)) = Nodes(f) \cup {c} /\ Len(f) \in Nat /\ Len(t) \in Nat
  <2>1. Distinct(f) /\ Len(t) \in Nat
    BY <1>4, ListBits DEF IsList
  <2> QED BY <1>8, <2>1, AppendedNodes
<1>12. l.head \in Pointer
  BY <1>2, <1>9, <1>11, ListBits DEF Pointer
<1>13. head'.from = l.head /\ head'.to = head.to /\ head' \in [from : Pointer, to : Pointer]
  BY <1>1, <1>2, <1>12
<1>14. OnLists(Append(f, c), t)'
  <2>1. Apart(Append(f, c), t) /\ used' = Nodes(Append(f, c)) \cup Nodes(t)
    BY <1>1, <1>4, <1>11 DEF Apart
  <2>2. Len(Append(f, c)) + Len(t) = num'
    BY <1>1, <1>4, <1>11
  <2> QED BY <1>1, <1>9, <1>10, <1>13, <2>1, <2>2 DEF OnLists
<1>15. RunInv'
  <2>1. sort = NoSort
    BY <1>1 DEF MemoryInv, RunInv
  <2>2. sort' = NoSort
    BY <1>1, <2>1
  <2>3. (sort = NoSort)'
    BY <2>2 DEF NoSort
  <2> QED BY <1>11, <1>14, <2>3 DEF RunInv
<1>16. ShapeInv'
  BY <1>1, <1>2, <1>5, <1>9, <1>13 DEF ShapeInv, Pointer
<1>17. (\A d \in used : mem'[d].num = mem[d].num) /\ mem'[c].num = num + 1
  BY <1>1, <1>2, <1>6, <1>9
<1>18. NumInv'
  <2>1. /\ \A d \in used : mem[d].num \in 1..num
        /\ \A d, e \in used : d # e => mem[d].num # mem[e].num
    BY <1>1 DEF MemoryInv, NumInv
  <2>2. \A d \in used' : mem'[d].num \in 1..num'
    BY <1>1, <1>2, <1>17, <2>1
  <2>3. \A d, e \in used' : d # e => mem'[d].num # mem'[e].num
    <3>1. \A d \in used : d # c /\ mem'[d].num # mem'[c].num
      BY <1>1, <1>2, <1>17, <2>1
    <3>2. \A d, e \in used : d # e => mem'[d].num # mem'[e].num
      BY <1>17, <2>1
    <3> QED BY <1>1, <3>1, <3>2
  <2> QED BY <2>2, <2>3 DEF NumInv
<1>19. SortInv' /\ CleanInv'
  BY <1>1 DEF SortInv, CleanInv
<1>20. MemoryInv'
  BY <1>15, <1>16, <1>18, <1>19 DEF MemoryInv
<1> QED BY <1>1, <1>3, <1>11, <1>14, <1>17, <1>20

(* A loop of a stage, and the start of dis_cleanup, move iter alone. *)
LEMMA LoopStartKeeps ==
  ASSUME MemoryInv, LoopStart
  PROVE  MemoryInv'
<1>1. /\ mode = "run" /\ head.from # NULL /\ iter' = head.from
      /\ mem' = mem /\ used' = used /\ head' = head /\ num' = num /\ mode' = mode /\ sort' = sort
  BY DEF LoopStart, Idle
<1>2. PICK f \in Seq(Cell), t \in Seq(Cell) : OnLists(f, t)
  BY <1>1 DEF MemoryInv, RunInv
<1>3. iter' \in Nodes(f)
  BY <1>1, <1>2, ListBits DEF OnLists
<1>4. OnLists(f, t)'
  BY <1>1, <1>2, <1>3 DEF OnLists
<1>5. RunInv'
  BY <1>1, <1>4 DEF MemoryInv, RunInv, NoSort
<1>6. ShapeInv' /\ NumInv'
  BY <1>1 DEF MemoryInv, ShapeInv, NumInv, Pointer
<1> QED BY <1>1, <1>5, <1>6 DEF MemoryInv, SortInv, CleanInv

(* A loop leaves a node where it is. *)
LEMMA LoopSkipKeeps ==
  ASSUME MemoryInv, LoopSkip
  PROVE  MemoryInv'
<1>1. /\ mode = "run" /\ iter # NULL /\ iter' = mem[iter].next
      /\ mem' = mem /\ used' = used /\ head' = head /\ num' = num /\ mode' = mode /\ sort' = sort
  BY DEF LoopSkip
<1>2. PICK f \in Seq(Cell), t \in Seq(Cell) : OnLists(f, t)
  BY <1>1 DEF MemoryInv, RunInv
<1>3. iter' \in Nodes(f) \cup {NULL} /\ Nodes(f) \subseteq Cell
  BY <1>1, <1>2, ListBits DEF OnLists
<1>4. OnLists(f, t)'
  BY <1>1, <1>2, <1>3 DEF OnLists
<1>5. RunInv'
  BY <1>1, <1>4 DEF MemoryInv, RunInv, NoSort
<1>6. ShapeInv' /\ NumInv'
  BY <1>1, <1>3 DEF MemoryInv, ShapeInv, NumInv, Pointer
<1> QED BY <1>1, <1>5, <1>6 DEF MemoryInv, SortInv, CleanInv

(* dis_cleanup starts with two chains, each to be freed from the front. *)
LEMMA CleanStartKeeps ==
  ASSUME MemoryInv, CleanStart
  PROVE  MemoryInv'
<1>1. /\ mode = "run" /\ iter' = head.from /\ mode' = "cleanFrom"
      /\ mem' = mem /\ used' = used /\ head' = head /\ num' = num /\ sort' = sort
  BY DEF CleanStart, Idle
<1>2. PICK f \in Seq(Cell), t \in Seq(Cell) : OnLists(f, t)
  BY <1>1 DEF MemoryInv, RunInv
<1>3. Chain(mem, head.from, f) /\ Chain(mem, head.to, t)
  BY <1>2 DEF OnLists, IsList, Chain
<1>4. /\ Chain(mem, iter, f)' /\ Chain(mem, head.to, t)' /\ Apart(f, t)
      /\ used' = Nodes(f) \cup Nodes(t)
  BY <1>1, <1>2, <1>3 DEF OnLists
<1>5. CleanInv'
  BY <1>1, <1>4 DEF CleanInv, MemoryInv, RunInv, NoSort
<1>6. ShapeInv' /\ NumInv'
  BY <1>1 DEF MemoryInv, ShapeInv, NumInv, Pointer
<1> QED BY <1>1, <1>5, <1>6 DEF MemoryInv, SortInv, RunInv

(* A node is moved to the other list, and the loop goes on at the one that *)
(* was next before.                                                        *)
LEMMA LoopMoveKeeps ==
  ASSUME MemoryInv, NEW c \in Cell, LoopMove(c)
  PROVE  /\ MemoryInv'
         /\ \E f, t \in Seq(Cell) : \E k \in 1..Len(f) :
              /\ OnLists(f, t) /\ OnLists(RemoveAt(f, k), Append(t, c))'
              /\ iter = f[k] /\ iter' = mem[iter].next
              /\ \A d \in used \ {iter} : mem'[d].num = mem[d].num
              /\ mem'[c].num = mem[iter].num /\ c \notin used
<1> DEFINE m1 == [mem EXCEPT ![c] = Blank(mem[iter].num)]
           to == DLAppend([head |-> head.to, mem |-> m1], c)
           from == DLDelete([head |-> head.from, mem |-> to.mem], iter)
<1>1. /\ mode = "run" /\ iter # NULL /\ c \notin used
      /\ mem' = [from.mem EXCEPT ![iter] = Blank(0)]
      /\ head' = [from |-> from.head, to |-> to.head]
      /\ iter' = mem[iter].next
      /\ used' = (used \cup {c}) \ {iter} /\ num' = num /\ mode' = mode /\ sort' = sort
  BY DEF LoopMove, Calloc, Step
<1>2. /\ mem \in [Cell -> NodeRec] /\ used \subseteq Cell /\ num \in 0..MaxInst
      /\ sort \in [at : {"off", "runs", "take"}, p : Pointer, q : Pointer, tail : Pointer,
                   psize : Nat, qsize : Nat, insize : Nat, nmerges : Nat]
  BY DEF MemoryInv, ShapeInv
<1>3. PICK f \in Seq(Cell), t \in Seq(Cell) : OnLists(f, t)
  BY <1>1 DEF MemoryInv, RunInv
<1>4. /\ IsList(mem, head.from, f) /\ IsList(mem, head.to, t) /\ Nodes(f) \cap Nodes(t) = {}
      /\ used = Nodes(f) \cup Nodes(t) /\ Len(f) + Len(t) = num
      /\ iter \in Nodes(f) /\ iter \in Cell
  BY <1>1, <1>2, <1>3 DEF OnLists, Apart
<1>5. PICK k \in 1..Len(f) : f[k] = iter
  BY <1>4 DEF Nodes
<1>6. m1 \in [Cell -> NodeRec] /\ m1[c].num = mem[iter].num /\ \A d \in Cell \ {c} : m1[d] = mem[d]
  <2>1. mem[iter].num \in 0..MaxInst
    BY <1>2, <1>4 DEF NodeRec
  <2> QED BY <1>2, <2>1, BlankWritten
<1> HIDE DEF m1
<1>7. IsList(m1, head.to, t)
  <2>1. \A d \in Nodes(t) : m1[d].next = mem[d].next /\ m1[d].prev = mem[d].prev
    BY <1>1, <1>2, <1>4, <1>6
  <2> QED BY <1>4, <2>1, ListStays
<1>8. /\ IsList(to.mem, to.head, Append(t, c)) /\ to.mem \in [Cell -> NodeRec]
      /\ \A d \in Cell : to.mem[d].num = m1[d].num
      /\ \A d \in Cell \ (Nodes(t) \cup {c}) : to.mem[d] = m1[d]
  <2>1. m1 \in [Cell -> NodeRec] /\ to = DLAppend([head |-> head.to, mem |-> m1], c)
    BY <1>6
  <2>2. c \notin Nodes(t)
    BY <1>1, <1>4
  <2> HIDE DEF to
  <2> QED BY <1>7, <2>1, <2>2, AppendIs
<1> HIDE DEF to
<1>9. IsList(to.mem, head.from, f)
  <2>1. \A d \in Nodes(f) : to.mem[d].next = mem[d].next /\ to.mem[d].prev = mem[d].prev
    BY <1>1, <1>2, <1>4, <1>6, <1>8
  <2> QED BY <1>4, <2>1, ListStays
<1>10. /\ IsList(from.mem, from.head, RemoveAt(f, k)) /\ from.mem \in [Cell -> NodeRec]
       /\ \A d \in Cell : from.mem[d].num = to.mem[d].num
       /\ \A d \in Cell \ Nodes(RemoveAt(f, k)) : from.mem[d] = to.mem[d]
  <2> DEFINE m2 == to.mem
             h == head.from
  <2>1. /\ m2 \in [Cell -> NodeRec] /\ IsList(m2, h, f)
        /\ from = DLDelete([head |-> h, mem |-> m2], f[k])
    BY <1>5, <1>8, <1>9
  <2> HIDE DEF from, m2, h
  <2>2. /\ IsList(from.mem, from.head, RemoveAt(f, k)) /\ from.mem \in [Cell -> NodeRec]
        /\ \A d \in Cell : from.mem[d].num = m2[d].num
        /\ \A d \in Cell \ Nodes(RemoveAt(f, k)) : from.mem[d] = m2[d]
    BY <2>1, DeleteIs
  <2> QED BY <2>2 DEF m2
<1> HIDE DEF from
<1> DEFINE f2 == RemoveAt(f, k)
           t2 == Append(t, c)
<1>11. /\ f2 \in Seq(Cell) /\ Len(f2) = Len(f) - 1 /\ Nodes(f2) = Nodes(f) \ {iter}
       /\ t2 \in Seq(Cell) /\ Len(t2) = Len(t) + 1 /\ Nodes(t2) = Nodes(t) \cup {c}
       /\ Len(f) \in Nat /\ Len(t) \in Nat
  <2>1. Distinct(f) /\ Distinct(t) /\ c \notin Nodes(t)
    BY <1>1, <1>4 DEF IsList
  <2>2. /\ f2 \in Seq(Cell) /\ Len(f2) = Len(f) - 1 /\ Nodes(f2) = Nodes(f) \ {iter}
        /\ Len(f) \in Nat
    BY <1>5, <2>1, RemovedNodes
  <2>3. t2 \in Seq(Cell) /\ Len(t2) = Len(t) + 1 /\ Nodes(t2) = Nodes(t) \cup {c} /\ Len(t) \in Nat
    BY <2>1, AppendedNodes
  <2> QED BY <2>2, <2>3
<1> HIDE DEF f2, t2
<1>12. /\ mem' \in [Cell -> NodeRec] /\ \A d \in Cell \ {iter} : mem'[d] = from.mem[d]
  <2>1. 0 \in 0..MaxInst
    BY InstAssumption
  <2> QED BY <1>1, <1>4, <1>10, <2>1, BlankWritten
<1>13. IsList(mem', from.head, f2)
  <2>1. \A d \in Nodes(f2) : mem'[d].next = from.mem[d].next /\ mem'[d].prev = from.mem[d].prev
    BY <1>2, <1>4, <1>11, <1>12
  <2> QED BY <1>10, <2>1, ListStays DEF f2
<1>14. IsList(mem', to.head, t2)
  <2>1. \A d \in Nodes(t2) : d \in Cell /\ d # iter /\ d \notin Nodes(f2)
    BY <1>1, <1>2, <1>4, <1>11
  <2>2. \A d \in Nodes(t2) : mem'[d] = to.mem[d]
    BY <1>10, <1>12, <2>1 DEF f2
  <2> QED BY <1>8, <2>2, ListStays DEF t2
<1>15. head'.from = from.head /\ head'.to = to.head /\ head' \in [from : Pointer, to : Pointer]
  <2>1. from.head \in Pointer /\ to.head \in Pointer
    BY <1>13, <1>14, ListBits DEF Pointer
  <2> QED BY <1>1, <2>1
<1>16. iter' \in Nodes(f2) \cup {NULL}
  BY <1>1, <1>4, <1>11, ListBits
<1>17. OnLists(f2, t2)'
  <2>1. Apart(f2, t2) /\ used' = Nodes(f2) \cup Nodes(t2)
    BY <1>1, <1>4, <1>11 DEF Apart
  <2>2. Len(f2) + Len(t2) = num'
    <3>1. /\ Len(f2) = Len(f) - 1 /\ Len(t2) = Len(t) + 1 /\ Len(f) \in Nat /\ Len(t) \in Nat
          /\ Len(f) + Len(t) = num /\ num' = num
      BY <1>1, <1>4, <1>11
    <3> QED BY <3>1
  <2> QED BY <1>13, <1>14, <1>15, <1>16, <2>1, <2>2 DEF OnLists
<1>18. RunInv'
  <2>1. sort = NoSort
    BY <1>1 DEF MemoryInv, RunInv
  <2>2. (sort = NoSort)'
    BY <1>1, <2>1 DEF NoSort
  <2> QED BY <1>11, <1>17, <2>2 DEF RunInv
<1>19. ShapeInv'
  <2>1. iter' \in Pointer /\ used' \subseteq Cell
    BY <1>1, <1>2, <1>4, <1>11, <1>16 DEF Pointer
  <2> QED BY <1>1, <1>2, <1>12, <1>15, <2>1 DEF ShapeInv
<1>20. mem'[c].num = mem[iter].num /\ \A d \in used \ {iter} : mem'[d].num = mem[d].num
  <2>1. c # iter
    BY <1>1, <1>4
  <2>2. ASSUME NEW d \in used \ {iter} PROVE mem'[d].num = mem[d].num
    <3>1. d \in Cell /\ d # c /\ d # iter
      BY <1>1, <1>2
    <3> QED BY <1>6, <1>8, <1>10, <1>12, <3>1
  <2> QED BY <1>6, <1>8, <1>10, <1>12, <2>1, <2>2
<1>21. NumInv'
  <2>1. /\ \A d \in used : mem[d].num \in 1..num
        /\ \A d, e \in used : d # e => mem[d].num # mem[e].num
    BY <1>1 DEF MemoryInv, NumInv
  <2>2. \A d \in used' : mem'[d].num \in 1..num'
    BY <1>1, <1>4, <1>20, <2>1
  <2>3. \A d, e \in used' : d # e => mem'[d].num # mem'[e].num
    <3>1. \A d \in used \ {iter} : mem'[d].num # mem'[c].num
      BY <1>4, <1>20, <2>1
    <3>2. \A d, e \in used \ {iter} : d # e => mem'[d].num # mem'[e].num
      BY <1>20, <2>1
    <3> QED BY <1>1, <3>1, <3>2
  <2> QED BY <2>2, <2>3 DEF NumInv
<1>22. SortInv' /\ CleanInv'
  BY <1>1 DEF SortInv, CleanInv
<1>23. MemoryInv'
  BY <1>18, <1>19, <1>21, <1>22 DEF MemoryInv
<1>24. OnLists(RemoveAt(f, k), Append(t, c))'
  BY <1>17 DEF f2, t2
<1> QED BY <1>1, <1>3, <1>5, <1>20, <1>23, <1>24
-----------------------------------------------------------------------------
(* The first node of a chain is taken from it. *)
LEMMA RestOf ==
  ASSUME NEW s \in Seq(Cell), s # <<>>, Distinct(s)
  PROVE  /\ s[1] \in Nodes(s) /\ s[1] \in Cell /\ Nodes(s) \subseteq Cell
         /\ Tail(s) \in Seq(Cell) /\ Len(s) \in Nat /\ Len(Tail(s)) = Len(s) - 1
         /\ \A i \in 1..(Len(s) - 1) : Tail(s)[i] = s[i + 1]
         /\ Distinct(Tail(s)) /\ Nodes(Tail(s)) = Nodes(s) \ {s[1]}
<1>1. /\ Tail(s) \in Seq(Cell) /\ Len(Tail(s)) = Len(s) - 1
      /\ \A i \in 1..(Len(s) - 1) : Tail(s)[i] = s[i + 1]
  BY HeadTailProperties
<1>2. Len(s) \in Nat /\ 1 \in 1..Len(s)
  BY LenProperties, EmptySeq
<1>3. \A i \in 1..Len(s) : s[i] \in Cell
  BY ElementOfSeq
<1>4. \A i \in 1..Len(Tail(s)) : i + 1 \in 1..Len(s) /\ i + 1 # 1 /\ Tail(s)[i] = s[i + 1]
  BY <1>1, <1>2
<1>5. Distinct(Tail(s))
  <2>1. ASSUME NEW i \in 1..Len(Tail(s)), NEW j \in 1..Len(Tail(s)), i # j
        PROVE  Tail(s)[i] # Tail(s)[j]
    <3>1. i + 1 # j + 1
      BY <2>1
    <3> QED BY <1>4, <3>1 DEF Distinct
  <2> QED BY <2>1 DEF Distinct
<1>6. Nodes(Tail(s)) = Nodes(s) \ {s[1]}
  <2>1. ASSUME NEW x \in Nodes(Tail(s)) PROVE x \in Nodes(s) \ {s[1]}
    <3>1. PICK i \in 1..Len(Tail(s)) : Tail(s)[i] = x
      BY DEF Nodes
    <3>2. i + 1 \in 1..Len(s) /\ i + 1 # 1 /\ x = s[i + 1]
      BY <1>4, <3>1
    <3> QED BY <1>2, <3>2 DEF Nodes, Distinct
  <2>2. ASSUME NEW x \in Nodes(s) \ {s[1]} PROVE x \in Nodes(Tail(s))
    <3>1. PICK i \in 1..Len(s) : s[i] = x /\ i # 1
      BY DEF Nodes
    <3>2. i - 1 \in 1..Len(Tail(s)) /\ (i - 1) + 1 = i /\ i - 1 \in 1..(Len(s) - 1)
      BY <1>1, <1>2, <3>1
    <3>3. Tail(s)[i - 1] = x
      BY <1>1, <3>1, <3>2
    <3> QED BY <3>2, <3>3 DEF Nodes
  <2> QED BY <2>1, <2>2
<1>7. s[1] \in Nodes(s) /\ Nodes(s) \subseteq Cell
  BY <1>2, <1>3 DEF Nodes
<1> QED BY <1>1, <1>2, <1>3, <1>5, <1>6, <1>7

(* What is left of a piece stays linked. *)
LEMMA RestIsLinked ==
  ASSUME NEW s \in Seq(Cell), s # <<>>, Distinct(s), NEW m, NEW n,
         \A c \in Nodes(s) \ {s[1]} : n[c].next = m[c].next, Linked(m, s)
  PROVE  /\ Linked(n, Tail(s)) /\ (Ends(m, s) => Ends(n, Tail(s)))
         /\ Tail(s) # <<>> => m[s[1]].next = Tail(s)[1]
         /\ Ends(m, s) => m[s[1]].next = First(Tail(s))
<1> DEFINE t == Tail(s)
<1>1. /\ t \in Seq(Cell) /\ Len(s) \in Nat /\ Len(t) = Len(s) - 1
      /\ \A i \in 1..(Len(s) - 1) : t[i] = s[i + 1]
      /\ Nodes(t) = Nodes(s) \ {s[1]}
  BY RestOf
<1>2. /\ (t = <<>> <=> Len(s) = 1)
      /\ \A i \in 1..Len(t) : t[i] \in Nodes(s) \ {s[1]}
  <2>1. t = <<>> <=> Len(t) = 0
    BY <1>1, EmptySeq
  <2>2. \A i \in 1..Len(t) : t[i] \in Nodes(t)
    BY DEF Nodes
  <2> HIDE DEF t
  <2> QED BY <1>1, <2>1, <2>2
<1> HIDE DEF t
<1>3. Linked(n, t)
  <2>1. ASSUME NEW i \in 1..(Len(t) - 1) PROVE n[t[i]].next = t[i + 1]
    <3>1. /\ i \in 1..Len(t) /\ i \in 1..(Len(s) - 1) /\ i + 1 \in 1..(Len(s) - 1)
          /\ t[i] = s[i + 1] /\ t[i + 1] = s[(i + 1) + 1]
      BY <1>1
    <3>2. m[s[i + 1]].next = s[(i + 1) + 1]
      BY <3>1 DEF Linked
    <3>3. n[t[i]].next = m[t[i]].next
      BY <1>2, <3>1
    <3> QED BY <3>1, <3>2, <3>3
  <2> QED BY <2>1 DEF Linked
<1>4. ASSUME Ends(m, s), t # <<>> PROVE n[t[Len(t)]].next = NULL
  <2>1. Len(t) \in 1..Len(t) /\ Len(t) \in 1..(Len(s) - 1) /\ Len(t) + 1 = Len(s)
    BY <1>1, <1>4, EmptySeq
  <2>2. t[Len(t)] = s[Len(s)]
    BY <1>1, <2>1
  <2>3. m[s[Len(s)]].next = NULL
    BY <1>4 DEF Ends
  <2> QED BY <1>2, <2>1, <2>2, <2>3
<1>5. ASSUME t # <<>> PROVE m[s[1]].next = t[1]
  <2>1. 1 \in 1..(Len(s) - 1)
    BY <1>1, <1>2, <1>5, EmptySeq
  <2> QED BY <1>1, <2>1 DEF Linked
<1>6. ASSUME t = <<>>, Ends(m, s) PROVE m[s[1]].next = NULL
  BY <1>2, <1>6 DEF Ends
<1> QED BY <1>3, <1>4, <1>5, <1>6 DEF Ends, First, t

(* What is left of a chain is one. *)
LEMMA ChainRest ==
  ASSUME NEW m, NEW n, NEW h, NEW s, Chain(m, h, s), h # NULL,
         \A c \in Nodes(s) \ {h} : n[c].next = m[c].next
  PROVE  /\ h \in Nodes(s) /\ Nodes(s) \subseteq Cell
         /\ Chain(n, m[h].next, Tail(s)) /\ Nodes(Tail(s)) = Nodes(s) \ {h}
<1>1. /\ s \in Seq(Cell) /\ Distinct(s) /\ s # <<>> /\ h = s[1]
      /\ Linked(m, s) /\ Ends(m, s)
  BY DEF Chain, First
<1>2. /\ h \in Nodes(s) /\ Nodes(s) \subseteq Cell
      /\ Tail(s) \in Seq(Cell) /\ Distinct(Tail(s)) /\ Nodes(Tail(s)) = Nodes(s) \ {h}
  BY <1>1, RestOf
<1>3. Linked(n, Tail(s)) /\ Ends(n, Tail(s)) /\ m[h].next = First(Tail(s))
  BY <1>1, RestIsLinked
<1> QED BY <1>2, <1>3 DEF Chain

(* A chain depends on the next pointers of its own nodes. *)
LEMMA ChainStays ==
  ASSUME NEW m, NEW n, NEW h, NEW s, Chain(m, h, s), \A c \in Nodes(s) : n[c].next = m[c].next
  PROVE  Chain(n, h, s)
<1>1. s \in Seq(Cell) /\ Len(s) \in Nat
  BY LenProperties DEF Chain
<1>2. \A i \in 1..Len(s) : n[s[i]].next = m[s[i]].next
  BY DEF Nodes
<1>3. Linked(n, s)
  BY <1>1, <1>2 DEF Chain, Linked
<1>4. Ends(n, s)
  <2>1. s # <<>> => Len(s) \in 1..Len(s)
    BY <1>1, EmptySeq
  <2> QED BY <1>2, <2>1 DEF Chain, Ends
<1> QED BY <1>3, <1>4 DEF Chain

(* dis_cleanup frees the node it stands on, and knows the next. *)
LEMMA CleanNodeKeeps ==
  ASSUME MemoryInv, CleanNode
  PROVE  MemoryInv'
<1>1. /\ mode \in {"cleanFrom", "cleanTo"} /\ iter # NULL
      /\ used' = used \ {iter} /\ mem' = [mem EXCEPT ![iter] = Blank(0)]
      /\ iter' = mem[iter].next /\ head' = head /\ num' = num /\ mode' = mode /\ sort' = sort
  BY DEF CleanNode, Step
<1>2. mem \in [Cell -> NodeRec] /\ iter \in Cell /\ used \subseteq Cell
  BY <1>1 DEF MemoryInv, ShapeInv, Pointer
<1>3. mem' \in [Cell -> NodeRec] /\ \A c \in Cell \ {iter} : mem'[c] = mem[c]
  <2>1. 0 \in 0..MaxInst
    BY InstAssumption
  <2> QED BY <1>1, <1>2, <2>1, BlankWritten
<1>4. CleanInv'
  <2>1. CASE mode = "cleanFrom"
    <3>1. PICK f \in Seq(Cell), t \in Seq(Cell) :
            /\ Chain(mem, iter, f) /\ Chain(mem, head.to, t) /\ Apart(f, t)
            /\ used = Nodes(f) \cup Nodes(t)
      BY <2>1 DEF MemoryInv, CleanInv
    <3>2. \A c \in Nodes(f) \ {iter} : mem'[c].next = mem[c].next
      BY <1>2, <1>3, <3>1
    <3>3. /\ iter \in Nodes(f) /\ Nodes(f) \subseteq Cell
          /\ Chain(mem', iter', Tail(f)) /\ Nodes(Tail(f)) = Nodes(f) \ {iter}
      <4>1. PICK m, n, h : m = mem /\ n = mem' /\ h = iter
        OBVIOUS
      <4>2. Chain(m, h, f) /\ h # NULL /\ \A c \in Nodes(f) \ {h} : n[c].next = m[c].next
        BY <1>1, <3>1, <3>2, <4>1
      <4>3. /\ h \in Nodes(f) /\ Nodes(f) \subseteq Cell
            /\ Chain(n, m[h].next, Tail(f)) /\ Nodes(Tail(f)) = Nodes(f) \ {h}
        BY <4>2, ChainRest
      <4> QED BY <1>1, <4>1, <4>3
    <3>4. \A c \in Nodes(t) : mem'[c].next = mem[c].next
      BY <1>2, <1>3, <3>1, <3>3 DEF Apart
    <3>5. Chain(mem', head'.to, t)
      BY <1>1, <3>1, <3>4, ChainStays
    <3>6. Apart(Tail(f), t) /\ used' = Nodes(Tail(f)) \cup Nodes(t) /\ Tail(f) \in Seq(Cell)
      <4>1. Tail(f) \in Seq(Cell)
        BY <3>3 DEF Chain
      <4> QED BY <1>1, <3>1, <3>3, <4>1 DEF Apart
    <3> QED BY <1>1, <2>1, <3>3, <3>5, <3>6 DEF CleanInv, MemoryInv, NoSort
  <2>2. CASE mode = "cleanTo"
    <3>1. PICK t \in Seq(Cell) : Chain(mem, iter, t) /\ used = Nodes(t)
      BY <2>2 DEF MemoryInv, CleanInv
    <3>2. \A c \in Nodes(t) \ {iter} : mem'[c].next = mem[c].next
      BY <1>2, <1>3, <3>1
    <3>3. /\ iter \in Nodes(t) /\ Nodes(t) \subseteq Cell
          /\ Chain(mem', iter', Tail(t)) /\ Nodes(Tail(t)) = Nodes(t) \ {iter}
      <4>1. PICK m, n, h : m = mem /\ n = mem' /\ h = iter
        OBVIOUS
      <4>2. Chain(m, h, t) /\ h # NULL /\ \A c \in Nodes(t) \ {h} : n[c].next = m[c].next
        BY <1>1, <3>1, <3>2, <4>1
      <4>3. /\ h \in Nodes(t) /\ Nodes(t) \subseteq Cell
            /\ Chain(n, m[h].next, Tail(t)) /\ Nodes(Tail(t)) = Nodes(t) \ {h}
        BY <4>2, ChainRest
      <4> QED BY <1>1, <4>1, <4>3
    <3>4. Tail(t) \in Seq(Cell) /\ used' = Nodes(Tail(t))
      BY <1>1, <3>1, <3>3 DEF Chain
    <3> QED BY <1>1, <2>2, <3>3, <3>4 DEF CleanInv, MemoryInv, NoSort
  <2> QED BY <1>1, <2>1, <2>2
<1>5. ShapeInv'
  <2>1. iter' \in Pointer
    BY <1>1, <1>2 DEF NodeRec
  <2> QED BY <1>1, <1>2, <1>3, <2>1 DEF MemoryInv, ShapeInv
<1> QED BY <1>1, <1>4, <1>5 DEF MemoryInv, NumInv, RunInv, SortInv

(* The first list has been freed, and the second is begun. *)
LEMMA CleanFromEndKeeps ==
  ASSUME MemoryInv, CleanFromEnd
  PROVE  MemoryInv'
<1>1. /\ mode = "cleanFrom" /\ iter = NULL /\ mode' = "cleanTo" /\ iter' = head.to
      /\ head' = [head EXCEPT !.from = NULL]
      /\ mem' = mem /\ used' = used /\ num' = num /\ sort' = sort
  BY DEF CleanFromEnd
<1>2. PICK f \in Seq(Cell), t \in Seq(Cell) :
        /\ Chain(mem, iter, f) /\ Chain(mem, head.to, t) /\ used = Nodes(f) \cup Nodes(t)
  BY <1>1 DEF MemoryInv, CleanInv
<1>3. Nodes(f) = {}
  <2>1. f = <<>>
    <3>1. f # <<>> => 1 \in 1..Len(f)
      BY EmptySeq, LenProperties
    <3>2. f # <<>> => f[1] \in Cell
      BY <3>1, ElementOfSeq
    <3> QED BY <1>1, <1>2, <3>2, CellAssumption DEF Chain, First
  <2> QED BY <2>1, EmptyList
<1>4. CleanInv'
  BY <1>1, <1>2, <1>3 DEF CleanInv, MemoryInv, NoSort
<1>5. ShapeInv'
  BY <1>1 DEF MemoryInv, ShapeInv, Pointer
<1> QED BY <1>1, <1>4, <1>5 DEF MemoryInv, NumInv, RunInv, SortInv

(* Both lists have been freed. *)
LEMMA CleanToEndKeeps ==
  ASSUME MemoryInv, CleanToEnd
  PROVE  MemoryInv'
<1>1. /\ mode = "cleanTo" /\ iter = NULL /\ mode' = "end" /\ iter' = iter
      /\ head' = [head EXCEPT !.to = NULL]
      /\ mem' = mem /\ used' = used /\ num' = num /\ sort' = sort
  BY DEF CleanToEnd
<1>2. PICK t \in Seq(Cell) : Chain(mem, iter, t) /\ used = Nodes(t)
  BY <1>1 DEF MemoryInv, CleanInv
<1>3. Nodes(t) = {}
  <2>1. t = <<>>
    <3>1. t # <<>> => 1 \in 1..Len(t)
      BY EmptySeq, LenProperties
    <3>2. t # <<>> => t[1] \in Cell
      BY <3>1, ElementOfSeq
    <3> QED BY <1>1, <1>2, <3>2, CellAssumption DEF Chain, First
  <2> QED BY <2>1, EmptyList
<1>4. CleanInv'
  BY <1>1, <1>2, <1>3 DEF CleanInv, MemoryInv, NoSort
<1>5. ShapeInv'
  BY <1>1 DEF MemoryInv, ShapeInv, Pointer
<1> QED BY <1>1, <1>4, <1>5 DEF MemoryInv, NumInv, RunInv, SortInv
-----------------------------------------------------------------------------
(* DL_SORT.  The arithmetic of its runs. *)
LEMMA RunOf ==
  ASSUME NEW n \in Nat \ {0}, NEW q \in Nat, NEW r \in 0..(n - 1)
  PROVE  (q * n + r) \div n = q /\ (q * n + r) % n = r
<1>1. PICK k \in Nat : k = q * n + r
  OBVIOUS
<1>2. PICK u \in Nat, v \in 0..(n - 1) : u = k \div n /\ v = k % n /\ k = u * n + v
  OBVIOUS
<1>3. ASSUME NEW x \in Nat, NEW y \in Nat, x < y PROVE x * n + n <= y * n
  <2>1. y - x \in Nat \ {0} /\ y = x + (y - x)
    BY <1>3
  <2>2. PICK z \in Nat \ {0} : y = x + z
    BY <2>1
  <2>3. y * n = x * n + z * n /\ z * n >= n /\ x * n \in Nat /\ z * n \in Nat
    BY <2>2
  <2> QED BY <2>3
<1>4. u * n \in Nat /\ q * n \in Nat /\ q * n + r = u * n + v
  BY <1>1, <1>2
<1>5. ~(u < q)
  <2>1. ASSUME u < q PROVE FALSE
    <3>1. u * n + n <= q * n
      BY <1>3, <2>1
    <3> QED BY <1>4, <3>1
  <2> QED BY <2>1
<1>6. ~(q < u)
  <2>1. ASSUME q < u PROVE FALSE
    <3>1. q * n + n <= u * n
      BY <1>3, <2>1
    <3> QED BY <1>4, <3>1
  <2> QED BY <2>1
<1>7. u = q
  BY <1>5, <1>6
<1> QED BY <1>1, <1>2, <1>4, <1>7

(* Which run of n the place i is in. *)
LEMMA RunArithmetic ==
  ASSUME NEW n \in Nat \ {0}, NEW i \in Nat
  PROVE  /\ i \div n \in Nat
         /\ i < n => i \div n = 0
         /\ (i + n) \div n = i \div n + 1
         /\ (i + n) % n = i % n
<1>1. PICK q \in Nat, r \in 0..(n - 1) : q = i \div n /\ r = i % n /\ i = q * n + r
  OBVIOUS
<1>2. i < n => q = 0
  <2>1. ASSUME i < n PROVE i \div n = 0
    <3>1. 0 \in Nat /\ i \in 0..(n - 1) /\ 0 * n + i = i
      BY <2>1
    <3>2. (0 * n + i) \div n = 0
      BY <3>1, RunOf
    <3> QED BY <3>1, <3>2
  <2> QED BY <1>1, <2>1
<1>3. i + n = (q + 1) * n + r /\ q + 1 \in Nat
  <2>1. (q + 1) * n = q * n + n
    OBVIOUS
  <2> QED BY <1>1, <2>1
<1>4. ((q + 1) * n + r) \div n = q + 1 /\ ((q + 1) * n + r) % n = r
  BY <1>3, RunOf
<1> QED BY <1>1, <1>2, <1>3, <1>4

(* A number of whole runs parts what is before it from what is after. *)
LEMMA RunsPart ==
  ASSUME NEW n \in Nat \ {0}, NEW x \in Nat, x % n = 0,
         NEW i \in Nat, NEW j \in Nat, i < x, x <= j
  PROVE  i \div n # j \div n
<1>1. PICK u \in Nat : x = u * n
  <2>1. PICK q \in Nat, r \in 0..(n - 1) : q = x \div n /\ r = x % n /\ x = q * n + r
    OBVIOUS
  <2> QED BY <2>1
<1>2. PICK q \in Nat, r \in 0..(n - 1) : q = i \div n /\ i = q * n + r
  OBVIOUS
<1>3. PICK p \in Nat, s \in 0..(n - 1) : p = j \div n /\ j = p * n + s
  OBVIOUS
<1>4. ASSUME q = p PROVE FALSE
  <2>1. PICK a \in Nat, b \in Nat : a = q * n /\ b = u * n
    OBVIOUS
  <2>2. a + r < b /\ b <= a + s
    BY <1>1, <1>2, <1>3, <1>4, <2>1
  <2>3. q < u
    <3>1. ASSUME u <= q PROVE FALSE
      <4>1. PICK z \in Nat : q = u + z
        <5>1. q - u \in Nat /\ q = u + (q - u)
          BY <3>1
        <5> QED BY <5>1
      <4>2. q * n = u * n + z * n /\ z * n \in Nat
        BY <4>1
      <4> QED BY <2>1, <2>2, <4>2
    <3> QED BY <3>1
  <2>4. PICK z \in Nat \ {0} : u = q + z
    <3>1. u - q \in Nat \ {0} /\ u = q + (u - q)
      BY <2>3
    <3> QED BY <3>1
  <2>5. u * n = q * n + z * n /\ z * n >= n /\ z * n \in Nat
    BY <2>4
  <2> QED BY <2>1, <2>2, <2>5
<1> QED BY <1>2, <1>3, <1>4

(* A piece cut in two. *)
Before(s, k) == SubSeq(s, 1, k)
Beyond(s, k) == SubSeq(s, k + 1, Len(s))

(* Its two parts have its nodes, each once. *)
LEMMA SplitPiece ==
  ASSUME NEW s \in Seq(Cell), Distinct(s), NEW k \in 0..Len(s)
  PROVE  LET a == Before(s, k)
             b == Beyond(s, k)
         IN  /\ a \in Seq(Cell) /\ Len(a) = k /\ \A i \in 1..k : a[i] = s[i]
             /\ b \in Seq(Cell) /\ Len(b) = Len(s) - k
             /\ \A i \in 1..(Len(s) - k) : b[i] = s[k + i]
             /\ Distinct(a) /\ Distinct(b) /\ Apart(a, b) /\ Nodes(a) \cup Nodes(b) = Nodes(s)
<1> DEFINE a == Before(s, k)
           b == Beyond(s, k)
<1>1. /\ a \in Seq(Cell) /\ Len(a) = k /\ \A i \in 1..k : a[i] = s[i]
  BY DEF Before
<1>2. /\ b \in Seq(Cell) /\ Len(b) = Len(s) - k /\ \A i \in 1..(Len(s) - k) : b[i] = s[k + i]
  BY DEF Beyond
<1> HIDE DEF a, b
<1>3. Len(s) \in Nat
  BY LenProperties
<1>4. \A i \in 1..k : i \in 1..Len(s)
  BY <1>3
<1>5. \A i \in 1..(Len(s) - k) : k + i \in 1..Len(s)
  BY <1>3
<1>6. Distinct(a)
  BY <1>1, <1>4 DEF Distinct
<1>7. Distinct(b)
  <2>1. \A i, j \in 1..(Len(s) - k) : i # j => k + i # k + j
    BY <1>3
  <2> QED BY <1>2, <1>5, <2>1 DEF Distinct
<1>8. Apart(a, b)
  <2>1. ASSUME NEW i \in 1..k, NEW j \in 1..(Len(s) - k) PROVE a[i] # b[j]
    <3>1. i # k + j
      BY <1>3
    <3>2. s[i] # s[k + j]
      BY <1>4, <1>5, <3>1 DEF Distinct
    <3> QED BY <1>1, <1>2, <3>2
  <2>2. ASSUME NEW c \in Nodes(a), c \in Nodes(b) PROVE FALSE
    <3>1. PICK i \in 1..k : c = a[i]
      BY <1>1 DEF Nodes
    <3>2. PICK j \in 1..(Len(s) - k) : c = b[j]
      BY <1>2, <2>2 DEF Nodes
    <3> QED BY <2>1, <3>1, <3>2
  <2> QED BY <2>2 DEF Apart
<1>9. Nodes(a) \cup Nodes(b) = Nodes(s)
  <2>1. ASSUME NEW x \in Nodes(s) PROVE x \in Nodes(a) \cup Nodes(b)
    <3>1. PICK i \in 1..Len(s) : s[i] = x
      BY DEF Nodes
    <3>2. CASE i <= k
      BY <1>1, <3>1, <3>2 DEF Nodes
    <3>3. CASE i > k
      <4>1. i - k \in 1..(Len(s) - k) /\ k + (i - k) = i
        BY <1>3, <3>3
      <4>2. b[i - k] = x
        BY <1>2, <3>1, <4>1
      <4> QED BY <1>2, <4>1, <4>2 DEF Nodes
    <3> QED BY <3>2, <3>3
  <2>2. Nodes(a) \subseteq Nodes(s)
    BY <1>1, <1>4 DEF Nodes
  <2>3. ASSUME NEW x \in Nodes(b) PROVE x \in Nodes(s)
    <3>1. PICK i \in 1..(Len(s) - k) : b[i] = x
      BY <1>2 DEF Nodes
    <3> QED BY <1>2, <1>5, <3>1 DEF Nodes
  <2> QED BY <2>1, <2>2, <2>3
<1> QED BY <1>1, <1>2, <1>6, <1>7, <1>8, <1>9 DEF a, b

(* Its two parts are linked as it was. *)
LEMMA SplitIsLinked ==
  ASSUME NEW s \in Seq(Cell), Distinct(s), NEW k \in 0..Len(s), NEW m,
         Linked(m, s), Ends(m, s)
  PROVE  Linked(m, Before(s, k)) /\ Linked(m, Beyond(s, k)) /\ Ends(m, Beyond(s, k))
<1> DEFINE a == Before(s, k)
           b == Beyond(s, k)
<1>1. /\ Len(a) = k /\ \A i \in 1..k : a[i] = s[i]
      /\ b \in Seq(Cell) /\ Len(b) = Len(s) - k /\ \A i \in 1..(Len(s) - k) : b[i] = s[k + i]
  BY SplitPiece
<1> HIDE DEF a, b
<1>2. Len(s) \in Nat
  BY LenProperties
<1>3. Linked(m, a)
  <2>1. ASSUME NEW i \in 1..(k - 1) PROVE m[a[i]].next = a[i + 1]
    <3>1. i \in 1..k /\ i + 1 \in 1..k /\ i \in 1..(Len(s) - 1)
      BY <1>2
    <3> QED BY <1>1, <3>1 DEF Linked
  <2> QED BY <1>1, <2>1 DEF Linked
<1>4. Linked(m, b)
  <2>1. ASSUME NEW i \in 1..((Len(s) - k) - 1) PROVE m[b[i]].next = b[i + 1]
    <3>1. /\ i \in 1..(Len(s) - k) /\ i + 1 \in 1..(Len(s) - k) /\ k + i \in 1..(Len(s) - 1)
          /\ k + (i + 1) = (k + i) + 1
      BY <1>2
    <3>2. b[i] = s[k + i] /\ b[i + 1] = s[(k + i) + 1]
      BY <1>1, <3>1
    <3> QED BY <3>1, <3>2 DEF Linked
  <2> QED BY <1>1, <2>1 DEF Linked
<1>5. Ends(m, b)
  <2>1. ASSUME b # <<>> PROVE m[b[Len(b)]].next = NULL
    <3>1. Len(b) \in 1..(Len(s) - k) /\ k + Len(b) = Len(s)
      BY <1>1, <1>2, <2>1, EmptySeq
    <3>2. b[Len(b)] = s[Len(s)]
      BY <1>1, <3>1
    <3>3. s # <<>>
      BY <1>1, <1>2, <3>1, EmptySeq
    <3> QED BY <3>2, <3>3 DEF Ends
  <2> QED BY <2>1 DEF Ends
<1> QED BY <1>3, <1>4, <1>5 DEF a, b

(* A pass begins with the whole list ahead of it. *)
LEMMA PassBegins ==
  ASSUME NEW f \in Seq(Cell), NEW s \in Seq(Cell), s # <<>>, NEW n \in 1..(2 * MaxInst),
         IsList(mem', head'.from, f), IsList(mem', s[1], s), Apart(f, s),
         used' = Nodes(f) \cup Nodes(s), Len(f) + Len(s) = num',
         head'.to = NULL, sort' = [NoSort EXCEPT !.at = "runs", !.p = s[1], !.insize = n],
         InRuns(Numbers', s, 0, Len(s), n)
  PROVE  (Cut(f, <<>>, <<>>, s) /\ Counted(<<>>, <<>>, s) /\ Merging(<<>>, <<>>, s))'
<1>1. /\ sort'.at = "runs" /\ sort'.p = s[1] /\ sort'.q = NULL /\ sort'.tail = NULL
      /\ sort'.psize = 0 /\ sort'.qsize = 0 /\ sort'.insize = n /\ sort'.nmerges = 0
  BY DEF NoSort
<1>2. /\ Nodes(<<>>) = {} /\ Len(<<>>) = 0 /\ Len(s) \in Nat /\ Len(f) \in Nat
      /\ First(<<>>) = NULL /\ Final(<<>>) = NULL /\ First(s) = s[1]
  BY EmptyList, LenProperties DEF First, Final
<1>3. Cut(f, <<>>, <<>>, s)'
  <2>1. Distinct(<<>>) /\ Linked(mem', <<>>) /\ Back(mem', <<>>)
    BY EmptyList DEF IsList
  <2>2. Distinct(s) /\ Linked(mem', s) /\ Ends(mem', s)
    BY DEF IsList
  <2>3. Len(f) + 0 + 0 + Len(s) = num'
    BY <1>2
  <2> QED BY <1>1, <1>2, <2>1, <2>2, <2>3 DEF Cut, Apart
<1>4. Counted(<<>>, <<>>, s)'
  <2>1. 0 \in 0..n
    BY InstAssumption
  <2> QED BY <1>1, <2>1 DEF Counted
<1>5. Room(<<>>, <<>>, s, 0)'
  <2>1. 0 \in 0..0 /\ 0 % (2 * n) = 0 /\ 0 <= 2 * n
    BY InstAssumption
  <2> QED BY <1>1, <1>2, <2>1 DEF Room
<1>6. InOrder(Numbers', <<>>, <<>>, s, 0, LeftOfQ', n)
  <2>1. LeftOfQ' = 0
    BY <1>1 DEF LeftOfQ
  <2>2. Rises(Numbers', s, 0, 0)
    BY <1>2 DEF Rises
  <2> HIDE DEF Numbers, LeftOfQ
  <2> QED BY <1>2, <2>1, <2>2 DEF InOrder, InRuns, Rises, Under
<1>7. Merging(<<>>, <<>>, s)'
  BY <1>1, <1>5, <1>6 DEF Merging
<1> QED BY <1>3, <1>4, <1>7

(* DL_SORT begins: a pass over runs of one node, with nothing built. *)
LEMMA SortStartKeeps ==
  ASSUME MemoryInv, SortStart
  PROVE  MemoryInv'
<1>1. /\ mode = "run" /\ iter = NULL /\ head.to # NULL
      /\ sort' = [NoSort EXCEPT !.at = "runs", !.p = head.to, !.insize = 1]
      /\ head' = [head EXCEPT !.to = NULL] /\ mode' = "sort"
      /\ mem' = mem /\ used' = used /\ num' = num /\ iter' = iter
  BY DEF SortStart, NewPass, Idle
<1>2. PICK f \in Seq(Cell), t \in Seq(Cell) : OnLists(f, t)
  BY <1>1 DEF MemoryInv, RunInv
<1>3. /\ IsList(mem, head.from, f) /\ IsList(mem, head.to, t) /\ Apart(f, t)
      /\ used = Nodes(f) \cup Nodes(t) /\ Len(f) + Len(t) = num
  BY <1>2 DEF OnLists
<1>4. /\ Len(f) \in Nat /\ Len(t) \in Nat /\ t # <<>> /\ head.to = t[1] /\ head.to \in Nodes(t)
      /\ \A c \in used : mem[c].next \in used \cup {NULL}
  <2>1. /\ Len(f) \in Nat /\ \A c \in Nodes(f) : mem[c].next \in Nodes(f) \cup {NULL}
    BY <1>3, ListBits
  <2>2. /\ Len(t) \in Nat /\ t # <<>> /\ head.to \in Nodes(t)
        /\ \A c \in Nodes(t) : mem[c].next \in Nodes(t) \cup {NULL}
    BY <1>1, <1>3, ListBits
  <2>3. head.to = t[1]
    BY <1>3, <2>2 DEF IsList, First
  <2> QED BY <1>3, <2>1, <2>2, <2>3
<1>5. head \in [from : Pointer, to : Pointer] /\ num \in 0..MaxInst /\ used \subseteq Cell
  BY DEF MemoryInv, ShapeInv
<1>6. 1 \in 1..(2 * MaxInst)
  <2>1. Len(t) # 0
    BY <1>4, EmptySeq
  <2> QED BY <1>3, <1>4, <1>5, <2>1, InstAssumption
<1>7. InRuns(Numbers', t, 0, Len(t), 1)
  <2>1. ASSUME NEW i \in 1..Len(t), NEW j \in 1..Len(t), i < j
        PROVE  (i - 0 - 1) \div 1 # (j - 0 - 1) \div 1
    <3>1. /\ i - 1 \in Nat /\ j - 1 \in Nat /\ i - 0 - 1 = (i - 1) * 1 + 0 /\ j - 0 - 1 = (j - 1) * 1 + 0
          /\ 0 \in 0..(1 - 1) /\ 1 \in Nat \ {0}
      BY <1>4
    <3>2. ((i - 1) * 1 + 0) \div 1 = i - 1 /\ ((j - 1) * 1 + 0) \div 1 = j - 1
      BY <3>1, RunOf
    <3> QED BY <2>1, <3>1, <3>2
  <2> QED BY <2>1 DEF InRuns
<1>8. (Cut(f, <<>>, <<>>, t) /\ Counted(<<>>, <<>>, t) /\ Merging(<<>>, <<>>, t))'
  <2>1. head'.from = head.from /\ head'.to = NULL
    BY <1>1, <1>5
  <2>2. IsList(mem', head'.from, f) /\ IsList(mem', t[1], t)
    BY <1>1, <1>3, <1>4, <2>1
  <2>3. sort' = [NoSort EXCEPT !.at = "runs", !.p = t[1], !.insize = 1]
    BY <1>1, <1>4
  <2>4. used' = Nodes(f) \cup Nodes(t) /\ Len(f) + Len(t) = num'
    BY <1>1, <1>3
  <2> QED BY <1>3, <1>4, <1>6, <1>7, <2>1, <2>2, <2>3, <2>4, PassBegins
<1>9. SortInv'
  <2>1. <<>> \in Seq(Cell) /\ iter' = NULL
    BY <1>1, EmptyList
  <2> HIDE DEF Cut, Counted, Merging
  <2> QED BY <1>8, <2>1 DEF SortInv
<1>10. ShapeInv'
  <2>1. head.to \in used
    BY <1>3, <1>4
  <2>2. sort' \in [at : {"off", "runs", "take"}, p : Pointer, q : Pointer, tail : Pointer,
                   psize : Nat, qsize : Nat, insize : Nat, nmerges : Nat]
    BY <1>1, <1>5 DEF NoSort, Pointer
  <2>3. sort'.at = "runs" /\ sort'.p = head.to /\ sort'.q = NULL
    BY <1>1 DEF NoSort
  <2>4. /\ mem' \in [Cell -> NodeRec] /\ used' \subseteq Cell /\ num' \in 0..MaxInst
        /\ head' \in [from : Pointer, to : Pointer] /\ iter' \in Pointer /\ mode' = "sort"
    BY <1>1, <1>5 DEF MemoryInv, ShapeInv, Pointer
  <2>5. sort'.at # "off" /\ {sort'.p, sort'.q} \subseteq used' \cup {NULL}
    BY <1>1, <2>1, <2>3
  <2>6. \A c \in used' : mem'[c].next \in used' \cup {NULL}
    BY <1>1, <1>4
  <2> QED BY <2>2, <2>4, <2>5, <2>6 DEF ShapeInv
<1>11. NumInv' /\ RunInv' /\ CleanInv'
  BY <1>1 DEF MemoryInv, NumInv, RunInv, CleanInv
<1> QED BY <1>9, <1>10, <1>11 DEF MemoryInv

(* The first run is cut from the rest, as the for loop counts it. *)
LEMMA CutOrder ==
  ASSUME NEW v, NEW b \in Seq(Cell), NEW r \in Seq(Cell), NEW n \in Nat \ {0},
         Distinct(r), NEW k \in 0..Len(r), k <= n, k < Len(r) => k = n,
         NEW p2, NEW r2, p2 = Before(r, k), r2 = Beyond(r, k),
         InOrder(v, b, <<>>, r, Len(b), 0, n)
  PROVE  InOrder(v, b, p2, r2, Len(b), n, n)
<1>1. /\ Len(p2) = k /\ \A i \in 1..k : p2[i] = r[i]
      /\ Len(r2) = Len(r) - k /\ \A i \in 1..(Len(r) - k) : r2[i] = r[k + i]
  BY SplitPiece
<1>2. Len(r) \in Nat /\ Len(b) \in Nat
  BY LenProperties
<1>3. \A i, j \in 1..Len(r) : i < j /\ (i - 1) \div n = (j - 1) \div n => v[r[i]] < v[r[j]]
  <2>1. ASSUME NEW i \in 1..Len(r), NEW j \in 1..Len(r), i < j, (i - 1) \div n = (j - 1) \div n
        PROVE  v[r[i]] < v[r[j]]
    <3>1. i - 0 - 1 = i - 1 /\ j - 0 - 1 = j - 1 /\ 0 < i /\ j <= Len(r)
      BY <1>2
    <3> QED BY <2>1, <3>1 DEF InOrder, InRuns
  <2> QED BY <2>1
<1>4. Rises(v, p2, 0, Len(p2))
  <2>1. ASSUME NEW i \in 1..k, NEW j \in 1..k, i < j PROVE v[p2[i]] < v[p2[j]]
    <3>1. i - 1 \in Nat /\ j - 1 \in Nat /\ i - 1 < n /\ j - 1 < n /\ i \in 1..Len(r) /\ j \in 1..Len(r)
      BY <1>2
    <3>2. (i - 1) \div n = 0 /\ (j - 1) \div n = 0
      BY <3>1, RunArithmetic
    <3> QED BY <1>1, <1>3, <2>1, <3>1, <3>2
  <2> QED BY <1>1, <2>1 DEF Rises
<1>5. ASSUME NEW i \in 1..Len(r2)
      PROVE  /\ k + i \in 1..Len(r) /\ k = n /\ r2[i] = r[k + i]
             /\ i - 1 \in Nat /\ (k + i) - 1 = (i - 1) + n
             /\ ((k + i) - 1) \div n = (i - 1) \div n + 1
  <2>1. k + i \in 1..Len(r) /\ k = n /\ i \in 1..(Len(r) - k) /\ i - 1 \in Nat
    BY <1>1, <1>2
  <2>2. (k + i) - 1 = (i - 1) + n
    BY <2>1
  <2> QED BY <1>1, <2>1, <2>2, RunArithmetic
<1>6. Rises(v, r2, 0, n)
  <2>1. ASSUME NEW i \in 1..Len(r2), NEW j \in 1..Len(r2), i < j, j <= n PROVE v[r2[i]] < v[r2[j]]
    <3>1. i - 1 < n /\ j - 1 < n /\ k + i < k + j /\ i - 1 \in Nat /\ j - 1 \in Nat
      BY <1>1, <1>2, <2>1
    <3>2. (i - 1) \div n = 0 /\ (j - 1) \div n = 0
      BY <3>1, RunArithmetic
    <3>3. ((k + i) - 1) \div n = ((k + j) - 1) \div n
      BY <1>5, <3>2
    <3> QED BY <1>3, <1>5, <3>1, <3>3
  <2> QED BY <2>1 DEF Rises
<1>7. InRuns(v, r2, n, Len(r2), n)
  <2>1. ASSUME NEW i \in 1..Len(r2), NEW j \in 1..Len(r2), n < i, i < j,
               (i - n - 1) \div n = (j - n - 1) \div n
        PROVE  v[r2[i]] < v[r2[j]]
    <3>1. /\ i - n - 1 \in Nat /\ j - n - 1 \in Nat /\ k + i < k + j
          /\ i - 1 = (i - n - 1) + n /\ j - 1 = (j - n - 1) + n
      BY <1>1, <1>2, <2>1
    <3>2. (i - 1) \div n = (i - n - 1) \div n + 1 /\ (j - 1) \div n = (j - n - 1) \div n + 1
      BY <3>1, RunArithmetic
    <3>3. ((k + i) - 1) \div n = ((k + j) - 1) \div n
      <4>1. (i - 1) \div n = (j - 1) \div n
        BY <2>1, <3>2
      <4> QED BY <1>5, <4>1
    <3> QED BY <1>3, <1>5, <3>1, <3>3
  <2> QED BY <2>1 DEF InRuns
<1>8. /\ InRuns(v, b, 0, Len(b), 2 * n) /\ Rises(v, b, Len(b), Len(b))
      /\ Under(v, b, Len(b), p2, Len(p2)) /\ Under(v, b, Len(b), r2, n)
  <2>1. \A i \in 1..Len(b) : ~(Len(b) < i)
    BY <1>2
  <2> QED BY <2>1 DEF InOrder, Rises, Under
<1> QED BY <1>4, <1>6, <1>7, <1>8 DEF InOrder

(* A merge begins: the first run is cut off, the second follows. *)
LEMMA SortRunsKeeps ==
  ASSUME MemoryInv, SortRuns
  PROVE  MemoryInv'
<1> DEFINE run == RunEnd(sort.p, sort.insize)
<1>1. /\ sort.at = "runs" /\ sort.p # NULL
      /\ sort' = [sort EXCEPT !.at = "take", !.nmerges = @ + 1, !.q = run[1],
                              !.psize = run[2], !.qsize = sort.insize]
      /\ mem' = mem /\ used' = used /\ head' = head /\ num' = num /\ mode' = mode /\ iter' = iter
  BY DEF SortRuns
<1>2. /\ sort \in [at : {"off", "runs", "take"}, p : Pointer, q : Pointer, tail : Pointer,
                   psize : Nat, qsize : Nat, insize : Nat, nmerges : Nat]
      /\ used \subseteq Cell /\ mode = "sort"
      /\ sort.p \in used \cup {NULL} /\ \A c \in used : mem[c].next \in used \cup {NULL}
  <2>1. mode = "sort"
    BY <1>1 DEF MemoryInv, ShapeInv, RunInv, CleanInv, NoSort
  <2> QED BY <2>1 DEF MemoryInv, ShapeInv
<1>3. PICK f \in Seq(Cell), b \in Seq(Cell), p \in Seq(Cell), r \in Seq(Cell) :
        iter = NULL /\ Cut(f, b, p, r) /\ Counted(b, p, r) /\ Merging(b, p, r)
  <2> HIDE DEF Cut, Counted, Merging
  <2> QED BY <1>2 DEF MemoryInv, SortInv
<1>4. /\ p = <<>> /\ sort.p = First(r) /\ sort.tail = Final(b) /\ head.to = First(b)
      /\ IsList(mem, head.from, f) /\ Distinct(b) /\ Distinct(r)
      /\ Linked(mem, b) /\ Back(mem, b) /\ Linked(mem, r) /\ Ends(mem, r)
      /\ Apart(f, b) /\ Apart(f, r) /\ Apart(b, r)
      /\ used = Nodes(f) \cup Nodes(b) \cup Nodes(p) \cup Nodes(r)
      /\ Len(f) + Len(b) + Len(p) + Len(r) = num
  BY <1>1, <1>3 DEF Cut
<1>5. PICK n : n = sort.insize
  OBVIOUS
<1>6. /\ n \in 1..(2 * MaxInst) /\ sort.nmerges \in Nat
      /\ (sort.nmerges = 0 => b = <<>>)
      /\ (sort.nmerges > 0 /\ r # <<>> => Len(b) >= n)
  <2>1. Len(p) = 0 /\ Len(b) \in Nat
    BY <1>4, EmptyList, LenProperties
  <2> QED BY <1>5, <1>3, <2>1 DEF Counted
<1>7. /\ Len(p) = 0 /\ Nodes(p) = {} /\ Len(b) \in Nat /\ Len(r) \in Nat /\ Len(f) \in Nat
      /\ n \in Nat /\ n > 0 /\ 2 * n \in Nat
  <2>1. /\ Len(p) = 0 /\ Nodes(p) = {}
    BY <1>4, EmptyList
  <2>2. Len(b) \in Nat /\ Len(r) \in Nat /\ Len(f) \in Nat
    BY LenProperties
  <2>3. n \in Nat /\ n > 0 /\ 2 * n \in Nat
    BY <1>6, InstAssumption
  <2> QED BY <2>1, <2>2, <2>3
<1>8. r # <<>> /\ Len(r) > 0
  <2>1. r # <<>>
    BY <1>1, <1>4 DEF First
  <2> QED BY <1>7, <2>1, EmptySeq
<1>9. PICK k : k = IF Len(r) > n THEN n ELSE Len(r)
  OBVIOUS
<1>10. k \in 0..Len(r) /\ k <= n /\ (k < Len(r) => k = n) /\ k > 0 /\ k \in Nat
  BY <1>7, <1>8, <1>9
<1>11. PICK p2, r2 : p2 = Before(r, k) /\ r2 = Beyond(r, k)
  OBVIOUS
<1>12. /\ p2 \in Seq(Cell) /\ Len(p2) = k /\ \A i \in 1..k : p2[i] = r[i]
       /\ r2 \in Seq(Cell) /\ Len(r2) = Len(r) - k /\ \A i \in 1..(Len(r) - k) : r2[i] = r[k + i]
       /\ Distinct(p2) /\ Distinct(r2) /\ Apart(p2, r2) /\ Nodes(p2) \cup Nodes(r2) = Nodes(r)
       /\ Linked(mem, p2) /\ Linked(mem, r2) /\ Ends(mem, r2)
  <2>0. Distinct(r) /\ k \in 0..Len(r) /\ Linked(mem, r) /\ Ends(mem, r)
    BY <1>4, <1>10
  <2>1. p2 \in Seq(Cell) /\ Len(p2) = k /\ \A i \in 1..k : p2[i] = r[i]
    BY <1>11, <2>0, SplitPiece
  <2>2. /\ r2 \in Seq(Cell) /\ Len(r2) = Len(r) - k
        /\ \A i \in 1..(Len(r) - k) : r2[i] = r[k + i]
    BY <1>11, <2>0, SplitPiece
  <2>3. /\ Distinct(p2) /\ Distinct(r2) /\ Apart(p2, r2) /\ Nodes(p2) \cup Nodes(r2) = Nodes(r)
    BY <1>11, <2>0, SplitPiece
  <2>4. Linked(mem, p2) /\ Linked(mem, r2) /\ Ends(mem, r2)
    <3>1. PICK m : m = mem
      OBVIOUS
    <3> QED BY <1>11, <2>0, <3>1, SplitIsLinked
  <2> QED BY <2>1, <2>2, <2>3, <2>4
<1>13. p2 # <<>> /\ p2[1] = r[1] /\ sort.p = p2[1]
  <2>1. p2 # <<>> /\ 1 \in 1..k
    BY <1>10, <1>12, EmptySeq
  <2> QED BY <1>4, <1>8, <1>12, <2>1 DEF First
<1>14. run[1] = First(r2) /\ run[2] = k
  <2>1. Walk(mem, sort.p) = r
    BY <1>4, WalkIs
  <2>2. CASE Len(r) > n
    <3>1. run = <<r[n + 1], n>>
      BY <1>5, <2>1, <2>2 DEF RunEnd
    <3>2. k = n /\ 1 \in 1..(Len(r) - k) /\ Len(r2) > 0
      BY <1>7, <1>12, <1>9, <2>2
    <3>3. r2[1] = r[n + 1] /\ r2 # <<>>
      <4> QED BY <1>12, <3>2, EmptySeq
    <3> HIDE DEF run
    <3> QED BY <3>1, <3>2, <3>3 DEF First
  <2>3. CASE ~(Len(r) > n)
    <3>1. run = <<NULL, Len(r)>>
      BY <1>5, <2>1, <2>3 DEF RunEnd
    <3>2. k = Len(r) /\ Len(r2) = 0
      BY <1>7, <1>12, <1>9, <2>3
    <3>3. r2 = <<>>
      <4> QED BY <1>12, <3>2, EmptySeq
    <3> HIDE DEF run
    <3> QED BY <3>1, <3>2, <3>3 DEF First
  <2> QED BY <2>2, <2>3
<1>15. r2 # <<>> => k = n
  <2>1. r2 # <<>> => Len(r2) # 0
    BY <1>12, EmptySeq
  <2> QED BY <1>7, <1>10, <1>12, <2>1
<1> HIDE DEF run
<1>16. /\ sort'.at = "take" /\ sort'.p = sort.p /\ sort'.q = First(r2) /\ sort'.tail = sort.tail
       /\ sort'.psize = k /\ sort'.qsize = n /\ sort'.insize = n
       /\ sort'.nmerges = sort.nmerges + 1
  BY <1>5, <1>1, <1>2, <1>14
<1>17. Cut(f, b, p2, r2)'
  <2>1. Nodes(p2) \cup Nodes(r2) = Nodes(r)
    BY <1>12
  <2>2. /\ Nodes(f) \cap Nodes(r) = {} /\ Nodes(b) \cap Nodes(r) = {}
        /\ Apart(f, b) /\ Apart(p2, r2)
    BY <1>4, <1>12 DEF Apart
  <2>3. Apart(f, p2) /\ Apart(f, r2) /\ Apart(b, p2) /\ Apart(b, r2)
    BY <2>1, <2>2 DEF Apart
  <2>4. used' = Nodes(f) \cup Nodes(b) \cup Nodes(p2) \cup Nodes(r2)
    <3>1. used = Nodes(f) \cup Nodes(b) \cup Nodes(p) \cup Nodes(r) /\ used' = used
      BY <1>1, <1>4
    <3> QED BY <1>7, <2>1, <3>1
  <2>5. Len(f) + Len(b) + Len(p2) + Len(r2) = num'
    <3> QED BY <1>1, <1>4, <1>7, <1>10, <1>12
  <2>6. /\ IsList(mem', head'.from, f) /\ Distinct(b) /\ Distinct(p2) /\ Distinct(r2)
        /\ Linked(mem', b) /\ Back(mem', b) /\ Linked(mem', p2) /\ Linked(mem', r2) /\ Ends(mem', r2)
    BY <1>1, <1>4, <1>12
  <2>7. /\ head'.to = First(b) /\ sort'.tail = Final(b) /\ sort'.psize = Len(p2)
        /\ sort'.p = p2[1] /\ p2 # <<>>
        /\ sort'.at = "take" /\ sort'.q = First(r2)
    BY <1>1, <1>4, <1>12, <1>13, <1>16
  <2> QED BY <2>2, <2>3, <2>4, <2>5, <2>6, <2>7 DEF Cut
<1>18. Counted(b, p2, r2)'
  <2>1. n \in 0..n
    BY <1>7
  <2>2. r2 # <<>> => Len(b) + Len(p2) >= n
    BY <1>7, <1>10, <1>12, <1>15
  <2>3. sort.nmerges + 1 > 1 => Len(b) + Len(p2) + Len(r2) > n
    <3>1. Len(p2) + Len(r2) = Len(r) /\ Len(p2) \in Nat /\ Len(r2) \in Nat
      BY <1>7, <1>10, <1>12
    <3>2. sort.nmerges + 1 > 1 => Len(b) >= n
      BY <1>6, <1>8
    <3>3. Len(b) + Len(p2) + Len(r2) = Len(b) + Len(r)
      BY <1>7, <3>1
    <3> QED BY <1>7, <1>8, <3>2, <3>3
  <2>4. sort.nmerges + 1 # 0 /\ sort.nmerges + 1 \in Nat
    BY <1>6
  <2> QED BY <1>6, <1>16, <2>1, <2>2, <2>3, <2>4 DEF Counted
<1>19. Merging(b, p2, r2)'
  <2>1. PICK x \in Nat : Room(b, p, r, x) /\ InOrder(Numbers, b, p, r, x, LeftOfQ, n)
    BY <1>5, <1>3 DEF Merging
  <2>2. x = Len(b) /\ x % (2 * n) = 0
    BY <1>5, <1>1, <1>8, <2>1 DEF Room
  <2>3. LeftOfQ = 0 /\ LeftOfQ' = n
    BY <1>1, <1>16 DEF LeftOfQ
  <2>4. InOrder(Numbers, b, <<>>, r, Len(b), 0, n)
    BY <1>4, <2>1, <2>2, <2>3
  <2>5. InOrder(Numbers, b, p2, r2, Len(b), n, n)
    <3>1. n \in Nat \ {0}
      BY <1>7
    <3> QED BY <1>4, <1>10, <2>4, <3>1, <1>11, CutOrder
  <2>6. Room(b, p2, r2, Len(b))'
    <3>1. sort.nmerges + 1 = 1 => Len(b) = 0
      BY <1>6, EmptyList
    <3>2. Len(b) - Len(b) + Len(p2) + n <= 2 * n /\ (r2 # <<>> => Len(b) - Len(b) + Len(p2) + n = 2 * n)
      <4> QED BY <1>7, <1>10, <1>12, <1>15
    <3>3. Len(b) \in 0..Len(b) /\ Len(b) % (2 * n) = 0
      BY <1>7, <2>2
    <3> QED BY <1>16, <3>1, <3>2, <3>3 DEF Room
  <2>7. Numbers' = Numbers
    BY <1>1 DEF Numbers
  <2>8. Len(b) \in Nat /\ sort'.insize = n
    BY <1>7, <1>16
  <2> QED BY <2>3, <2>5, <2>6, <2>7, <2>8 DEF Merging
<1>20. SortInv'
  <2> HIDE DEF Cut, Counted, Merging
  <2> QED BY <1>1, <1>3, <1>12, <1>17, <1>18, <1>19 DEF SortInv
<1>21. ShapeInv'
  <2>1. First(r2) \in used \cup {NULL} /\ First(r2) \in Pointer
    <3>1. r2 # <<>> => 1 \in 1..Len(r2)
      BY <1>12, EmptySeq, LenProperties
    <3>2. r2 # <<>> => r2[1] \in Nodes(r2)
      BY <3>1 DEF Nodes
    <3>3. Nodes(r2) \subseteq used
      BY <1>4, <1>12
    <3> QED BY <1>2, <3>2, <3>3 DEF First, Pointer
  <2>2. sort' \in [at : {"off", "runs", "take"}, p : Pointer, q : Pointer, tail : Pointer,
                   psize : Nat, qsize : Nat, insize : Nat, nmerges : Nat]
    <3>1. sort' = [at |-> "take", p |-> sort.p, q |-> First(r2), tail |-> sort.tail, psize |-> k,
                   qsize |-> n, insize |-> sort.insize, nmerges |-> sort.nmerges + 1]
      BY <1>5, <1>1, <1>2, <1>14
    <3>2. sort.p \in Pointer /\ sort.tail \in Pointer /\ sort.insize \in Nat /\ sort.nmerges + 1 \in Nat
      BY <1>2
    <3> QED BY <1>7, <1>10, <2>1, <3>1, <3>2
  <2> QED BY <1>1, <1>2, <1>16, <2>1, <2>2 DEF MemoryInv, ShapeInv
<1>22. NumInv' /\ RunInv' /\ CleanInv'
  BY <1>1, <1>2 DEF MemoryInv, NumInv, RunInv, CleanInv
<1> QED BY <1>20, <1>21, <1>22 DEF MemoryInv

(* The next node is linked behind what is built. *)
LEMMA LinkedBehind ==
  ASSUME NEW m \in [Cell -> NodeRec], NEW b \in Seq(Cell), Distinct(b), Linked(m, b), Back(m, b),
         NEW e \in Cell, e \notin Nodes(b), NEW n,
         n = IF Final(b) # NULL THEN PutNext(PutPrev(m, e, Final(b)), Final(b), e)
             ELSE PutPrev(m, e, Final(b))
  PROVE  /\ (Final(b) = NULL <=> b = <<>>) /\ Final(b) \in Nodes(b) \cup {NULL}
         /\ n \in [Cell -> NodeRec] /\ \A c \in Cell : n[c].num = m[c].num
         /\ \A c \in Cell \ Nodes(b) : n[c].next = m[c].next
         /\ \A c \in Cell \ {e} : n[c].prev = m[c].prev
         /\ \A c \in Cell : n[c].next \in {m[c].next, e}
         /\ Linked(n, Append(b, e)) /\ Back(n, Append(b, e))
         /\ Final(Append(b, e)) = e /\ First(Append(b, e)) = IF b = <<>> THEN e ELSE First(b)
<1> DEFINE t == Append(b, e)
           last == Final(b)
           m1 == PutPrev(m, e, last)
<1>1. /\ t \in Seq(Cell) /\ t # <<>> /\ Len(t) = Len(b) + 1 /\ Len(b) \in Nat
      /\ \A i \in 1..Len(b) : t[i] = b[i]
      /\ t[Len(b) + 1] = e
  BY AppendedNodes
<1>2. /\ (b = <<>> <=> Len(b) = 0) /\ e # NULL
      /\ \A i \in 1..Len(b) : b[i] \in Cell /\ b[i] \in Nodes(b) /\ b[i] # e /\ b[i] # NULL
  BY EmptySeq, ElementOfSeq, CellAssumption DEF Nodes
<1>3. b # <<>> => last = b[Len(b)] /\ Len(b) \in 1..Len(b) /\ 1 \in 1..Len(b)
  BY <1>1, <1>2 DEF Final
<1>4. /\ (last = NULL <=> b = <<>>) /\ last \in Nodes(b) \cup {NULL} /\ last \in Pointer /\ last # e
  BY <1>2, <1>3 DEF Final, Pointer
<1>5. Final(t) = e
  BY <1>1 DEF Final
<1>6. First(t) = IF b = <<>> THEN e ELSE First(b)
  BY <1>1, <1>2, <1>3 DEF First
<1> HIDE DEF t, last
<1>7. /\ m1 \in [Cell -> NodeRec] /\ m1[e].prev = last /\ m1[e].next = m[e].next
      /\ m1[e].num = m[e].num /\ \A c \in Cell \ {e} : m1[c] = m[c]
  BY <1>4, PrevWritten
<1> HIDE DEF m1
<1>8. CASE b = <<>>
  <2>1. n = m1
    BY <1>4, <1>8 DEF m1, last
  <2>2. /\ n \in [Cell -> NodeRec] /\ \A c \in Cell : n[c].num = m[c].num
        /\ \A c \in Cell : n[c].next = m[c].next
        /\ \A c \in Cell \ {e} : n[c].prev = m[c].prev
    BY <1>7, <2>1
  <2>3. Len(t) = 1
    BY <1>1, <1>2, <1>8
  <2>4. Linked(n, t) /\ Back(n, t)
    BY <2>3 DEF Linked, Back
  <2> QED BY <1>4, <1>5, <1>6, <2>2, <2>4 DEF t, last
<1>9. CASE b # <<>>
  <2>1. n = PutNext(m1, last, e) /\ last \in Cell
    <3>1. last \in Cell
      BY <1>2, <1>3, <1>9
    <3>2. last # NULL
      BY <1>4, <1>9
    <3> QED BY <3>1, <3>2 DEF m1, last
  <2>2. /\ n \in [Cell -> NodeRec] /\ n[last].next = e /\ n[last].prev = m1[last].prev
        /\ n[last].num = m1[last].num /\ \A c \in Cell \ {last} : n[c] = m1[c]
    <3>1. e \in Pointer
      BY DEF Pointer
    <3> QED BY <1>7, <2>1, <3>1, NextWritten
  <2>3. /\ \A c \in Cell : n[c].num = m[c].num
        /\ \A c \in Cell \ {last} : n[c].next = m[c].next
        /\ \A c \in Cell \ {e} : n[c].prev = m[c].prev
        /\ n[e].prev = last
    BY <1>4, <1>7, <2>1, <2>2
  <2>4. /\ \A c \in Cell \ Nodes(b) : n[c].next = m[c].next
        /\ \A c \in Cell : n[c].next \in {m[c].next, e}
    <3>1. last \in Nodes(b)
      BY <1>4, <1>9
    <3> QED BY <2>2, <2>3, <3>1
  <2>5. Linked(n, t)
    <3>1. ASSUME NEW i \in 1..(Len(t) - 1) PROVE n[t[i]].next = t[i + 1]
      <4>1. CASE i = Len(b)
        BY <1>1, <1>3, <1>9, <2>2, <4>1
      <4>2. CASE i # Len(b)
        <5>1. i \in 1..(Len(b) - 1) /\ i \in 1..Len(b) /\ i + 1 \in 1..Len(b)
          BY <1>1, <4>2
        <5>2. b[i] # last
          BY <1>3, <1>9, <4>2, <5>1 DEF Distinct
        <5>3. n[b[i]].next = m[b[i]].next
          BY <1>2, <2>3, <5>1, <5>2
        <5> QED BY <1>1, <5>1, <5>3 DEF Linked
      <4> QED BY <4>1, <4>2
    <3> QED BY <3>1 DEF Linked
  <2>6. Back(n, t)
    <3>1. ASSUME NEW i \in 2..Len(t) PROVE n[t[i]].prev = t[i - 1]
      <4>1. CASE i = Len(b) + 1
        <5>1. i - 1 = Len(b) /\ t[i] = e
          BY <1>1, <4>1
        <5>2. t[i - 1] = last
          BY <1>1, <1>3, <1>9, <5>1
        <5> QED BY <2>3, <5>1, <5>2
      <4>2. CASE i # Len(b) + 1
        <5>1. i \in 2..Len(b) /\ i \in 1..Len(b) /\ i - 1 \in 1..Len(b)
          BY <1>1, <4>2
        <5>2. n[b[i]].prev = m[b[i]].prev
          BY <1>2, <2>3, <5>1
        <5> QED BY <1>1, <5>1, <5>2 DEF Back
      <4> QED BY <4>1, <4>2
    <3> QED BY <3>1 DEF Back
  <2> QED BY <1>4, <1>5, <1>6, <2>2, <2>3, <2>4, <2>5, <2>6 DEF t, last
<1> QED BY <1>8, <1>9

(* What is taken from the first run, or from the second, is the least of   *)
(* the two.                                                                *)
LEMMA TakenOfP ==
  ASSUME NEW v, NEW b \in Seq(Cell), NEW p \in Seq(Cell), NEW r \in Seq(Cell), p # <<>>,
         NEW x \in 0..Len(b), NEW k \in Nat, NEW n, InOrder(v, b, p, r, x, k, n),
         \A c \in Cell : v[c] \in Nat,
         k = 0 \/ r = <<>> \/ v[p[1]] < v[r[1]]
  PROVE  InOrder(v, Append(b, p[1]), Tail(p), r, x, k, n)
<1> DEFINE t == Append(b, p[1])
           q == Tail(p)
<1>1. /\ Len(b) \in Nat /\ Len(p) \in Nat /\ Len(r) \in Nat /\ 1 \in 1..Len(p)
      /\ \A i \in 1..Len(p) : p[i] \in Cell
      /\ \A i \in 1..Len(b) : b[i] \in Cell
      /\ \A i \in 1..Len(r) : r[i] \in Cell
  BY LenProperties, EmptySeq, ElementOfSeq
<1>2. /\ Len(q) = Len(p) - 1 /\ \A i \in 1..(Len(p) - 1) : q[i] = p[i + 1]
  BY HeadTailProperties
<1>3. /\ Len(t) = Len(b) + 1 /\ t[Len(b) + 1] = p[1]
      /\ \A i \in 1..Len(b) : t[i] = b[i]
  BY <1>1, AppendProperties
<1> HIDE DEF t, q
<1>4. \A i \in 1..Len(t) : i \in 1..Len(b) \/ i = Len(b) + 1
  BY <1>1, <1>3
<1>5. \A j \in 1..Len(q) : j + 1 \in 1..Len(p) /\ q[j] = p[j + 1] /\ v[p[1]] < v[p[j + 1]]
  <2>1. ASSUME NEW j \in 1..Len(q) PROVE j + 1 \in 1..Len(p) /\ q[j] = p[j + 1] /\ v[p[1]] < v[p[j + 1]]
    <3>1. j \in 1..(Len(p) - 1) /\ j + 1 \in 1..Len(p) /\ 0 < 1 /\ 1 < j + 1 /\ j + 1 <= Len(p)
      BY <1>1, <1>2
    <3> QED BY <1>1, <1>2, <3>1 DEF InOrder, Rises
  <2> QED BY <2>1
<1>6. \A j \in 1..Len(r) : j <= k => v[p[1]] < v[r[j]]
  <2>1. ASSUME NEW j \in 1..Len(r), j <= k PROVE v[p[1]] < v[r[j]]
    <3>1. 1 \in 1..Len(r) /\ k # 0 /\ r # <<>>
      BY <1>1, <2>1, EmptySeq
    <3>2. j = 1 \/ v[r[1]] < v[r[j]]
      <4>1. j = 1 \/ (0 < 1 /\ 1 < j)
        BY <2>1
      <4> QED BY <2>1, <3>1, <4>1 DEF InOrder, Rises
    <3>3. v[p[1]] \in Nat /\ v[r[1]] \in Nat /\ v[r[j]] \in Nat
      BY <1>1, <3>1
    <3> QED BY <3>1, <3>2, <3>3
  <2> QED BY <2>1
<1>7. InRuns(v, t, 0, x, 2 * n)
  <2>1. \A i \in 1..Len(t) : i <= x => i \in 1..Len(b)
    BY <1>1, <1>3
  <2>2. InRuns(v, b, 0, x, 2 * n)
    BY DEF InOrder
  <2>3. ASSUME NEW i \in 1..Len(t), NEW j \in 1..Len(t), 0 < i, i < j, j <= x,
               (i - 0 - 1) \div (2 * n) = (j - 0 - 1) \div (2 * n)
        PROVE  v[t[i]] < v[t[j]]
    <3>1. i <= x
      BY <2>3
    <3> QED BY <1>3, <2>1, <2>2, <2>3, <3>1 DEF InRuns
  <2> QED BY <2>3 DEF InRuns
<1>8. Rises(v, t, x, Len(t))
  <2>1. ASSUME NEW i \in 1..Len(t), NEW j \in 1..Len(t), x < i, i < j PROVE v[t[i]] < v[t[j]]
    <3>1. i \in 1..Len(b)
      BY <1>1, <1>3, <2>1
    <3>2. CASE j \in 1..Len(b)
      <4>1. j <= Len(b)
        BY <3>2
      <4> QED BY <1>3, <2>1, <3>1, <3>2, <4>1 DEF InOrder, Rises
    <3>3. CASE j = Len(b) + 1
      <4>1. 1 <= Len(p)
        BY <1>1
      <4> QED BY <1>1, <1>3, <2>1, <3>1, <3>3, <4>1 DEF InOrder, Under
    <3> QED BY <1>4, <3>2, <3>3
  <2> QED BY <2>1 DEF Rises
<1>9. Under(v, t, x, q, Len(q))
  <2>1. ASSUME NEW i \in 1..Len(t), NEW j \in 1..Len(q), x < i PROVE v[t[i]] < v[q[j]]
    <3>1. CASE i \in 1..Len(b)
      <4>1. j + 1 <= Len(p)
        BY <1>1, <1>5
      <4> QED BY <1>3, <1>5, <2>1, <3>1, <4>1 DEF InOrder, Under
    <3>2. CASE i = Len(b) + 1
      BY <1>3, <1>5, <3>2
    <3> QED BY <1>4, <3>1, <3>2
  <2> QED BY <2>1 DEF Under
<1>10. Under(v, t, x, r, k)
  <2>1. ASSUME NEW i \in 1..Len(t), NEW j \in 1..Len(r), x < i, j <= k PROVE v[t[i]] < v[r[j]]
    <3>1. CASE i \in 1..Len(b)
      BY <1>3, <2>1, <3>1 DEF InOrder, Under
    <3>2. CASE i = Len(b) + 1
      BY <1>3, <1>6, <2>1, <3>2
    <3> QED BY <1>4, <3>1, <3>2
  <2> QED BY <2>1 DEF Under
<1>11. Rises(v, q, 0, Len(q))
  <2>1. ASSUME NEW i \in 1..Len(q), NEW j \in 1..Len(q), i < j PROVE v[q[i]] < v[q[j]]
    <3>1. 0 < i + 1 /\ i + 1 < j + 1 /\ j + 1 <= Len(p)
      BY <1>1, <1>5, <2>1
    <3> QED BY <1>5, <3>1 DEF InOrder, Rises
  <2> QED BY <2>1 DEF Rises
<1> QED BY <1>7, <1>8, <1>9, <1>10, <1>11 DEF InOrder, t, q

(* The same when the node is taken from the second run. *)
LEMMA TakenOfQ ==
  ASSUME NEW v, NEW b \in Seq(Cell), NEW p \in Seq(Cell), NEW r \in Seq(Cell), r # <<>>,
         NEW x \in 0..Len(b), NEW k \in Nat \ {0}, NEW n, InOrder(v, b, p, r, x, k, n),
         \A c \in Cell : v[c] \in Nat,
         p = <<>> \/ v[r[1]] < v[p[1]]
  PROVE  InOrder(v, Append(b, r[1]), p, Tail(r), x, k - 1, n)
<1> DEFINE t == Append(b, r[1])
           q == Tail(r)
<1>1. /\ Len(b) \in Nat /\ Len(p) \in Nat /\ Len(r) \in Nat /\ 1 \in 1..Len(r)
      /\ \A i \in 1..Len(p) : p[i] \in Cell
      /\ \A i \in 1..Len(b) : b[i] \in Cell
      /\ \A i \in 1..Len(r) : r[i] \in Cell
  BY LenProperties, EmptySeq, ElementOfSeq
<1>2. /\ Len(q) = Len(r) - 1 /\ \A i \in 1..(Len(r) - 1) : q[i] = r[i + 1]
  BY HeadTailProperties
<1>3. /\ Len(t) = Len(b) + 1 /\ t[Len(b) + 1] = r[1]
      /\ \A i \in 1..Len(b) : t[i] = b[i]
  BY <1>1, AppendProperties
<1> HIDE DEF t, q
<1>4. \A i \in 1..Len(t) : i \in 1..Len(b) \/ i = Len(b) + 1
  BY <1>1, <1>3
<1>5. \A j \in 1..Len(q) : j + 1 \in 1..Len(r) /\ q[j] = r[j + 1]
  <2>1. ASSUME NEW j \in 1..Len(q) PROVE j + 1 \in 1..Len(r) /\ j \in 1..(Len(r) - 1)
    BY <1>1, <1>2
  <2> QED BY <1>2, <2>1
<1>6. \A j \in 1..Len(q) : j <= k - 1 => v[r[1]] < v[q[j]]
  <2>1. ASSUME NEW j \in 1..Len(q), j <= k - 1 PROVE v[r[1]] < v[q[j]]
    <3>1. 0 < 1 /\ 1 < j + 1 /\ j + 1 <= k
      BY <1>1, <1>2, <2>1
    <3> QED BY <1>1, <1>5, <3>1 DEF InOrder, Rises
  <2> QED BY <2>1
<1>7. \A j \in 1..Len(p) : v[r[1]] < v[p[j]]
  <2>1. ASSUME NEW j \in 1..Len(p) PROVE v[r[1]] < v[p[j]]
    <3>1. 1 \in 1..Len(p) /\ p # <<>>
      BY <1>1, EmptySeq
    <3>2. j = 1 \/ v[p[1]] < v[p[j]]
      <4>1. j <= Len(p) /\ (j = 1 \/ (0 < 1 /\ 1 < j))
        BY <1>1
      <4> QED BY <3>1, <4>1 DEF InOrder, Rises
    <3>3. v[p[1]] \in Nat /\ v[r[1]] \in Nat /\ v[p[j]] \in Nat
      BY <1>1, <3>1
    <3> QED BY <3>1, <3>2, <3>3
  <2> QED BY <2>1
<1>8. InRuns(v, t, 0, x, 2 * n)
  <2>1. \A i \in 1..Len(t) : i <= x => i \in 1..Len(b)
    BY <1>1, <1>3
  <2>2. InRuns(v, b, 0, x, 2 * n)
    BY DEF InOrder
  <2>3. ASSUME NEW i \in 1..Len(t), NEW j \in 1..Len(t), 0 < i, i < j, j <= x,
               (i - 0 - 1) \div (2 * n) = (j - 0 - 1) \div (2 * n)
        PROVE  v[t[i]] < v[t[j]]
    <3>1. i <= x
      BY <2>3
    <3> QED BY <1>3, <2>1, <2>2, <2>3, <3>1 DEF InRuns
  <2> QED BY <2>3 DEF InRuns
<1>9. Rises(v, t, x, Len(t))
  <2>1. ASSUME NEW i \in 1..Len(t), NEW j \in 1..Len(t), x < i, i < j PROVE v[t[i]] < v[t[j]]
    <3>1. i \in 1..Len(b)
      BY <1>1, <1>3, <2>1
    <3>2. CASE j \in 1..Len(b)
      <4>1. j <= Len(b)
        BY <3>2
      <4> QED BY <1>3, <2>1, <3>1, <3>2, <4>1 DEF InOrder, Rises
    <3>3. CASE j = Len(b) + 1
      <4>1. 1 <= k
        OBVIOUS
      <4> QED BY <1>1, <1>3, <2>1, <3>1, <3>3, <4>1 DEF InOrder, Under
    <3> QED BY <1>4, <3>2, <3>3
  <2> QED BY <2>1 DEF Rises
<1>10. Under(v, t, x, p, Len(p))
  <2>1. ASSUME NEW i \in 1..Len(t), NEW j \in 1..Len(p), x < i PROVE v[t[i]] < v[p[j]]
    <3>1. CASE i \in 1..Len(b)
      <4>1. j <= Len(p)
        OBVIOUS
      <4> QED BY <1>3, <2>1, <3>1, <4>1 DEF InOrder, Under
    <3>2. CASE i = Len(b) + 1
      BY <1>3, <1>7, <3>2
    <3> QED BY <1>4, <3>1, <3>2
  <2> QED BY <2>1 DEF Under
<1>11. Under(v, t, x, q, k - 1)
  <2>1. ASSUME NEW i \in 1..Len(t), NEW j \in 1..Len(q), x < i, j <= k - 1 PROVE v[t[i]] < v[q[j]]
    <3>1. CASE i \in 1..Len(b)
      <4>1. j + 1 <= k
        BY <1>1, <1>2, <2>1
      <4> QED BY <1>3, <1>5, <2>1, <3>1, <4>1 DEF InOrder, Under
    <3>2. CASE i = Len(b) + 1
      BY <1>3, <1>6, <2>1, <3>2
    <3> QED BY <1>4, <3>1, <3>2
  <2> QED BY <2>1 DEF Under
<1>12. Rises(v, q, 0, k - 1)
  <2>1. ASSUME NEW i \in 1..Len(q), NEW j \in 1..Len(q), i < j, j <= k - 1 PROVE v[q[i]] < v[q[j]]
    <3>1. 0 < i + 1 /\ i + 1 < j + 1 /\ j + 1 <= k
      BY <1>1, <1>2, <2>1
    <3> QED BY <1>5, <3>1 DEF InOrder, Rises
  <2> QED BY <2>1 DEF Rises
<1>13. InRuns(v, q, k - 1, Len(q), n)
  <2>2. Len(r) \in Nat /\ Len(q) = Len(r) - 1
    BY <1>1, <1>2
  <2>3. \A i, j \in 1..Len(q) :
          /\ k - 1 < i /\ i < j => k < i + 1 /\ i + 1 < j + 1
          /\ j + 1 <= Len(r) /\ (i + 1) - k - 1 = i - (k - 1) - 1
    BY <2>2
  <2>1. ASSUME NEW i \in 1..Len(q), NEW j \in 1..Len(q), k - 1 < i, i < j,
               (i - (k - 1) - 1) \div n = (j - (k - 1) - 1) \div n
        PROVE  v[q[i]] < v[q[j]]
    <3>1. /\ k < i + 1 /\ i + 1 < j + 1 /\ j + 1 <= Len(r)
          /\ (i + 1) - k - 1 = i - (k - 1) - 1 /\ (j + 1) - k - 1 = j - (k - 1) - 1
      BY <2>1, <2>3
    <3>2. ((i + 1) - k - 1) \div n = ((j + 1) - k - 1) \div n
      BY <2>1, <3>1
    <3> QED BY <1>5, <3>1, <3>2 DEF InOrder, InRuns
  <2> QED BY <2>1 DEF InRuns
<1> QED BY <1>8, <1>9, <1>10, <1>11, <1>12, <1>13 DEF InOrder, t, q

(* A node of one run is taken, by number, and linked behind the others. *)
LEMMA SortTakeKeeps ==
  ASSUME MemoryInv, SortTake
  PROVE  /\ MemoryInv'
         /\ \A c \in Cell : mem'[c].num = mem[c].num
         /\ \E f \in Seq(Cell) : IsList(mem, head.from, f) /\ IsList(mem', head'.from, f)
<1>1. PICK e, P : e = (IF TakeP THEN sort.p ELSE sort.q) /\ P = TakeP
  OBVIOUS
<1>2. /\ sort.at = "take" /\ MoreToMerge
      /\ mem' = IF sort.tail # NULL THEN PutNext(PutPrev(mem, e, sort.tail), sort.tail, e)
                ELSE PutPrev(mem, e, sort.tail)
      /\ head' = IF sort.tail # NULL THEN head ELSE [head EXCEPT !.to = e]
      /\ sort' = IF P THEN [sort EXCEPT !.p = mem[e].next, !.psize = @ - 1, !.tail = e]
                 ELSE [sort EXCEPT !.q = mem[e].next, !.qsize = @ - 1, !.tail = e]
      /\ used' = used /\ num' = num /\ mode' = mode /\ iter' = iter
  BY <1>1 DEF SortTake, PutNext, PutPrev
<1>3. /\ sort \in [at : {"off", "runs", "take"}, p : Pointer, q : Pointer, tail : Pointer,
                   psize : Nat, qsize : Nat, insize : Nat, nmerges : Nat]
      /\ used \subseteq Cell /\ mode = "sort" /\ mem \in [Cell -> NodeRec]
      /\ head \in [from : Pointer, to : Pointer]
      /\ \A c \in used : mem[c].next \in used \cup {NULL}
  <2>1. mode = "sort"
    BY <1>2 DEF MemoryInv, ShapeInv, RunInv, CleanInv, NoSort
  <2> QED BY <2>1 DEF MemoryInv, ShapeInv
<1>4. PICK f \in Seq(Cell), b \in Seq(Cell), p \in Seq(Cell), r \in Seq(Cell) :
        iter = NULL /\ Cut(f, b, p, r) /\ Counted(b, p, r) /\ Merging(b, p, r)
  <2> HIDE DEF Cut, Counted, Merging
  <2> QED BY <1>3 DEF MemoryInv, SortInv
<1>5. /\ sort.tail = Final(b) /\ head.to = First(b) /\ sort.q = First(r)
      /\ sort.psize = Len(p) /\ (p # <<>> => sort.p = p[1])
      /\ IsList(mem, head.from, f) /\ Distinct(b) /\ Distinct(p) /\ Distinct(r)
      /\ Linked(mem, b) /\ Back(mem, b) /\ Linked(mem, p) /\ Linked(mem, r) /\ Ends(mem, r)
      /\ Nodes(f) \cap Nodes(b) = {} /\ Nodes(f) \cap Nodes(p) = {} /\ Nodes(f) \cap Nodes(r) = {}
      /\ Nodes(b) \cap Nodes(p) = {} /\ Nodes(b) \cap Nodes(r) = {} /\ Nodes(p) \cap Nodes(r) = {}
      /\ used = Nodes(f) \cup Nodes(b) \cup Nodes(p) \cup Nodes(r)
      /\ Len(f) + Len(b) + Len(p) + Len(r) = num
  BY <1>2, <1>4 DEF Cut, Apart
<1>6. PICK x \in Nat, k \in Nat, n \in Nat :
        /\ k = sort.qsize /\ n = sort.insize
        /\ Room(b, p, r, x) /\ InOrder(Numbers, b, p, r, x, k, n)
  BY <1>2, <1>3, <1>4 DEF Merging, LeftOfQ
<1>7. /\ Len(f) \in Nat /\ Len(b) \in Nat /\ Len(p) \in Nat /\ Len(r) \in Nat
      /\ (p = <<>> <=> Len(p) = 0) /\ (r = <<>> <=> Len(r) = 0)
  BY LenProperties, EmptySeq
<1>8. r # <<>> => r[1] \in Cell /\ r[1] # NULL /\ sort.q = r[1]
  <2>1. r # <<>> => 1 \in 1..Len(r)
    BY <1>7
  <2> QED BY <1>5, <2>1, ElementOfSeq, CellAssumption DEF First
<1>9. Numbers \in [Cell -> Nat] /\ \A c \in Cell : Numbers[c] = mem[c].num
  BY <1>3, InstAssumption DEF Numbers, NodeRec
<1>10. PICK p2, r2, k2 :
         /\ p2 = IF P THEN Tail(p) ELSE p
         /\ r2 = IF P THEN r ELSE Tail(r)
         /\ k2 = IF P THEN k ELSE k - 1
  OBVIOUS
<1>11. /\ p2 \in Seq(Cell) /\ r2 \in Seq(Cell) /\ Distinct(p2) /\ Distinct(r2)
       /\ e \in Nodes(p) \cup Nodes(r) /\ Nodes(p2) \subseteq Nodes(p) /\ Nodes(r2) \subseteq Nodes(r)
       /\ Nodes(p2) \cup Nodes(r2) = (Nodes(p) \cup Nodes(r)) \ {e}
       /\ Len(p2) + Len(r2) = Len(p) + Len(r) - 1 /\ k2 \in Nat /\ k2 <= k
       /\ Len(p2) + k2 = Len(p) + k - 1 /\ (r2 # <<>> => r # <<>>)
       /\ Len(p2) \in Nat /\ Len(r2) \in Nat /\ Len(r2) <= Len(r)
       /\ (p2 # <<>> => sort'.p = p2[1]) /\ sort'.psize = Len(p2)
       /\ sort'.q = First(r2) /\ sort'.qsize = k2
       /\ InOrder(Numbers, Append(b, e), p2, r2, x, k2, n)
       /\ \A m : (\A c \in Nodes(p) \cup Nodes(r) : m[c].next = mem[c].next)
                   => Linked(m, p2) /\ Linked(m, r2) /\ Ends(m, r2)
  <2>1. CASE P
    <3>1. /\ Len(p) # 0 /\ p # <<>> /\ e = p[1] /\ p2 = Tail(p) /\ r2 = r /\ k2 = k
          /\ k = 0 \/ sort.q = NULL \/ mem[sort.p].num < mem[sort.q].num
      BY <1>1, <1>5, <1>6, <1>7, <1>10, <2>1 DEF TakeP
    <3>2. /\ p[1] \in Nodes(p) /\ p[1] \in Cell
          /\ Tail(p) \in Seq(Cell) /\ Len(Tail(p)) = Len(p) - 1
          /\ Distinct(Tail(p)) /\ Nodes(Tail(p)) = Nodes(p) \ {p[1]}
      BY <1>5, <3>1, RestOf
    <3>3. Nodes(p2) \cup Nodes(r2) = (Nodes(p) \cup Nodes(r)) \ {e}
      BY <1>5, <3>1, <3>2
    <3>4. Len(p2) = Len(p) - 1 /\ Len(p2) \in Nat /\ Len(r2) = Len(r)
      BY <1>7, <3>1, <3>2
    <3>5. /\ Len(p2) + Len(r2) = Len(p) + Len(r) - 1 /\ k2 \in Nat /\ k2 <= k
          /\ Len(p2) + k2 = Len(p) + k - 1 /\ Len(r2) <= Len(r)
      BY <1>7, <3>1, <3>4
    <3>6. /\ sort'.p = mem[e].next /\ sort'.psize = Len(p2) /\ sort'.q = First(r2)
          /\ sort'.qsize = k2
      BY <1>2, <1>3, <1>5, <1>6, <2>1, <3>1, <3>4
    <3>7. p2 # <<>> => mem[e].next = p2[1]
      <4>1. PICK m : m = mem
        OBVIOUS
      <4>2. Linked(m, p) /\ \A c \in Nodes(p) \ {p[1]} : m[c].next = m[c].next
        BY <1>5, <4>1
      <4>3. Tail(p) # <<>> => m[p[1]].next = Tail(p)[1]
        BY <1>5, <3>1, <4>2, RestIsLinked
      <4> QED BY <3>1, <4>1, <4>3
    <3>8. InOrder(Numbers, Append(b, e), p2, r2, x, k2, n)
      <4>1. PICK v : v = Numbers
        OBVIOUS
      <4>2. x \in 0..Len(b) /\ \A c \in Cell : v[c] \in Nat
        BY <1>6, <1>9, <4>1 DEF Room
      <4>3. k = 0 \/ r = <<>> \/ v[p[1]] < v[r[1]]
        BY <1>5, <1>8, <1>9, <3>1, <3>2, <4>1
      <4>4. InOrder(v, b, p, r, x, k, n)
        BY <1>6, <4>1
      <4>5. InOrder(v, Append(b, p[1]), Tail(p), r, x, k, n)
        BY <3>1, <4>2, <4>3, <4>4, TakenOfP
      <4> QED BY <3>1, <4>1, <4>5
    <3>9. ASSUME NEW m, \A c \in Nodes(p) \cup Nodes(r) : m[c].next = mem[c].next
          PROVE  Linked(m, p2) /\ Linked(m, r2) /\ Ends(m, r2)
      <4>1. PICK w : w = mem
        OBVIOUS
      <4>2. /\ Linked(w, p) /\ \A c \in Nodes(p) \ {p[1]} : m[c].next = w[c].next
            /\ Linked(w, r) /\ Ends(w, r) /\ \A c \in Nodes(r) : m[c].next = w[c].next
        BY <1>5, <3>9, <4>1
      <4>3. Linked(m, Tail(p))
        BY <1>5, <3>1, <4>2, RestIsLinked
      <4>4. Linked(m, r) /\ Ends(m, r)
        <5>1. Chain(w, First(r), r)
          BY <1>5, <4>2 DEF Chain
        <5>2. Chain(m, First(r), r)
          BY <4>2, <5>1, ChainStays
        <5> QED BY <5>2 DEF Chain
      <4> QED BY <3>1, <4>3, <4>4
    <3> QED BY <1>5, <1>7, <3>1, <3>2, <3>3, <3>4, <3>5, <3>6, <3>7, <3>8, <3>9
  <2>2. CASE ~P
    <3>1. r # <<>> /\ e = r[1] /\ p2 = p /\ r2 = Tail(r) /\ k2 = k - 1 /\ k # 0
      <4>1. k # 0 /\ sort.q # NULL
        BY <1>1, <1>2, <1>3, <1>6, <2>2 DEF TakeP, MoreToMerge
      <4>2. r # <<>>
        BY <1>5, <4>1 DEF First
      <4> QED BY <1>1, <1>8, <1>10, <2>2, <4>1, <4>2
    <3>2. /\ r[1] \in Nodes(r) /\ r[1] \in Cell
          /\ Tail(r) \in Seq(Cell) /\ Len(Tail(r)) = Len(r) - 1
          /\ Distinct(Tail(r)) /\ Nodes(Tail(r)) = Nodes(r) \ {r[1]}
      BY <1>5, <3>1, RestOf
    <3>3. Nodes(p2) \cup Nodes(r2) = (Nodes(p) \cup Nodes(r)) \ {e}
      BY <1>5, <3>1, <3>2
    <3>4. Len(r2) = Len(r) - 1 /\ Len(r2) \in Nat /\ Len(p2) = Len(p) /\ k2 \in Nat
      BY <1>7, <3>1, <3>2
    <3>5. /\ Len(p2) + Len(r2) = Len(p) + Len(r) - 1 /\ k2 <= k
          /\ Len(p2) + k2 = Len(p) + k - 1 /\ Len(r2) <= Len(r)
      BY <1>7, <3>1, <3>4
    <3>6. /\ sort'.p = sort.p /\ sort'.psize = Len(p2) /\ sort'.q = mem[e].next
          /\ sort'.qsize = k2
      BY <1>2, <1>3, <1>5, <1>6, <2>2, <3>1, <3>4
    <3>7. mem[e].next = First(r2)
      <4>1. PICK m : m = mem
        OBVIOUS
      <4>2. Linked(m, r) /\ Ends(m, r) /\ \A c \in Nodes(r) \ {r[1]} : m[c].next = m[c].next
        BY <1>5, <4>1
      <4>3. m[r[1]].next = First(Tail(r))
        BY <1>5, <3>1, <4>2, RestIsLinked
      <4> QED BY <3>1, <4>1, <4>3
    <3>8. InOrder(Numbers, Append(b, e), p2, r2, x, k2, n)
      <4>1. PICK v : v = Numbers
        OBVIOUS
      <4>2. x \in 0..Len(b) /\ \A c \in Cell : v[c] \in Nat
        BY <1>6, <1>9, <4>1 DEF Room
      <4>3. p = <<>> \/ v[r[1]] < v[p[1]]
        <5>1. ASSUME p # <<>> PROVE v[r[1]] < v[p[1]]
          <6>1. sort.psize # 0 /\ sort.p = p[1] /\ sort.q = r[1]
            BY <1>5, <1>7, <1>8, <3>1, <5>1
          <6>2. ~(mem[p[1]].num < mem[r[1]].num)
            BY <1>1, <2>2, <6>1 DEF TakeP
          <6>3. p[1] \in Nodes(p) /\ p[1] \in Cell
            BY <1>5, <5>1, RestOf
          <6>4. mem[p[1]].num # mem[r[1]].num
            <7>1. p[1] \in used /\ r[1] \in used /\ p[1] # r[1]
              BY <1>5, <3>2, <6>3
            <7> QED BY <1>3, <7>1 DEF MemoryInv, NumInv
          <6>5. v[p[1]] = mem[p[1]].num /\ v[r[1]] = mem[r[1]].num /\ v[p[1]] \in Nat /\ v[r[1]] \in Nat
            BY <1>9, <3>2, <4>1, <6>3
          <6> QED BY <6>2, <6>4, <6>5
        <5> QED BY <5>1
      <4>4. InOrder(v, b, p, r, x, k, n) /\ k \in Nat \ {0}
        BY <1>6, <3>1, <4>1
      <4>5. InOrder(v, Append(b, r[1]), p, Tail(r), x, k - 1, n)
        BY <3>1, <4>2, <4>3, <4>4, TakenOfQ
      <4> QED BY <3>1, <4>1, <4>5
    <3>9. ASSUME NEW m, \A c \in Nodes(p) \cup Nodes(r) : m[c].next = mem[c].next
          PROVE  Linked(m, p2) /\ Linked(m, r2) /\ Ends(m, r2)
      <4>1. PICK w : w = mem
        OBVIOUS
      <4>2. /\ Linked(w, r) /\ Ends(w, r) /\ \A c \in Nodes(r) \ {r[1]} : m[c].next = w[c].next
            /\ \A c \in Nodes(p) : m[c].next = w[c].next /\ Linked(w, p)
        BY <1>5, <3>9, <4>1
      <4>3. Linked(m, Tail(r)) /\ Ends(m, Tail(r))
        BY <1>5, <3>1, <4>2, RestIsLinked
      <4>4. Linked(m, p)
        <5>1. \A i \in 1..(Len(p) - 1) : p[i] \in Nodes(p)
          BY <1>7 DEF Nodes
        <5> QED BY <1>5, <3>9, <5>1 DEF Linked
      <4> QED BY <3>1, <4>3, <4>4
    <3> QED BY <1>5, <1>7, <3>1, <3>2, <3>3, <3>4, <3>5, <3>6, <3>7, <3>8, <3>9
  <2> QED BY <2>1, <2>2
<1>12. e \in Cell /\ e \in used /\ e \notin Nodes(b) /\ e \notin Nodes(f)
  BY <1>3, <1>5, <1>11
<1>13. /\ (sort.tail = NULL <=> b = <<>>) /\ sort.tail \in Nodes(b) \cup {NULL}
       /\ mem' \in [Cell -> NodeRec] /\ \A c \in Cell : mem'[c].num = mem[c].num
       /\ \A c \in Cell \ Nodes(b) : mem'[c].next = mem[c].next
       /\ \A c \in Cell \ {e} : mem'[c].prev = mem[c].prev
       /\ \A c \in Cell : mem'[c].next \in {mem[c].next, e}
       /\ Linked(mem', Append(b, e)) /\ Back(mem', Append(b, e))
       /\ Final(Append(b, e)) = e /\ First(Append(b, e)) = IF b = <<>> THEN e ELSE First(b)
  <2>1. PICK m, w : m = mem /\ w = mem'
    OBVIOUS
  <2>2. w = IF Final(b) # NULL THEN PutNext(PutPrev(m, e, Final(b)), Final(b), e)
            ELSE PutPrev(m, e, Final(b))
    BY <1>2, <1>5, <2>1
  <2>3. m \in [Cell -> NodeRec] /\ Linked(m, b) /\ Back(m, b) /\ Distinct(b)
    BY <1>3, <1>5, <2>1
  <2>4. /\ (Final(b) = NULL <=> b = <<>>) /\ Final(b) \in Nodes(b) \cup {NULL}
        /\ w \in [Cell -> NodeRec] /\ \A c \in Cell : w[c].num = m[c].num
        /\ \A c \in Cell \ Nodes(b) : w[c].next = m[c].next
        /\ \A c \in Cell \ {e} : w[c].prev = m[c].prev
        /\ \A c \in Cell : w[c].next \in {m[c].next, e}
        /\ Linked(w, Append(b, e)) /\ Back(w, Append(b, e))
        /\ Final(Append(b, e)) = e /\ First(Append(b, e)) = IF b = <<>> THEN e ELSE First(b)
    BY <1>12, <2>2, <2>3, LinkedBehind
  <2> QED BY <1>5, <2>1, <2>4
<1>14. /\ Append(b, e) \in Seq(Cell) /\ Append(b, e) # <<>> /\ Len(Append(b, e)) = Len(b) + 1
       /\ Distinct(Append(b, e)) /\ Nodes(Append(b, e)) = Nodes(b) \cup {e}
  BY <1>5, <1>12, AppendedNodes
<1> DEFINE b2 == Append(b, e)
<1> HIDE DEF b2
<1>15. /\ sort'.at = "take" /\ sort'.tail = e /\ sort'.insize = sort.insize
       /\ sort'.nmerges = sort.nmerges
       /\ sort'.p \in {sort.p, mem[e].next} /\ sort'.q \in {sort.q, mem[e].next}
       /\ sort' \in [at : {"off", "runs", "take"}, p : Pointer, q : Pointer, tail : Pointer,
                     psize : Nat, qsize : Nat, insize : Nat, nmerges : Nat]
  <2>1. mem[e].next \in Pointer /\ e \in Pointer
    BY <1>3, <1>12 DEF NodeRec, Pointer
  <2>2. CASE P
    <3>1. sort' = [at |-> "take", p |-> mem[e].next, q |-> sort.q, tail |-> e, psize |-> sort.psize - 1,
                   qsize |-> sort.qsize, insize |-> sort.insize, nmerges |-> sort.nmerges]
      BY <1>2, <1>3, <2>2
    <3>2. sort.psize - 1 \in Nat
      <4>1. sort'.psize \in Nat /\ sort'.psize = sort.psize - 1
        BY <1>11, <3>1
      <4> QED BY <4>1
    <3> QED BY <1>3, <2>1, <3>1, <3>2
  <2>3. CASE ~P
    <3>1. sort' = [at |-> "take", p |-> sort.p, q |-> mem[e].next, tail |-> e, psize |-> sort.psize,
                   qsize |-> sort.qsize - 1, insize |-> sort.insize, nmerges |-> sort.nmerges]
      BY <1>2, <1>3, <2>3
    <3>2. sort.qsize - 1 \in Nat
      <4>1. sort'.qsize \in Nat /\ sort'.qsize = sort.qsize - 1
        BY <1>11, <3>1
      <4> QED BY <4>1
    <3> QED BY <1>3, <2>1, <3>1, <3>2
  <2> QED BY <2>2, <2>3
<1>16. Cut(f, b2, p2, r2)'
  <2>1. IsList(mem', head'.from, f)
    <3>1. \A c \in Nodes(f) : mem'[c].next = mem[c].next /\ mem'[c].prev = mem[c].prev
      <4>1. \A c \in Nodes(f) : c \in Cell /\ c \notin Nodes(b) /\ c # e
        BY <1>3, <1>5, <1>12
      <4> QED BY <1>13, <4>1
    <3>2. head'.from = head.from
      BY <1>2, <1>3
    <3> QED BY <1>5, <3>1, <3>2, ListStays
  <2>2. Linked(mem', p2) /\ Linked(mem', r2) /\ Ends(mem', r2)
    <3>1. \A c \in Nodes(p) \cup Nodes(r) : mem'[c].next = mem[c].next
      <4>1. \A c \in Nodes(p) \cup Nodes(r) : c \in Cell /\ c \notin Nodes(b)
        BY <1>3, <1>5
      <4> QED BY <1>13, <4>1
    <3> QED BY <1>11, <3>1
  <2>3. head'.to = First(b2)
    BY <1>2, <1>3, <1>5, <1>13 DEF b2
  <2>4. /\ Apart(f, b2) /\ Apart(f, p2) /\ Apart(f, r2) /\ Apart(b2, p2) /\ Apart(b2, r2)
        /\ Apart(p2, r2)
    BY <1>5, <1>11, <1>12, <1>14 DEF Apart, b2
  <2>5. used' = Nodes(f) \cup Nodes(b2) \cup Nodes(p2) \cup Nodes(r2)
    <3>1. used' = Nodes(f) \cup Nodes(b) \cup (Nodes(p) \cup Nodes(r))
      BY <1>2, <1>5
    <3>2. Nodes(b2) = Nodes(b) \cup {e}
      BY <1>14 DEF b2
    <3>3. Nodes(p) \cup Nodes(r) = (Nodes(p2) \cup Nodes(r2)) \cup {e}
      BY <1>11
    <3> QED BY <3>1, <3>2, <3>3
  <2>6. Len(f) + Len(b2) + Len(p2) + Len(r2) = num'
    <3>1. /\ Len(b2) = Len(b) + 1 /\ Len(p2) + Len(r2) = Len(p) + Len(r) - 1 /\ num' = num
          /\ Len(f) + Len(b) + Len(p) + Len(r) = num /\ Len(p2) \in Nat /\ Len(r2) \in Nat
      BY <1>2, <1>5, <1>11, <1>14 DEF b2
    <3> QED BY <1>7, <3>1
  <2>7. sort'.tail = Final(b2) /\ Linked(mem', b2) /\ Back(mem', b2) /\ b2 # <<>> /\ Distinct(b2)
    BY <1>13, <1>14, <1>15 DEF b2
  <2>8. /\ (p2 # <<>> => sort'.p = p2[1]) /\ sort'.psize = Len(p2) /\ sort'.q = First(r2)
        /\ sort'.at = "take" /\ Distinct(p2) /\ Distinct(r2)
    BY <1>11, <1>15
  <2> QED BY <2>1, <2>2, <2>3, <2>4, <2>5, <2>6, <2>7, <2>8 DEF Cut
<1>17. Counted(b2, p2, r2)'
  <2>1. /\ n \in 1..(2 * MaxInst) /\ k \in 0..n /\ sort.nmerges \in Nat /\ sort.nmerges # 0
        /\ sort.nmerges > 0 /\ r # <<>> => Len(b) + Len(p) >= n
        /\ sort.nmerges > 1 => Len(b) + Len(p) + Len(r) > n
    BY <1>2, <1>4, <1>6 DEF Counted
  <2>2. /\ Len(b2) = Len(b) + 1 /\ Len(p2) + Len(r2) = Len(p) + Len(r) - 1 /\ Len(r2) <= Len(r)
        /\ Len(p2) \in Nat /\ Len(r2) \in Nat /\ (r2 # <<>> => r # <<>>) /\ k2 \in Nat /\ k2 <= k
    BY <1>11, <1>14 DEF b2
  <2>3. k2 \in 0..n
    BY <2>1, <2>2
  <2>4. sort.nmerges > 0 /\ r2 # <<>> => Len(b2) + Len(p2) >= n
    BY <1>7, <2>1, <2>2
  <2>5. sort.nmerges > 1 => Len(b2) + Len(p2) + Len(r2) > n
    BY <1>7, <2>1, <2>2
  <2>6. sort'.qsize = k2 /\ sort'.insize = n /\ sort'.nmerges = sort.nmerges
    BY <1>6, <1>11, <1>15
  <2> QED BY <2>1, <2>3, <2>4, <2>5, <2>6 DEF Counted
<1>18. Merging(b2, p2, r2)'
  <2>1. /\ x \in 0..Len(b) /\ x % (2 * n) = 0 /\ (sort.nmerges = 1 => x = 0)
        /\ Len(b) - x + Len(p) + k <= 2 * n
        /\ r # <<>> => Len(b) - x + Len(p) + k = 2 * n
    BY <1>2, <1>6 DEF Room
  <2>2. /\ Len(b2) = Len(b) + 1 /\ Len(p2) + k2 = Len(p) + k - 1 /\ (r2 # <<>> => r # <<>>)
        /\ Len(p2) \in Nat /\ k2 \in Nat
    BY <1>11, <1>14 DEF b2
  <2>3. /\ x \in 0..Len(b2) /\ Len(b2) - x + Len(p2) + k2 <= 2 * n
        /\ r2 # <<>> => Len(b2) - x + Len(p2) + k2 = 2 * n
    <3>1. Len(b2) - x + Len(p2) + k2 = Len(b) - x + Len(p) + k
      <4>1. PICK i \in Int, j \in Int, l \in Int, h \in Int, u \in Int :
              /\ i = Len(b) /\ u = Len(b2) /\ l = Len(p2) /\ j = Len(p) /\ h = k2
              /\ u = i + 1 /\ l + h = j + k - 1
        BY <1>7, <2>2
      <4>2. u - x + l + h = i - x + j + k
        <5>1. u = i + 1 /\ l + h = j + k - 1
          BY <4>1
        <5> QED BY <5>1
      <4> QED BY <4>1, <4>2
    <3>2. x \in 0..Len(b2)
      BY <1>7, <2>1, <2>2
    <3> QED BY <2>1, <2>2, <3>1, <3>2
  <2>4. /\ sort'.at = "take" /\ sort'.qsize = k2 /\ sort'.insize = n /\ sort'.nmerges = sort.nmerges
        /\ LeftOfQ' = k2
    BY <1>6, <1>11, <1>15 DEF LeftOfQ
  <2>5. Room(b2, p2, r2, x)'
    BY <2>1, <2>3, <2>4 DEF Room
  <2>6. Numbers' = Numbers
    BY <1>13 DEF Numbers
  <2>7. InOrder(Numbers, b2, p2, r2, x, k2, n)
    BY <1>11 DEF b2
  <2> QED BY <2>4, <2>5, <2>6, <2>7 DEF Merging
<1>19. SortInv'
  <2>1. b2 \in Seq(Cell)
    BY <1>14 DEF b2
  <2> HIDE DEF Cut, Counted, Merging
  <2> QED BY <1>2, <1>4, <1>11, <1>16, <1>17, <1>18, <2>1 DEF SortInv
<1>20. ShapeInv'
  <2>1. head' \in [from : Pointer, to : Pointer]
    BY <1>2, <1>3, <1>12 DEF Pointer
  <2>2. \A c \in used' : mem'[c].next \in used' \cup {NULL}
    BY <1>2, <1>3, <1>12, <1>13
  <2>3. {sort'.p, sort'.q} \subseteq used' \cup {NULL}
    BY <1>2, <1>3, <1>12, <1>15 DEF MemoryInv, ShapeInv
  <2> QED BY <1>2, <1>3, <1>13, <1>15, <2>1, <2>2, <2>3 DEF MemoryInv, ShapeInv
<1>21. NumInv'
  <2>1. /\ \A c \in used : mem[c].num \in 1..num
        /\ \A c, d \in used : c # d => mem[c].num # mem[d].num
    BY <1>3 DEF MemoryInv, NumInv
  <2>2. \A c \in used : mem'[c].num = mem[c].num
    BY <1>3, <1>13
  <2>3. \A c \in used' : mem'[c].num \in 1..num'
    BY <1>2, <2>1, <2>2
  <2>4. \A c, d \in used' : c # d => mem'[c].num # mem'[d].num
    BY <1>2, <2>1, <2>2
  <2> QED BY <2>3, <2>4 DEF NumInv
<1>22. RunInv' /\ CleanInv'
  BY <1>2, <1>3 DEF RunInv, CleanInv
<1>23. MemoryInv'
  BY <1>19, <1>20, <1>21, <1>22 DEF MemoryInv
<1>24. IsList(mem', head'.from, f)
  BY <1>16 DEF Cut
<1> QED BY <1>5, <1>13, <1>23, <1>24

(* Two runs have been merged. *)
LEMMA MergedOrder ==
  ASSUME NEW v, NEW b \in Seq(Cell), NEW r \in Seq(Cell), NEW x \in 0..Len(b), NEW k \in Nat,
         NEW n \in Nat \ {0}, InOrder(v, b, <<>>, r, x, k, n), x % (2 * n) = 0,
         r # <<>> => k = 0
  PROVE  InOrder(v, b, <<>>, r, Len(b), 0, n)
<1>1. Len(b) \in Nat /\ Len(r) \in Nat /\ 2 * n \in Nat \ {0} /\ x \in Nat
  BY LenProperties
<1>2. InRuns(v, b, 0, Len(b), 2 * n)
  <2>1. ASSUME NEW i \in 1..Len(b), NEW j \in 1..Len(b), 0 < i, i < j,
               (i - 0 - 1) \div (2 * n) = (j - 0 - 1) \div (2 * n)
        PROVE  v[b[i]] < v[b[j]]
    <3>1. CASE j <= x
      BY <2>1, <3>1 DEF InOrder, InRuns
    <3>2. CASE x < i
      <4>1. j <= Len(b)
        BY <1>1
      <4> QED BY <2>1, <3>2, <4>1 DEF InOrder, Rises
    <3>3. CASE i <= x /\ x < j
      <4>1. /\ i - 1 \in Nat /\ j - 1 \in Nat /\ i - 1 < x /\ x <= j - 1
            /\ i - 0 - 1 = i - 1 /\ j - 0 - 1 = j - 1
        BY <1>1, <3>3
      <4>2. (i - 1) \div (2 * n) # (j - 1) \div (2 * n)
        BY <1>1, <4>1, RunsPart
      <4> QED BY <2>1, <4>1, <4>2
    <3> QED BY <1>1, <2>1, <3>1, <3>2, <3>3
  <2> QED BY <2>1 DEF InRuns
<1>3. /\ Rises(v, b, Len(b), Len(b)) /\ Under(v, b, Len(b), <<>>, Len(<<>>))
      /\ Under(v, b, Len(b), r, 0)
  <2>1. \A i \in 1..Len(b) : ~(Len(b) < i)
    BY <1>1
  <2> QED BY <2>1 DEF Rises, Under
<1>4. Rises(v, r, 0, 0)
  <2>1. \A i, j \in 1..Len(r) : ~(0 < i /\ i < j /\ j <= 0)
    BY <1>1
  <2> QED BY <2>1 DEF Rises
<1>5. InRuns(v, r, 0, Len(r), n)
  <2>1. CASE r = <<>>
    BY <2>1, EmptySeq DEF InRuns
  <2>2. CASE r # <<>>
    BY <2>2 DEF InOrder
  <2> QED BY <2>1, <2>2
<1>6. Rises(v, <<>>, 0, Len(<<>>))
  BY DEF InOrder
<1> QED BY <1>2, <1>3, <1>4, <1>5, <1>6 DEF InOrder

(* A merge is over: what is left of the list has the runs of the pass. *)
LEMMA SortMergedKeeps ==
  ASSUME MemoryInv, SortMerged
  PROVE  MemoryInv'
<1>1. /\ sort.at = "take" /\ ~MoreToMerge
      /\ sort' = [sort EXCEPT !.at = "runs", !.p = sort.q]
      /\ mem' = mem /\ used' = used /\ head' = head /\ num' = num /\ mode' = mode /\ iter' = iter
  BY DEF SortMerged
<1>2. /\ sort \in [at : {"off", "runs", "take"}, p : Pointer, q : Pointer, tail : Pointer,
                   psize : Nat, qsize : Nat, insize : Nat, nmerges : Nat]
      /\ used \subseteq Cell /\ mode = "sort"
  <2>1. mode = "sort"
    BY <1>1 DEF MemoryInv, ShapeInv, RunInv, CleanInv, NoSort
  <2> QED BY <2>1 DEF MemoryInv, ShapeInv
<1>3. PICK f \in Seq(Cell), b \in Seq(Cell), p \in Seq(Cell), r \in Seq(Cell) :
        iter = NULL /\ Cut(f, b, p, r) /\ Counted(b, p, r) /\ Merging(b, p, r)
  <2> HIDE DEF Cut, Counted, Merging
  <2> QED BY <1>2 DEF MemoryInv, SortInv
<1>4. PICK x \in Nat, k \in Nat, n \in Nat :
        /\ k = sort.qsize /\ n = sort.insize
        /\ Room(b, p, r, x) /\ InOrder(Numbers, b, p, r, x, k, n)
  BY <1>1, <1>2, <1>3 DEF Merging, LeftOfQ
<1>5. /\ p = <<>> /\ Len(p) = 0 /\ sort.q = First(r) /\ b # <<>> /\ Len(b) \in Nat
      /\ (r # <<>> => k = 0) /\ sort.q \in used \cup {NULL}
  <2>1. /\ sort.psize = Len(p) /\ sort.q = First(r) /\ (b # <<>> \/ p # <<>>)
        /\ Nodes(r) \subseteq used
    BY <1>1, <1>3 DEF Cut
  <2>2. Len(p) = 0 /\ p = <<>>
    <3>1. sort.psize = 0
      BY <1>1, <1>2 DEF MoreToMerge
    <3> QED BY <2>1, <3>1, EmptySeq
  <2>3. r # <<>> => r[1] \in Nodes(r) /\ r[1] # NULL
    <3>1. r # <<>> => 1 \in 1..Len(r)
      BY EmptySeq, LenProperties
    <3> QED BY <3>1, ElementOfSeq, CellAssumption DEF Nodes
  <2>4. r # <<>> => k = 0
    BY <1>1, <1>2, <1>4, <2>1, <2>3 DEF MoreToMerge, First
  <2> QED BY <2>1, <2>2, <2>3, <2>4, LenProperties DEF First
<1>6. /\ sort'.at = "runs" /\ sort'.p = sort.q /\ sort'.q = sort.q /\ sort'.tail = sort.tail
      /\ sort'.psize = sort.psize /\ sort'.qsize = sort.qsize /\ sort'.insize = n
      /\ sort'.nmerges = sort.nmerges
      /\ sort' \in [at : {"off", "runs", "take"}, p : Pointer, q : Pointer, tail : Pointer,
                    psize : Nat, qsize : Nat, insize : Nat, nmerges : Nat]
  BY <1>1, <1>2, <1>4
<1>7. Cut(f, b, p, r)'
  BY <1>1, <1>3, <1>5, <1>6 DEF Cut
<1>8. Counted(b, p, r)' /\ n \in 1..(2 * MaxInst)
  BY <1>1, <1>3, <1>4, <1>6 DEF Counted
<1>9. Merging(b, p, r)'
  <2>1. /\ x \in 0..Len(b) /\ x % (2 * n) = 0 /\ (sort.nmerges = 1 => x = 0)
        /\ Len(b) - x + Len(p) + k <= 2 * n
        /\ r # <<>> => Len(b) - x + Len(p) + k = 2 * n
    BY <1>1, <1>4 DEF Room
  <2>2. n \in Nat \ {0} /\ 2 * n \in Nat \ {0}
    BY <1>8, InstAssumption
  <2>3. InOrder(Numbers, b, p, r, Len(b), 0, n)
    <3>1. PICK v : v = Numbers
      OBVIOUS
    <3>2. InOrder(v, b, <<>>, r, x, k, n)
      BY <1>4, <1>5, <3>1
    <3>3. InOrder(v, b, <<>>, r, Len(b), 0, n)
      BY <1>5, <2>1, <2>2, <3>2, MergedOrder
    <3> QED BY <1>5, <3>1, <3>3
  <2>4. Room(b, p, r, Len(b))'
    <3>1. r # <<>> => Len(b) % (2 * n) = 0
      <4>1. r # <<>> => Len(b) = x + 2 * n
        BY <1>5, <2>1, <2>2
      <4>2. (x + 2 * n) % (2 * n) = x % (2 * n)
        BY <2>2, RunArithmetic
      <4> QED BY <2>1, <4>1, <4>2
    <3>2. sort.nmerges = 1 => Len(b) <= 2 * n
      BY <1>5, <2>1, <2>2
    <3>3. Len(b) \in 0..Len(b)
      BY <1>5
    <3> QED BY <1>6, <3>1, <3>2, <3>3 DEF Room
  <2>5. LeftOfQ' = 0 /\ Numbers' = Numbers
    BY <1>1, <1>6 DEF LeftOfQ, Numbers
  <2> QED BY <1>5, <1>6, <2>3, <2>4, <2>5 DEF Merging
<1>10. SortInv'
  <2> HIDE DEF Cut, Counted, Merging
  <2> QED BY <1>1, <1>3, <1>7, <1>8, <1>9 DEF SortInv
<1>11. ShapeInv'
  BY <1>1, <1>2, <1>5, <1>6 DEF MemoryInv, ShapeInv
<1>12. NumInv' /\ RunInv' /\ CleanInv'
  BY <1>1, <1>2 DEF MemoryInv, NumInv, RunInv, CleanInv
<1> QED BY <1>10, <1>11, <1>12 DEF MemoryInv

(* What is built becomes a list again. *)
LEMMA BuiltIsList ==
  ASSUME NEW m \in [Cell -> NodeRec], NEW b \in Seq(Cell), b # <<>>, Distinct(b), Linked(m, b),
         Back(m, b), NEW n, n = PutNext(PutPrev(m, b[1], Final(b)), Final(b), NULL)
  PROVE  /\ n \in [Cell -> NodeRec] /\ \A c \in Cell : n[c].num = m[c].num
         /\ \A c \in Cell \ Nodes(b) : n[c] = m[c]
         /\ IsList(n, b[1], b)
<1> DEFINE last == Final(b)
           m1 == PutPrev(m, b[1], last)
<1>1. /\ Len(b) \in Nat /\ 1 \in 1..Len(b) /\ Len(b) \in 1..Len(b) /\ last = b[Len(b)]
      /\ \A i \in 1..Len(b) : b[i] \in Cell /\ b[i] \in Nodes(b)
  BY LenProperties, EmptySeq, ElementOfSeq DEF Final, Nodes
<1>2. last \in Pointer /\ NULL \in Pointer /\ last \in Cell /\ b[1] \in Cell
      /\ last \in Nodes(b) /\ b[1] \in Nodes(b)
  BY <1>1 DEF Pointer
<1>3. n = PutNext(m1, last, NULL)
  OBVIOUS
<1> HIDE DEF last
<1>4. /\ m1 \in [Cell -> NodeRec] /\ m1[b[1]].prev = last /\ m1[b[1]].next = m[b[1]].next
      /\ m1[b[1]].num = m[b[1]].num /\ \A c \in Cell \ {b[1]} : m1[c] = m[c]
  BY <1>2, PrevWritten
<1> HIDE DEF m1
<1>5. /\ n \in [Cell -> NodeRec] /\ n[last].next = NULL /\ n[last].prev = m1[last].prev
      /\ n[last].num = m1[last].num /\ \A c \in Cell \ {last} : n[c] = m1[c]
  BY <1>2, <1>3, <1>4, NextWritten
<1>6. /\ \A c \in Cell : n[c].num = m[c].num
      /\ \A c \in Cell \ {last} : n[c].next = m[c].next
      /\ \A c \in Cell \ {b[1]} : n[c].prev = m[c].prev
      /\ n[b[1]].prev = last
  BY <1>2, <1>4, <1>5
<1>7. \A c \in Cell \ Nodes(b) : n[c] = m[c]
  BY <1>2, <1>4, <1>5
<1>8. Linked(n, b)
  <2>1. ASSUME NEW i \in 1..(Len(b) - 1) PROVE n[b[i]].next = b[i + 1]
    <3>1. i \in 1..Len(b) /\ i # Len(b)
      BY <1>1
    <3>2. b[i] # last /\ b[i] \in Cell
      BY <1>1, <3>1 DEF Distinct
    <3> QED BY <1>6, <3>2 DEF Linked
  <2> QED BY <2>1 DEF Linked
<1>9. Back(n, b)
  <2>1. ASSUME NEW i \in 2..Len(b) PROVE n[b[i]].prev = b[i - 1]
    <3>1. i \in 1..Len(b) /\ i # 1
      BY <1>1
    <3>2. b[i] # b[1] /\ b[i] \in Cell
      BY <1>1, <3>1 DEF Distinct
    <3> QED BY <1>6, <3>2 DEF Back
  <2> QED BY <2>1 DEF Back
<1>10. Ends(n, b) /\ n[b[1]].prev = b[Len(b)] /\ b[1] = First(b)
  BY <1>1, <1>5, <1>6 DEF Ends, First
<1> QED BY <1>5, <1>6, <1>7, <1>8, <1>9, <1>10 DEF IsList

(* A pass is over: the list is sorted, or the next pass has runs twice as long. *)
LEMMA SortPassEndKeeps ==
  ASSUME MemoryInv, SortPassEnd
  PROVE  /\ MemoryInv'
         /\ \A c \in Cell : mem'[c].num = mem[c].num
         /\ \E f, b \in Seq(Cell) :
              /\ IsList(mem, head.from, f) /\ IsList(mem', head'.from, f)
              /\ mode' = "run" => OnLists(f, b)' /\ Rises(Numbers, b, 0, Len(b))
<1>1. /\ sort.at = "runs" /\ sort.p = NULL
      /\ mem' = PutNext(PutPrev(mem, head.to, sort.tail), sort.tail, NULL)
      /\ IF sort.nmerges <= 1
         THEN mode' = "run" /\ sort' = NoSort /\ head' = head
         ELSE /\ sort' = [NoSort EXCEPT !.at = "runs", !.p = head.to, !.insize = 2 * sort.insize]
              /\ head' = [head EXCEPT !.to = NULL] /\ mode' = mode
      /\ used' = used /\ num' = num /\ iter' = iter
  BY DEF SortPassEnd, NewPass, PutNext, PutPrev
<1>2. /\ sort \in [at : {"off", "runs", "take"}, p : Pointer, q : Pointer, tail : Pointer,
                   psize : Nat, qsize : Nat, insize : Nat, nmerges : Nat]
      /\ used \subseteq Cell /\ mode = "sort" /\ mem \in [Cell -> NodeRec] /\ num \in 0..MaxInst
      /\ head \in [from : Pointer, to : Pointer]
  <2>1. mode = "sort"
    BY <1>1 DEF MemoryInv, ShapeInv, RunInv, CleanInv, NoSort
  <2> QED BY <2>1 DEF MemoryInv, ShapeInv
<1>3. PICK f \in Seq(Cell), b \in Seq(Cell), p \in Seq(Cell), r \in Seq(Cell) :
        iter = NULL /\ Cut(f, b, p, r) /\ Counted(b, p, r) /\ Merging(b, p, r)
  <2> HIDE DEF Cut, Counted, Merging
  <2> QED BY <1>2 DEF MemoryInv, SortInv
<1>4. PICK x \in Nat, n \in Nat :
        n = sort.insize /\ Room(b, p, r, x) /\ InOrder(Numbers, b, p, r, x, 0, n)
  BY <1>1, <1>2, <1>3 DEF Merging, LeftOfQ
<1>5. r = <<>> /\ p = <<>> /\ b # <<>> /\ Len(r) = 0 /\ Len(p) = 0 /\ Nodes(r) = {} /\ Nodes(p) = {}
  <2>1. p = <<>> /\ First(r) = NULL /\ (b # <<>> \/ r # <<>>)
    BY <1>1, <1>3 DEF Cut
  <2>2. r = <<>>
    <3>1. r # <<>> => 1 \in 1..Len(r)
      BY EmptySeq, LenProperties
    <3> QED BY <2>1, <3>1, ElementOfSeq, CellAssumption DEF First
  <2> QED BY <2>1, <2>2, EmptyList
<1>6. /\ IsList(mem, head.from, f) /\ Distinct(b) /\ Linked(mem, b) /\ Back(mem, b)
      /\ Nodes(f) \cap Nodes(b) = {} /\ used = Nodes(f) \cup Nodes(b) /\ Len(f) + Len(b) = num
      /\ head.to = b[1] /\ sort.tail = Final(b) /\ Len(f) \in Nat /\ Len(b) \in Nat
  <2>1. Len(f) \in Nat /\ Len(b) \in Nat
    BY LenProperties
  <2>2. Len(f) + Len(b) + Len(p) + Len(r) = num
    BY <1>3 DEF Cut
  <2>3. used = Nodes(f) \cup Nodes(b) \cup Nodes(p) \cup Nodes(r)
    BY <1>3 DEF Cut
  <2>4. /\ IsList(mem, head.from, f) /\ Distinct(b) /\ Linked(mem, b) /\ Back(mem, b)
        /\ Nodes(f) \cap Nodes(b) = {} /\ head.to = b[1] /\ sort.tail = Final(b)
    BY <1>3, <1>5 DEF Cut, Apart, First
  <2> QED BY <1>5, <2>1, <2>2, <2>3, <2>4
<1>7. /\ mem' \in [Cell -> NodeRec] /\ \A c \in Cell : mem'[c].num = mem[c].num
      /\ \A c \in Cell \ Nodes(b) : mem'[c] = mem[c]
      /\ IsList(mem', b[1], b)
  <2>1. PICK m, w : m = mem /\ w = mem'
    OBVIOUS
  <2>2. w = PutNext(PutPrev(m, b[1], Final(b)), Final(b), NULL) /\ m \in [Cell -> NodeRec]
        /\ Linked(m, b) /\ Back(m, b)
    BY <1>1, <1>2, <1>6, <2>1
  <2>3. /\ w \in [Cell -> NodeRec] /\ \A c \in Cell : w[c].num = m[c].num
        /\ \A c \in Cell \ Nodes(b) : w[c] = m[c]
        /\ IsList(w, b[1], b)
    BY <1>5, <1>6, <2>2, BuiltIsList
  <2> QED BY <2>1, <2>3
<1>8. IsList(mem', head.from, f)
  <2>1. \A c \in Nodes(f) : c \in Cell /\ c \notin Nodes(b)
    BY <1>2, <1>6
  <2>2. \A c \in Nodes(f) : mem'[c].next = mem[c].next /\ mem'[c].prev = mem[c].prev
    BY <1>7, <2>1
  <2> QED BY <1>6, <2>2, ListStays
<1>9. NumInv'
  <2>1. /\ \A c \in used : mem[c].num \in 1..num
        /\ \A c, d \in used : c # d => mem[c].num # mem[d].num
    BY <1>2 DEF MemoryInv, NumInv
  <2>2. \A c \in used : mem'[c].num = mem[c].num
    BY <1>2, <1>7
  <2>3. \A c \in used' : mem'[c].num \in 1..num'
    BY <1>1, <2>1, <2>2
  <2>4. \A c, d \in used' : c # d => mem'[c].num # mem'[d].num
    BY <1>1, <2>1, <2>2
  <2> QED BY <2>3, <2>4 DEF NumInv
<1>10. CASE sort.nmerges <= 1
  <2>1. mode' = "run" /\ sort' = NoSort /\ head' = head
    BY <1>1, <1>10
  <2>2. OnLists(f, b)'
    BY <1>1, <1>3, <1>6, <1>7, <1>8, <2>1 DEF OnLists, Apart
  <2>3. RunInv'
    <3>1. (sort = NoSort)'
      BY <2>1 DEF NoSort
    <3> QED BY <2>2, <3>1 DEF RunInv
  <2>4. ShapeInv'
    BY <1>1, <1>2, <1>7, <2>1 DEF MemoryInv, ShapeInv, NoSort, Pointer
  <2>5. SortInv' /\ CleanInv'
    BY <2>1 DEF SortInv, CleanInv
  <2>6. MemoryInv'
    BY <1>9, <2>3, <2>4, <2>5 DEF MemoryInv
  <2>7. Rises(Numbers, b, 0, Len(b))
    <3>1. x = Len(b) /\ (sort.nmerges = 1 => x <= 2 * n) /\ sort.nmerges # 0 /\ sort.nmerges \in Nat
      BY <1>1, <1>2, <1>3, <1>4, <1>5 DEF Room, Counted
    <3>2. Len(b) <= 2 * n /\ 2 * n \in Nat \ {0}
      <4>1. Len(b) # 0 /\ Len(b) \in Nat
        BY <1>5, EmptySeq, LenProperties
      <4>2. sort.nmerges = 1
        BY <1>10, <3>1
      <4>3. Len(b) <= 2 * n
        BY <3>1, <4>2
      <4> QED BY <4>1, <4>3
    <3>3. ASSUME NEW i \in 1..Len(b), NEW j \in 1..Len(b)
          PROVE  (i - 0 - 1) \div (2 * n) = (j - 0 - 1) \div (2 * n)
      <4>1. PICK k \in Nat, l \in Nat, w \in Nat \ {0} :
              k = i - 0 - 1 /\ l = j - 0 - 1 /\ w = 2 * n /\ k < w /\ l < w
        <5>1. i - 0 - 1 \in Nat /\ j - 0 - 1 \in Nat /\ i - 0 - 1 < 2 * n /\ j - 0 - 1 < 2 * n
          BY <1>6, <3>2
        <5> QED BY <3>2, <5>1
      <4>2. k \div w = 0 /\ l \div w = 0
        BY <4>1, RunArithmetic
      <4> QED BY <4>1, <4>2
    <3>4. InRuns(Numbers, b, 0, Len(b), 2 * n)
      BY <1>4, <3>1 DEF InOrder
    <3> QED BY <3>3, <3>4 DEF InRuns, Rises
  <2>8. head'.from = head.from
    BY <2>1
  <2> QED BY <1>6, <1>7, <1>8, <2>2, <2>6, <2>7, <2>8
<1>11. CASE ~(sort.nmerges <= 1)
  <2>1. /\ sort' = [NoSort EXCEPT !.at = "runs", !.p = b[1], !.insize = 2 * n]
        /\ head'.from = head.from /\ head'.to = NULL /\ mode' = "sort"
        /\ head' \in [from : Pointer, to : Pointer]
    BY <1>1, <1>2, <1>4, <1>6, <1>11 DEF Pointer
  <2>2. 2 * n \in 1..(2 * MaxInst)
    <3>1. n \in 1..(2 * MaxInst) /\ Len(b) + Len(p) + Len(r) > n
      BY <1>2, <1>3, <1>4, <1>11 DEF Counted
    <3> QED BY <1>2, <1>5, <1>6, <3>1, InstAssumption
  <2>3. InRuns(Numbers', b, 0, Len(b), 2 * n)
    <3>1. x = Len(b)
      BY <1>1, <1>4 DEF Room
    <3>2. Numbers' = Numbers
      BY <1>7 DEF Numbers
    <3> QED BY <1>4, <3>1, <3>2 DEF InOrder
  <2>4. (Cut(f, <<>>, <<>>, b) /\ Counted(<<>>, <<>>, b) /\ Merging(<<>>, <<>>, b))'
    <3>1. used' = Nodes(f) \cup Nodes(b) /\ Len(f) + Len(b) = num' /\ Apart(f, b)
      BY <1>1, <1>6 DEF Apart
    <3>2. IsList(mem', head'.from, f)
      BY <1>8, <2>1
    <3> QED BY <1>5, <1>7, <2>1, <2>2, <2>3, <3>1, <3>2, PassBegins
  <2>5. SortInv'
    <3>1. <<>> \in Seq(Cell) /\ iter' = NULL
      BY <1>1, <1>3, EmptyList
    <3> HIDE DEF Cut, Counted, Merging
    <3> QED BY <2>4, <3>1 DEF SortInv
  <2>6. ShapeInv'
    <3>1. \A c \in used' : mem'[c].next \in used' \cup {NULL}
      <4>1. /\ \A c \in Nodes(f) : mem'[c].next \in Nodes(f) \cup {NULL}
        BY <1>8, ListBits
      <4>2. /\ \A c \in Nodes(b) : mem'[c].next \in Nodes(b) \cup {NULL}
        BY <1>7, ListBits
      <4> QED BY <1>1, <1>6, <4>1, <4>2
    <3>2. b[1] \in used /\ b[1] \in Pointer
      <4>1. b[1] \in Nodes(b)
        BY <1>5, <1>6, RestOf
      <4> QED BY <1>2, <1>6, <4>1 DEF Pointer
    <3>3. sort' \in [at : {"off", "runs", "take"}, p : Pointer, q : Pointer, tail : Pointer,
                     psize : Nat, qsize : Nat, insize : Nat, nmerges : Nat]
      <4>1. sort' = [at |-> "runs", p |-> b[1], q |-> NULL, tail |-> NULL, psize |-> 0,
                     qsize |-> 0, insize |-> 2 * n, nmerges |-> 0]
        BY <2>1 DEF NoSort
      <4>2. NULL \in Pointer /\ 2 * n \in Nat
        BY DEF Pointer
      <4> QED BY <3>2, <4>1, <4>2
    <3>4. sort'.at = "runs" /\ sort'.p = b[1] /\ sort'.q = NULL
      BY <2>1 DEF NoSort
    <3> QED BY <1>1, <1>2, <1>7, <2>1, <3>1, <3>2, <3>3, <3>4 DEF MemoryInv, ShapeInv
  <2>7. RunInv' /\ CleanInv'
    BY <2>1 DEF RunInv, CleanInv
  <2>8. MemoryInv'
    BY <1>9, <2>5, <2>6, <2>7 DEF MemoryInv
  <2> QED BY <1>6, <1>7, <1>8, <2>1, <2>8
<1> QED BY <1>10, <1>11
-----------------------------------------------------------------------------
(* Every step of the specification keeps the invariant. *)
LEMMA NextKeeps ==
  ASSUME MemoryInv, [Next]_listVars
  PROVE  MemoryInv'
<1>1. CASE \E c \in Cell : FetchNode(c)
  BY <1>1, FetchKeeps
<1>2. CASE Loop
  BY <1>2, LoopStartKeeps, LoopSkipKeeps, LoopMoveKeeps DEF Loop
<1>3. CASE Sort
  BY <1>3, SortStartKeeps, SortRunsKeeps, SortTakeKeeps, SortMergedKeeps, SortPassEndKeeps DEF Sort
<1>4. CASE Clean
  BY <1>4, CleanStartKeeps, CleanNodeKeeps, CleanFromEndKeeps, CleanToEndKeeps DEF Clean
<1>5. CASE UNCHANGED listVars
  <2>1. /\ mem' = mem /\ used' = used /\ head' = head /\ num' = num /\ mode' = mode
        /\ iter' = iter /\ sort' = sort
    BY <1>5 DEF listVars
  <2>2. ShapeInv' /\ NumInv'
    BY <2>1 DEF MemoryInv, ShapeInv, NumInv
  <2>3. RunInv' /\ CleanInv'
    BY <2>1 DEF MemoryInv, RunInv, OnLists, CleanInv
  <2>4. SortInv'
    <3>1. CASE mode # "sort"
      BY <2>1, <3>1 DEF SortInv
    <3>2. CASE mode = "sort"
      <4>1. PICK f \in Seq(Cell), b \in Seq(Cell), p \in Seq(Cell), r \in Seq(Cell) :
              iter = NULL /\ Cut(f, b, p, r) /\ Counted(b, p, r) /\ Merging(b, p, r)
        <5> HIDE DEF Cut, Counted, Merging
        <5> QED BY <3>2 DEF MemoryInv, SortInv
      <4>2. Cut(f, b, p, r)'
        BY <2>1, <4>1 DEF Cut
      <4>3. Counted(b, p, r)'
        BY <2>1, <4>1 DEF Counted
      <4>4. Merging(b, p, r)'
        <5>1. Numbers' = Numbers /\ LeftOfQ' = LeftOfQ
          BY <2>1 DEF Numbers, LeftOfQ
        <5>2. \A x \in Nat : Room(b, p, r, x) => Room(b, p, r, x)'
          BY <2>1 DEF Room
        <5> QED BY <2>1, <4>1, <5>1, <5>2 DEF Merging
      <4> HIDE DEF Cut, Counted, Merging
      <4> QED BY <2>1, <4>1, <4>2, <4>3, <4>4 DEF SortInv
    <3> QED BY <3>1, <3>2
  <2> QED BY <2>2, <2>3, <2>4 DEF MemoryInv
<1> QED BY <1>1, <1>2, <1>3, <1>4, <1>5 DEF Next

(* The lists are on the nodes allocated, in one piece or in the pieces of  *)
(* the merge sort, in every state of every run.                            *)
THEOREM MemoryIsKept == Spec => []MemoryInv
<1>1. Init => MemoryInv
  BY InitIsWellMade
<1>2. MemoryInv /\ [Next]_listVars => MemoryInv'
  BY NextKeeps
<1> QED BY <1>1, <1>2, PTL DEF Spec
-----------------------------------------------------------------------------
(* What the properties say of the lists, from the invariant.               *)
LEMMA TypesOfMemory ==
  ASSUME MemoryInv
  PROVE  ListsTypeOK
<1>1. /\ mem \in [Cell -> NodeRec] /\ used \subseteq Cell /\ num \in 0..MaxInst
      /\ head \in [from : Pointer, to : Pointer]
      /\ mode \in {"run", "sort", "cleanFrom", "cleanTo", "end"}
      /\ mode = "sort" => {sort.p, sort.q} \subseteq used \cup {NULL}
  BY DEF MemoryInv, ShapeInv
<1>2. CASE mode = "run"
  <2>1. sort = NoSort /\ iter \in used \cup {NULL}
    BY <1>2 DEF MemoryInv, RunInv, OnLists
  <2>2. 0 \in 0..MaxInst /\ 0 \in 0..(2 * MaxInst)
    BY InstAssumption
  <2> QED BY <1>1, <2>1, <2>2 DEF ListsTypeOK, NodeRec, NoSort
<1>3. CASE mode = "sort"
  <2>1. PICK f \in Seq(Cell), b \in Seq(Cell), p \in Seq(Cell), r \in Seq(Cell) :
          iter = NULL /\ Cut(f, b, p, r) /\ Counted(b, p, r)
    <3> HIDE DEF Cut, Counted, Merging
    <3> QED BY <1>3 DEF MemoryInv, SortInv
  <2>2. /\ sort.psize = Len(p) /\ sort.tail = Final(b) /\ Nodes(b) \subseteq used
        /\ Len(f) + Len(b) + Len(p) + Len(r) = num
    BY <2>1 DEF Cut
  <2>3. sort.psize \in 0..MaxInst
    <3>1. /\ Len(f) \in Nat /\ Len(b) \in Nat /\ Len(p) \in Nat /\ Len(r) \in Nat
      BY LenProperties
    <3> QED BY <1>1, <2>2, <3>1, InstAssumption
  <2>4. sort.qsize \in 0..(2 * MaxInst)
    <3>1. sort.insize \in 1..(2 * MaxInst) /\ sort.qsize \in 0..sort.insize
      BY <2>1 DEF Counted
    <3> QED BY <3>1, InstAssumption
  <2>5. sort.tail \in used \cup {NULL}
    <3>1. b # <<>> => Len(b) \in 1..Len(b)
      BY EmptySeq, LenProperties
    <3> QED BY <2>2, <3>1 DEF Final, Nodes
  <2> QED BY <1>1, <1>3, <2>1, <2>3, <2>4, <2>5 DEF ListsTypeOK, NodeRec
<1>4. CASE mode \in {"cleanFrom", "cleanTo", "end"}
  <2>1. sort = NoSort
    BY <1>4 DEF MemoryInv, CleanInv
  <2>2. iter \in used \cup {NULL}
    <3>1. ASSUME NEW t \in Seq(Cell), Chain(mem, iter, t), Nodes(t) \subseteq used
          PROVE  iter \in used \cup {NULL}
      <4>1. t # <<>> => 1 \in 1..Len(t)
        BY EmptySeq, LenProperties
      <4> QED BY <3>1, <4>1 DEF Chain, First, Nodes
    <3> HIDE DEF Chain
    <3>2. CASE mode = "cleanFrom"
      <4>1. PICK f \in Seq(Cell) : Chain(mem, iter, f) /\ Nodes(f) \subseteq used
        BY <3>2 DEF MemoryInv, CleanInv
      <4> QED BY <3>1, <4>1
    <3>3. CASE mode = "cleanTo"
      <4>1. PICK f \in Seq(Cell) : Chain(mem, iter, f) /\ Nodes(f) \subseteq used
        BY <3>3 DEF MemoryInv, CleanInv
      <4> QED BY <3>1, <4>1
    <3>4. CASE mode = "end"
      BY <3>4 DEF MemoryInv, CleanInv
    <3> QED BY <1>4, <3>2, <3>3, <3>4
  <2>3. 0 \in 0..MaxInst /\ 0 \in 0..(2 * MaxInst)
    BY InstAssumption
  <2> QED BY <1>1, <2>1, <2>2, <2>3 DEF ListsTypeOK, NodeRec, NoSort
<1> QED BY <1>1, <1>2, <1>3, <1>4

(* Between two statements the walks of the property are the lists. *)
LEMMA ListsOfMemory ==
  ASSUME MemoryInv
  PROVE  ListsHoldMemory
<1>1. ASSUME mode = "run"
      PROVE  /\ WellMade(mem, head.from) /\ WellMade(mem, head.to)
             /\ NodesFrom(head.from) \cap NodesFrom(head.to) = {}
             /\ used = NodesFrom(head.from) \cup NodesFrom(head.to)
             /\ iter # NULL => iter \in NodesFrom(head.from)
  <2>1. PICK f \in Seq(Cell), t \in Seq(Cell) : OnLists(f, t)
    BY <1>1 DEF MemoryInv, RunInv
  <2>2. /\ IsList(mem, head.from, f) /\ IsList(mem, head.to, t) /\ Nodes(f) \cap Nodes(t) = {}
        /\ used = Nodes(f) \cup Nodes(t) /\ (iter = NULL \/ iter \in Nodes(f))
    BY <2>1 DEF OnLists, Apart
  <2>3. WellMade(mem, head.from) /\ NodesFrom(head.from) = Nodes(f)
    BY <2>2, ListIsMade DEF NodesFrom
  <2>4. WellMade(mem, head.to) /\ NodesFrom(head.to) = Nodes(t)
    BY <2>2, ListIsMade DEF NodesFrom
  <2> QED BY <2>2, <2>3, <2>4
<1>2. mode = "end" => used = {}
  BY DEF MemoryInv, CleanInv
<1> QED BY <1>1, <1>2 DEF ListsHoldMemory

(* A walk is a sequence, whatever is in memory. *)
LEMMA WalkIsSeq ==
  ASSUME NEW m, NEW c
  PROVE  \E S : Walk(m, c) \in Seq(S)
<1> DEFINE at == At(m, c)
           visits == {i \in 1..Cardinality(Cell) : at[i - 1] # NULL}
           S == {at[i - 1] : i \in 1..Cardinality(visits)}
<1>1. Cardinality(Cell) \in Nat
  BY AtIs
<1>2. IsFiniteSet(1..Cardinality(Cell)) /\ visits \subseteq 1..Cardinality(Cell)
  BY <1>1, FS_Interval
<1>3. Cardinality(visits) \in Nat
  BY <1>2, FS_Subset, FS_CardinalityType
<1>4. Walk(m, c) = [i \in 1..Cardinality(visits) |-> at[i - 1]]
  BY DEF Walk
<1> HIDE DEF visits, at
<1>5. Walk(m, c) \in Seq(S)
  BY <1>3, <1>4
<1> QED BY <1>5

(* What a sequence begins with, taken from it. *)
LEMMA PrefixIs ==
  ASSUME NEW S, NEW s \in Seq(S), NEW b \in Seq(Cell), Len(b) <= Len(s),
         \A i \in 1..Len(b) : s[i] = b[i]
  PROVE  SubSeq(s, 1, Len(b)) = b /\ Prefix(s, Len(b)) = b
<1>1. Len(s) \in Nat /\ Len(b) \in Nat
  BY LenProperties
<1>2. SubSeq(s, 1, Len(b)) = [i \in 1..Len(b) |-> b[i]]
  BY <1>1
<1>3. b = [i \in 1..Len(b) |-> b[i]]
  BY LenProperties
<1>4. SubSeq(s, 1, Len(b)) = b
  BY <1>2, <1>3
<1>5. (IF Len(b) < Len(s) THEN Len(b) ELSE Len(s)) = Len(b)
  BY <1>1
<1> QED BY <1>4, <1>5 DEF Prefix

(* The pieces that the property cuts from memory are the invariant's.      *)
LEMMA BuiltIs ==
  ASSUME NEW b \in Seq(Cell), Distinct(b), Linked(mem, b), head.to = First(b), sort.tail = Final(b)
  PROVE  Built = b
<1>1. CASE b = <<>>
  BY <1>1 DEF Built, Final
<1>2. CASE b # <<>>
  <2>1. /\ Len(b) \in Nat /\ Len(b) \in 1..Len(b) /\ \A i \in 1..Len(b) : b[i] \in Cell
    BY <1>2, LenProperties, EmptySeq, ElementOfSeq
  <2>2. PICK m, s : m = mem /\ s = Walk(m, b[1])
    OBVIOUS
  <2>3. Len(s) \in Nat /\ Len(b) <= Len(s) /\ \A i \in 1..Len(b) : s[i] = b[i]
    BY <1>2, <2>2, WalkBegins
  <2>4. PICK S : s \in Seq(S)
    BY <2>2, WalkIsSeq
  <2>5. sort.tail = b[Len(b)] /\ sort.tail # NULL /\ head.to = b[1]
    BY <1>2, <2>1, CellAssumption DEF Final, First
  <2> DEFINE T == {i \in 1..Len(s) : s[i] = sort.tail}
  <2>6. Len(b) \in T /\ \A i \in T : Len(b) <= i
    <3>1. Len(b) \in 1..Len(s)
      BY <2>1, <2>3
    <3>2. ASSUME NEW i \in 1..Len(s), i < Len(b) PROVE s[i] # sort.tail
      <4>1. i \in 1..Len(b) /\ i # Len(b)
        BY <2>1, <2>3, <3>2
      <4> QED BY <2>1, <2>3, <2>5, <4>1 DEF Distinct
    <3> QED BY <2>1, <2>3, <2>5, <3>1, <3>2
  <2>7. \A i \in T : i \in Nat
    BY <2>3
  <2>8. SelectInSeq(s, LAMBDA c : c = sort.tail) = Len(b)
    <3>1. SelectInSeq(s, LAMBDA c : c = sort.tail) = IF T # {} THEN Min(T) ELSE 0
      BY DEF SelectInSeq
    <3>2. Min(T) = CHOOSE x \in T : \A y \in T : x <= y
      BY DEF Min
    <3> HIDE DEF T
    <3>3. \A x \in T : (\A y \in T : x <= y) => x = Len(b)
      BY <2>1, <2>6, <2>7
    <3> QED BY <2>6, <3>1, <3>2, <3>3
  <2>9. SubSeq(s, 1, Len(b)) = b
    BY <2>3, <2>4, PrefixIs
  <2> QED BY <2>2, <2>5, <2>8, <2>9 DEF Built
<1> QED BY <1>1, <1>2

(* The same for what is left of the first run. *)
LEMMA LeftOfPIs ==
  ASSUME NEW p \in Seq(Cell), Distinct(p), Linked(mem, p), sort.psize = Len(p),
         p # <<>> => sort.p = p[1]
  PROVE  LeftOfP = p
<1>1. PICK m, s, S : m = mem /\ s = Walk(m, sort.p) /\ s \in Seq(S)
  BY WalkIsSeq
<1>2. Len(s) \in Nat /\ Len(p) \in Nat
  BY <1>1, LenProperties
<1>3. Len(p) <= Len(s) /\ \A i \in 1..Len(p) : s[i] = p[i]
  <2>1. CASE p = <<>>
    BY <1>2, <2>1, EmptyList
  <2>2. CASE p # <<>>
    BY <1>1, <2>2, WalkBegins
  <2> QED BY <2>1, <2>2
<1>4. Prefix(s, Len(p)) = p
  BY <1>1, <1>3, PrefixIs
<1> QED BY <1>1, <1>4 DEF LeftOfP

(* Two pieces put together. *)
LEMMA PiecesJoin ==
  ASSUME NEW s \in Seq(Cell), NEW t \in Seq(Cell), Distinct(s), Distinct(t), Apart(s, t)
  PROVE  s \o t \in Seq(Cell) /\ Distinct(s \o t) /\ Nodes(s \o t) = Nodes(s) \cup Nodes(t)
<1> DEFINE u == s \o t
<1>1. /\ Len(s) \in Nat /\ Len(t) \in Nat /\ u \in Seq(Cell) /\ Len(u) = Len(s) + Len(t)
      /\ \A i \in 1..Len(u) : u[i] = IF i <= Len(s) THEN s[i] ELSE t[i - Len(s)]
  BY LenProperties, ConcatProperties
<1> HIDE DEF u
<1>2. \A i \in 1..Len(u) : i > Len(s) => i - Len(s) \in 1..Len(t)
  BY <1>1
<1>3. \A i \in 1..Len(u) : i <= Len(s) => i \in 1..Len(s)
  BY <1>1
<1>4. \A i \in 1..Len(s), j \in 1..Len(t) : s[i] # t[j]
  BY DEF Apart, Nodes
<1>5. Distinct(u)
  <2>1. ASSUME NEW i \in 1..Len(u), NEW j \in 1..Len(u), i # j PROVE u[i] # u[j]
    <3>1. CASE i <= Len(s) /\ j <= Len(s)
      BY <1>1, <1>3, <2>1, <3>1 DEF Distinct
    <3>2. CASE i > Len(s) /\ j > Len(s)
      <4>1. PICK k \in 1..Len(t), l \in 1..Len(t) : k = i - Len(s) /\ l = j - Len(s)
        BY <1>2, <3>2
      <4>2. k # l
        BY <1>1, <2>1, <4>1
      <4>3. u[i] = t[k] /\ u[j] = t[l]
        BY <1>1, <3>2, <4>1
      <4> QED BY <4>2, <4>3 DEF Distinct
    <3>3. CASE i <= Len(s) /\ j > Len(s)
      <4>1. PICK l \in 1..Len(t) : l = j - Len(s)
        BY <1>2, <3>3
      <4>2. u[i] = s[i] /\ i \in 1..Len(s)
        BY <1>1, <1>3, <3>3
      <4>3. u[j] = t[l]
        BY <1>1, <3>3, <4>1
      <4> QED BY <1>4, <4>2, <4>3
    <3>4. CASE i > Len(s) /\ j <= Len(s)
      <4>1. PICK l \in 1..Len(t) : l = i - Len(s)
        BY <1>2, <3>4
      <4>2. u[j] = s[j] /\ j \in 1..Len(s)
        BY <1>1, <1>3, <3>4
      <4>3. u[i] = t[l]
        BY <1>1, <3>4, <4>1
      <4> QED BY <1>4, <4>2, <4>3
    <3> QED BY <1>1, <3>1, <3>2, <3>3, <3>4
  <2> QED BY <2>1 DEF Distinct
<1>6. Nodes(u) = Nodes(s) \cup Nodes(t)
  <2>1. ASSUME NEW i \in 1..Len(u) PROVE u[i] \in Nodes(s) \cup Nodes(t)
    BY <1>1, <1>2, <1>3 DEF Nodes
  <2>2. ASSUME NEW i \in 1..Len(s) PROVE s[i] \in Nodes(u)
    <3>1. i \in 1..Len(u) /\ u[i] = s[i]
      BY <1>1
    <3> QED BY <3>1 DEF Nodes
  <2>3. ASSUME NEW i \in 1..Len(t) PROVE t[i] \in Nodes(u)
    <3>1. i + Len(s) \in 1..Len(u) /\ ~(i + Len(s) <= Len(s)) /\ (i + Len(s)) - Len(s) = i
      BY <1>1
    <3> QED BY <1>1, <3>1 DEF Nodes
  <2> QED BY <2>1, <2>2, <2>3 DEF Nodes
<1> QED BY <1>1, <1>5, <1>6 DEF u

(* During the sort the pieces of the property are those of the invariant. *)
LEMMA SortOfMemory ==
  ASSUME MemoryInv
  PROVE  SortKeepsNodes
<1> SUFFICES ASSUME mode = "sort"
             PROVE  /\ ToSet(Pieces) = used \ NodesFrom(head.from)
                    /\ Cardinality(ToSet(Pieces)) = Len(Pieces)
                    /\ sort.at = "runs" => /\ RunsOrdered(Built, 2 * sort.insize)
                                           /\ RunsOrdered(RestOfQ, sort.insize)
  BY DEF SortKeepsNodes
<1>1. PICK f \in Seq(Cell), b \in Seq(Cell), p \in Seq(Cell), r \in Seq(Cell) :
        Cut(f, b, p, r) /\ Merging(b, p, r)
  <2> HIDE DEF Cut, Counted, Merging
  <2> QED BY DEF MemoryInv, SortInv
<1>2. /\ IsList(mem, head.from, f) /\ Distinct(b) /\ Distinct(p) /\ Distinct(r)
      /\ Apart(f, b) /\ Apart(f, p) /\ Apart(f, r) /\ Apart(b, p) /\ Apart(b, r) /\ Apart(p, r)
      /\ used = Nodes(f) \cup Nodes(b) \cup Nodes(p) \cup Nodes(r)
      /\ head.to = First(b) /\ sort.tail = Final(b) /\ Linked(mem, b)
      /\ Linked(mem, p) /\ sort.psize = Len(p) /\ (p # <<>> => sort.p = p[1])
      /\ Linked(mem, r) /\ Ends(mem, r)
      /\ (sort.at = "runs" => p = <<>> /\ sort.p = First(r))
      /\ (sort.at = "take" => sort.q = First(r))
  BY <1>1 DEF Cut
<1>3. sort.at \in {"runs", "take"} /\ sort.insize \in Nat
  BY DEF MemoryInv, ShapeInv
<1>4. Built = b /\ LeftOfP = p
  BY <1>2, BuiltIs, LeftOfPIs
<1>5. RestOfQ = r
  <2>1. Walk(mem, First(r)) = r
    BY <1>2, WalkIs
  <2> QED BY <1>2, <1>3, <2>1 DEF RestOfQ
<1>6. /\ Pieces \in Seq(Cell) /\ Distinct(Pieces)
      /\ Nodes(Pieces) = Nodes(b) \cup Nodes(p) \cup Nodes(r)
  <2>1. CASE sort.at = "runs"
    <3>1. Pieces = b \o r /\ Nodes(p) = {}
      BY <1>2, <1>4, <1>5, <2>1, EmptyList DEF Pieces
    <3> QED BY <1>2, <3>1, PiecesJoin
  <2>2. CASE sort.at = "take"
    <3>1. Pieces = (b \o p) \o r
      BY <1>4, <1>5, <2>2 DEF Pieces
    <3>2. b \o p \in Seq(Cell) /\ Distinct(b \o p) /\ Nodes(b \o p) = Nodes(b) \cup Nodes(p)
      BY <1>2, PiecesJoin
    <3>3. Apart(b \o p, r)
      BY <1>2, <3>2 DEF Apart
    <3> QED BY <1>2, <3>1, <3>2, <3>3, PiecesJoin
  <2> QED BY <1>3, <2>1, <2>2
<1>7. ToSet(Pieces) = Nodes(Pieces)
  BY <1>6, LenProperties DEF ToSet, Nodes
<1>8. NodesFrom(head.from) = Nodes(f)
  BY <1>2, ListIsMade DEF NodesFrom
<1>9. ToSet(Pieces) = used \ NodesFrom(head.from)
  BY <1>2, <1>6, <1>7, <1>8 DEF Apart
<1>10. Cardinality(ToSet(Pieces)) = Len(Pieces)
  BY <1>6, <1>7, PieceFits
<1>11. ASSUME sort.at = "runs"
       PROVE  RunsOrdered(b, 2 * sort.insize) /\ RunsOrdered(r, sort.insize)
  <2>1. PICK x \in Nat : /\ x = Len(b)
                         /\ InRuns(Numbers, b, 0, x, 2 * sort.insize)
                         /\ InRuns(Numbers, r, 0, Len(r), sort.insize)
    BY <1>1, <1>11 DEF Merging, Room, InOrder, LeftOfQ
  <2>2. ASSUME NEW s \in Seq(Cell), NEW n, InRuns(Numbers, s, 0, Len(s), n)
        PROVE  RunsOrdered(s, n)
    <3>1. ASSUME NEW i \in 1..Len(s), NEW j \in 1..Len(s), i < j, (i - 1) \div n = (j - 1) \div n
          PROVE  mem[s[i]].num < mem[s[j]].num
      <4>1. i - 0 - 1 = i - 1 /\ j - 0 - 1 = j - 1 /\ 0 < i /\ j <= Len(s)
        BY LenProperties
      <4>2. Numbers[s[i]] < Numbers[s[j]]
        BY <2>2, <3>1, <4>1 DEF InRuns
      <4>3. s[i] \in Cell /\ s[j] \in Cell
        BY ElementOfSeq
      <4> QED BY <4>2, <4>3 DEF Numbers
    <3> QED BY <3>1 DEF RunsOrdered
  <2> QED BY <2>1, <2>2
<1> QED BY <1>4, <1>5, <1>9, <1>10, <1>11

(* Every pointer is NULL or an address, and what a loop or the sort stands *)
(* on is allocated.                                                        *)
THEOREM ListsTyped == Spec => []ListsTypeOK
BY MemoryIsKept, TypesOfMemory, PTL

(* The two lists are well made, apart from each other, and hold exactly    *)
(* what is allocated; dis_cleanup leaves nothing allocated.                *)
THEOREM MemoryIsHeld == Spec => []ListsHoldMemory
BY MemoryIsKept, ListsOfMemory, PTL

(* DL_SORT never loses, repeats or misplaces a node, and its runs are in   *)
(* order.                                                                  *)
THEOREM SortHolds == Spec => []SortKeepsNodes
BY MemoryIsKept, SortOfMemory, PTL
-----------------------------------------------------------------------------
(* Numbers in order: as many as there are in the set of them, which says   *)
(* what the sequence is; and there is one for every finite set.            *)
Rising(s) == \A i, j \in 1..Len(s) : i < j => s[i] < s[j]

(* A sequence that repeats nothing has as many elements as its set. *)
LEMMA DistinctCounts ==
  ASSUME NEW S, NEW s \in Seq(S), Distinct(s)
  PROVE  /\ ToSet(s) = {s[i] : i \in 1..Len(s)} /\ IsFiniteSet(ToSet(s))
         /\ Cardinality(ToSet(s)) = Len(s) /\ Len(s) \in Nat
<1>1. Len(s) \in Nat /\ s \in [1..Len(s) -> S] /\ DOMAIN s = 1..Len(s)
  BY LenProperties
<1>2. ToSet(s) = {s[i] : i \in 1..Len(s)}
  BY <1>1 DEF ToSet
<1>3. s \in Bijection(1..Len(s), ToSet(s))
  <2>1. s \in [1..Len(s) -> ToSet(s)]
    BY <1>1, <1>2
  <2>2. \A x \in ToSet(s) : \E i \in 1..Len(s) : s[i] = x
    BY <1>2
  <2> QED BY <2>1, <2>2 DEF Bijection, Injection, Surjection, Distinct, IsInjective
<1>4. IsFiniteSet(1..Len(s)) /\ Cardinality(1..Len(s)) = Len(s)
  BY <1>1, FS_Interval
<1>5. IsFiniteSet(ToSet(s)) /\ Cardinality(ToSet(s)) = Len(s)
  BY <1>3, <1>4, FS_Bijection DEF ExistsBijection
<1> QED BY <1>1, <1>2, <1>5

(* A sequence in order repeats nothing. *)
LEMMA RisingCounts ==
  ASSUME NEW s \in Seq(Nat), Rising(s)
  PROVE  /\ Distinct(s) /\ ToSet(s) = {s[i] : i \in 1..Len(s)} /\ IsFiniteSet(ToSet(s))
         /\ Cardinality(ToSet(s)) = Len(s) /\ Len(s) \in Nat
<1>1. Distinct(s)
  <2>1. ASSUME NEW i \in 1..Len(s), NEW j \in 1..Len(s), i # j PROVE s[i] # s[j]
    <3>1. i < j \/ j < i
      BY <2>1, LenProperties
    <3>2. s[i] \in Nat /\ s[j] \in Nat
      BY ElementOfSeq
    <3> QED BY <3>1, <3>2 DEF Rising
  <2> QED BY <2>1 DEF Distinct
<1> QED BY <1>1, DistinctCounts

(* The sequence in order is known from the set of its numbers. *)
LEMMA InOrderIs ==
  ASSUME NEW s \in Seq(Nat), Rising(s)
  PROVE  InOrderOf(ToSet(s)) = s
<1> DEFINE S == ToSet(s)
           below(n) == Cardinality({m \in S : m < n})
<1>1. /\ Distinct(s) /\ S = {s[i] : i \in 1..Len(s)} /\ Cardinality(S) = Len(s) /\ Len(s) \in Nat
      /\ \A i \in 1..Len(s) : s[i] \in Nat /\ s[i] \in S
  BY RisingCounts, ElementOfSeq
<1> HIDE DEF S
<1>2. Len(s) \in Nat /\ \A i \in 1..Len(s) : s[i] \in Nat
  BY <1>1
<1>3. ASSUME NEW i \in 1..Len(s) PROVE below(s[i]) = i - 1
  <2> DEFINE u == SubSeq(s, 1, i - 1)
  <2>1. u \in Seq(Nat) /\ Len(u) = i - 1 /\ \A j \in 1..(i - 1) : u[j] = s[j]
    OBVIOUS
  <2> HIDE DEF u
  <2>2. Rising(u)
    <3>1. \A j \in 1..(i - 1) : j \in 1..Len(s)
      BY <1>2
    <3> QED BY <2>1, <3>1 DEF Rising
  <2>3. ToSet(u) = {u[j] : j \in 1..(i - 1)} /\ Cardinality(ToSet(u)) = i - 1
    BY <2>1, <2>2, RisingCounts
  <2>4. ASSUME NEW j \in 1..Len(s) PROVE s[j] < s[i] <=> j \in 1..(i - 1)
    <3>1. CASE j < i
      BY <1>2, <3>1 DEF Rising
    <3>2. CASE j = i
      BY <1>2, <3>2
    <3>3. CASE j > i
      <4>1. s[i] < s[j] /\ s[i] \in Nat /\ s[j] \in Nat
        BY <1>2, <3>3 DEF Rising
      <4> QED BY <1>2, <3>3, <4>1
    <3> QED BY <1>2, <3>1, <3>2, <3>3
  <2>5. {m \in S : m < s[i]} = ToSet(u)
    <3>1. \A j \in 1..(i - 1) : j \in 1..Len(s)
      BY <1>2
    <3> QED BY <1>1, <2>1, <2>3, <2>4, <3>1
  <2> QED BY <2>3, <2>5
<1> HIDE DEF below
<1>4. ASSUME NEW i \in 1..Len(s) PROVE (CHOOSE n \in S : below(n) = i - 1) = s[i]
  <2>1. ASSUME NEW n \in S, below(n) = i - 1 PROVE n = s[i]
    <3>1. PICK j \in 1..Len(s) : n = s[j]
      BY <1>1
    <3>2. j - 1 = i - 1
      BY <1>3, <2>1, <3>1
    <3>3. j = i
      BY <1>2, <3>2
    <3> QED BY <3>1, <3>3
  <2> QED BY <1>1, <1>3, <2>1
<1>5. InOrderOf(S) = [i \in 1..Len(s) |-> s[i]]
  BY <1>1, <1>4 DEF InOrderOf, below
<1>6. s = [i \in 1..Len(s) |-> s[i]]
  BY LenProperties
<1> QED BY <1>5, <1>6 DEF S

(* Every finite set of numbers is that of a sequence in order. *)
LEMMA OrderExists ==
  ASSUME NEW A \in SUBSET Nat, IsFiniteSet(A)
  PROVE  \E s \in Seq(Nat) : Rising(s) /\ ToSet(s) = A
<1> DEFINE Has(B) == \E s \in Seq(Nat) : Rising(s) /\ ToSet(s) = B
           T == {Cardinality(B) : B \in {B \in SUBSET A : ~Has(B)}}
<1>1. \A B \in SUBSET A : IsFiniteSet(B) /\ Cardinality(B) \in Nat
  BY FS_Subset, FS_CardinalityType
<1>2. ASSUME T # {} PROVE FALSE
  <2>1. PICK n \in T : \A v \in T : n <= v
    <3>1. T \in SUBSET Nat
      BY <1>1
    <3> HIDE DEF T
    <3> QED BY <1>2, <3>1, LeastOf
  <2>2. PICK B \in SUBSET A : ~Has(B) /\ n = Cardinality(B)
    BY <2>1
  <2>3. \A C \in SUBSET A : ~Has(C) => Cardinality(B) <= Cardinality(C)
    BY <2>1, <2>2
  <2>4. B # {}
    <3>1. ASSUME B = {} PROVE Has(B)
      <4>1. <<>> \in Seq(Nat) /\ Rising(<<>>) /\ ToSet(<<>>) = {}
        BY DEF Rising, ToSet
      <4> QED BY <3>1, <4>1
    <3> QED BY <2>2, <3>1
  <2>5. PICK a \in B : \A b \in B : a <= b
    <3>1. B \in SUBSET Nat
      OBVIOUS
    <3> QED BY <2>4, <3>1, LeastOf
  <2>6. Has(B \ {a})
    <3>1. Cardinality(B \ {a}) = Cardinality(B) - 1 /\ Cardinality(B) \in Nat
      BY <1>1, <2>5, FS_RemoveElement
    <3>2. B \ {a} \in SUBSET A /\ ~(Cardinality(B) <= Cardinality(B \ {a}))
      BY <3>1
    <3> HIDE DEF Has
    <3> QED BY <2>3, <3>2
  <2>7. PICK s \in Seq(Nat) : Rising(s) /\ ToSet(s) = B \ {a}
    BY <2>6
  <2> DEFINE u == <<a>> \o s
  <2>8. a \in Nat /\ <<a>> \in Seq(Nat) /\ Len(<<a>>) = 1 /\ <<a>>[1] = a
    BY <2>5
  <2>9. /\ u \in Seq(Nat) /\ Len(s) \in Nat /\ Len(u) = Len(s) + 1
        /\ \A i \in 1..Len(u) : u[i] = IF i = 1 THEN a ELSE s[i - 1]
    <3>1. u \in Seq(Nat) /\ Len(u) = Len(<<a>>) + Len(s)
          /\ \A i \in 1..(Len(<<a>>) + Len(s)) : u[i] = IF i <= Len(<<a>>) THEN <<a>>[i] ELSE s[i - Len(<<a>>)]
      BY <2>8, ConcatProperties
    <3>2. Len(s) \in Nat
      BY LenProperties
    <3> HIDE DEF u
    <3>3. Len(u) = Len(s) + 1
      BY <2>8, <3>1, <3>2
    <3>4. ASSUME NEW i \in 1..Len(u) PROVE u[i] = IF i = 1 THEN a ELSE s[i - 1]
      <4>1. i \in 1..(1 + Len(s)) /\ (i <= 1 <=> i = 1)
        BY <3>2, <3>3
      <4>2. u[i] = IF i <= 1 THEN <<a>>[i] ELSE s[i - 1]
        BY <2>8, <3>1, <4>1
      <4> QED BY <2>8, <4>1, <4>2
    <3> QED BY <3>1, <3>2, <3>3, <3>4
  <2> HIDE DEF u
  <2>10. ToSet(s) = {s[i] : i \in 1..Len(s)} /\ \A i \in 1..Len(s) : s[i] \in Nat /\ s[i] \in B \ {a}
    BY <2>7, RisingCounts
  <2>11. Rising(u)
    <3>1. ASSUME NEW i \in 1..Len(u), NEW j \in 1..Len(u), i < j PROVE u[i] < u[j]
      <4>1. j # 1 /\ j - 1 \in 1..Len(s) /\ u[j] = s[j - 1]
        BY <2>9, <3>1
      <4>2. CASE i = 1
        <5>1. u[i] = a /\ s[j - 1] \in B /\ s[j - 1] # a /\ s[j - 1] \in Nat /\ a <= s[j - 1]
          BY <2>5, <2>9, <2>10, <4>1, <4>2
        <5> QED BY <2>8, <4>1, <5>1
      <4>3. CASE i # 1
        <5>1. i - 1 \in 1..Len(s) /\ u[i] = s[i - 1] /\ i - 1 < j - 1
          BY <2>9, <3>1, <4>3
        <5> QED BY <2>7, <4>1, <5>1 DEF Rising
      <4> QED BY <4>2, <4>3
    <3> QED BY <3>1 DEF Rising
  <2>12. ToSet(u) = B
    <3>1. ToSet(u) = {u[i] : i \in 1..Len(u)}
      BY <2>9, <2>11, RisingCounts
    <3>2. ASSUME NEW i \in 1..Len(u) PROVE u[i] \in B
      <4>1. CASE i = 1
        BY <2>5, <2>9, <4>1
      <4>2. CASE i # 1
        <5>1. i - 1 \in 1..Len(s)
          BY <2>9, <4>2
        <5> QED BY <2>9, <2>10, <4>2, <5>1
      <4> QED BY <4>1, <4>2
    <3>3. ASSUME NEW x \in B PROVE \E i \in 1..Len(u) : u[i] = x
      <4>1. CASE x = a
        <5>1. 1 \in 1..Len(u)
          BY <2>9
        <5> QED BY <2>9, <4>1, <5>1
      <4>2. CASE x # a
        <5>1. PICK i \in 1..Len(s) : s[i] = x
          BY <2>7, <2>10, <4>2
        <5>2. i + 1 \in 1..Len(u) /\ (i + 1) - 1 = i /\ i + 1 # 1
          BY <2>9
        <5>3. u[i + 1] = x
          BY <2>9, <5>1, <5>2
        <5> QED BY <5>2, <5>3
      <4> QED BY <4>1, <4>2
    <3> QED BY <3>1, <3>2, <3>3
  <2> QED BY <2>2, <2>9, <2>11, <2>12
<1>3. Has(A)
  <2>1. A \in SUBSET A
    OBVIOUS
  <2> HIDE DEF Has
  <2> QED BY <1>2, <2>1
<1> QED BY <1>3
-----------------------------------------------------------------------------
(* What the properties take from memory for the abstract lists. *)
Place(s, c) == LET I == {i \in 1..Len(s) : s[i] = c} IN IF I # {} THEN Min(I) ELSE 0

(* Every node of a list has one place. *)
LEMMA PlaceIs ==
  ASSUME NEW s \in Seq(Cell), Distinct(s), NEW k \in 1..Len(s)
  PROVE  Place(s, s[k]) = k
<1> DEFINE I == {i \in 1..Len(s) : s[i] = s[k]}
<1>1. I = {k}
  BY DEF Distinct
<1>2. Min(I) = k
  <2>1. Min(I) = CHOOSE x \in I : \A y \in I : x <= y
    BY DEF Min
  <2> HIDE DEF I
  <2> QED BY <1>1, <2>1, LenProperties
<1> QED BY <1>1, <1>2 DEF Place

(* Between two statements of a stage, now and in the next state. *)
LEMMA ViewOfRun ==
  \A f, t \in Seq(Cell) :
    mode = "run" /\ OnLists(f, t) =>
      /\ FromSeq = NumsOf(f) /\ ToSeq = NumsOf(t)
      /\ iter = NULL => Position = 0
      /\ \A k \in 1..Len(f) : iter = f[k] => Position = k
<1> SUFFICES ASSUME NEW f \in Seq(Cell), NEW t \in Seq(Cell), mode = "run", OnLists(f, t)
             PROVE  /\ FromSeq = NumsOf(f) /\ ToSeq = NumsOf(t)
                    /\ iter = NULL => Position = 0
                    /\ \A k \in 1..Len(f) : iter = f[k] => Position = k
  OBVIOUS
<1>1. Walk(mem, head.from) = f /\ Distinct(f)
  BY ListIsMade DEF OnLists, IsList
<1>2. Walk(mem, head.to) = t
  BY ListIsMade DEF OnLists
<1>3. FromSeq = NumsOf(f) /\ ToSeq = NumsOf(t)
  BY <1>1, <1>2 DEF FromSeq, ToSeq
<1>4. Position = IF iter # NULL THEN Place(f, iter) ELSE 0
  BY <1>1 DEF Position, SelectInSeq, Place
<1>5. ASSUME NEW k \in 1..Len(f), iter = f[k] PROVE Position = k
  <2>1. iter # NULL
    BY <1>5, ElementOfSeq, CellAssumption
  <2> QED BY <1>1, <1>4, <1>5, <2>1, PlaceIs
<1> QED BY <1>3, <1>4, <1>5

LEMMA ViewOfRunNext ==
  (\A f, t \in Seq(Cell) :
    mode = "run" /\ OnLists(f, t) =>
      /\ FromSeq = NumsOf(f) /\ ToSeq = NumsOf(t)
      /\ iter = NULL => Position = 0
      /\ \A k \in 1..Len(f) : iter = f[k] => Position = k)'
BY ViewOfRun, PTL

(* While DL_SORT is at work, now and in the next state. *)
LEMMA ViewOfSort ==
  \A f \in Seq(Cell) :
    mode = "sort" /\ IsList(mem, head.from, f) =>
      /\ FromSeq = NumsOf(f) /\ Position = 0
      /\ ToSeq = InOrderOf({mem[c].num : c \in used \ Nodes(f)})
<1> SUFFICES ASSUME NEW f \in Seq(Cell), mode = "sort", IsList(mem, head.from, f)
             PROVE  /\ FromSeq = NumsOf(f) /\ Position = 0
                    /\ ToSeq = InOrderOf({mem[c].num : c \in used \ Nodes(f)})
  OBVIOUS
<1>1. Walk(mem, head.from) = f /\ NodesFrom(head.from) = Nodes(f)
  BY ListIsMade DEF NodesFrom
<1> QED BY <1>1 DEF FromSeq, ToSeq, Position

LEMMA ViewOfSortNext ==
  (\A f \in Seq(Cell) :
    mode = "sort" /\ IsList(mem, head.from, f) =>
      /\ FromSeq = NumsOf(f) /\ Position = 0
      /\ ToSeq = InOrderOf({mem[c].num : c \in used \ Nodes(f)}))'
BY ViewOfSort, PTL

(* From dis_cleanup on, now and in the next state. *)
LEMMA ViewOfEnd ==
  mode \in {"cleanFrom", "cleanTo", "end"} => FromSeq = <<>> /\ ToSeq = <<>> /\ Position = 0
BY DEF FromSeq, ToSeq, Position

LEMMA ViewOfEndNext ==
  (mode \in {"cleanFrom", "cleanTo", "end"} => FromSeq = <<>> /\ ToSeq = <<>> /\ Position = 0)'
BY ViewOfEnd, PTL
-----------------------------------------------------------------------------
(* Every step of the lists in memory is one of the abstract ones, or none. *)
LEMMA AppendTo ==
  ASSUME NEW n \in Nat, NEW s, s = [i \in 1..n |-> s[i]], NEW x
  PROVE  /\ Append(s, x) = [i \in 1..(n + 1) |-> IF i <= n THEN s[i] ELSE x]
         /\ Len(s) = n
<1> DEFINE T == {s[i] : i \in 1..n} \cup {x}
<1>1. s \in [1..n -> T]
  OBVIOUS
<1> HIDE DEF T
<1>2. s \in Seq(T) /\ Len(s) = n
  BY <1>1
<1> QED BY <1>2

(* FetchNode is the abstract Fetch. *)
LEMMA FetchIsFetch ==
  ASSUME MemoryInv, NEW c \in Cell, FetchNode(c)
  PROVE  Queues!Next
<1>1. mode = "run" /\ iter = NULL /\ num < MaxInst /\ mode' = "run" /\ iter' = NULL
  BY DEF FetchNode, Idle
<1>2. PICK f \in Seq(Cell), t \in Seq(Cell) :
        /\ OnLists(f, t) /\ OnLists(Append(f, c), t)'
        /\ \A d \in used : mem'[d].num = mem[d].num
        /\ mem'[c].num = num + 1 /\ c \notin used
  BY FetchKeeps
<1>3. FromSeq = NumsOf(f) /\ ToSeq = NumsOf(t) /\ Position = 0
  BY <1>1, <1>2, ViewOfRun
<1>4. /\ Append(f, c) \in Seq(Cell) /\ Len(Append(f, c)) = Len(f) + 1 /\ Len(f) \in Nat
      /\ \A i \in 1..Len(f) : Append(f, c)[i] = f[i]
      /\ Append(f, c)[Len(f) + 1] = c
  <2>1. Distinct(f) /\ c \notin Nodes(f)
    BY <1>2 DEF OnLists, IsList
  <2> QED BY <2>1, AppendedNodes
<1>5. FromSeq' = NumsOf(Append(f, c))' /\ ToSeq' = NumsOf(t)' /\ Position' = 0
  BY <1>1, <1>2, <1>4, ViewOfRunNext
<1>6. /\ \A i \in 1..Len(f) : f[i] \in used
      /\ \A i \in 1..Len(t) : t[i] \in used
  BY <1>2 DEF OnLists, Nodes
<1>7. NumsOf(t)' = NumsOf(t)
  BY <1>2, <1>6 DEF NumsOf
<1>8. NumsOf(Append(f, c))' = Append(NumsOf(f), num + 1)
  <2> DEFINE s == NumsOf(f)
             u == NumsOf(Append(f, c))'
  <2>1. /\ u = [i \in 1..(Len(f) + 1) |-> mem'[Append(f, c)[i]].num]
        /\ s = [i \in 1..Len(f) |-> mem[f[i]].num]
    BY <1>4 DEF NumsOf
  <2>2. \A i \in 1..Len(f) : mem'[Append(f, c)[i]].num = mem[f[i]].num
    BY <1>2, <1>4, <1>6
  <2>3. mem'[Append(f, c)[Len(f) + 1]].num = num + 1
    BY <1>2, <1>4
  <2> HIDE DEF s, u
  <2>4. s = [i \in 1..Len(f) |-> s[i]]
    BY <2>1
  <2>5. Append(s, num + 1) = [i \in 1..(Len(f) + 1) |-> IF i <= Len(f) THEN s[i] ELSE num + 1]
    BY <1>4, <2>4, AppendTo
  <2>6. \A i \in 1..(Len(f) + 1) : u[i] = IF i <= Len(f) THEN s[i] ELSE num + 1
    <3>1. \A i \in 1..(Len(f) + 1) : i <= Len(f) => i \in 1..Len(f)
      BY <1>4
    <3>2. \A i \in 1..(Len(f) + 1) : ~(i <= Len(f)) => i = Len(f) + 1
      BY <1>4
    <3> QED BY <2>1, <2>2, <2>3, <3>1, <3>2
  <2> QED BY <2>1, <2>5, <2>6 DEF s, u
<1>9. num + 1 \in 1..MaxInst
  BY <1>1, InstAssumption DEF MemoryInv, ShapeInv
<1>10. Queues!Fetch(num + 1)
  BY <1>3, <1>5, <1>7, <1>8 DEF Queues!Fetch
<1> QED BY <1>9, <1>10 DEF Queues!Next

(* LoopStart is the abstract Start. *)
LEMMA LoopStartIsStart ==
  ASSUME MemoryInv, LoopStart
  PROVE  Queues!Next
<1>1. /\ mode = "run" /\ iter = NULL /\ head.from # NULL /\ iter' = head.from
      /\ mem' = mem /\ used' = used /\ head' = head /\ num' = num /\ mode' = mode
  BY DEF LoopStart, Idle
<1>2. PICK f \in Seq(Cell), t \in Seq(Cell) : OnLists(f, t)
  BY <1>1 DEF MemoryInv, RunInv
<1>3. f # <<>> /\ 1 \in 1..Len(f) /\ iter' = f[1] /\ Len(f) \in Nat
  <2>1. f # <<>> /\ head.from = f[1]
    BY <1>1, <1>2 DEF OnLists, IsList, First
  <2> QED BY <1>1, <2>1, EmptySeq, LenProperties
<1>4. OnLists(f, t)'
  <2>1. iter' \in Nodes(f)
    BY <1>3 DEF Nodes
  <2> QED BY <1>1, <1>2, <2>1 DEF OnLists
<1>5. FromSeq = NumsOf(f) /\ ToSeq = NumsOf(t) /\ Position = 0
  BY <1>1, <1>2, ViewOfRun
<1>6. FromSeq' = NumsOf(f)' /\ ToSeq' = NumsOf(t)' /\ Position' = 1
  BY <1>1, <1>3, <1>4, ViewOfRunNext
<1>7. NumsOf(f)' = NumsOf(f) /\ NumsOf(t)' = NumsOf(t)
  BY <1>1 DEF NumsOf
<1>8. NumsOf(f) # <<>>
  <2>1. Len(NumsOf(f)) = Len(f)
    BY <1>3 DEF NumsOf
  <2> QED BY <1>3, <2>1
<1>9. Queues!Start
  BY <1>5, <1>6, <1>7, <1>8 DEF Queues!Start
<1> QED BY <1>9 DEF Queues!Next

(* The loop stands on a node of the first list, and the next one of it is *)
(* at the next place.                                                      *)
LEMMA NextPlace ==
  ASSUME NEW m, NEW h, NEW f, IsList(m, h, f), NEW k \in 1..Len(f)
  PROVE  /\ k < Len(f) => m[f[k]].next = f[k + 1] /\ k + 1 \in 1..Len(f)
         /\ ~(k < Len(f)) => m[f[k]].next = NULL /\ k = Len(f)
         /\ Len(f) \in Nat /\ f \in Seq(Cell) /\ Distinct(f)
<1>1. Len(f) \in Nat /\ f \in Seq(Cell) /\ Distinct(f) /\ Linked(m, f) /\ Ends(m, f)
  BY LenProperties DEF IsList
<1>2. CASE k < Len(f)
  <2>1. k \in 1..(Len(f) - 1) /\ k + 1 \in 1..Len(f)
    BY <1>1, <1>2
  <2> QED BY <1>1, <1>2, <2>1 DEF Linked
<1>3. CASE ~(k < Len(f))
  <2>1. k = Len(f) /\ Len(f) # 0
    BY <1>1, <1>3
  <2>2. f # <<>>
    BY <1>1, <2>1, EmptySeq
  <2> QED BY <1>1, <1>3, <2>1, <2>2 DEF Ends
<1> QED BY <1>2, <1>3

(* LoopSkip is the abstract Skip. *)
LEMMA LoopSkipIsSkip ==
  ASSUME MemoryInv, LoopSkip
  PROVE  Queues!Next
<1>1. /\ mode = "run" /\ iter # NULL /\ iter' = mem[iter].next
      /\ mem' = mem /\ used' = used /\ head' = head /\ num' = num /\ mode' = mode
  BY DEF LoopSkip
<1>2. PICK f \in Seq(Cell), t \in Seq(Cell) : OnLists(f, t)
  BY <1>1 DEF MemoryInv, RunInv
<1>3. PICK k \in 1..Len(f) : iter = f[k]
  BY <1>1, <1>2 DEF OnLists, Nodes
<1>4. /\ k < Len(f) => iter' = f[k + 1] /\ k + 1 \in 1..Len(f)
      /\ ~(k < Len(f)) => iter' = NULL
      /\ Len(f) \in Nat
  BY <1>1, <1>2, <1>3, NextPlace DEF OnLists
<1>5. OnLists(f, t)'
  <2>1. iter' = NULL \/ iter' \in Nodes(f)
    BY <1>4 DEF Nodes
  <2> QED BY <1>1, <1>2, <2>1 DEF OnLists
<1>6. FromSeq = NumsOf(f) /\ ToSeq = NumsOf(t) /\ Position = k
  BY <1>1, <1>2, <1>3, ViewOfRun
<1>7. /\ FromSeq' = NumsOf(f)' /\ ToSeq' = NumsOf(t)'
      /\ Position' = IF k < Len(f) THEN k + 1 ELSE 0
  BY <1>1, <1>4, <1>5, ViewOfRunNext
<1>8. NumsOf(f)' = NumsOf(f) /\ NumsOf(t)' = NumsOf(t) /\ Len(NumsOf(f)) = Len(f)
  BY <1>1, <1>4 DEF NumsOf
<1>9. k # 0
  BY <1>4
<1>10. Queues!Skip
  BY <1>6, <1>7, <1>8, <1>9 DEF Queues!Skip, Queues!Next1
<1> QED BY <1>10 DEF Queues!Next

(* LoopMove is the abstract Pass, whatever node the loop stands on. *)
LEMMA LoopMoveIsPass ==
  ASSUME MemoryInv, NEW c \in Cell, LoopMove(c)
  PROVE  Queues!Next
<1>1. mode = "run" /\ iter # NULL /\ mode' = "run"
  BY DEF LoopMove
<1>2. PICK f \in Seq(Cell), t \in Seq(Cell) : \E k \in 1..Len(f) :
        /\ OnLists(f, t) /\ OnLists(RemoveAt(f, k), Append(t, c))'
        /\ iter = f[k] /\ iter' = mem[iter].next
        /\ \A d \in used \ {iter} : mem'[d].num = mem[d].num
        /\ mem'[c].num = mem[iter].num /\ c \notin used
  BY LoopMoveKeeps
<1>3. PICK k \in 1..Len(f), f2 \in Seq(Cell), t2 \in Seq(Cell) :
        /\ f2 = RemoveAt(f, k) /\ t2 = Append(t, c)
        /\ OnLists(f, t) /\ OnLists(f2, t2)'
        /\ iter = f[k] /\ iter' = mem[iter].next
        /\ \A d \in used \ {iter} : mem'[d].num = mem[d].num
        /\ mem'[c].num = mem[iter].num /\ c \notin used
  <2>1. PICK k \in 1..Len(f) :
          /\ OnLists(f, t) /\ OnLists(RemoveAt(f, k), Append(t, c))'
          /\ iter = f[k] /\ iter' = mem[iter].next
          /\ \A d \in used \ {iter} : mem'[d].num = mem[d].num
          /\ mem'[c].num = mem[iter].num /\ c \notin used
    BY <1>2
  <2>2. Distinct(f)
    BY <2>1 DEF OnLists, IsList
  <2>3. RemoveAt(f, k) \in Seq(Cell) /\ Append(t, c) \in Seq(Cell)
    BY <2>2, RemovedNodes
  <2> QED BY <2>1, <2>3
<1>4. /\ Distinct(f) /\ Distinct(t) /\ c \notin Nodes(t) /\ IsList(mem, head.from, f)
      /\ Nodes(f) \subseteq used /\ Nodes(t) \subseteq used /\ iter \notin Nodes(t)
  <2>1. iter \in Nodes(f)
    BY <1>3 DEF Nodes
  <2> QED BY <1>3, <2>1 DEF OnLists, IsList, Apart
<1>5. /\ f2 \in Seq(Cell) /\ Len(f2) = Len(f) - 1 /\ Len(f) \in Nat
      /\ \A j \in 1..(k - 1) : f2[j] = f[j]
      /\ \A j \in k..(Len(f) - 1) : f2[j] = f[j + 1]
  <2>1. f2 = RemoveAt(f, k) /\ k \in 1..Len(f) /\ Distinct(f)
    BY <1>3, <1>4
  <2>2. /\ RemoveAt(f, k) \in Seq(Cell) /\ Len(RemoveAt(f, k)) = Len(f) - 1 /\ Len(f) \in Nat
        /\ \A j \in 1..(k - 1) : RemoveAt(f, k)[j] = f[j]
        /\ \A j \in k..(Len(f) - 1) : RemoveAt(f, k)[j] = f[j + 1]
    BY <2>1, RemovedNodes
  <2> QED BY <2>1, <2>2
<1>6. /\ t2 \in Seq(Cell) /\ Len(t2) = Len(t) + 1 /\ Len(t) \in Nat
      /\ \A i \in 1..Len(t) : t2[i] = t[i]
      /\ t2[Len(t) + 1] = c
  BY <1>3, <1>4, AppendedNodes
<1>7. FromSeq = NumsOf(f) /\ ToSeq = NumsOf(t) /\ Position = k
  BY <1>1, <1>3, ViewOfRun
<1>8. Position' = IF k < Len(f) THEN k ELSE 0
  <2>1. CASE k < Len(f)
    <3>1. iter' = f[k + 1]
      BY <1>3, <1>4, <2>1, NextPlace
    <3>2. k \in k..(Len(f) - 1) /\ k \in 1..Len(f2)
      BY <1>5, <2>1
    <3>3. iter' = f2[k]
      BY <1>5, <3>1, <3>2
    <3> QED BY <1>1, <1>3, <1>5, <1>6, <2>1, <3>2, <3>3, ViewOfRunNext
  <2>2. CASE ~(k < Len(f))
    <3>1. iter' = NULL
      BY <1>3, <1>4, <2>2, NextPlace
    <3> QED BY <1>1, <1>3, <1>5, <1>6, <2>2, <3>1, ViewOfRunNext
  <2> QED BY <2>1, <2>2
<1>9. FromSeq' = NumsOf(f2)' /\ ToSeq' = NumsOf(t2)'
  BY <1>1, <1>3, <1>5, <1>6, ViewOfRunNext
<1>10. /\ \A i \in 1..Len(f) : i # k => f[i] \in used /\ f[i] # iter
       /\ \A i \in 1..Len(t) : t[i] \in used /\ t[i] # iter
  BY <1>3, <1>4 DEF Nodes, Distinct
<1>11. PICK s, u :
         /\ s = [i \in 1..Len(f) |-> mem[f[i]].num]
         /\ u = [i \in 1..Len(t) |-> mem[t[i]].num]
  OBVIOUS
<1>12. NumsOf(f) = s /\ NumsOf(t) = u /\ Len(s) = Len(f)
  BY <1>5, <1>11 DEF NumsOf
<1>13. NumsOf(t2)' = Append(u, s[k])
  <2>1. NumsOf(t2)' = [i \in 1..(Len(t) + 1) |-> mem'[t2[i]].num]
    BY <1>6 DEF NumsOf
  <2>2. Append(u, s[k]) = [i \in 1..(Len(t) + 1) |-> IF i <= Len(t) THEN u[i] ELSE s[k]]
    <3>1. u = [i \in 1..Len(t) |-> u[i]]
      BY <1>11
    <3> QED BY <1>6, <3>1, AppendTo
  <2>3. ASSUME NEW i \in 1..(Len(t) + 1)
        PROVE  mem'[t2[i]].num = IF i <= Len(t) THEN u[i] ELSE s[k]
    <3>1. CASE i <= Len(t)
      <4>1. i \in 1..Len(t)
        BY <1>6, <3>1
      <4> QED BY <1>3, <1>6, <1>10, <1>11, <3>1, <4>1
    <3>2. CASE ~(i <= Len(t))
      <4>1. i = Len(t) + 1
        BY <1>6, <3>2
      <4> QED BY <1>3, <1>6, <1>11, <3>2, <4>1
    <3> QED BY <3>1, <3>2
  <2> QED BY <2>1, <2>2, <2>3
<1>14. NumsOf(f2)' = RemoveAt(s, k)
  <2> DEFINE T == {s[i] : i \in 1..Len(f)}
  <2>1. s \in [1..Len(f) -> T]
    BY <1>11
  <2> HIDE DEF T
  <2>2. s \in Seq(T) /\ k \in 1..Len(s)
    BY <1>5, <1>12, <2>1
  <2>3. PICK w : w = RemoveAt(s, k)
    OBVIOUS
  <2>4. /\ w \in Seq(T) /\ Len(w) = Len(f) - 1
        /\ \A j \in 1..(k - 1) : w[j] = s[j]
        /\ \A j \in k..(Len(f) - 1) : w[j] = s[j + 1]
    BY <1>12, <2>2, <2>3, RemovedIs
  <2>5. NumsOf(f2)' = [i \in 1..(Len(f) - 1) |-> mem'[f2[i]].num]
    BY <1>5 DEF NumsOf
  <2>6. ASSUME NEW i \in 1..(Len(f) - 1) PROVE mem'[f2[i]].num = w[i]
    <3>1. CASE i < k
      <4>1. i \in 1..(k - 1) /\ i \in 1..Len(f) /\ i # k
        BY <1>5, <3>1
      <4>2. f2[i] = f[i] /\ w[i] = s[i] /\ s[i] = mem[f[i]].num
        BY <1>5, <1>11, <2>4, <4>1
      <4>3. f[i] \in used \ {iter}
        BY <1>10, <4>1
      <4> QED BY <1>3, <4>2, <4>3
    <3>2. CASE i >= k
      <4>1. i \in k..(Len(f) - 1) /\ i + 1 \in 1..Len(f) /\ i + 1 # k
        BY <1>5, <3>2
      <4>2. f2[i] = f[i + 1] /\ w[i] = s[i + 1] /\ s[i + 1] = mem[f[i + 1]].num
        BY <1>5, <1>11, <2>4, <4>1
      <4>3. f[i + 1] \in used \ {iter}
        BY <1>10, <4>1
      <4> QED BY <1>3, <4>2, <4>3
    <3> QED BY <1>5, <3>1, <3>2
  <2>7. w = [i \in 1..(Len(f) - 1) |-> w[i]]
    BY <2>4
  <2> QED BY <2>3, <2>5, <2>6, <2>7
<1>15. k # 0
  BY <1>5
<1>16. Queues!Pass
  BY <1>7, <1>8, <1>9, <1>12, <1>13, <1>14, <1>15
     DEF Queues!Pass, Queues!RemoveAt, RemoveAt
<1> QED BY <1>16 DEF Queues!Next

(* CleanStart is the abstract Clear. *)
LEMMA CleanStartIsClear ==
  ASSUME MemoryInv, CleanStart
  PROVE  Queues!Next
<1>1. mode = "run" /\ iter = NULL /\ mode' = "cleanFrom"
  BY DEF CleanStart, Idle
<1>2. PICK f \in Seq(Cell), t \in Seq(Cell) : OnLists(f, t)
  BY <1>1 DEF MemoryInv, RunInv
<1>3. Position = 0
  BY <1>1, <1>2, ViewOfRun
<1>4. FromSeq' = <<>> /\ ToSeq' = <<>> /\ Position' = 0
  BY <1>1, ViewOfEndNext
<1>5. Queues!Clear
  BY <1>3, <1>4 DEF Queues!Clear
<1> QED BY <1>5 DEF Queues!Next

(* The rest of dis_cleanup shows nothing more. *)
LEMMA CleanRestIsNothing ==
  ASSUME CleanNode \/ CleanFromEnd \/ CleanToEnd
  PROVE  UNCHANGED <<FromSeq, ToSeq, Position>>
<1>1. mode \in {"cleanFrom", "cleanTo"} /\ mode' \in {"cleanFrom", "cleanTo", "end"}
  BY DEF CleanNode, CleanFromEnd, CleanToEnd
<1> QED BY <1>1, ViewOfEnd, ViewOfEndNext

(* DL_SORT starts: the numbers of the list are taken to be in order.       *)
LEMMA SortStartIsSort ==
  ASSUME MemoryInv, SortStart
  PROVE  Queues!Next
<1>1. /\ mode = "run" /\ iter = NULL /\ mode' = "sort" /\ head'.from = head.from
      /\ mem' = mem /\ used' = used /\ num' = num
  BY DEF SortStart, Idle, MemoryInv, ShapeInv
<1>2. PICK f \in Seq(Cell), t \in Seq(Cell) : OnLists(f, t)
  BY <1>1 DEF MemoryInv, RunInv
<1>3. /\ IsList(mem, head.from, f) /\ Distinct(t) /\ used \ Nodes(f) = Nodes(t)
      /\ Nodes(t) \subseteq used /\ Len(t) \in Nat
  BY <1>2, LenProperties DEF OnLists, IsList, Apart
<1>4. FromSeq = NumsOf(f) /\ ToSeq = NumsOf(t) /\ Position = 0
  BY <1>1, <1>2, ViewOfRun
<1>5. PICK u : u = NumsOf(t)
  OBVIOUS
<1>6. /\ u = [i \in 1..Len(t) |-> mem[t[i]].num] /\ Len(u) = Len(t)
      /\ \A i \in 1..Len(t) : t[i] \in used /\ mem[t[i]].num \in Nat
  <2>1. \A i \in 1..Len(t) : t[i] \in used
    BY <1>3 DEF Nodes
  <2>2. \A d \in used : mem[d].num \in Nat
    BY <1>1 DEF MemoryInv, NumInv, ShapeInv
  <2> QED BY <1>3, <1>5, <2>1, <2>2 DEF NumsOf
<1>7. u \in Seq(Nat) /\ Distinct(u)
  <2>1. u \in Seq(Nat)
    BY <1>3, <1>6
  <2>2. \A d, e \in used : d # e => mem[d].num # mem[e].num
    BY <1>1 DEF MemoryInv, NumInv
  <2>3. ASSUME NEW i \in 1..Len(t), NEW j \in 1..Len(t), i # j PROVE u[i] # u[j]
    <3>1. t[i] # t[j]
      BY <1>3, <2>3 DEF Distinct
    <3> QED BY <1>6, <2>2, <3>1
  <2> QED BY <1>6, <2>1, <2>3 DEF Distinct
<1>8. /\ ToSet(u) = {mem[c].num : c \in Nodes(t)} /\ IsFiniteSet(ToSet(u))
      /\ Cardinality(ToSet(u)) = Len(u) /\ ToSet(u) \in SUBSET Nat
  <2>1. /\ ToSet(u) = {u[i] : i \in 1..Len(u)} /\ IsFiniteSet(ToSet(u))
        /\ Cardinality(ToSet(u)) = Len(u)
    BY <1>7, DistinctCounts
  <2>2. {u[i] : i \in 1..Len(u)} = {mem[t[i]].num : i \in 1..Len(t)}
    BY <1>6
  <2>3. {mem[c].num : c \in Nodes(t)} = {mem[t[i]].num : i \in 1..Len(t)}
    BY DEF Nodes
  <2>4. {mem[t[i]].num : i \in 1..Len(t)} \in SUBSET Nat
    BY <1>6
  <2> QED BY <2>1, <2>2, <2>3, <2>4
<1>9. PICK s \in Seq(Nat) : Rising(s) /\ ToSet(s) = ToSet(u)
  BY <1>8, OrderExists
<1>10. Len(s) = Len(u) /\ InOrderOf(ToSet(u)) = s
  BY <1>8, <1>9, RisingCounts, InOrderIs
<1>11. FromSeq' = NumsOf(f)' /\ Position' = 0 /\ ToSeq' = s
  <2>1. /\ FromSeq' = NumsOf(f)' /\ Position' = 0
        /\ ToSeq' = InOrderOf({mem[c].num : c \in used \ Nodes(f)})'
    <3>1. (mode = "sort" /\ IsList(mem, head.from, f))'
      BY <1>1, <1>3
    <3> QED BY <3>1, ViewOfSortNext
  <2>2. InOrderOf({mem[c].num : c \in used \ Nodes(f)})' = InOrderOf(ToSet(u))
    <3>1. {mem[c].num : c \in used \ Nodes(f)}' = ToSet(u)
      BY <1>1, <1>3, <1>8
    <3> QED BY <3>1
  <2> QED BY <1>10, <2>1, <2>2
<1>12. NumsOf(f)' = NumsOf(f)
  BY <1>1 DEF NumsOf
<1>13. Queues!Sort
  <2>1. ToSeq = u /\ ToSeq' = s /\ Len(ToSeq') = Len(ToSeq)
    BY <1>4, <1>5, <1>10, <1>11
  <2>2. Queues!ToSet(ToSeq') = Queues!ToSet(ToSeq)
    BY <1>9, <2>1 DEF Queues!ToSet, ToSet
  <2>3. \A i, j \in 1..Len(ToSeq') : i < j => (ToSeq')[i] < (ToSeq')[j]
    BY <1>9, <2>1 DEF Rising
  <2>4. Position = 0 /\ UNCHANGED <<FromSeq, Position>>
    BY <1>4, <1>11, <1>12
  <2> QED BY <2>1, <2>2, <2>3, <2>4 DEF Queues!Sort
<1> QED BY <1>13 DEF Queues!Next

(* While DL_SORT is at work nothing that the abstract lists show changes.  *)
LEMMA SortGoesOnIsNothing ==
  ASSUME NEW f \in Seq(Cell), mode = "sort", mode' = "sort", used' = used, used \subseteq Cell,
         \A c \in Cell : mem'[c].num = mem[c].num, Nodes(f) \subseteq Cell,
         IsList(mem, head.from, f), IsList(mem', head'.from, f)
  PROVE  UNCHANGED <<FromSeq, ToSeq, Position>>
<1>1. /\ FromSeq = NumsOf(f) /\ Position = 0
      /\ ToSeq = InOrderOf({mem[c].num : c \in used \ Nodes(f)})
  BY ViewOfSort
<1>2. /\ FromSeq' = NumsOf(f)' /\ Position' = 0
      /\ ToSeq' = InOrderOf({mem[c].num : c \in used \ Nodes(f)}')
  <2>1. (mode = "sort" /\ IsList(mem, head.from, f))'
    OBVIOUS
  <2> QED BY <2>1, ViewOfSortNext
<1>3. NumsOf(f)' = NumsOf(f)
  <2>1. \A i \in 1..Len(f) : f[i] \in Cell
    BY ElementOfSeq
  <2> QED BY <2>1 DEF NumsOf
<1>4. {mem[c].num : c \in used \ Nodes(f)}' = {mem[c].num : c \in used \ Nodes(f)}
  <2>1. \A c \in used \ Nodes(f) : mem'[c].num = mem[c].num
    OBVIOUS
  <2> QED BY <2>1
<1> QED BY <1>1, <1>2, <1>3, <1>4

(* Neither a merge nor a part of one shows. *)
LEMMA SortStepIsNothing ==
  ASSUME MemoryInv, SortRuns \/ SortTake \/ SortMerged
  PROVE  UNCHANGED <<FromSeq, ToSeq, Position>>
<1>1. mode = "sort" /\ mode' = "sort" /\ used' = used /\ used \subseteq Cell
  <2>1. sort # NoSort /\ mode' = mode /\ used' = used
    BY DEF SortRuns, SortTake, SortMerged, NoSort
  <2> QED BY <2>1 DEF MemoryInv, ShapeInv, RunInv, CleanInv
<1>2. CASE SortRuns \/ SortMerged
  <2>1. mem' = mem /\ head' = head
    BY <1>2 DEF SortRuns, SortMerged
  <2>2. PICK f \in Seq(Cell) : IsList(mem, head.from, f)
    BY <1>1 DEF MemoryInv, SortInv, Cut
  <2>3. Nodes(f) \subseteq Cell /\ IsList(mem', head'.from, f)
    BY <2>1, <2>2, ElementOfSeq DEF Nodes
  <2> QED BY <1>1, <2>1, <2>2, <2>3, SortGoesOnIsNothing
<1>3. CASE SortTake
  <2>1. PICK f \in Seq(Cell) :
          /\ IsList(mem, head.from, f) /\ IsList(mem', head'.from, f)
          /\ \A c \in Cell : mem'[c].num = mem[c].num
    BY <1>3, SortTakeKeeps
  <2>2. Nodes(f) \subseteq Cell
    BY ElementOfSeq DEF Nodes
  <2> QED BY <1>1, <2>1, <2>2, SortGoesOnIsNothing
<1> QED BY <1>2, <1>3

(* The last pass leaves the list in order, as it was taken to be.          *)
LEMMA SortPassEndIsNothing ==
  ASSUME MemoryInv, SortPassEnd
  PROVE  UNCHANGED <<FromSeq, ToSeq, Position>>
<1>1. /\ mode = "sort" /\ mode' \in {"sort", "run"} /\ used' = used /\ used \subseteq Cell
      /\ iter' = NULL /\ \A c \in used : mem[c].num \in Nat
  <2>1. sort.at = "runs" /\ (mode' = "run" \/ mode' = mode) /\ used' = used /\ iter' = iter
    BY DEF SortPassEnd
  <2>2. mode = "sort"
    BY <2>1 DEF MemoryInv, ShapeInv, RunInv, CleanInv, NoSort
  <2> QED BY <2>1, <2>2 DEF MemoryInv, ShapeInv, SortInv, NumInv
<1>2. PICK f \in Seq(Cell), b \in Seq(Cell) :
        /\ IsList(mem, head.from, f) /\ IsList(mem', head'.from, f)
        /\ mode' = "run" => OnLists(f, b)' /\ Rises(Numbers, b, 0, Len(b))
        /\ \A c \in Cell : mem'[c].num = mem[c].num
  BY SortPassEndKeeps
<1>3. Nodes(f) \subseteq Cell /\ \A i \in 1..Len(f) : f[i] \in Cell
  BY ElementOfSeq DEF Nodes
<1>4. CASE mode' = "sort"
  BY <1>1, <1>2, <1>3, <1>4, SortGoesOnIsNothing
<1>5. CASE mode' = "run"
  <2>1. OnLists(f, b)' /\ Rises(Numbers, b, 0, Len(b))
    BY <1>2, <1>5
  <2>2. /\ FromSeq = NumsOf(f) /\ Position = 0
        /\ ToSeq = InOrderOf({mem[c].num : c \in used \ Nodes(f)})
    BY <1>1, <1>2, ViewOfSort
  <2>3. FromSeq' = NumsOf(f)' /\ ToSeq' = NumsOf(b)' /\ Position' = 0
    BY <1>1, <1>5, <2>1, ViewOfRunNext
  <2>4. NumsOf(f)' = NumsOf(f)
    BY <1>2, <1>3 DEF NumsOf
  <2>5. used \ Nodes(f) = Nodes(b) /\ Nodes(b) \subseteq used
    BY <1>1, <2>1 DEF OnLists, Apart
  <2>6. Len(b) \in Nat /\ \A i \in 1..Len(b) : b[i] \in Cell /\ b[i] \in used
    BY <2>5, LenProperties, ElementOfSeq DEF Nodes
  <2>7. PICK s : s = [i \in 1..Len(b) |-> mem[b[i]].num]
    OBVIOUS
  <2>8. NumsOf(b)' = s
    BY <1>2, <2>6, <2>7 DEF NumsOf
  <2>9. s \in Seq(Nat) /\ Len(s) = Len(b)
    BY <1>1, <2>6, <2>7
  <2>10. Rising(s)
    <3>1. ASSUME NEW i \in 1..Len(b), NEW j \in 1..Len(b), i < j PROVE s[i] < s[j]
      <4>1. 0 < i /\ j <= Len(b)
        BY <2>6
      <4>2. Numbers[b[i]] < Numbers[b[j]]
        BY <2>1, <3>1, <4>1 DEF Rises
      <4> QED BY <2>6, <2>7, <4>2 DEF Numbers
    <3> QED BY <2>9, <3>1 DEF Rising
  <2>11. {mem[c].num : c \in used \ Nodes(f)} = ToSet(s)
    <3>1. ToSet(s) = {s[i] : i \in 1..Len(s)}
      BY <2>9, <2>10, RisingCounts
    <3>2. {mem[c].num : c \in Nodes(b)} = {mem[b[i]].num : i \in 1..Len(b)}
      BY DEF Nodes
    <3>3. {s[i] : i \in 1..Len(s)} = {mem[b[i]].num : i \in 1..Len(b)}
      BY <2>7, <2>9
    <3>4. {mem[c].num : c \in used \ Nodes(f)} = {mem[c].num : c \in Nodes(b)}
      BY <2>5
    <3> QED BY <3>1, <3>2, <3>3, <3>4
  <2>12. ToSeq = s
    BY <2>2, <2>9, <2>10, <2>11, InOrderIs
  <2> QED BY <2>2, <2>3, <2>4, <2>8, <2>12
<1> QED BY <1>1, <1>4, <1>5

(* The lists in memory, with loops that free what they stand on and a sort *)
(* that takes the list apart, are the sequences the scheduler is written   *)
(* with; DL_SORT loses and repeats nothing and leaves trace order.         *)
THEOREM ListsAreQueues == Spec => ImplementsQueues
<1>1. Init => Queues!Init
  <2> SUFFICES ASSUME Init PROVE Queues!Init
    OBVIOUS
  <2>1. mode = "run" /\ head.from = NULL /\ head.to = NULL /\ iter = NULL
    BY DEF Init
  <2>2. IsList(mem, NULL, <<>>)
    BY EmptyList
  <2>3. Walk(mem, NULL) = <<>>
    BY <2>2, ListIsMade
  <2>4. NumsOf(<<>>) = <<>>
    BY DEF NumsOf
  <2> QED BY <2>1, <2>3, <2>4 DEF Queues!Init, FromSeq, ToSeq, Position
<1>2. MemoryInv /\ [Next]_listVars => [Queues!Next]_(Queues!vars)
  <2> SUFFICES ASSUME MemoryInv, [Next]_listVars
               PROVE  Queues!Next \/ UNCHANGED <<FromSeq, ToSeq, Position>>
    BY DEF Queues!vars
  <2>1. CASE \E c \in Cell : FetchNode(c)
    BY <2>1, FetchIsFetch
  <2>2. CASE Loop
    BY <2>2, LoopStartIsStart, LoopSkipIsSkip, LoopMoveIsPass DEF Loop
  <2>3. CASE Sort
    BY <2>3, SortStartIsSort, SortStepIsNothing, SortPassEndIsNothing DEF Sort
  <2>4. CASE Clean
    BY <2>4, CleanStartIsClear, CleanRestIsNothing DEF Clean
  <2>5. CASE UNCHANGED listVars
    <3>1. mem' = mem /\ used' = used /\ head' = head /\ mode' = mode /\ iter' = iter
      BY <2>5 DEF listVars
    <3>2. FromSeq' = FromSeq
      BY <3>1 DEF FromSeq, NumsOf
    <3>3. ToSeq' = ToSeq
      BY <3>1 DEF ToSeq, NumsOf, NodesFrom
    <3>4. Position' = Position
      BY <3>1 DEF Position, SelectInSeq
    <3> QED BY <3>2, <3>3, <3>4
  <2> QED BY <2>1, <2>2, <2>3, <2>4, <2>5 DEF Next
<1> QED BY <1>1, <1>2, MemoryIsKept, PTL DEF Spec, ImplementsQueues, Queues!Spec
=============================================================================
