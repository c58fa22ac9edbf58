-------------------------- MODULE BatchLearnProofs --------------------------
(***************************************************************************)
(* Proofs about BatchLearn for every number of requests, every set of      *)
(* batches and chunk size: TypeOK, SupersededForAReason, NeighboursLinked, *)
(* AnswersTrue and InsideUnderLock.                                        *)
(*                                                                         *)
(* The sorted order of a batch has a last element below each item (Ranked, *)
(* PreviousItemFacts), which makes the plan what Reason says               *)
(* (PlannedFacts).  The items of a plan are divided into those that are    *)
(* written and those that are left (ToWriteFacts), so that an answer to    *)
(* both is one to all (Complete).  Inv holds of each request what Begun,  *)
(* Midway and Answered say before, during and after the writing; ItemDone  *)
(* carries it over an item, LockInv does the lock.                         *)
(***************************************************************************)
EXTENDS BatchLearn, TLAPS, FiniteSetTheorems, SequenceTheorems

-----------------------------------------------------------------------------
(* Ranks in a finite order, and the operators that sort numbers.           *)

\* How many elements of B are before i in R.
Rank(R, B, i) == Cardinality({j \in B : <<j, i>> \in R})

\* R orders B strictly and totally.
IsOrder(R, B) ==
  /\ \A i \in B : <<i, i>> \notin R
  /\ \A i, j \in B : i # j => <<i, j>> \in R \/ <<j, i>> \in R
  /\ \A i, j, k \in B : <<i, j>> \in R /\ <<j, k>> \in R => <<i, k>> \in R

\* Each rank below the size of B is that of one element.
LEMMA Ranked ==
  ASSUME NEW B, IsFiniteSet(B), NEW R, IsOrder(R, B)
  PROVE  /\ \A i \in B : Rank(R, B, i) \in 0 .. Cardinality(B) - 1
         /\ \A i, j \in B : <<i, j>> \in R <=> Rank(R, B, i) < Rank(R, B, j)
         /\ \A k \in 0 .. Cardinality(B) - 1 : \E i \in B : Rank(R, B, i) = k
<1> DEFINE below(i) == {j \in B : <<j, i>> \in R}
           n == Cardinality(B)
<1>1. n \in Nat
  BY FS_CardinalityType
<1>2. ASSUME NEW i \in B
      PROVE  /\ IsFiniteSet(below(i)) /\ Cardinality(below(i)) \in Nat
             /\ Cardinality(below(i)) < n
  <2>1. below(i) \in SUBSET B /\ i \notin below(i)
    BY DEF IsOrder
  <2>2. /\ IsFiniteSet(below(i)) /\ Cardinality(below(i)) <= n
        /\ Cardinality(below(i)) = n => below(i) = B
    BY <2>1, FS_Subset
  <2>3. Cardinality(below(i)) \in Nat
    BY <2>2, FS_CardinalityType
  <2>4. QED
    BY <1>1, <2>1, <2>2, <2>3
<1>3. ASSUME NEW i \in B, NEW j \in B, <<i, j>> \in R
      PROVE  Cardinality(below(i)) < Cardinality(below(j))
  <2>1. below(i) \subseteq below(j) /\ i \in below(j) /\ i \notin below(i)
    BY <1>3 DEF IsOrder
  <2>2. /\ Cardinality(below(i)) <= Cardinality(below(j))
        /\ Cardinality(below(i)) = Cardinality(below(j)) => below(i) = below(j)
    <3>1. below(i) \in SUBSET below(j) /\ IsFiniteSet(below(j))
      BY <1>2, <2>1
    <3> HIDE DEF below
    <3>2. QED
      BY <3>1, FS_Subset
  <2>3. below(i) # below(j)
    BY <2>1
  <2> HIDE DEF below, n
  <2>4. QED
    BY <1>2, <2>2, <2>3
<1> DEFINE f == [i \in B |-> Cardinality(below(i))]
<1> HIDE DEF below, n
<1>4. \A i \in B : f[i] \in Nat /\ f[i] < n
  BY <1>2
<1>5. \A i, j \in B : <<i, j>> \in R => f[i] < f[j]
  BY <1>3
<1>6. f \in [B -> 0 .. n - 1]
  <2>1. \A i \in B : f[i] \in 0 .. n - 1
    BY <1>1, <1>4
  <2>2. QED
    BY <2>1
<1>7. \A i \in B : Rank(R, B, i) = f[i]
  BY DEF Rank, below
<1> HIDE DEF f
<1>8. \A i, j \in B : <<i, j>> \in R \/ i = j \/ <<j, i>> \in R
  BY DEF IsOrder
<1>9. \A i, j \in B : f[i] < f[j] => <<i, j>> \in R
  <2>1. \A i, j \in B : f[i] < f[j] => ~ f[j] < f[i] /\ f[i] # f[j]
    BY <1>4
  <2>2. QED
    BY <1>8, <1>5, <2>1
<1>10. \A i, j \in B : f[i] = f[j] => i = j
  <2>1. \A i, j \in B : f[i] < f[j] => f[i] # f[j]
    BY <1>4
  <2>2. QED
    BY <1>8, <1>5, <2>1
<1>11. IsFiniteSet(0 .. n - 1) /\ Cardinality(0 .. n - 1) = n
  BY <1>1, FS_Interval
<1>12. \A k \in 0 .. n - 1 : \E i \in B : f[i] = k
  <2>1. f \in Injection(B, 0 .. n - 1)
    BY <1>6, <1>10 DEF Injection, IsInjective
  <2>2. f \in Surjection(B, 0 .. n - 1)
    BY <1>11, <2>1, FS_Injection DEF n
  <2>3. QED
    BY <1>11, <2>1, <2>2 DEF Surjection
<1>13. QED
  BY <1>6, <1>10, <1>12, <1>5, <1>7, <1>9 DEF n

\* InOrder counts a set of numbers up.
LEMMA InOrderFacts ==
  ASSUME NEW S \in SUBSET Nat, IsFiniteSet(S)
  PROVE  /\ InOrder(S) \in Seq(S) /\ Len(InOrder(S)) = Cardinality(S)
         /\ Cardinality(S) \in Nat
         /\ \A k, m \in 1 .. Len(InOrder(S)) :
              k < m => InOrder(S)[k] < InOrder(S)[m]
         /\ \A i \in S : \E k \in 1 .. Len(InOrder(S)) : InOrder(S)[k] = i
<1> DEFINE c == Cardinality(S)
           rank(i) == Cardinality({j \in S : j < i})
<1>1. c \in Nat
  BY FS_CardinalityType
<1>2. PICK R : \A i, j \in S : <<i, j>> \in R <=> i < j
  <2>1. \A i, j \in S : <<i, j>> \in {p \in S \X S : p[1] < p[2]} <=> i < j
    OBVIOUS
  <2>2. QED
    BY <2>1
<1>3. IsOrder(R, S)
  BY <1>2 DEF IsOrder
<1>4. \A i \in S : Rank(R, S, i) = rank(i)
  <2>1. ASSUME NEW i \in S PROVE {j \in S : <<j, i>> \in R} = {j \in S : j < i}
    BY <1>2
  <2>2. QED
    BY <2>1 DEF Rank
<1> HIDE DEF rank, c
<1>5. /\ \A i \in S : Rank(R, S, i) \in 0 .. c - 1
      /\ \A i, j \in S : <<i, j>> \in R <=> Rank(R, S, i) < Rank(R, S, j)
      /\ \A k \in 0 .. c - 1 : \E i \in S : Rank(R, S, i) = k
  <2>1. PICK B : B = S
    OBVIOUS
  <2>2. IsFiniteSet(B) /\ IsOrder(R, B)
    BY <1>1, <1>3, <2>1
  <2>3. \A i \in B : Rank(R, B, i) \in 0 .. Cardinality(B) - 1
    BY <2>2, Ranked
  <2>4. \A i, j \in B : <<i, j>> \in R <=> Rank(R, B, i) < Rank(R, B, j)
    BY <2>2, Ranked
  <2>5. \A k \in 0 .. Cardinality(B) - 1 : \E i \in B : Rank(R, B, i) = k
    BY <2>2, Ranked
  <2>6. QED
    BY <2>1, <2>3, <2>4, <2>5 DEF c
<1>6. /\ \A i \in S : rank(i) \in 0 .. c - 1
      /\ \A i, j \in S : i < j <=> rank(i) < rank(j)
      /\ \A i, j \in S : rank(i) = rank(j) => i = j
      /\ \A k \in 0 .. c - 1 : \E i \in S : rank(i) = k
  <2>1. \A i \in S : rank(i) \in 0 .. c - 1
    BY <1>4, <1>5
  <2>2. ASSUME NEW i \in S, NEW j \in S PROVE i < j <=> rank(i) < rank(j)
    <3>1. /\ Rank(R, S, i) = rank(i) /\ Rank(R, S, j) = rank(j)
          /\ <<i, j>> \in R <=> Rank(R, S, i) < Rank(R, S, j)
          /\ <<i, j>> \in R <=> i < j
      BY <1>2, <1>4, <1>5
    <3>2. QED
      BY <3>1
  <2>3. ASSUME NEW i \in S, NEW j \in S, rank(i) = rank(j) PROVE i = j
    <3>1. ~(i < j) /\ ~(j < i)
      BY <2>1, <2>2, <2>3
    <3>2. i \in Nat /\ j \in Nat
      OBVIOUS
    <3>3. QED
      BY <3>1, <3>2
  <2>4. \A k \in 0 .. c - 1 : \E i \in S : rank(i) = k
    BY <1>4, <1>5
  <2>5. QED
    BY <2>1, <2>2, <2>3, <2>4
<1> DEFINE f == InOrder(S)
<1>7. f = [k \in 1 .. c |-> CHOOSE i \in S : rank(i) = k - 1]
  BY DEF InOrder, c, rank
<1> HIDE DEF f
<1>8. \A k \in 1 .. c : f[k] \in S /\ rank(f[k]) = k - 1
  <2>1. ASSUME NEW k \in 1 .. c PROVE f[k] \in S /\ rank(f[k]) = k - 1
    <3>1. k - 1 \in 0 .. c - 1
      BY <1>1
    <3>2. \E i \in S : rank(i) = k - 1
      BY <1>6, <3>1
    <3>3. f[k] = CHOOSE i \in S : rank(i) = k - 1
      BY <1>7
    <3>4. QED
      BY <3>2, <3>3
  <2>2. QED
    BY <2>1
<1>9. f \in Seq(S) /\ Len(f) = c
  BY <1>1, <1>7, <1>8
<1>10. \A k, m \in 1 .. c : k < m => f[k] < f[m]
  <2>1. \A k, m \in 1 .. c : k < m => k - 1 < m - 1
    BY <1>1
  <2>2. \A k, m \in 1 .. c : k < m => rank(f[k]) < rank(f[m])
    BY <1>8, <2>1
  <2>3. QED
    BY <1>6, <1>8, <2>2
<1>11. ASSUME NEW i \in S PROVE \E k \in 1 .. c : f[k] = i
  <2>1. rank(i) \in 0 .. c - 1
    BY <1>6
  <2>2. rank(i) + 1 \in 1 .. c /\ (rank(i) + 1) - 1 = rank(i)
    BY <1>1, <2>1
  <2>3. f[rank(i) + 1] = i
    BY <1>6, <1>8, <2>2
  <2>4. QED
    BY <2>2, <2>3
<1>12. QED
  BY <1>1, <1>9, <1>10, <1>11 DEF f, c

\* Max is the last of them.
LEMMA MaxFacts ==
  ASSUME NEW S \in SUBSET Nat, IsFiniteSet(S), S # {}
  PROVE  Max(S) \in S /\ \A i \in S : i <= Max(S)
<1> DEFINE q == InOrder(S)
           c == Cardinality(S)
<1>1. /\ q \in Seq(S) /\ Len(q) = c /\ c \in Nat
      /\ \A k, m \in 1 .. c : k < m => q[k] < q[m]
      /\ \A i \in S : \E k \in 1 .. c : q[k] = i
  BY InOrderFacts
<1> HIDE DEF q, c
<1>2. c \in 1 .. c
  <2>1. c # 0
    <3>1. PICK i \in S : TRUE
      OBVIOUS
    <3>2. PICK k \in 1 .. c : q[k] = i
      BY <1>1
    <3>3. QED
      BY <1>1, <3>2
  <2>2. QED
    BY <1>1, <2>1
<1>3. q[c] \in S
  BY <1>1, <1>2
<1>4. ASSUME NEW k \in 1 .. c PROVE q[k] \in S /\ q[k] <= q[c]
  <2>1. k < c \/ k = c
    BY <1>1
  <2>2. q[k] \in S
    BY <1>1
  <2>3. q[k] \in Nat /\ q[c] \in Nat
    <3>1. S \subseteq Nat
      OBVIOUS
    <3>2. QED
      BY <1>3, <2>2, <3>1
  <2>4. q[k] < q[c] \/ q[k] = q[c]
    BY <1>1, <1>2, <2>1
  <2>5. QED
    BY <2>2, <2>3, <2>4
<1>5. \A i \in S : q[c] >= i
  BY <1>1, <1>3, <1>4
<1>6. QED
  BY <1>3, <1>5 DEF Max

-----------------------------------------------------------------------------
(* The sorted order of a batch.                                            *)

Places == Nat \X Nat \X Nat

LEMMA SoonerFacts ==
  ASSUME NEW k \in Places, NEW m \in Places, NEW p \in Places
  PROVE  /\ ~Sooner(k, k)
         /\ Sooner(k, m) /\ Sooner(m, p) => Sooner(k, p)
         /\ k[3] # m[3] => Sooner(k, m) \/ Sooner(m, k)
<1>1. /\ k[1] \in Nat /\ k[2] \in Nat /\ k[3] \in Nat
      /\ m[1] \in Nat /\ m[2] \in Nat /\ m[3] \in Nat
      /\ p[1] \in Nat /\ p[2] \in Nat /\ p[3] \in Nat
  BY DEF Places
<1>2. QED
  BY <1>1 DEF Sooner

LEMMA ItemFields ==
  ASSUME NEW b \in Batch
  PROVE  /\ DOMAIN b = 1 .. Len(b) /\ Len(b) \in Nat
         /\ \A i \in DOMAIN b :
              /\ b[i].topic \in Topic \cup {NoTopic} /\ b[i].object \in Object
              /\ b[i].time \in Nat /\ b[i].doc \in Nat
<1> DEFINE It == [topic : Topic \cup {NoTopic}, object : Object,
                  time : Nat, doc : Nat]
<1>1. b \in Seq(It)
  BY BatchAssumption
<1> HIDE DEF It
<1>2. /\ DOMAIN b = 1 .. Len(b) /\ Len(b) \in Nat
      /\ \A i \in DOMAIN b : b[i] \in It
  BY <1>1
<1> QED
  BY <1>2 DEF It

LEMMA PlaceType ==
  ASSUME NEW b \in Batch
  PROVE  \A i \in DOMAIN b : Place(b, i) \in Places /\ Place(b, i)[3] = i
<1> DEFINE D == DOMAIN b
           times == {b[i].time : i \in D}
<1>1. IsFiniteSet(D)
  BY ItemFields, FS_Interval
<1>2. IsFiniteSet(times)
  <2>1. [i \in D |-> b[i].time] \in Surjection(D, times)
    BY DEF Surjection
  <2> HIDE DEF D, times
  <2> QED
    BY <1>1, <2>1, FS_Surjection
<1>3. IsFiniteSet(times \cup {0})
  BY <1>2, FS_AddElement
<1>4. times \subseteq Nat
  BY ItemFields
<1>5. Max(times \cup {0}) \in Nat
  BY <1>3, <1>4, MaxFacts
<1>6. Late(b) \in Nat
  BY <1>5 DEF Late
<1>7. \A i \in DOMAIN b : i \in Nat /\ b[i].time \in Nat /\ b[i].doc \in Nat
  BY ItemFields
<1>8. QED
  BY <1>6, <1>7 DEF Place, Places

LEMMA PreviousItemFacts ==
  ASSUME NEW b \in Batch, NEW i \in DOMAIN b
  PROVE  \/ PreviousItem(b, i) = 0
         \/ /\ PreviousItem(b, i) \in DOMAIN b
            /\ b[PreviousItem(b, i)].topic = b[i].topic
            /\ Sooner(Place(b, PreviousItem(b, i)), Place(b, i))
<1> DEFINE before == {j \in Peers(b, i) : Sooner(Place(b, j), Place(b, i))}
<1>1. before \subseteq DOMAIN b
  BY DEF Peers
<1>2. IsFiniteSet(before)
  <2>1. IsFiniteSet(DOMAIN b)
    BY ItemFields, FS_Interval
  <2> HIDE DEF before
  <2> QED
    BY <1>1, <2>1, FS_Subset
<1>3. \A j \in before : b[j].topic = b[i].topic
                          /\ Sooner(Place(b, j), Place(b, i))
  BY DEF Peers
<1>4. ASSUME before # {}
      PROVE  \E j \in before :
               \A k \in before \ {j} : Sooner(Place(b, k), Place(b, j))
  <2>1. PICK B : B = before
    OBVIOUS
  <2>2. PICK R : \A j, k \in B :
                   <<j, k>> \in R <=> Sooner(Place(b, j), Place(b, k))
    <3>1. \A j, k \in B :
            <<j, k>> \in {p \in B \X B : Sooner(Place(b, p[1]), Place(b, p[2]))}
              <=> Sooner(Place(b, j), Place(b, k))
      OBVIOUS
    <3>2. QED
      BY <3>1
  <2> HIDE DEF before
  <2>3. \A j \in B : Place(b, j) \in Places /\ Place(b, j)[3] = j
    BY <1>1, <2>1, PlaceType
  <2>4. IsOrder(R, B)
    BY <2>2, <2>3, SoonerFacts DEF IsOrder
  <2>5. IsFiniteSet(B)
    BY <1>2, <2>1
  <2>6. Cardinality(B) \in Nat /\ Cardinality(B) # 0
    BY <1>4, <2>1, <2>5, FS_CardinalityType, FS_EmptySet
  <2> DEFINE c == Cardinality(B)
  <2>7. c - 1 \in 0 .. c - 1
    BY <2>6
  <2>8. PICK j \in B : Rank(R, B, j) = c - 1
    BY <2>4, <2>5, <2>7, Ranked
  <2>9. ASSUME NEW k \in B, k # j PROVE Sooner(Place(b, k), Place(b, j))
    <3>1. Rank(R, B, k) \in 0 .. c - 1
      BY <2>4, <2>5, Ranked
    <3>2. ~(Rank(R, B, j) < Rank(R, B, k))
      BY <2>6, <2>8, <3>1
    <3>3. <<j, k>> \notin R
      BY <2>4, <2>5, <3>2, Ranked
    <3>4. <<k, j>> \in R
      BY <2>4, <2>9, <3>3 DEF IsOrder
    <3>5. QED
      BY <2>2, <3>4
  <2>10. QED
    BY <2>1, <2>9
<1>5. PreviousItem(b, i) = 0 \/ PreviousItem(b, i) \in before
  <2>1. PreviousItem(b, i) =
          IF before = {} THEN 0
          ELSE CHOOSE j \in before :
                 \A k \in before \ {j} : Sooner(Place(b, k), Place(b, j))
    BY DEF PreviousItem
  <2> HIDE DEF before
  <2>2. QED
    BY <1>4, <2>1
<1> HIDE DEF before
<1>6. QED
  BY <1>1, <1>3, <1>5


-----------------------------------------------------------------------------
(* The plan.                                                               *)

Ahead(b, j, i) ==
  /\ j \in DOMAIN b
  /\ b[j].topic = b[i].topic /\ b[j].object # b[i].object
  /\ Sooner(Place(b, j), Place(b, i))

\* Why a plan p of item i has what it has, and when it has to have it.
Reason(mode, b, p, i) ==
  /\ p.old # NoClaim =>
       /\ p.old \in known /\ mode = "supersede"
       /\ About[p.old].topic = b[i].topic /\ About[p.old].object # b[i].object
  /\ p.index # 0 => Ahead(b, p.index, i)
  /\ p.doc # 0 => \E j \in DOMAIN b : b[j].doc = p.doc /\ Ahead(b, j, i)
  /\ LET j == PreviousItem(b, i)
     IN  /\ b[i].topic # NoTopic /\ j # 0
         /\ ~(KnownAbout(b[i].topic) # {} /\ FollowsKnown(b, i))
         /\ b[j].object # b[i].object
         => p = PlanItem(b, j)

LEMMA PlainFacts ==
  /\ Plain \in Plan /\ Plain.old = NoClaim /\ Plain.index = 0 /\ Plain.doc = 0
BY DEF Plain, Plan

LEMMA PlanKnownFacts ==
  ASSUME NEW mode \in Modes, NEW x \in Extracted
  PROVE  /\ PlanKnown(mode, x) \in Plan
         /\ PlanKnown(mode, x).index = 0 /\ PlanKnown(mode, x).doc = 0
         /\ PlanKnown(mode, x).old # NoClaim =>
              mode = "supersede" /\ PlanKnown(mode, x).old = x
<1>1. CASE mode = "error"
  <2>1. PlanKnown(mode, x) =
          [skip |-> FALSE, error |-> TRUE, old |-> NoClaim,
           doc |-> 0, index |-> 0]
    BY <1>1 DEF PlanKnown, Plain
  <2>2. PlanKnown(mode, x) \in Plan
    BY <2>1, <1>1 DEF Plan
  <2> QED
    BY <1>1, <2>1, <2>2 DEF Plan
<1>2. CASE mode = "skip"
  <2>1. PlanKnown(mode, x) =
          [skip |-> TRUE, error |-> FALSE, old |-> NoClaim,
           doc |-> 0, index |-> 0]
    BY <1>2 DEF PlanKnown, Plain
  <2>2. PlanKnown(mode, x) \in Plan
    BY <2>1, <1>2 DEF Plan
  <2> QED
    BY <1>2, <2>1, <2>2 DEF Plan
<1>3. CASE mode = "supersede"
  <2>1. PlanKnown(mode, x) =
          [skip |-> FALSE, error |-> FALSE, old |-> x,
           doc |-> 0, index |-> 0]
    BY <1>3 DEF PlanKnown, Plain
  <2>2. PlanKnown(mode, x) \in Plan
    BY <2>1, <1>3 DEF Plan
  <2> QED
    BY <1>3, <2>1, <2>2 DEF Plan
<1> QED
  BY <1>1, <1>2, <1>3 DEF Modes

LEMMA PlanItemFacts ==
  ASSUME NEW b \in Batch, NEW j \in DOMAIN b
  PROVE  /\ PlanItem(b, j) \in Plan /\ PlanItem(b, j).old = NoClaim
         /\ b[j].doc = 0 => PlanItem(b, j).index = j /\ PlanItem(b, j).doc = 0
         /\ b[j].doc # 0 =>
              PlanItem(b, j).index = 0 /\ PlanItem(b, j).doc = b[j].doc
<1>1. j \in Nat /\ b[j].doc \in Nat
  BY ItemFields
<1>2. CASE b[j].doc = 0
  <2>1. PlanItem(b, j) =
          [skip |-> FALSE, error |-> FALSE, old |-> NoClaim,
           doc |-> 0, index |-> j]
    BY <1>2 DEF PlanItem, Plain
  <2>2. PlanItem(b, j) \in Plan
    BY <2>1, <1>1 DEF Plan
  <2> QED
    BY <1>1, <1>2, <2>1, <2>2 DEF Plan
<1>3. CASE b[j].doc # 0
  <2>1. PlanItem(b, j) =
          [skip |-> FALSE, error |-> FALSE, old |-> NoClaim,
           doc |-> b[j].doc, index |-> 0]
    BY <1>3 DEF PlanItem, Plain
  <2>2. PlanItem(b, j) \in Plan
    BY <2>1, <1>1 DEF Plan
  <2> QED
    BY <1>1, <1>3, <2>1, <2>2 DEF Plan
<1> QED
  BY <1>2, <1>3

LEMMA PlannedFacts ==
  ASSUME known \subseteq Extracted, NEW b \in Batch, NEW mode \in Modes,
         NEW last \in Lasts, NEW i \in DOMAIN b
  PROVE  /\ Planned(b, mode, last, i) \in Plan
         /\ Reason(mode, b, Planned(b, mode, last, i), i)
<1> DEFINE p == Planned(b, mode, last, i)
           t == b[i].topic
           j == PreviousItem(b, i)
           x == last[t]
           met == KnownAbout(t) # {} /\ FollowsKnown(b, i)
<1>1. ASSUME t = NoTopic PROVE p \in Plan /\ Reason(mode, b, p, i)
  <2>1. p = Plain
    BY <1>1 DEF Planned
  <2> HIDE DEF p
  <2> QED
    BY <1>1, <2>1, PlainFacts DEF Reason
<1>2. ASSUME t # NoTopic, met PROVE p \in Plan /\ Reason(mode, b, p, i)
  <2>1. x \in known /\ x \in Extracted /\ About[x].topic = t
    <3>1. t \in Topic
      BY <1>2, ItemFields
    <3>2. x \in KnownAbout(t)
      BY <1>2, <3>1 DEF Lasts
    <3> QED
      BY <3>2 DEF KnownAbout
  <2>2. CASE About[x].object = b[i].object
    <3>1. p = Plain
      BY <1>2, <2>2 DEF Planned
    <3> HIDE DEF p
    <3> QED
      BY <1>2, <3>1, PlainFacts DEF Reason
  <2>3. CASE About[x].object # b[i].object
    <3>1. p = PlanKnown(mode, x)
      BY <1>2, <2>3 DEF Planned
    <3> HIDE DEF p, x
    <3> QED
      BY <1>2, <2>1, <2>3, <3>1, PlanKnownFacts DEF Reason
  <2> QED
    BY <2>2, <2>3
<1>3. ASSUME t # NoTopic, ~met PROVE p \in Plan /\ Reason(mode, b, p, i)
  <2>1. CASE j = 0 \/ b[j].object = b[i].object
    <3>1. p = Plain
      BY <1>3, <2>1 DEF Planned
    <3> HIDE DEF p
    <3> QED
      BY <2>1, <3>1, PlainFacts DEF Reason
  <2>2. CASE j # 0 /\ b[j].object # b[i].object
    <3>1. p = PlanItem(b, j)
      BY <1>3, <2>2 DEF Planned
    <3>2. Ahead(b, j, i)
      BY <2>2, PreviousItemFacts DEF Ahead
    <3>3. j \in DOMAIN b
      BY <3>2 DEF Ahead
    <3>4. /\ p \in Plan /\ p.old = NoClaim
          /\ b[j].doc = 0 => p.index = j /\ p.doc = 0
          /\ b[j].doc # 0 => p.index = 0 /\ p.doc = b[j].doc
      BY <3>1, <3>3, PlanItemFacts
    <3> HIDE DEF p
    <3> QED
      BY <3>1, <3>2, <3>3, <3>4 DEF Reason
  <2> QED
    BY <2>1, <2>2
<1> HIDE DEF p, met
<1> QED
  BY <1>1, <1>2, <1>3 DEF p

-----------------------------------------------------------------------------
(* What is to be written, and what is not.                                 *)

\* The n items of a plan, in D, are either to be written or left.
Divided(n, D, todo, left) ==
  /\ todo \in Seq(D)
  /\ \A k, m \in 1 .. Len(todo) : k < m => todo[k] < todo[m]
  /\ left \in Seq(D \X {"skipped", "failed"})
  /\ Len(todo) + Len(left) = n
  /\ \A k \in 1 .. Len(todo), m \in 1 .. Len(left) : todo[k] # left[m][1]
  /\ \A i \in D : \/ \E k \in 1 .. Len(todo) : todo[k] = i
                  \/ \E k \in 1 .. Len(left) : left[k][1] = i

LEMMA ToWriteFacts ==
  ASSUME NEW plan, NEW n \in Nat, DOMAIN plan = 1 .. n
  PROVE  Divided(n, DOMAIN plan, ToWrite(plan), NotWritten(plan))
<1> SUFFICES ASSUME NEW D, D = DOMAIN plan, D = 1 .. n, NEW todo,
                    todo = ToWrite(plan), NEW left, left = NotWritten(plan)
             PROVE  Divided(n, D, todo, left)
  OBVIOUS
<1> DEFINE L == LeftOut(plan)
           in == InOrder(L)
<1>1. /\ L \subseteq D /\ D \subseteq Nat /\ IsFiniteSet(D)
      /\ Cardinality(D) = n
  <2>1. IsFiniteSet(1 .. n) /\ Cardinality(1 .. n) = n
    BY FS_Interval
  <2> QED
    BY <2>1 DEF LeftOut
<1>2. todo = InOrder(D \ L)
  BY DEF ToWrite, L
<1> HIDE DEF L
<1>3. /\ IsFiniteSet(L) /\ IsFiniteSet(D \ L)
      /\ Cardinality(D \ L) = n - Cardinality(L)
  <2>1. D \cap L = L
    BY <1>1
  <2> QED
    <3>1. IsFiniteSet(L)
      BY <1>1, FS_Subset
    <3>2. /\ IsFiniteSet(D \ L)
          /\ Cardinality(D \ L) = Cardinality(D) - Cardinality(D \cap L)
      BY <1>1, FS_Difference
    <3> QED
      BY <1>1, <2>1, <3>1, <3>2
<1>4. /\ todo \in Seq(D \ L) /\ Len(todo) = Cardinality(D \ L)
      /\ \A k, m \in 1 .. Len(todo) : k < m => todo[k] < todo[m]
      /\ \A i \in D \ L : \E k \in 1 .. Len(todo) : todo[k] = i
  <2>1. D \ L \in SUBSET Nat
    BY <1>1
  <2> QED
    BY <1>3, <1>2, <2>1, InOrderFacts
<1>5. /\ in \in Seq(L) /\ Len(in) = Cardinality(L) /\ Cardinality(L) \in Nat
      /\ \A i \in L : \E k \in 1 .. Len(in) : in[k] = i
  <2>1. L \in SUBSET Nat
    BY <1>1
  <2> QED
    BY <1>3, <2>1, InOrderFacts
<1>6. left = [k \in DOMAIN in |->
               <<in[k], IF plan[in[k]].skip THEN "skipped" ELSE "failed">>]
  BY DEF NotWritten, L
<1> HIDE DEF in
<1>7. /\ left \in Seq(L \X {"skipped", "failed"}) /\ Len(left) = Len(in)
      /\ \A k \in 1 .. Len(in) : left[k][1] = in[k]
  <2>1. DOMAIN in = 1 .. Len(in) /\ Len(in) \in Nat
        /\ \A k \in 1 .. Len(in) : in[k] \in L
    BY <1>5
  <2>2. \A k \in 1 .. Len(in) :
          left[k] \in L \X {"skipped", "failed"} /\ left[k][1] = in[k]
    BY <1>6, <2>1
  <2>3. DOMAIN left = 1 .. Len(in)
    BY <1>6, <2>1
  <2>4. left = [k \in 1 .. Len(in) |-> left[k]]
    BY <1>6, <2>1
  <2> QED
    BY <2>1, <2>2, <2>3, <2>4
<1>8. /\ todo \in Seq(D)
      /\ left \in Seq(D \X {"skipped", "failed"})
      /\ Len(todo) + Len(left) = n
  <2>1. todo \in Seq(D)
    BY <1>4
  <2>2. left \in Seq(D \X {"skipped", "failed"})
    <3>1. L \X {"skipped", "failed"} \subseteq D \X {"skipped", "failed"}
      BY <1>1
    <3> QED
      BY <1>7, <3>1
  <2>3. Len(todo) + Len(left) = n
    BY <1>3, <1>4, <1>5, <1>7
  <2> QED
    BY <2>1, <2>2, <2>3
<1>9. \A k \in 1 .. Len(todo), m \in 1 .. Len(left) : todo[k] # left[m][1]
  <2>1. \A k \in 1 .. Len(todo) : todo[k] \in D \ L
    BY <1>4
  <2>2. \A m \in 1 .. Len(left) : left[m][1] \in L
    BY <1>5, <1>7
  <2> QED
    BY <2>1, <2>2
<1>10. \A i \in D : \/ \E k \in 1 .. Len(todo) : todo[k] = i
                    \/ \E k \in 1 .. Len(left) : left[k][1] = i
  <2>1. ASSUME NEW i \in D, i \notin L
        PROVE  \E k \in 1 .. Len(todo) : todo[k] = i
    BY <1>4, <2>1
  <2>2. ASSUME NEW i \in D, i \in L
        PROVE  \E k \in 1 .. Len(left) : left[k][1] = i
    <3>1. PICK k \in 1 .. Len(in) : in[k] = i
      BY <1>5, <2>2
    <3> QED
      BY <1>7, <3>1
  <2> QED
    BY <2>1, <2>2
<1> QED
  BY <1>4, <1>8, <1>9, <1>10 DEF Divided

-----------------------------------------------------------------------------
(* What follows an item.                                                   *)

Answers == Seq(Nat \X Verdict)

\* What does not change while a request writes its items.
SameTask(f, g) ==
  /\ g.batch = f.batch /\ g.mode = f.mode /\ g.plan = f.plan /\ g.todo = f.todo

LEMMA FrameFields ==
  ASSUME NEW f \in Frame
  PROVE  /\ f.plan \in Seq(Plan) /\ f.todo \in Seq(Nat) /\ f.pos \in Nat \ {0}
         /\ f.made \in SUBSET Nat /\ f.failed \in Nat /\ f.answer \in Answers
         /\ f.mode \in Modes /\ f.batch \in Batch \cup {<<>>}
         /\ DOMAIN f.plan = 1 .. Len(f.plan) /\ Len(f.plan) \in Nat
         /\ DOMAIN f.todo = 1 .. Len(f.todo) /\ Len(f.todo) \in Nat
<1>1. /\ f.plan \in Seq(Plan) /\ f.todo \in Seq(Nat) /\ f.pos \in Nat \ {0}
      /\ f.made \in SUBSET Nat /\ f.failed \in Nat /\ f.answer \in Answers
      /\ f.mode \in Modes /\ f.batch \in Batch \cup {<<>>}
  BY DEF Frame, Answers
<1> QED
  BY <1>1

LEMMA NotWrittenType ==
  ASSUME NEW f \in Frame
  PROVE  NotWritten(f.plan) \in Answers
<1> DEFINE n == Len(f.plan)
           D == DOMAIN f.plan
           left == NotWritten(f.plan)
<1>1. n \in Nat /\ D = 1 .. n
  BY FrameFields
<1> HIDE DEF n, D, left
<1>2. left \in Seq(D \X {"skipped", "failed"})
  <2>1. Divided(n, D, ToWrite(f.plan), left)
    BY <1>1, ToWriteFacts DEF left, D
  <2> QED
    BY <2>1 DEF Divided
<1>3. D \X {"skipped", "failed"} \subseteq Nat \X Verdict
  BY <1>1 DEF Verdict
<1>4. left \in Answers
  BY <1>2, <1>3 DEF Answers
<1> QED
  BY <1>4 DEF left

LEMMA FinishedFacts ==
  ASSUME NEW f \in Frame
  PROVE  /\ Finished(f) \in Frame /\ Finished(f).pc = "release"
         /\ SameTask(f, Finished(f))
         /\ Finished(f).pos = f.pos /\ Finished(f).made = f.made
         /\ Finished(f).answer = f.answer \o NotWritten(f.plan)
<1>1. PICK a : a = f.answer \o NotWritten(f.plan)
  OBVIOUS
<1>2. a \in Answers
  <2>1. f.answer \in Answers /\ NotWritten(f.plan) \in Answers
    BY FrameFields, NotWrittenType
  <2> QED
    BY <1>1, <2>1 DEF Answers
<1>3. Finished(f) = [f EXCEPT !.pc = "release", !.answer = a]
  BY <1>1 DEF Finished
<1>4. [f EXCEPT !.pc = "release", !.answer = a] \in Frame
  BY <1>2 DEF Frame, Answers, Pc
<1>5. /\ Finished(f).pc = "release" /\ SameTask(f, Finished(f))
      /\ Finished(f).pos = f.pos /\ Finished(f).made = f.made
      /\ Finished(f).answer = a
  BY <1>3 DEF Frame, SameTask
<1> QED
  BY <1>1, <1>3, <1>4, <1>5

\* rest answers the items of f after the current one as failed.
RestFailed(f, rest) ==
  /\ rest \in Answers /\ Len(rest) = Len(f.todo) - f.pos
  /\ \A k \in 1 .. Len(rest) : rest[k] = <<f.todo[f.pos + k], "failed">>

\* h is f with the next item, or at its end.
NextItem(f, h) ==
  /\ h.pc = "create" /\ h.pos = f.pos + 1
  /\ h.pos \in DOMAIN f.todo /\ h.answer = f.answer

Ended(f, h) ==
  /\ h.pc = "release" /\ h.pos = f.pos
  /\ \E rest : /\ RestFailed(f, rest)
               /\ h.answer = f.answer \o rest \o NotWritten(f.plan)

LEMMA OnwardsFacts ==
  ASSUME NEW f \in Frame, f.pos \in DOMAIN f.todo, NEW h, h = Onwards(f)
  PROVE  /\ h \in Frame /\ SameTask(f, h) /\ h.made = f.made
         /\ NextItem(f, h) \/ Ended(f, h)
<1> DEFINE n == Len(f.todo)
<1>1. /\ f.pos \in Nat \ {0} /\ n \in Nat /\ DOMAIN f.todo = 1 .. n
      /\ f.answer \in Answers /\ f.todo \in Seq(Nat)
  BY FrameFields
<1>2. \/ h = Finished(Aborted(f))
      \/ f.pos = n /\ h = Finished(f)
      \/ /\ f.pos # n
         /\ \E v \in {0, f.failed} :
              h = [f EXCEPT !.pc = "create", !.pos = f.pos + 1, !.failed = v]
  BY DEF Onwards
<1>3. ASSUME h = Finished(Aborted(f))
      PROVE  /\ h \in Frame /\ SameTask(f, h) /\ h.made = f.made
             /\ Ended(f, h)
  <2>1. PICK rest : rest = [k \in 1 .. n - f.pos |->
                              <<f.todo[f.pos + k], "failed">>]
    OBVIOUS
  <2>2. RestFailed(f, rest)
    <3>1. n - f.pos \in Nat
      BY <1>1
    <3>2. \A k \in 1 .. n - f.pos : f.pos + k \in 1 .. n
      BY <1>1
    <3>3. \A k \in 1 .. n - f.pos : f.todo[f.pos + k] \in Nat
      BY <1>1, <3>2
    <3>4. \A k \in 1 .. n - f.pos : rest[k] \in Nat \X Verdict
      BY <2>1, <3>3 DEF Verdict
    <3> HIDE DEF n
    <3>5. rest \in Answers /\ Len(rest) = n - f.pos
      <4>1. PICK m \in Nat : m = n - f.pos
        BY <3>1
      <4>2. rest \in [1 .. m -> Nat \X Verdict]
        BY <2>1, <3>4, <4>1
      <4>3. rest \in Answers /\ Len(rest) = m
        BY <4>2 DEF Answers
      <4> QED
        BY <4>1, <4>3
    <3> QED
      BY <2>1, <3>5 DEF RestFailed, n
  <2> DEFINE a == f.answer \o rest
             g == [f EXCEPT !.answer = a]
  <2>3. a \in Answers
    BY <1>1, <2>2 DEF RestFailed, Answers
  <2>4. Aborted(f) = g
    BY <2>1 DEF Aborted
  <2> HIDE DEF a
  <2>5. /\ g \in Frame /\ SameTask(f, g) /\ g.pos = f.pos /\ g.made = f.made
        /\ g.answer = a
    BY <2>3 DEF Frame, SameTask, Answers
  <2> HIDE DEF g
  <2>6. h = Finished(g)
    BY <1>3, <2>4
  <2>7. /\ h \in Frame /\ SameTask(g, h) /\ h.made = g.made
        /\ h.pc = "release" /\ h.pos = g.pos
        /\ h.answer = g.answer \o NotWritten(g.plan)
    BY <2>5, <2>6, FinishedFacts
  <2>8. h.answer = f.answer \o rest \o NotWritten(f.plan)
    BY <2>5, <2>7 DEF SameTask, a
  <2>9. /\ h \in Frame /\ SameTask(f, h) /\ h.made = f.made
        /\ h.pc = "release" /\ h.pos = f.pos
    BY <2>5, <2>7 DEF SameTask
  <2> QED
    BY <2>2, <2>8, <2>9 DEF Ended
<1>4. ASSUME f.pos = n, h = Finished(f)
      PROVE  /\ h \in Frame /\ SameTask(f, h) /\ h.made = f.made
             /\ Ended(f, h)
  <2>1. /\ h \in Frame /\ SameTask(f, h) /\ h.made = f.made
        /\ h.pc = "release" /\ h.pos = f.pos
        /\ h.answer = f.answer \o NotWritten(f.plan)
    BY <1>4, FinishedFacts
  <2>2. f.answer \o <<>> = f.answer
    BY <1>1 DEF Answers
  <2>3. RestFailed(f, <<>>)
    BY <1>1, <1>4 DEF RestFailed, Answers
  <2> QED
    BY <2>1, <2>2, <2>3 DEF Ended
<1>5. ASSUME f.pos # n, NEW v \in {0, f.failed},
             h = [f EXCEPT !.pc = "create", !.pos = f.pos + 1, !.failed = v]
      PROVE  /\ h \in Frame /\ SameTask(f, h) /\ h.made = f.made
             /\ NextItem(f, h)
  <2>1. v \in Nat /\ f.pos + 1 \in Nat \ {0} /\ f.pos + 1 \in DOMAIN f.todo
    BY <1>1, <1>5, FrameFields
  <2>2. h \in Frame
    BY <1>5, <2>1 DEF Frame, Pc
  <2>3. /\ SameTask(f, h) /\ h.made = f.made /\ h.answer = f.answer
        /\ h.pc = "create" /\ h.pos = f.pos + 1
    BY <1>5 DEF Frame, SameTask
  <2> QED
    BY <2>1, <2>2, <2>3 DEF NextItem
<1> HIDE DEF n
<1>6. CASE h = Finished(Aborted(f))
  BY <1>3, <1>6
<1>7. CASE f.pos = n /\ h = Finished(f)
  BY <1>4, <1>7
<1>8. CASE /\ f.pos # n
           /\ \E v \in {0, f.failed} :
                h = [f EXCEPT !.pc = "create", !.pos = f.pos + 1, !.failed = v]
  BY <1>5, <1>8
<1> QED
  BY <1>2, <1>6, <1>7, <1>8

-----------------------------------------------------------------------------
(* The answer of a request that has come to its end.                       *)

LEMMA Joined ==
  ASSUME NEW T, NEW s \in Seq(T), NEW t \in Seq(T)
  PROVE  /\ Len(s \o t) = Len(s) + Len(t)
         /\ \A k \in 1 .. Len(s) : (s \o t)[k] = s[k]
         /\ \A k \in 1 .. Len(t) : (s \o t)[Len(s) + k] = t[k]
BY ConcatProperties

\* a answers all of the n items, those of todo as told.
Whole(a, n, todo, told) ==
  /\ Len(a) = n /\ {a[k][1] : k \in 1 .. n} = 1 .. n
  /\ \A k \in 1 .. n :
       /\ a[k][1] \in Nat
       /\ \/ k \in 1 .. Len(todo) /\ a[k] = told[k]
          \/ /\ a[k][2] \in {"skipped", "failed"}
             /\ \A m \in 1 .. Len(todo) : a[k][1] # todo[m]

Tells(told, todo) ==
  /\ told \in Answers /\ Len(told) = Len(todo)
  /\ \A k \in 1 .. Len(todo) : told[k][1] = todo[k]

LEMMA Complete ==
  ASSUME NEW plan, NEW n \in Nat, DOMAIN plan = 1 .. n,
         NEW told, Tells(told, ToWrite(plan))
  PROVE  Whole(told \o NotWritten(plan), n, ToWrite(plan), told)
<1> SUFFICES ASSUME NEW D, D = DOMAIN plan, D = 1 .. n,
                    NEW todo, todo = ToWrite(plan),
                    NEW left, left = NotWritten(plan),
                    NEW a, a = told \o left
             PROVE  Whole(a, n, todo, told)
  OBVIOUS
<1>1. /\ told \in Answers /\ Len(told) = Len(todo)
      /\ \A k \in 1 .. Len(todo) : told[k][1] = todo[k]
  BY DEF Tells
<1> DEFINE Left == D \X {"skipped", "failed"}
<1>2. /\ todo \in Seq(D)
      /\ left \in Seq(Left)
      /\ Len(todo) + Len(left) = n
      /\ \A k \in 1 .. Len(todo), m \in 1 .. Len(left) : todo[k] # left[m][1]
      /\ \A i \in D : \/ \E k \in 1 .. Len(todo) : todo[k] = i
                      \/ \E k \in 1 .. Len(left) : left[k][1] = i
  <2>1. Divided(n, D, todo, left)
    BY ToWriteFacts
  <2> QED
    BY <2>1 DEF Divided
<1> DEFINE p == Len(todo)
           q == Len(left)
<1>3. p \in Nat /\ q \in Nat /\ p + q = n
  BY <1>2
<1>4. /\ Len(a) = n
      /\ \A k \in 1 .. p : a[k] = told[k]
      /\ \A k \in 1 .. q : a[p + k] = left[k]
  <2>1. PICK T : T = (Nat \X Verdict) \cup Left
    OBVIOUS
  <2>2. told \in Seq(T)
    <3>1. Nat \X Verdict \subseteq T
      BY <2>1
    <3> QED
      BY <1>1, <3>1 DEF Answers
  <2>3. left \in Seq(T)
    <3>1. Left \subseteq T
      BY <2>1
    <3> HIDE DEF Left
    <3> QED
      BY <1>2, <3>1
  <2>4. /\ Len(a) = Len(told) + Len(left)
        /\ \A k \in 1 .. Len(told) : a[k] = told[k]
        /\ \A k \in 1 .. Len(left) : a[Len(told) + k] = left[k]
    <3>1. Len(a) = Len(told) + Len(left)
      BY <2>2, <2>3, Joined
    <3>2. \A k \in 1 .. Len(told) : a[k] = told[k]
      BY <2>2, <2>3, Joined
    <3>3. \A k \in 1 .. Len(left) : a[Len(told) + k] = left[k]
      <4>1. \A k \in 1 .. Len(left) : (told \o left)[Len(told) + k] = left[k]
        BY <2>2, <2>3, Joined
      <4> QED
        BY <4>1
    <3> QED
      BY <3>1, <3>2, <3>3
  <2> QED
    BY <1>3, <1>1, <2>4
<1>5. \A k \in 1 .. n : k \in 1 .. p \/ \E m \in 1 .. q : k = p + m
  <2>1. ASSUME NEW k \in 1 .. n, k \notin 1 .. p
        PROVE  k - p \in 1 .. q /\ k = p + (k - p)
    BY <1>3, <2>1
  <2> QED
    BY <2>1
<1>6. \A k \in 1 .. q : left[k][1] \in D /\ left[k][2] \in {"skipped", "failed"}
  <2>1. \A k \in 1 .. q : left[k] \in Left
    BY <1>2
  <2> QED
    BY <2>1
<1>7. \A k \in 1 .. p : todo[k] \in D
  BY <1>2
<1>8. ASSUME NEW k \in 1 .. n
      PROVE  /\ a[k][1] \in D
             /\ \/ k \in 1 .. p /\ a[k] = told[k]
                \/ /\ a[k][2] \in {"skipped", "failed"}
                   /\ \A m \in 1 .. p : a[k][1] # todo[m]
  <2>1. CASE k \in 1 .. p
    BY <1>4, <1>7, <1>1, <2>1
  <2>2. CASE \E m \in 1 .. q : k = p + m
    <3>1. PICK m \in 1 .. q : k = p + m
      BY <2>2
    <3>2. a[k] = left[m]
      BY <1>4, <3>1
    <3> QED
      BY <1>2, <1>6, <3>2
  <2> QED
    BY <1>5, <2>1, <2>2
<1>9. ASSUME NEW i \in D PROVE \E k \in 1 .. n : a[k][1] = i
  <2>1. CASE \E k \in 1 .. p : todo[k] = i
    <3>1. PICK k \in 1 .. p : todo[k] = i
      BY <2>1
    <3>2. k \in 1 .. n
      BY <1>3
    <3>3. a[k][1] = i
      BY <1>4, <1>1, <3>1
    <3> QED
      BY <3>2, <3>3
  <2>2. CASE \E k \in 1 .. q : left[k][1] = i
    <3>1. PICK k \in 1 .. q : left[k][1] = i
      BY <2>2
    <3>2. p + k \in 1 .. n
      BY <1>3
    <3>3. a[p + k][1] = i
      BY <1>4, <3>1
    <3> QED
      BY <3>2, <3>3
  <2> QED
    BY <1>2, <2>1, <2>2
<1> HIDE DEF p, q, Left
<1>10. {a[k][1] : k \in 1 .. n} = D
  <2>1. \A i \in D : i \in {a[k][1] : k \in 1 .. n}
    BY <1>9
  <2>2. \A i \in {a[k][1] : k \in 1 .. n} : i \in D
    BY <1>8
  <2> QED
    BY <2>1, <2>2
<1>11. \A i \in D : i \in Nat
  OBVIOUS
<1> QED
  BY <1>4, <1>8, <1>10, <1>11 DEF p, Whole

-----------------------------------------------------------------------------
(* The invariant of a request.                                             *)

Before == {"idle", "lock", "refused", "detect"}
Over == {"release", "delete", "done"}

Listed(f) == {f.todo[k] : k \in DOMAIN f.todo}
Handled(f) == {f.todo[k] : k \in 1 .. f.pos - 1}

IsTrue(r, said) ==
  <<r, said[1]>> \in stored <=>
    \/ said[2] = "created"
    \/ said[2] = "failed" /\ <<r, said[1]>> \in partial

\* Only what is to be written is made or stored.
Fits(r) ==
  LET f == req[r]
  IN  /\ f.plan = <<>> \/ Len(f.plan) = Len(f.batch)
      /\ f.todo = ToWrite(f.plan) /\ f.pos <= Len(f.todo) + 1
      /\ f.made \subseteq Listed(f)
      /\ \A i \in f.made : <<r, i>> \in stored
      /\ \A i \in Nat : <<r, i>> \in stored => i \in Listed(f)

\* Before the plan nothing has been written.
Begun(r) ==
  LET f == req[r]
  IN  f.pc \in Before =>
        /\ f.plan = <<>> /\ f.pos = 1 /\ f.made = {} /\ f.answer = <<>>
        /\ \A i \in Nat : <<r, i>> \notin stored

\* The items before the current one are answered for, and truly; those after
\* it are not stored.
Midway(r) ==
  LET f == req[r]
  IN  f.pc \in {"create", "edge"} =>
        /\ f.pos \in DOMAIN f.todo
        /\ Len(f.answer) = f.pos - 1
        /\ \A k \in 1 .. f.pos - 1 :
             f.answer[k][1] = f.todo[k] /\ IsTrue(r, f.answer[k])
        /\ f.made \subseteq Handled(f)
        /\ \A i \in Nat :
             <<r, i>> \in stored => \/ i \in Handled(f)
                                    \/ f.pc = "edge" /\ i = f.todo[f.pos]
        /\ f.pc = "edge" => /\ <<r, f.todo[f.pos]>> \in stored
                            /\ <<r, f.todo[f.pos]>> \notin partial

Reasons(r) ==
  \A i \in DOMAIN req[r].plan :
    Reason(req[r].mode, req[r].batch, req[r].plan[i], i)

\* AnswersTrue and NeighboursLinked, of one request.
Answered(r) ==
  LET said == req[r].answer
      N == Len(req[r].batch)
  IN  req[r].pc \in Over /\ said # <<>> =>
        /\ Len(said) = N /\ {said[k][1] : k \in 1 .. N} = 1 .. N
        /\ \A k \in 1 .. N : IsTrue(r, said[k])

Linked(r) ==
  LET b == req[r].batch
  IN  \A i \in req[r].made :
        LET j == PreviousItem(b, i)
        IN  /\ b[i].topic # NoTopic /\ j \in req[r].made
            /\ j < i /\ b[j].object # b[i].object /\ ~SharedDoc(b, j)
            /\ ~Interposed(r, i)
            => <<<<r, i>>, <<r, j>>>> \in sup

Local(r) ==
  Fits(r) /\ Begun(r) /\ Midway(r) /\ Reasons(r) /\ Answered(r) /\ Linked(r)

\* TypeOK, but for what Fits says of a request.
Typed ==
  /\ known \subseteq Extracted
  /\ stored \subseteq Request \X (Nat \ {0}) /\ partial \subseteq stored
  /\ sup \subseteq stored \X (stored \cup known)
  /\ lock \in Request \cup {NoRequest}
  /\ faults \in 0 .. MaxFaults
  /\ expired \subseteq Request \X Pc

Inv == /\ Typed /\ req \in [Request -> Frame] /\ SupersededForAReason
        /\ \A r \in Request : Local(r)

-----------------------------------------------------------------------------

LEMMA Order ==
  ASSUME NEW f \in Frame, f.todo = ToWrite(f.plan)
  PROVE  /\ \A k, m \in DOMAIN f.todo : k < m => f.todo[k] < f.todo[m]
         /\ \A k, m \in DOMAIN f.todo : f.todo[k] = f.todo[m] => k = m
         /\ \A k \in DOMAIN f.todo : f.todo[k] \in DOMAIN f.plan
<1> DEFINE n == Len(f.plan)
           D == DOMAIN f.plan
           todo == f.todo
<1>1. /\ n \in Nat /\ D = 1 .. n
      /\ DOMAIN todo = 1 .. Len(todo) /\ Len(todo) \in Nat
  BY FrameFields
<1> HIDE DEF n, D, todo
<1>2. /\ todo \in Seq(D)
      /\ \A k, m \in 1 .. Len(todo) : k < m => todo[k] < todo[m]
  <2>1. Divided(n, D, todo, NotWritten(f.plan))
    BY <1>1, ToWriteFacts DEF todo, D
  <2> QED
    BY <2>1 DEF Divided
<1>3. ASSUME NEW k \in DOMAIN todo, NEW m \in DOMAIN todo, todo[k] = todo[m]
      PROVE  k = m
  <2>1. k \in Nat /\ m \in Nat
    BY <1>1
  <2>2. todo[k] \in Nat /\ todo[m] \in Nat
    BY <1>1, <1>2
  <2>3. ~(k < m) /\ ~(m < k)
    BY <1>1, <1>2, <1>3, <2>2
  <2> QED
    BY <2>1, <2>3
<1>4. \A k \in DOMAIN todo : todo[k] \in D
  BY <1>2
<1>5. \A k, m \in DOMAIN todo : k < m => todo[k] < todo[m]
  BY <1>1, <1>2
<1> QED
  BY <1>3, <1>4, <1>5 DEF D, todo

-----------------------------------------------------------------------------
(* Steps of other requests.                                                *)

\* The claims of request q, and of its store_claims that raised, stay.
Apart(q) ==
  /\ \A i \in Nat : <<q, i>> \in stored' <=> <<q, i>> \in stored
  /\ \A i \in Nat : <<q, i>> \in partial' <=> <<q, i>> \in partial

Grows == known \subseteq known' /\ sup \subseteq sup'

LEMMA ReasonStays ==
  ASSUME Grows, NEW mode, NEW b, NEW p, NEW i, Reason(mode, b, p, i)
  PROVE  Reason(mode, b, p, i)'
<1>1. KnownAbout(b[i].topic) \subseteq KnownAbout(b[i].topic)'
  BY DEF KnownAbout, Grows
<1>2. KnownAbout(b[i].topic)' = {} => KnownAbout(b[i].topic) = {}
  BY <1>1
<1>3. p.old \in known => p.old \in known'
  BY DEF Grows
<1> QED
  BY <1>2, <1>3 DEF Reason

LEMMA LinkedStays ==
  ASSUME Grows, NEW r, Linked(r),
         req'[r].batch = req[r].batch, req'[r].made = req[r].made
  PROVE  Linked(r)'
<1>1. \A i : Interposed(r, i) => Interposed(r, i)'
  BY DEF Interposed, KnownAbout, Grows
<1> QED
  BY <1>1 DEF Linked, Grows

LEMMA AnswerNumbers ==
  ASSUME NEW f \in Frame
  PROVE  \A k \in 1 .. Len(f.answer) : f.answer[k][1] \in Nat
<1>1. \A k \in 1 .. Len(f.answer) : f.answer[k] \in Nat \X Verdict
  BY FrameFields DEF Answers
<1> QED
  BY <1>1

LEMMA Others ==
  ASSUME Grows, NEW q \in Request, req[q] \in Frame, Local(q),
         req'[q] = req[q], Apart(q)
  PROVE  Local(q)'
<1> DEFINE f == req[q]
<1>1. ASSUME NEW said, said[1] \in Nat, IsTrue(q, said) PROVE IsTrue(q, said)'
  BY <1>1 DEF IsTrue, Apart
<1>2. Fits(q)'
  <2>1. f.made \in SUBSET Nat
    BY FrameFields
  <2> QED
    BY <2>1 DEF Local, Fits, Apart, Listed
<1>3. Begun(q)'
  BY DEF Local, Begun, Apart
<1>4. Midway(q)'
  <2> SUFFICES ASSUME f.pc \in {"create", "edge"} PROVE Midway(q)'
    BY DEF Midway
  <2>1. /\ f.pos \in DOMAIN f.todo /\ Len(f.answer) = f.pos - 1
        /\ \A k \in 1 .. f.pos - 1 :
             f.answer[k][1] = f.todo[k] /\ IsTrue(q, f.answer[k])
        /\ f.made \subseteq Handled(f)
        /\ \A i \in Nat :
             <<q, i>> \in stored => \/ i \in Handled(f)
                                    \/ f.pc = "edge" /\ i = f.todo[f.pos]
        /\ f.pc = "edge" => /\ <<q, f.todo[f.pos]>> \in stored
                            /\ <<q, f.todo[f.pos]>> \notin partial
    BY DEF Local, Midway
  <2>2. \A k \in 1 .. f.pos - 1 : IsTrue(q, f.answer[k])'
    BY <1>1, <2>1, AnswerNumbers
  <2>3. f.todo[f.pos] \in Nat
    BY <2>1, FrameFields
  <2> QED
    BY <2>1, <2>2, <2>3 DEF Midway, Apart
<1>5. Reasons(q)'
  BY ReasonStays DEF Local, Reasons
<1>6. Answered(q)'
  <2> SUFFICES ASSUME f.pc \in Over, f.answer # <<>> PROVE Answered(q)'
    BY DEF Answered
  <2> DEFINE N == Len(f.batch)
  <2>1. /\ Len(f.answer) = N /\ {f.answer[k][1] : k \in 1 .. N} = 1 .. N
        /\ \A k \in 1 .. N : IsTrue(q, f.answer[k])
    BY DEF Local, Answered
  <2>2. \A k \in 1 .. N : IsTrue(q, f.answer[k])'
    BY <1>1, <2>1, AnswerNumbers
  <2> QED
    BY <2>1, <2>2 DEF Answered
<1>7. Linked(q)'
  BY LinkedStays DEF Local
<1> QED
  BY <1>2, <1>3, <1>4, <1>5, <1>6, <1>7 DEF Local

-----------------------------------------------------------------------------
(* The end of an item.                                                     *)

LEMMA ItemDone ==
  ASSUME Inv, NEW r \in Request, Local(r), req[r].pc \in {"create", "edge"},
         NEW c, c = Current(r), NEW e \in Nat \X Verdict, e[1] = c,
         NEW g \in Frame, SameTask(req[r], g), g.pos = req[r].pos,
         g.answer = Append(req[r].answer, e),
         g.made \subseteq req[r].made \cup {c},
         \A i \in g.made : <<r, i>> \in stored,
         req' = [req EXCEPT ![r] = Onwards(g)],
         stored' = stored, partial' \subseteq stored, known' = known,
         \A i \in Nat \ {c} : <<r, i>> \in partial' <=> <<r, i>> \in partial,
         IsTrue(r, e)'
  PROVE  /\ req'[r] \in Frame /\ SameTask(req[r], req'[r])
         /\ req'[r].made = g.made /\ req'[r].pc \in {"create", "release"}
         /\ Fits(r)' /\ Begun(r)' /\ Midway(r)' /\ Reasons(r)' /\ Answered(r)'
<1>1. PICK f, h, todo, n, pos :
        /\ f = req[r] /\ h = req'[r] /\ todo = f.todo /\ n = Len(todo)
        /\ pos = f.pos
  OBVIOUS
<1>2. f \in Frame /\ h = Onwards(g) /\ req' = [q \in Request |-> req'[q]]
  BY <1>1 DEF Inv
<1>3. /\ pos \in DOMAIN todo /\ DOMAIN todo = 1 .. n /\ n \in Nat
      /\ pos \in Nat \ {0} /\ pos <= n /\ todo \in Seq(Nat) /\ c = todo[pos]
      /\ c \in Nat
  BY <1>1, <1>2, FrameFields DEF Local, Midway, Current
<1>4. /\ g.todo = todo /\ g.plan = f.plan /\ g.batch = f.batch
      /\ g.mode = f.mode /\ g.pos = pos
  BY <1>1 DEF SameTask
<1>5. /\ h \in Frame /\ SameTask(g, h) /\ h.made = g.made
      /\ NextItem(g, h) \/ Ended(g, h)
  <2>1. g.pos \in DOMAIN g.todo /\ h = Onwards(g)
    BY <1>1, <1>2, <1>3, <1>4
  <2> QED
    BY <2>1, OnwardsFacts
<1>6. /\ h.todo = todo /\ h.plan = f.plan /\ h.batch = f.batch
      /\ h.mode = f.mode /\ SameTask(f, h)
  <2>1. SameTask(g, h)
    BY <1>5
  <2> QED
    BY <1>1, <1>4, <2>1 DEF SameTask
<1>7. NextItem(g, h) => /\ h.pc = "create" /\ h.pos = pos + 1
                        /\ h.pos \in DOMAIN todo /\ h.answer = g.answer
  BY <1>4 DEF NextItem
<1>8. Ended(g, h) =>
        /\ h.pc = "release" /\ h.pos = pos
        /\ \E rest : /\ RestFailed(g, rest)
                     /\ h.answer = g.answer \o rest \o NotWritten(g.plan)
  BY <1>4 DEF Ended
<1>9. /\ h.pc \in {"create", "release"}
      /\ h.pc = "create" => NextItem(g, h)
      /\ h.pc = "release" => Ended(g, h)
  BY <1>5, <1>7, <1>8
<1>10. todo = ToWrite(f.plan)
  BY <1>1 DEF Local, Fits
<1>11. /\ \A k, m \in DOMAIN todo : todo[k] = todo[m] => k = m
       /\ \A k \in DOMAIN todo : todo[k] \in DOMAIN f.plan
  <2>1. f.todo = ToWrite(f.plan)
    BY <1>1, <1>10
  <2>2. /\ \A k, m \in DOMAIN f.todo : f.todo[k] = f.todo[m] => k = m
        /\ \A k \in DOMAIN f.todo : f.todo[k] \in DOMAIN f.plan
    BY <1>2, <2>1, Order
  <2> QED
    BY <1>1, <2>2
<1>12. \A k \in 1 .. n : todo[k] \in Nat
  BY <1>3
<1>13. \A k \in 1 .. n : k # pos => todo[k] # c
  BY <1>3, <1>11
<1>14. /\ Len(g.answer) = pos
       /\ \A k \in 1 .. pos :
            g.answer[k][1] = todo[k] /\ IsTrue(r, g.answer[k])'
  <2>1. /\ f.answer \in Answers /\ Len(f.answer) = pos - 1
        /\ \A k \in 1 .. pos - 1 : f.answer[k][1] = todo[k]
                                   /\ IsTrue(r, f.answer[k])
    BY <1>1, <1>2, FrameFields DEF Local, Midway
  <2>2. /\ Len(g.answer) = pos /\ g.answer[pos] = e
        /\ \A k \in 1 .. pos - 1 : g.answer[k] = f.answer[k]
    BY <1>1, <1>3, <2>1 DEF Answers
  <2>3. ASSUME NEW k \in 1 .. pos - 1 PROVE IsTrue(r, g.answer[k])'
    <3>1. k \in 1 .. n /\ k # pos
      BY <1>3
    <3>2. g.answer[k][1] \in Nat \ {c} /\ IsTrue(r, g.answer[k])
      BY <1>12, <1>13, <2>1, <2>2, <3>1
    <3> QED
      BY <3>2 DEF IsTrue
  <2>4. \A k \in 1 .. pos : k = pos \/ k \in 1 .. pos - 1
    BY <1>3
  <2> QED
    BY <1>3, <2>1, <2>2, <2>3, <2>4
<1>15. \A i \in Nat : <<r, i>> \in stored => \E k \in 1 .. pos : i = todo[k]
  <2>1. \A i \in Nat :
          <<r, i>> \in stored =>
            \/ i \in Handled(f)
            \/ f.pc = "edge" /\ i = todo[pos]
    BY <1>1 DEF Local, Midway
  <2>2. \A k \in 1 .. pos - 1 : k \in 1 .. pos
    BY <1>3
  <2>3. pos \in 1 .. pos
    BY <1>3
  <2> QED
    BY <1>1, <2>1, <2>2, <2>3 DEF Handled
<1>16. \A i \in g.made : \E k \in 1 .. pos : i = todo[k]
  <2>1. f.made \subseteq Handled(f)
    BY <1>1 DEF Local, Midway
  <2>2. \A k \in 1 .. pos - 1 : k \in 1 .. pos
    BY <1>3
  <2>3. pos \in 1 .. pos
    BY <1>3
  <2> QED
    BY <1>1, <1>3, <2>1, <2>2, <2>3 DEF Handled
<1>17. \A k \in 1 .. pos : k \in DOMAIN todo
  BY <1>3
<1>18. Fits(r)'
  <2>1. f.plan = <<>> \/ Len(f.plan) = Len(f.batch)
    BY <1>1 DEF Local, Fits
  <2>2. todo = ToWrite(f.plan)
    BY <1>1 DEF Local, Fits
  <2>3. h.pos <= n + 1
    <3>1. h.pos = pos + 1 \/ h.pos = pos
      BY <1>9, <1>7, <1>8
    <3> QED
      BY <1>3, <3>1
  <2>4. h.made \subseteq Listed(h)
    BY <1>5, <1>6, <1>16, <1>17 DEF Listed
  <2>5. \A i \in h.made : <<r, i>> \in stored'
    BY <1>5
  <2>6. \A i \in Nat : <<r, i>> \in stored' => i \in Listed(h)
    BY <1>6, <1>15, <1>17 DEF Listed
  <2> QED
    BY <1>1, <1>6, <2>1, <2>2, <2>3, <2>4, <2>5, <2>6 DEF Fits
<1>19. Begun(r)'
  BY <1>1, <1>9 DEF Begun, Before
<1>20. Midway(r)'
  <2> SUFFICES ASSUME h.pc = "create" PROVE Midway(r)'
    BY <1>1, <1>9 DEF Midway
  <2>1. h.pos = pos + 1 /\ h.pos \in DOMAIN todo /\ h.answer = g.answer
    BY <1>9, <1>7
  <2>2. h.pos - 1 = pos
    BY <1>3, <2>1
  <2>3. h.made \subseteq Handled(h)
    BY <1>5, <1>6, <1>16, <2>2 DEF Handled
  <2>4. \A i \in Nat : <<r, i>> \in stored' => i \in Handled(h)
    BY <1>6, <1>15, <2>2 DEF Handled
  <2>5. /\ Len(h.answer) = h.pos - 1
        /\ \A k \in 1 .. h.pos - 1 : h.answer[k][1] = h.todo[k]
                                     /\ IsTrue(r, h.answer[k])'
    BY <1>6, <1>14, <2>1, <2>2
  <2> QED
    BY <1>1, <1>6, <2>1, <2>3, <2>4, <2>5 DEF Midway
<1>21. Reasons(r)'
  <2>1. ASSUME NEW i \in DOMAIN f.plan
        PROVE  Reason(f.mode, f.batch, f.plan[i], i)'
    <3>1. Reason(f.mode, f.batch, f.plan[i], i)
      BY <1>1 DEF Local, Reasons
    <3> QED
      BY <1>1, <3>1 DEF Reason, KnownAbout
  <2> QED
    BY <1>1, <1>6, <2>1 DEF Reasons
<1>22. Answered(r)'
  <2> SUFFICES ASSUME h.pc = "release" PROVE Answered(r)'
    BY <1>1, <1>9 DEF Answered, Over
  <2>1. PICK rest :
          /\ RestFailed(g, rest)
          /\ h.answer = g.answer \o rest \o NotWritten(g.plan)
    BY <1>9, <1>8
  <2>2. /\ rest \in Answers /\ Len(rest) = n - pos
        /\ \A k \in 1 .. Len(rest) : rest[k] = <<todo[pos + k], "failed">>
    BY <1>1, <1>4, <2>1 DEF RestFailed
  <2>3. PICK told : told = g.answer \o rest
    OBVIOUS
  <2>4. g.answer \in Answers
    BY FrameFields
  <2>5. /\ told \in Answers /\ Len(told) = n
        /\ \A k \in 1 .. pos : told[k] = g.answer[k]
        /\ \A k \in 1 .. n - pos : told[pos + k] = <<todo[pos + k], "failed">>
    <3>1. /\ Len(told) = Len(g.answer) + Len(rest)
          /\ \A k \in 1 .. Len(g.answer) : told[k] = g.answer[k]
          /\ \A k \in 1 .. Len(rest) : told[Len(g.answer) + k] = rest[k]
      <4>1. PICK T : T = Nat \X Verdict
        OBVIOUS
      <4>2. g.answer \in Seq(T) /\ rest \in Seq(T)
        BY <2>2, <2>4, <4>1 DEF Answers
      <4> QED
        BY <2>3, <4>2, Joined
    <3>2. told \in Answers
      BY <2>2, <2>3, <2>4 DEF Answers
    <3> QED
      <4>1. Len(g.answer) = pos /\ Len(rest) = n - pos
        BY <1>14, <2>2
      <4>2. Len(told) = n
        BY <1>3, <3>1, <4>1
      <4>3. \A k \in 1 .. n - pos : told[pos + k] = rest[k]
        BY <3>1, <4>1
      <4> QED
        BY <2>2, <3>1, <3>2, <4>1, <4>2, <4>3
  <2>6. ASSUME NEW k \in 1 .. n
        PROVE  told[k][1] = todo[k] /\ IsTrue(r, told[k])'
    <3>1. CASE k \in 1 .. pos
      BY <1>14, <2>5, <3>1
    <3>2. CASE k \notin 1 .. pos
      <4>1. k - pos \in 1 .. n - pos /\ k = pos + (k - pos)
        BY <1>3, <3>2
      <4>2. told[k] = <<todo[k], "failed">>
        BY <2>5, <4>1
      <4>3. ~ \E m \in 1 .. pos : todo[k] = todo[m]
        BY <1>3, <1>17, <1>11, <3>2
      <4>4. <<r, todo[k]>> \notin stored
        BY <1>12, <1>15, <4>3
      <4>5. told[k][1] = todo[k] /\ told[k][2] = "failed"
        BY <4>2
      <4> QED
        BY <4>4, <4>5 DEF IsTrue
    <3> QED
      BY <3>1, <3>2
  <2>7. PICK N, a : N = Len(f.plan) /\ a = h.answer
    OBVIOUS
  <2>8. N \in Nat /\ DOMAIN f.plan = 1 .. N /\ N = Len(f.batch)
    <3>1. N \in Nat /\ DOMAIN f.plan = 1 .. N
      BY <1>2, <2>7, FrameFields
    <3>2. DOMAIN f.plan # {}
      BY <1>3, <1>11
    <3>3. f.plan # <<>>
      BY <3>2
    <3> QED
      BY <1>1, <2>7, <3>1, <3>3 DEF Local, Fits
  <2>9. Tells(told, todo)
    BY <1>1, <2>5, <2>6 DEF Tells
  <2>10. Whole(a, N, todo, told)
    <3>1. a = told \o NotWritten(f.plan)
      BY <1>4, <2>1, <2>3, <2>7
    <3> QED
      BY <1>10, <2>8, <2>9, <3>1, Complete
  <2>11. /\ Len(a) = N /\ {a[k][1] : k \in 1 .. N} = 1 .. N
         /\ \A k \in 1 .. N :
              /\ a[k][1] \in Nat
              /\ \/ k \in 1 .. n /\ a[k] = told[k]
                 \/ /\ a[k][2] \in {"skipped", "failed"}
                    /\ \A m \in 1 .. n : a[k][1] # todo[m]
    BY <1>1, <2>10 DEF Whole
  <2>12. ASSUME NEW k \in 1 .. N PROVE IsTrue(r, a[k])'
    <3>1. CASE k \in 1 .. n /\ a[k] = told[k]
      BY <2>6, <3>1
    <3>2. CASE /\ a[k][2] \in {"skipped", "failed"}
               /\ \A m \in 1 .. n : a[k][1] # todo[m]
      <4>1. a[k][1] \in Nat
        BY <2>11
      <4>2. <<r, a[k][1]>> \notin stored
        BY <1>3, <1>15, <1>17, <3>2, <4>1
      <4> QED
        BY <3>2, <4>2 DEF IsTrue
    <3> QED
      BY <2>11, <3>1, <3>2
  <2> QED
    <3>1. req'[r].answer = a /\ Len(req'[r].batch) = N
      BY <1>1, <1>6, <2>8, <2>7
    <3> QED
      BY <2>11, <2>12, <3>1 DEF Answered
<1> QED
  BY <1>1, <1>5, <1>6, <1>18, <1>9, <1>19, <1>20, <1>21, <1>22

-----------------------------------------------------------------------------
(* Steps of a request.                                                     *)

LEMMA EmptyPlan == ToWrite(<<>>) = <<>>
<1>1. Divided(0, DOMAIN <<>>, ToWrite(<<>>), NotWritten(<<>>))
  <2>1. DOMAIN <<>> = 1 .. 0
    OBVIOUS
  <2> QED
    BY <2>1, ToWriteFacts
<1>2. PICK D, todo, left : /\ D = DOMAIN <<>> /\ todo = ToWrite(<<>>)
                           /\ left = NotWritten(<<>>)
  OBVIOUS
<1>3. Divided(0, D, todo, left)
  BY <1>1, <1>2
<1>4. /\ todo \in Seq(D) /\ left \in Seq(D \X {"skipped", "failed"})
      /\ Len(todo) + Len(left) = 0
  BY <1>3 DEF Divided
<1>5. Len(todo) = 0
  <2>1. Len(todo) \in Nat /\ Len(left) \in Nat
    BY <1>4
  <2> QED
    BY <1>4, <2>1
<1>6. todo = <<>>
  BY <1>4, <1>5
<1> QED
  BY <1>2, <1>6

LEMMA BatchLength ==
  ASSUME NEW f \in Frame
  PROVE  Len(f.batch) \in Nat /\ DOMAIN f.batch = 1 .. Len(f.batch)
<1>1. CASE f.batch = <<>>
  BY <1>1
<1>2. CASE f.batch \in Batch
  BY <1>2, ItemFields
<1> QED
  BY <1>1, <1>2, FrameFields

\* The invariant gives what TypeOK says of the requests.
LEMMA FitsTypes ==
  ASSUME NEW r, req[r] \in Frame, Fits(r)
  PROVE  LET f == req[r]
         IN  /\ f.made \subseteq DOMAIN f.batch /\ f.pos <= Len(f.batch) + 1
             /\ {f.todo[k] : k \in DOMAIN f.todo} \subseteq DOMAIN f.batch
<1>1. PICK f : f = req[r]
  OBVIOUS
<1>2. /\ f \in Frame
      /\ f.plan = <<>> \/ Len(f.plan) = Len(f.batch)
      /\ f.todo = ToWrite(f.plan) /\ f.pos <= Len(f.todo) + 1
      /\ f.made \subseteq Listed(f)
  BY <1>1 DEF Fits
<1>3. \A k \in DOMAIN f.todo : f.todo[k] \in DOMAIN f.plan
  BY <1>2, Order
<1> DEFINE n == Len(f.plan)
<1>4. /\ n \in Nat /\ DOMAIN f.plan = 1 .. n /\ Len(f.todo) \in Nat
      /\ f.pos \in Nat
  BY <1>2, FrameFields
<1>5. n <= Len(f.batch) /\ Len(f.batch) \in Nat
      /\ DOMAIN f.batch = 1 .. Len(f.batch)
  <2>1. Len(f.batch) \in Nat /\ DOMAIN f.batch = 1 .. Len(f.batch)
    BY <1>2, BatchLength
  <2>2. f.plan = <<>> => n = 0
    OBVIOUS
  <2> QED
    BY <1>2, <1>4, <2>1, <2>2
<1>6. Len(f.todo) <= n
  <2>1. PICK left : left = NotWritten(f.plan)
    OBVIOUS
  <2>2. Divided(n, DOMAIN f.plan, f.todo, left)
    BY <1>2, <1>4, <2>1, ToWriteFacts
  <2> HIDE DEF n
  <2>3. Len(f.todo) + Len(left) = n /\ Len(left) \in Nat
    BY <2>2 DEF Divided
  <2> QED
    BY <1>4, <2>3
<1> HIDE DEF n
<1>7. DOMAIN f.plan \subseteq DOMAIN f.batch
  BY <1>4, <1>5
<1>8. f.pos <= Len(f.batch) + 1
  BY <1>2, <1>4, <1>5, <1>6
<1>9. Listed(f) \subseteq DOMAIN f.batch
  BY <1>3, <1>7 DEF Listed
<1> QED
  BY <1>1, <1>2, <1>8, <1>9 DEF Listed

LEMMA InvTypes == Inv => TypeOK
<1>1. ASSUME Inv
      PROVE  \A r \in Request :
               LET f == req[r]
               IN  /\ f.made \subseteq DOMAIN f.batch
                   /\ f.pos <= Len(f.batch) + 1
                   /\ {f.todo[k] : k \in DOMAIN f.todo} \subseteq DOMAIN f.batch
  BY <1>1, FitsTypes DEF Inv, Local
<1> QED
  BY <1>1 DEF Inv, Typed, TypeOK

\* No edge leaves a request that has not begun to write.
LEMMA NoEdges ==
  ASSUME Inv, NEW r \in Request, req[r].pc \in Before
  PROVE  \A e \in sup : e[1][1] # r
<1>1. \A i \in Nat : <<r, i>> \notin stored
  BY DEF Inv, Local, Begun
<1>2. ASSUME NEW e \in sup, e[1][1] = r PROVE FALSE
  <2>1. e[1] \in stored
    BY DEF Inv, Typed
  <2>2. e[1] = <<r, e[1][2]>> /\ e[1][2] \in Nat
    BY <1>2, <2>1 DEF Inv, Typed
  <2> QED
    BY <1>1, <2>1, <2>2
<1> QED
  BY <1>2

\* The edges that there are stay rightful if a request keeps its task, or has
\* none of them.
LEMMA ReasonsStay ==
  ASSUME Inv, NEW r \in Request, NEW h, req' = [req EXCEPT ![r] = h],
         SameTask(req[r], h) \/ \A e \in sup : e[1][1] # r,
         \A e \in sup' \ sup : Rightful(e[1][1], e[1][2], e[2])'
  PROVE  SupersededForAReason'
<1> SUFFICES ASSUME NEW e \in sup
             PROVE  Rightful(e[1][1], e[1][2], e[2])'
  BY DEF SupersededForAReason
<1>1. e[1][1] \in Request
  BY DEF Inv, Typed
<1>2. /\ req'[e[1][1]].batch = req[e[1][1]].batch
      /\ req'[e[1][1]].mode = req[e[1][1]].mode
  <2>1. CASE e[1][1] # r
    BY <1>1, <2>1 DEF Inv
  <2>2. CASE e[1][1] = r
    BY <1>1, <2>2 DEF Inv, SameTask
  <2> QED
    BY <2>1, <2>2
<1>3. Rightful(e[1][1], e[1][2], e[2])
  BY DEF Inv, SupersededForAReason
<1> QED
  BY <1>2, <1>3 DEF Rightful

LEMMA Rebuilt ==
  ASSUME Inv, NEW r \in Request, NEW h \in Frame,
         req' = [req EXCEPT ![r] = h], Grows,
         \A q \in Request \ {r} : Apart(q),
         Local(r)', Typed', SupersededForAReason'
  PROVE  Inv'
<1>1. /\ req' \in [Request -> Frame]
      /\ \A q \in Request \ {r} : req'[q] = req[q]
  BY DEF Inv
<1>2. ASSUME NEW q \in Request, q # r PROVE Local(q)'
  <2>1. req[q] \in Frame /\ Local(q) /\ req'[q] = req[q] /\ Apart(q)
    BY <1>1, <1>2 DEF Inv
  <2> QED
    BY <2>1, Others
<1>3. \A q \in Request : Local(q)'
  BY <1>2
<1> QED
  BY <1>1, <1>3 DEF Inv

\* Nothing happens to the graph, or to one request but for where it is.
LEMMA Quiet ==
  ASSUME UNCHANGED graphVars
  PROVE  Grows /\ \A q \in Request : Apart(q)
BY DEF graphVars, Grows, Apart

LEMMA PcStep ==
  ASSUME Inv, NEW r \in Request, NEW pc, Goes(r, pc), UNCHANGED graphVars,
         pc \in Before \cup Over \cup {"dead"},
         pc \in Before => req[r].pc \in Before,
         pc \in Over => req[r].pc \in Over \/ req[r].answer = <<>>,
         Typed'
  PROVE  Inv'
<1>1. PICK f, h : f = req[r] /\ h = [f EXCEPT !.pc = pc]
  OBVIOUS
<1>2. f \in Frame /\ req' = [req EXCEPT ![r] = h] /\ req'[r] = h
  BY <1>1 DEF Inv, Goes
<1>3. pc \in Pc
  BY DEF Before, Over, Pc
<1>4. /\ h \in Frame /\ h.pc = pc /\ SameTask(f, h) /\ h.made = f.made
      /\ h.pos = f.pos /\ h.answer = f.answer
  BY <1>1, <1>2, <1>3 DEF Frame, SameTask
<1>5. Grows /\ \A q \in Request : Apart(q)
  BY Quiet
<1>6. /\ stored' = stored /\ partial' = partial /\ sup' = sup /\ known' = known
  BY DEF graphVars
<1>7. Fits(r)'
  BY <1>1, <1>2, <1>4, <1>6 DEF Inv, Local, Fits, SameTask, Listed
<1>8. Begun(r)'
  BY <1>1, <1>2, <1>4, <1>6 DEF Inv, Local, Begun, SameTask
<1>9. Midway(r)'
  <2>1. h.pc \notin {"create", "edge"}
    BY <1>4 DEF Before, Over
  <2> QED
    BY <1>2, <2>1 DEF Midway
<1>10. Reasons(r)'
  BY <1>1, <1>2, <1>4, <1>5, ReasonStays DEF Inv, Local, Reasons, SameTask
<1>11. Answered(r)'
  <2> SUFFICES ASSUME h.pc \in Over, h.answer # <<>> PROVE Answered(r)'
    BY <1>2 DEF Answered
  <2>1. f.pc \in Over
    BY <1>1, <1>4
  <2> DEFINE N == Len(f.batch)
  <2>2. /\ Len(f.answer) = N /\ {f.answer[k][1] : k \in 1 .. N} = 1 .. N
        /\ \A k \in 1 .. N : IsTrue(r, f.answer[k])
    BY <1>1, <1>4, <2>1 DEF Inv, Local, Answered
  <2>3. \A k \in 1 .. N : IsTrue(r, f.answer[k])'
    BY <1>6, <2>2 DEF IsTrue
  <2>4. req'[r].answer = f.answer /\ Len(req'[r].batch) = N
    BY <1>2, <1>4 DEF SameTask
  <2> QED
    BY <2>2, <2>3, <2>4 DEF Answered
<1>12. Linked(r)'
  BY <1>1, <1>2, <1>4, <1>5, LinkedStays DEF Inv, Local, SameTask
<1>13. SupersededForAReason'
  BY <1>1, <1>2, <1>4, <1>6, ReasonsStay
<1> QED
  BY <1>2, <1>4, <1>5, <1>7, <1>8, <1>9, <1>10, <1>11, <1>12, <1>13, Rebuilt
     DEF Local

-----------------------------------------------------------------------------
(* A request arrives and is planned.                                       *)

\* A request with its task, its plan and an answer to all that is left.
LEMMA FreshLocal ==
  ASSUME Inv, NEW r \in Request, req[r].pc \in Before,
         NEW h \in Frame, req' = [req EXCEPT ![r] = h], UNCHANGED graphVars,
         h.made = {}, h.pos = 1, h.todo = ToWrite(h.plan),
         h.plan = <<>> \/ Len(h.plan) = Len(h.batch),
         \A i \in DOMAIN h.plan : Reason(h.mode, h.batch, h.plan[i], i),
         \/ h.pc = "lock" /\ h.plan = <<>> /\ h.answer = <<>>
         \/ h.pc = "create" /\ h.todo # <<>> /\ h.answer = <<>>
         \/ /\ h.pc = "release" /\ h.todo = <<>>
            /\ h.answer = NotWritten(h.plan) /\ Len(h.plan) = Len(h.batch)
  PROVE  Local(r)'
<1>1. /\ req'[r] = h /\ known' = known /\ stored' = stored
      /\ partial' = partial
  BY DEF Inv, graphVars
<1>2. \A i \in Nat : <<r, i>> \notin stored /\ <<r, i>> \notin partial
  <2>1. \A i \in Nat : <<r, i>> \notin stored
    BY DEF Inv, Local, Begun
  <2>2. partial \subseteq stored
    BY DEF Inv, Typed
  <2> QED
    BY <2>1, <2>2
<1>3. DOMAIN h.todo = 1 .. Len(h.todo) /\ Len(h.todo) \in Nat
      /\ h.todo \in Seq(Nat)
  BY FrameFields
<1>4. Fits(r)'
  <2>1. h.pos <= Len(h.todo) + 1
    BY <1>3
  <2> QED
    BY <1>1, <1>2, <2>1 DEF Fits
<1>5. Begun(r)'
  <2>1. h.pc \in Before => h.plan = <<>> /\ h.answer = <<>>
    BY DEF Before
  <2> QED
    BY <1>1, <1>2, <2>1 DEF Begun
<1>6. Midway(r)'
  <2> SUFFICES ASSUME h.pc \in {"create", "edge"} PROVE Midway(r)'
    BY <1>1 DEF Midway
  <2>1. h.pc = "create" /\ h.todo # <<>> /\ h.answer = <<>>
    OBVIOUS
  <2>2. Len(h.todo) # 0
    BY <1>3, <2>1
  <2>3. h.pos \in DOMAIN h.todo
    BY <1>3, <2>2
  <2>4. Len(h.answer) = h.pos - 1 /\ 1 .. h.pos - 1 = {}
    BY <2>1
  <2> QED
    BY <1>1, <1>2, <2>1, <2>3, <2>4 DEF Midway
<1>7. Reasons(r)'
  BY <1>1 DEF Reasons, Reason, KnownAbout
<1>8. Answered(r)'
  <2> SUFFICES ASSUME h.pc \in Over PROVE Answered(r)'
    BY <1>1 DEF Answered
  <2>1. /\ h.todo = <<>> /\ h.answer = NotWritten(h.plan)
        /\ Len(h.plan) = Len(h.batch)
    BY DEF Over
  <2>2. PICK N, a : N = Len(h.plan) /\ a = h.answer
    OBVIOUS
  <2>3. N \in Nat /\ DOMAIN h.plan = 1 .. N
    BY <2>2, FrameFields
  <2>4. Tells(<<>>, ToWrite(h.plan))
    BY <2>1 DEF Tells, Answers
  <2>5. Whole(<<>> \o NotWritten(h.plan), N, ToWrite(h.plan), <<>>)
    BY <2>3, <2>4, Complete
  <2>6. <<>> \o NotWritten(h.plan) = a
    BY <2>1, <2>2, NotWrittenType DEF Answers
  <2>7. Whole(a, N, <<>>, <<>>)
    BY <2>1, <2>5, <2>6
  <2>8. /\ Len(a) = N /\ {a[k][1] : k \in 1 .. N} = 1 .. N
        /\ \A k \in 1 .. N :
             a[k][1] \in Nat /\ a[k][2] \in {"skipped", "failed"}
    BY <2>7 DEF Whole
  <2>9. \A k \in 1 .. N : IsTrue(r, a[k])'
    BY <1>1, <1>2, <2>8 DEF IsTrue
  <2>10. req'[r].answer = a /\ Len(req'[r].batch) = N
    BY <1>1, <2>1, <2>2
  <2> QED
    BY <2>8, <2>9, <2>10 DEF Answered
<1>9. Linked(r)'
  BY <1>1 DEF Linked
<1> QED
  BY <1>4, <1>5, <1>6, <1>7, <1>8, <1>9 DEF Local

LEMMA FreshStep ==
  ASSUME Inv, NEW r \in Request, req[r].pc \in Before,
         NEW h \in Frame, req' = [req EXCEPT ![r] = h], UNCHANGED graphVars,
         Local(r)', Typed'
  PROVE  Inv'
<1>1. Grows /\ \A q \in Request : Apart(q)
  BY Quiet
<1>2. sup' = sup
  BY DEF graphVars
<1>3. \A e \in sup : e[1][1] # r
  BY NoEdges
<1>4. SupersededForAReason'
  BY <1>2, <1>3, ReasonsStay
<1> QED
  BY <1>1, <1>4, Rebuilt

LEMMA TypedStays ==
  ASSUME Inv, UNCHANGED graphVars, lock' \in Request \cup {NoRequest},
         faults' \in 0 .. MaxFaults, expired' = expired
  PROVE  Typed'
BY DEF Inv, Typed, graphVars

LEMMA FaultTyped ==
  ASSUME Inv, Fault
  PROVE  faults' \in 0 .. MaxFaults
<1>1. faults \in Nat /\ MaxFaults \in Nat
  BY BatchAssumption DEF Inv, Typed
<1> QED
  BY <1>1 DEF Fault

LEMMA LArrive ==
  ASSUME Inv, NEW r \in Request, Arrive(r)
  PROVE  Inv'
<1>1. PICK b \in Batch, mode \in Modes :
        req' = [req EXCEPT ![r] =
                  [Idle EXCEPT !.pc = "lock", !.batch = b, !.mode = mode]]
  BY DEF Arrive
<1>2. PICK h : h = [Idle EXCEPT !.pc = "lock", !.batch = b, !.mode = mode]
  OBVIOUS
<1>3. /\ h.pc = "lock" /\ h.made = {} /\ h.pos = 1 /\ h.plan = <<>>
      /\ h.todo = <<>> /\ h.answer = <<>>
  BY <1>2 DEF Idle
<1>4. h \in Frame
  <2>1. h = [pc |-> "lock", batch |-> b, mode |-> mode, plan |-> <<>>,
             todo |-> <<>>, pos |-> 1, made |-> {}, failed |-> 0,
             answer |-> <<>>]
    BY <1>2 DEF Idle
  <2>2. /\ <<>> \in Seq(Plan) /\ <<>> \in Seq(Nat)
        /\ <<>> \in Seq(Nat \X Verdict) /\ {} \in SUBSET Nat
    OBVIOUS
  <2> QED
    BY <2>1, <2>2 DEF Frame, Pc
<1>5. UNCHANGED graphVars /\ req[r].pc \in Before
  BY DEF Arrive, At, Before
<1>6. Local(r)'
  <2>1. req' = [req EXCEPT ![r] = h]
    BY <1>1, <1>2
  <2>2. h.todo = ToWrite(h.plan) /\ DOMAIN h.plan = {}
    BY <1>3, EmptyPlan
  <2> QED
    BY <1>3, <1>4, <1>5, <2>1, <2>2, FreshLocal
<1>7. Typed'
  BY TypedStays DEF Arrive, Inv, Typed
<1> QED
  BY <1>1, <1>2, <1>4, <1>5, <1>6, <1>7, FreshStep

LEMMA LDetect ==
  ASSUME Inv, NEW r \in Request, Detect(r)
  PROVE  Inv' /\ req'[r].pc \in {"create", "release"}
<1>1. PICK last \in Lasts :
        LET b == req[r].batch
            plan == [i \in DOMAIN b |-> Planned(b, req[r].mode, last, i)]
            frame == [req[r] EXCEPT !.plan = plan, !.todo = ToWrite(plan)]
        IN  req' = [req EXCEPT ![r] =
              IF ToWrite(plan) = <<>> THEN Finished(frame)
              ELSE [frame EXCEPT !.pc = "create"]]
  BY DEF Detect
<1>2. PICK f, b, mode : f = req[r] /\ b = f.batch /\ mode = f.mode
  OBVIOUS
<1>3. PICK plan : plan = [i \in DOMAIN b |-> Planned(b, mode, last, i)]
  OBVIOUS
<1>4. PICK todo : todo = ToWrite(plan)
  OBVIOUS
<1>5. PICK g : g = [f EXCEPT !.plan = plan, !.todo = todo]
  OBVIOUS
<1>6. PICK h : h = IF todo = <<>> THEN Finished(g)
                   ELSE [g EXCEPT !.pc = "create"]
  OBVIOUS
<1>7. req' = [req EXCEPT ![r] = h]
  BY <1>1, <1>2, <1>3, <1>4, <1>5, <1>6
<1>8. /\ f \in Frame /\ f.pc = "detect" /\ f.made = {} /\ f.pos = 1
      /\ f.answer = <<>> /\ mode \in Modes /\ known \subseteq Extracted
      /\ b = <<>> \/ b \in Batch
  <2>1. f \in Frame /\ f.pc = "detect"
    BY <1>2 DEF Inv, Detect, At
  <2>2. f.made = {} /\ f.pos = 1 /\ f.answer = <<>>
    BY <1>2, <2>1 DEF Inv, Local, Begun, Before
  <2> QED
    BY <1>2, <2>1, <2>2, FrameFields DEF Inv, Typed
<1>9. /\ plan \in Seq(Plan) /\ Len(plan) = Len(b) /\ DOMAIN plan = DOMAIN b
      /\ \A i \in DOMAIN plan : Reason(mode, b, plan[i], i)
  <2>1. DOMAIN b = 1 .. Len(b) /\ Len(b) \in Nat
    BY <1>2, <1>8, BatchLength
  <2>2. ASSUME NEW i \in DOMAIN b
        PROVE  plan[i] \in Plan /\ Reason(mode, b, plan[i], i)
    <3>1. b \in Batch
      BY <1>8, <2>2
    <3>2. plan[i] = Planned(b, mode, last, i)
      BY <1>3
    <3> QED
      BY <1>8, <3>1, <3>2, PlannedFacts
  <2>3. DOMAIN plan = DOMAIN b
    BY <1>3
  <2>4. PICK n \in Nat : n = Len(b)
    BY <2>1
  <2>5. plan \in [1 .. n -> Plan]
    BY <1>3, <2>1, <2>2, <2>4
  <2>6. plan \in Seq(Plan) /\ Len(plan) = n
    BY <2>5
  <2> QED
    BY <2>2, <2>3, <2>4, <2>6
<1>10. todo \in Seq(Nat)
  <2>1. PICK D, n, left : /\ D = DOMAIN plan /\ n = Len(plan)
                          /\ left = NotWritten(plan)
    OBVIOUS
  <2>2. n \in Nat /\ D = 1 .. n
    BY <1>9, <2>1
  <2>3. Divided(n, D, todo, left)
    BY <1>4, <2>1, <2>2, ToWriteFacts
  <2>4. todo \in Seq(D)
    BY <2>3 DEF Divided
  <2> QED
    BY <2>2, <2>4
<1>11. /\ g \in Frame /\ g.plan = plan /\ g.todo = todo /\ g.batch = b
       /\ g.mode = mode /\ g.made = {} /\ g.pos = 1 /\ g.answer = <<>>
  BY <1>2, <1>5, <1>8, <1>9, <1>10 DEF Frame
<1>12. /\ h \in Frame /\ SameTask(g, h) /\ h.made = {} /\ h.pos = 1
       /\ \/ h.pc = "create" /\ todo # <<>> /\ h.answer = <<>>
          \/ h.pc = "release" /\ todo = <<>> /\ h.answer = NotWritten(plan)
  <2>1. CASE todo = <<>>
    <3>1. h = Finished(g)
      BY <1>6, <2>1
    <3>2. /\ h \in Frame /\ SameTask(g, h) /\ h.made = {} /\ h.pos = 1
          /\ h.pc = "release" /\ h.answer = <<>> \o NotWritten(plan)
      BY <1>11, <3>1, FinishedFacts
    <3>3. <<>> \o NotWritten(plan) = NotWritten(plan)
      BY <1>11, NotWrittenType DEF Answers
    <3> QED
      BY <2>1, <3>2, <3>3
  <2>2. CASE todo # <<>>
    <3>1. h = [g EXCEPT !.pc = "create"]
      BY <1>6, <2>2
    <3>2. /\ h \in Frame /\ SameTask(g, h) /\ h.made = g.made /\ h.pos = g.pos
          /\ h.pc = "create" /\ h.answer = g.answer
      BY <1>11, <3>1 DEF Frame, SameTask, Pc
    <3> QED
      BY <1>11, <2>2, <3>2
  <2> QED
    BY <2>1, <2>2
<1>13. UNCHANGED graphVars /\ req[r].pc \in Before
  BY <1>2, <1>8 DEF Detect, Before
<1>14. /\ h.plan = plan /\ h.todo = todo /\ h.batch = b /\ h.mode = mode
  BY <1>11, <1>12 DEF SameTask
<1>15. Local(r)'
  <2>1. /\ h.todo = ToWrite(h.plan) /\ Len(h.plan) = Len(h.batch)
        /\ \A i \in DOMAIN h.plan : Reason(h.mode, h.batch, h.plan[i], i)
    BY <1>4, <1>9, <1>14
  <2>2. \/ h.pc = "create" /\ h.todo # <<>> /\ h.answer = <<>>
        \/ /\ h.pc = "release" /\ h.todo = <<>>
           /\ h.answer = NotWritten(h.plan) /\ Len(h.plan) = Len(h.batch)
    BY <1>12, <1>14, <2>1
  <2> QED
    BY <1>7, <1>12, <1>13, <2>1, <2>2, FreshLocal
<1>16. Typed'
  BY <1>13, TypedStays DEF Detect, Inv, Typed
<1>17. req'[r].pc \in {"create", "release"}
  BY <1>7, <1>12 DEF Inv
<1> QED
  BY <1>7, <1>12, <1>13, <1>15, <1>16, <1>17, FreshStep

-----------------------------------------------------------------------------
(* A request writes.                                                       *)

\* What the current item of a request that creates or links is.
LEMMA CurrentFacts ==
  ASSUME Inv, NEW r \in Request, req[r].pc \in {"create", "edge"},
         NEW c, c = Current(r)
  PROVE  /\ c \in Nat \ {0} /\ c \in Listed(req[r])
         /\ c \in DOMAIN req[r].plan /\ c \in DOMAIN req[r].batch
         /\ req[r].pc = "edge" => <<r, c>> \in stored /\ <<r, c>> \notin partial
         /\ req[r].pc = "create" => <<r, c>> \notin stored
         /\ \A j \in req[r].made : j < c
<1>1. PICK f : f = req[r]
  OBVIOUS
<1>2. f \in Frame /\ f.pos \in DOMAIN f.todo /\ c = f.todo[f.pos]
  BY <1>1 DEF Inv, Local, Midway, Current
<1>3. f.todo = ToWrite(f.plan)
  BY <1>1 DEF Inv, Local, Fits
<1>4. /\ \A k, m \in DOMAIN f.todo : k < m => f.todo[k] < f.todo[m]
      /\ \A k, m \in DOMAIN f.todo : f.todo[k] = f.todo[m] => k = m
      /\ \A k \in DOMAIN f.todo : f.todo[k] \in DOMAIN f.plan
  BY <1>2, <1>3, Order
<1>5. /\ DOMAIN f.todo = 1 .. Len(f.todo) /\ Len(f.todo) \in Nat
      /\ DOMAIN f.plan = 1 .. Len(f.plan)
  BY <1>2, FrameFields
<1>6. \A k \in 1 .. f.pos - 1 :
        k \in DOMAIN f.todo /\ k < f.pos /\ k # f.pos
  BY <1>2, <1>5
<1>7. c \in DOMAIN f.plan /\ c \in Nat \ {0} /\ c \in Listed(f)
  BY <1>2, <1>4, <1>5 DEF Listed
<1>8. c \in DOMAIN f.batch
  <2>1. {f.todo[k] : k \in DOMAIN f.todo} \subseteq DOMAIN f.batch
    BY <1>1, <1>2, FitsTypes DEF Inv, Local
  <2> QED
    BY <1>2, <2>1
<1>9. \A j \in Handled(f) : j < c /\ j # c
  <2>1. ASSUME NEW k \in 1 .. f.pos - 1 PROVE f.todo[k] < c /\ f.todo[k] # c
    BY <1>2, <1>4, <1>6
  <2> QED
    BY <2>1 DEF Handled
<1>10. f.pc = "edge" => <<r, c>> \in stored /\ <<r, c>> \notin partial
  BY <1>1, <1>2 DEF Inv, Local, Midway
<1>11. f.pc = "create" => <<r, c>> \notin stored
  BY <1>1, <1>2, <1>7, <1>9 DEF Inv, Local, Midway
<1>12. f.made \subseteq Handled(f)
  BY <1>1 DEF Inv, Local, Midway
<1> QED
  BY <1>1, <1>7, <1>8, <1>9, <1>10, <1>11, <1>12

LEMMA LCreate ==
  ASSUME Inv, NEW r \in Request, Create(r)
  PROVE  Inv'
<1>1. PICK f, c, h : /\ f = req[r] /\ c = Current(r)
                     /\ h = [f EXCEPT !.pc = "edge"]
  OBVIOUS
<1>2. /\ f \in Frame /\ f.pc = "create" /\ req' = [req EXCEPT ![r] = h]
      /\ req'[r] = h /\ stored' = stored \cup {<<r, c>>}
      /\ partial' = partial /\ known' = known /\ sup' = sup
  BY <1>1 DEF Inv, Create, At, Goes
<1>3. /\ h \in Frame /\ h.pc = "edge" /\ SameTask(f, h) /\ h.made = f.made
      /\ h.pos = f.pos /\ h.answer = f.answer
  BY <1>1, <1>2 DEF Frame, SameTask, Pc
<1>4. /\ c \in Nat \ {0} /\ c \in Listed(f) /\ <<r, c>> \notin stored
  BY <1>1, <1>2, CurrentFacts
<1>5. partial \subseteq stored
  BY DEF Inv, Typed
<1>6. Grows /\ \A q \in Request \ {r} : Apart(q)
  BY <1>2 DEF Grows, Apart
<1>7. Fits(r)'
  <2>1. /\ f.plan = <<>> \/ Len(f.plan) = Len(f.batch)
        /\ f.todo = ToWrite(f.plan) /\ f.pos <= Len(f.todo) + 1
        /\ f.made \subseteq Listed(f)
        /\ \A i \in f.made : <<r, i>> \in stored
        /\ \A i \in Nat : <<r, i>> \in stored => i \in Listed(f)
    BY <1>1 DEF Inv, Local, Fits
  <2>2. Listed(h) = Listed(f)
    BY <1>3 DEF Listed, SameTask
  <2>3. \A i \in Nat : <<r, i>> \in stored' => i \in Listed(h)
    BY <1>2, <1>4, <2>1, <2>2
  <2> QED
    BY <1>2, <1>3, <2>1, <2>2, <2>3 DEF Fits, SameTask
<1>8. Begun(r)'
  BY <1>2, <1>3 DEF Begun, Before
<1>9. Midway(r)'
  <2>1. /\ f.pos \in DOMAIN f.todo
        /\ Len(f.answer) = f.pos - 1
        /\ \A k \in 1 .. f.pos - 1 :
             f.answer[k][1] = f.todo[k] /\ IsTrue(r, f.answer[k])
        /\ f.made \subseteq Handled(f)
        /\ \A i \in Nat : <<r, i>> \in stored => i \in Handled(f)
    BY <1>1, <1>2 DEF Inv, Local, Midway
  <2>2. c = f.todo[f.pos]
    BY <1>1 DEF Current
  <2>3. ASSUME NEW k \in 1 .. f.pos - 1 PROVE IsTrue(r, f.answer[k])'
    <3>1. f.answer[k][1] # c
      <4>1. /\ \A m, n \in DOMAIN f.todo : f.todo[m] = f.todo[n] => m = n
        BY <1>1, <1>2, Order DEF Inv, Local, Fits
      <4>2. k \in DOMAIN f.todo /\ k # f.pos
        BY <1>2, <2>1, FrameFields
      <4> QED
        BY <2>1, <2>2, <4>1, <4>2
    <3> QED
      BY <1>2, <2>1, <3>1 DEF IsTrue
  <2>4. \A i \in Nat : <<r, i>> \in stored' =>
                         i \in Handled(f) \/ i = f.todo[f.pos]
    BY <1>2, <2>1, <2>2
  <2>5. Handled(h) = Handled(f)
    BY <1>3 DEF Handled, SameTask
  <2>6. <<r, f.todo[f.pos]>> \in stored' /\ <<r, f.todo[f.pos]>> \notin partial'
    BY <1>2, <1>4, <1>5, <2>2
  <2>7. /\ h.todo = f.todo /\ h.pos = f.pos /\ h.answer = f.answer
        /\ h.made = f.made /\ h.pc = "edge"
    BY <1>3 DEF SameTask
  <2> QED
    BY <1>2, <2>1, <2>3, <2>4, <2>5, <2>6, <2>7 DEF Midway
<1>10. Reasons(r)'
  BY <1>1, <1>2, <1>3, <1>6, ReasonStays DEF Inv, Local, Reasons, SameTask
<1>11. Answered(r)'
  BY <1>2, <1>3 DEF Answered, Over
<1>12. Linked(r)'
  BY <1>1, <1>2, <1>3, <1>6, LinkedStays DEF Inv, Local, SameTask
<1>13. SupersededForAReason'
  BY <1>1, <1>2, <1>3, ReasonsStay
<1>14. Typed'
  BY <1>2, <1>4 DEF Inv, Typed, Create
<1> QED
  BY <1>2, <1>3, <1>6, <1>7, <1>8, <1>9, <1>10, <1>11, <1>12, <1>13, <1>14,
     Rebuilt DEF Local

\* Whom the current item supersedes.
LEMMA TargetFacts ==
  ASSUME Inv, NEW r \in Request, req[r].pc = "edge",
         NEW c, c = Current(r), NEW t, t = Target(r)
  PROVE  \/ t = NoClaim
         \/ t \in stored \cup known /\ Rightful(r, c, t)
<1>1. PICK f, b, p : f = req[r] /\ b = f.batch /\ p = f.plan[c]
  OBVIOUS
<1>2. c \in DOMAIN f.plan /\ Reason(f.mode, b, p, c)
  BY <1>1, CurrentFacts DEF Inv, Local, Reasons
<1>3. /\ f.made \subseteq DOMAIN b /\ \A i \in f.made : <<r, i>> \in stored
      /\ DOMAIN b = 1 .. Len(b) /\ Len(b) \in Nat
  <2>1. f \in Frame /\ Fits(r)
    BY <1>1 DEF Inv, Local
  <2> QED
    BY <1>1, <2>1, FitsTypes, BatchLength DEF Fits
<1>4. PICK ofDoc : ofDoc = {j \in f.made : b[j].doc = p.doc}
  OBVIOUS
<1>5. t = IF p.old # NoClaim THEN p.old
          ELSE IF p.index \in f.made THEN <<r, p.index>>
          ELSE IF p.doc # 0 /\ ofDoc # {} THEN <<r, Max(ofDoc)>>
          ELSE NoClaim
  BY <1>1, <1>4 DEF Target
<1>6. CASE p.old # NoClaim
  <2>1. t = p.old
    BY <1>5, <1>6
  <2>2. /\ p.old \in known /\ f.mode = "supersede"
        /\ About[p.old].topic = b[c].topic /\ About[p.old].object # b[c].object
    BY <1>2, <1>6 DEF Reason
  <2>3. p.old \in Extracted
    BY <2>2 DEF Inv, Typed
  <2> QED
    BY <1>1, <2>1, <2>2, <2>3 DEF Rightful
<1>7. CASE p.old = NoClaim /\ p.index \in f.made
  <2>1. t = <<r, p.index>>
    BY <1>5, <1>7
  <2>2. p.index # 0
    BY <1>3, <1>7
  <2>3. Ahead(b, p.index, c)
    BY <1>2, <2>2 DEF Reason
  <2>4. Rightful(r, c, t)
    BY <1>1, <2>1, <2>3 DEF Rightful, Ahead
  <2> QED
    BY <1>3, <1>7, <2>1, <2>4
<1>8. CASE p.old = NoClaim /\ p.index \notin f.made /\ p.doc # 0 /\ ofDoc # {}
  <2>1. t = <<r, Max(ofDoc)>>
    BY <1>5, <1>8
  <2>2. Max(ofDoc) \in ofDoc
    <3>1. ofDoc \in SUBSET Nat
      BY <1>3, <1>4
    <3>2. IsFiniteSet(ofDoc)
      <4>1. IsFiniteSet(DOMAIN b)
        BY <1>3, FS_Interval
      <4>2. ofDoc \subseteq DOMAIN b
        BY <1>3, <1>4
      <4> QED
        BY <4>1, <4>2, FS_Subset
    <3> QED
      BY <1>8, <3>1, <3>2, MaxFacts
  <2>3. PICK m : m = Max(ofDoc)
    OBVIOUS
  <2>4. m \in f.made /\ m \in DOMAIN b /\ b[m].doc = p.doc /\ t = <<r, m>>
    BY <1>3, <1>4, <2>1, <2>2, <2>3
  <2>5. PICK j \in DOMAIN b : b[j].doc = p.doc /\ Ahead(b, j, c)
    BY <1>2, <1>8 DEF Reason
  <2>6. CASE j = m
    BY <1>1, <1>3, <2>4, <2>5, <2>6 DEF Rightful, Ahead
  <2>7. CASE j # m
    <3>1. SharedDoc(b, m)
      BY <1>8, <2>4, <2>5, <2>7 DEF SharedDoc
    <3> QED
      BY <1>1, <1>3, <2>4, <3>1 DEF Rightful
  <2> QED
    BY <2>6, <2>7
<1> QED
  BY <1>5, <1>6, <1>7, <1>8

\* The item before the current one, made and nowhere near another's document,
\* is the one that is superseded.
LEMMA NeighbourIsTarget ==
  ASSUME Inv, NEW r \in Request, req[r].pc = "edge",
         NEW c, c = Current(r), NEW b, b = req[r].batch,
         NEW j, j = PreviousItem(b, c), b[c].topic # NoTopic,
         j \in req[r].made, b[j].object # b[c].object, ~SharedDoc(b, j),
         ~Interposed(r, c)
  PROVE  Target(r) = <<r, j>>
<1>1. PICK f, p : f = req[r] /\ p = f.plan[c]
  OBVIOUS
<1>2. c \in DOMAIN f.plan /\ c \in DOMAIN b /\ Reason(f.mode, b, p, c)
  BY <1>1, CurrentFacts DEF Inv, Local, Reasons
<1>3. f.made \subseteq DOMAIN b /\ DOMAIN b = 1 .. Len(b) /\ Len(b) \in Nat
  <2>1. f \in Frame /\ Fits(r)
    BY <1>1 DEF Inv, Local
  <2> QED
    BY <1>1, <2>1, FitsTypes, BatchLength
<1>4. j \in DOMAIN b /\ j # 0
  BY <1>1, <1>3
<1>5. b \in Batch
  <2>1. b \in Batch \cup {<<>>}
    BY FrameFields DEF Inv
  <2> QED
    BY <1>4, <2>1
<1>6. p = PlanItem(b, j)
  BY <1>2, <1>4 DEF Reason, Interposed
<1>7. /\ p.old = NoClaim
      /\ b[j].doc = 0 => p.index = j /\ p.doc = 0
      /\ b[j].doc # 0 => p.index = 0 /\ p.doc = b[j].doc
  BY <1>4, <1>5, <1>6, PlanItemFacts
<1>8. PICK ofDoc : ofDoc = {m \in f.made : b[m].doc = p.doc}
  OBVIOUS
<1>9. Target(r) = IF p.old # NoClaim THEN p.old
                  ELSE IF p.index \in f.made THEN <<r, p.index>>
                  ELSE IF p.doc # 0 /\ ofDoc # {} THEN <<r, Max(ofDoc)>>
                  ELSE NoClaim
  BY <1>1, <1>8 DEF Target
<1>10. CASE b[j].doc = 0
  BY <1>1, <1>7, <1>9, <1>10
<1>11. CASE b[j].doc # 0
  <2>1. p.index \notin f.made
    BY <1>3, <1>7, <1>11
  <2>2. j \in ofDoc
    BY <1>1, <1>7, <1>8, <1>11
  <2>3. \A m \in ofDoc : m = j
    BY <1>3, <1>7, <1>8, <1>11 DEF SharedDoc
  <2>4. ofDoc = {j}
    BY <2>2, <2>3
  <2>5. Max({j}) = j
    <3>1. {j} \in SUBSET Nat
      BY <1>3, <1>4
    <3>2. IsFiniteSet({j})
      BY FS_Singleton
    <3>3. Max({j}) \in {j}
      BY <3>1, <3>2, MaxFacts
    <3> QED
      BY <3>3
  <2> QED
    BY <1>7, <1>9, <1>11, <2>1, <2>4, <2>5
<1> QED
  BY <1>10, <1>11

\* The frame of a request after an item, made or failed.
CreatedFrame(f, c) ==
  [f EXCEPT !.made = @ \cup {c}, !.answer = Append(@, <<c, "created">>)]
FailedFrame(f, c) ==
  [f EXCEPT !.failed = @ + 1, !.answer = Append(@, <<c, "failed">>)]

LEMMA CreatedFrameFacts ==
  ASSUME NEW f \in Frame, NEW c \in Nat, NEW g, g = CreatedFrame(f, c)
  PROVE  /\ g \in Frame /\ SameTask(f, g) /\ g.pos = f.pos
         /\ g.made = f.made \cup {c}
         /\ g.answer = Append(f.answer, <<c, "created">>)
<1>1. PICK a : a = Append(f.answer, <<c, "created">>)
  OBVIOUS
<1>2. a \in Seq(Nat \X Verdict)
  <2>1. <<c, "created">> \in Nat \X Verdict
    BY DEF Verdict
  <2> QED
    BY <1>1, <2>1, FrameFields DEF Answers
<1>3. f.made \cup {c} \in SUBSET Nat
  BY FrameFields
<1>4. g = [f EXCEPT !.made = f.made \cup {c}, !.answer = a]
  BY <1>1 DEF CreatedFrame
<1>5. g \in Frame
  BY <1>2, <1>3, <1>4 DEF Frame
<1>6. /\ SameTask(f, g) /\ g.pos = f.pos /\ g.made = f.made \cup {c}
      /\ g.answer = a
  BY <1>4 DEF Frame, SameTask
<1> QED
  BY <1>1, <1>5, <1>6

LEMMA FailedFrameFacts ==
  ASSUME NEW f \in Frame, NEW c \in Nat, NEW g, g = FailedFrame(f, c)
  PROVE  /\ g \in Frame /\ SameTask(f, g) /\ g.pos = f.pos
         /\ g.made = f.made
         /\ g.answer = Append(f.answer, <<c, "failed">>)
<1>1. PICK a, n : a = Append(f.answer, <<c, "failed">>) /\ n = f.failed + 1
  OBVIOUS
<1>2. a \in Seq(Nat \X Verdict) /\ n \in Nat
  <2>1. <<c, "failed">> \in Nat \X Verdict
    BY DEF Verdict
  <2> QED
    BY <1>1, <2>1, FrameFields DEF Answers
<1>3. g = [f EXCEPT !.failed = n, !.answer = a]
  BY <1>1 DEF FailedFrame
<1>4. g \in Frame
  BY <1>2, <1>3 DEF Frame
<1>5. /\ SameTask(f, g) /\ g.pos = f.pos /\ g.made = f.made /\ g.answer = a
  BY <1>3 DEF Frame, SameTask
<1> QED
  BY <1>1, <1>4, <1>5

\* An item that failed, with the edge or without.
LEMMA ItemFails ==
  ASSUME Inv, NEW r \in Request, req[r].pc \in {"create", "edge"},
         NEW c, c = Current(r),
         req' = [req EXCEPT ![r] = Failed(r)],
         stored' = stored, known' = known,
         \/ req[r].pc = "create" /\ partial' = partial /\ sup' = sup
         \/ /\ req[r].pc = "edge" /\ partial' = partial \cup {<<r, c>>}
            /\ sup' \in {sup, sup \cup Edge(r)},
         lock' = lock, expired' = expired, faults' \in 0 .. MaxFaults
  PROVE  Inv' /\ req'[r].pc \in {"create", "release"}
<1>1. PICK f, g, h : /\ f = req[r] /\ g = FailedFrame(f, c) /\ h = Onwards(g)
  OBVIOUS
<1>2. /\ f \in Frame /\ c \in Nat \ {0} /\ Local(r)
      /\ f.pc = "edge" => <<r, c>> \in stored
      /\ f.pc = "create" => <<r, c>> \notin stored
  BY <1>1, CurrentFacts DEF Inv
<1>3. /\ g \in Frame /\ SameTask(f, g) /\ g.pos = f.pos /\ g.made = f.made
      /\ g.answer = Append(f.answer, <<c, "failed">>)
  <2>1. c \in Nat /\ g = FailedFrame(f, c) /\ f \in Frame
    BY <1>1, <1>2
  <2> QED
    BY <2>1, FailedFrameFacts
<1>4. req' = [req EXCEPT ![r] = h]
  BY <1>1 DEF Failed, FailedFrame
<1>5. PICK e : e = <<c, "failed">>
  OBVIOUS
<1>6. e \in Nat \X Verdict /\ e[1] = c /\ e[2] = "failed"
  BY <1>2, <1>5 DEF Verdict
<1>7. partial' \subseteq stored
  BY <1>1, <1>2 DEF Inv, Typed
<1>8. \A q \in Request, i \in Nat :
        <<q, i>> # <<r, c>> => (<<q, i>> \in partial' <=> <<q, i>> \in partial)
  OBVIOUS
<1>9. IsTrue(r, e)'
  <2>1. <<r, c>> \in stored <=> <<r, c>> \in partial'
    BY <1>1, <1>2, <1>7
  <2> QED
    BY <1>6, <2>1 DEF IsTrue
<1>10. \A i \in g.made : <<r, i>> \in stored
  BY <1>1, <1>2, <1>3 DEF Local, Fits
<1>11. /\ req'[r] \in Frame /\ SameTask(f, req'[r]) /\ req'[r].made = f.made
       /\ req'[r].pc \in {"create", "release"}
       /\ Fits(r)' /\ Begun(r)' /\ Midway(r)' /\ Reasons(r)' /\ Answered(r)'
  <2>1. g.made \subseteq f.made \cup {c}
    BY <1>3
  <2>2. \A i \in Nat \ {c} : <<r, i>> \in partial' <=> <<r, i>> \in partial
    BY <1>8
  <2>3. /\ SameTask(req[r], g) /\ g.pos = req[r].pos
        /\ g.answer = Append(req[r].answer, e)
        /\ g.made \subseteq req[r].made \cup {c}
        /\ req' = [req EXCEPT ![r] = Onwards(g)]
    BY <1>1, <1>3, <1>4, <1>5, <2>1
  <2>4. /\ req'[r] \in Frame /\ SameTask(req[r], req'[r])
        /\ req'[r].made = g.made /\ req'[r].pc \in {"create", "release"}
        /\ Fits(r)' /\ Begun(r)' /\ Midway(r)' /\ Reasons(r)' /\ Answered(r)'
    <3>1. Local(r) /\ g \in Frame
      BY <1>2, <1>3
    <3> QED
      BY <1>6, <1>7, <1>9, <1>10, <2>2, <2>3, <3>1, ItemDone
  <2> QED
    BY <1>1, <1>3, <2>4
<1>12. req'[r] = h
  BY <1>4 DEF Inv
<1>13. Grows /\ \A q \in Request \ {r} : Apart(q)
  BY <1>8 DEF Grows, Apart
<1>14. Linked(r)'
  BY <1>1, <1>2, <1>11, <1>13, LinkedStays DEF Local, SameTask
<1>15. \A x \in sup' \ sup :
         /\ x[1] = <<r, c>> /\ x[1] \in stored /\ x[2] \in stored \cup known
         /\ Rightful(r, c, x[2])
  <2> SUFFICES ASSUME NEW x \in sup', x \notin sup
               PROVE  /\ x[1] = <<r, c>> /\ x[1] \in stored
                      /\ x[2] \in stored \cup known /\ Rightful(r, c, x[2])
    OBVIOUS
  <2>1. req[r].pc = "edge" /\ x \in Edge(r)
    OBVIOUS
  <2>2. PICK t : t = Target(r)
    OBVIOUS
  <2>3. t # NoClaim /\ x = <<<<r, c>>, t>>
    BY <2>1, <2>2 DEF Edge
  <2>4. t \in stored \cup known /\ Rightful(r, c, t)
    BY <2>1, <2>2, <2>3, TargetFacts
  <2> QED
    BY <1>1, <1>2, <2>1, <2>3, <2>4
<1>16. SupersededForAReason'
  <2>1. ASSUME NEW x \in sup' \ sup PROVE Rightful(x[1][1], x[1][2], x[2])'
    <3>1. x[1][1] = r /\ x[1][2] = c /\ Rightful(r, c, x[2])
      BY <1>15
    <3>2. req'[r].batch = req[r].batch /\ req'[r].mode = req[r].mode
      BY <1>1, <1>11 DEF SameTask
    <3> QED
      BY <3>1, <3>2 DEF Rightful
  <2>2. SameTask(req[r], h)
    BY <1>1, <1>11, <1>12
  <2> QED
    BY <1>4, <2>1, <2>2, ReasonsStay
<1>17. Typed'
  <2>1. sup' \subseteq stored \X (stored \cup known)
    <3>1. \A x \in sup' \ sup : x = <<x[1], x[2]>>
      BY DEF Edge
    <3>2. \A x \in sup' : x \in stored \X (stored \cup known)
      BY <1>15, <3>1 DEF Inv, Typed
    <3> QED
      BY <3>2
  <2> QED
    BY <1>7, <2>1 DEF Inv, Typed
<1> QED
  BY <1>4, <1>11, <1>12, <1>13, <1>14, <1>16, <1>17, Rebuilt DEF Local

LEMMA LLink ==
  ASSUME Inv, NEW r \in Request, Link(r)
  PROVE  Inv' /\ req'[r].pc \in {"create", "release"}
<1>1. PICK f, c, g, h, t :
        /\ f = req[r] /\ c = Current(r) /\ g = CreatedFrame(f, c)
        /\ h = Onwards(g) /\ t = Target(r)
  OBVIOUS
<1>2. /\ f.pc = "edge" /\ sup' = sup \cup Edge(r) /\ stored' = stored
      /\ known' = known /\ partial' = partial
      /\ lock' = lock /\ faults' = faults /\ expired' = expired
  BY <1>1 DEF Link, At
<1>3. /\ f \in Frame /\ c \in Nat \ {0} /\ Local(r)
      /\ <<r, c>> \in stored /\ <<r, c>> \notin partial
      /\ \A j \in f.made : j < c
  BY <1>1, <1>2, CurrentFacts DEF Inv
<1>4. /\ g \in Frame /\ SameTask(f, g) /\ g.pos = f.pos
      /\ g.made = f.made \cup {c}
      /\ g.answer = Append(f.answer, <<c, "created">>)
  BY <1>1, <1>3, CreatedFrameFacts
<1>5. req' = [req EXCEPT ![r] = h]
  BY <1>1 DEF Link, Created, CreatedFrame
<1>6. PICK e : e = <<c, "created">>
  OBVIOUS
<1>7. e \in Nat \X Verdict /\ e[1] = c /\ e[2] = "created"
  BY <1>3, <1>6 DEF Verdict
<1>8. IsTrue(r, e)'
  BY <1>2, <1>3, <1>7 DEF IsTrue
<1>9. \A i \in g.made : <<r, i>> \in stored
  BY <1>1, <1>3, <1>4 DEF Local, Fits
<1>10. partial' \subseteq stored
  BY <1>2 DEF Inv, Typed
<1>11. /\ req'[r] \in Frame /\ SameTask(f, req'[r])
       /\ req'[r].made = f.made \cup {c}
       /\ req'[r].pc \in {"create", "release"}
       /\ Fits(r)' /\ Begun(r)' /\ Midway(r)' /\ Reasons(r)' /\ Answered(r)'
  <2>1. req[r].pc \in {"create", "edge"}
    BY <1>1, <1>2
  <2>2. \A i \in Nat \ {c} : <<r, i>> \in partial' <=> <<r, i>> \in partial
    BY <1>2
  <2>3. /\ SameTask(req[r], g) /\ g.pos = req[r].pos
        /\ g.answer = Append(req[r].answer, e)
        /\ g.made \subseteq req[r].made \cup {c}
        /\ req' = [req EXCEPT ![r] = Onwards(g)]
    BY <1>1, <1>4, <1>5, <1>6
  <2>4. /\ req'[r] \in Frame /\ SameTask(req[r], req'[r])
        /\ req'[r].made = g.made /\ req'[r].pc \in {"create", "release"}
        /\ Fits(r)' /\ Begun(r)' /\ Midway(r)' /\ Reasons(r)' /\ Answered(r)'
    <3>1. /\ Local(r) /\ c = Current(r) /\ g \in Frame
          /\ stored' = stored /\ known' = known
      BY <1>1, <1>2, <1>3, <1>4
    <3> QED
      BY <1>7, <1>8, <1>9, <1>10, <2>1, <2>2, <2>3, <3>1, ItemDone
  <2> QED
    BY <1>1, <1>4, <2>4
<1>12. req'[r] = h
  BY <1>5 DEF Inv
<1>13. Grows /\ \A q \in Request \ {r} : Apart(q)
  BY <1>2 DEF Grows, Apart
<1>14. Linked(r)'
  <2>1. PICK b : b = f.batch
    OBVIOUS
  <2>2. req'[r].batch = b
    BY <1>11, <2>1 DEF SameTask
  <2>3. ASSUME NEW i \in f.made \cup {c}, NEW j, j = PreviousItem(b, i),
               b[i].topic # NoTopic, j \in f.made \cup {c}, j < i,
               b[j].object # b[i].object, ~SharedDoc(b, j),
               ~Interposed(r, i)'
        PROVE  <<<<r, i>>, <<r, j>>>> \in sup'
    <3>1. ~Interposed(r, i)
      BY <1>1, <1>2, <2>1, <2>2, <2>3 DEF Interposed, KnownAbout
    <3>2. CASE i = c
      <4>1. j \in f.made
        <5>1. j # c
          BY <1>3, <2>3, <3>2
        <5> QED
          BY <2>3, <5>1
      <4>2. t = <<r, j>>
        BY <1>1, <1>2, <2>1, <2>3, <3>1, <3>2, <4>1, NeighbourIsTarget
      <4>3. t # NoClaim
        BY <4>2, BatchAssumption DEF NoClaim
      <4> QED
        BY <1>1, <1>2, <3>2, <4>2, <4>3 DEF Edge
    <3>3. CASE i # c
      <4>1. i \in f.made
        BY <2>3, <3>3
      <4>2. j # c
        <5>1. i < c /\ i \in Nat
          BY <1>3, <4>1, FrameFields
        <5> QED
          BY <1>3, <2>3, <5>1
      <4>3. <<<<r, i>>, <<r, j>>>> \in sup
        BY <1>1, <1>3, <2>1, <2>3, <3>1, <4>1, <4>2 DEF Local, Linked
      <4> QED
        BY <1>2, <4>3
    <3> QED
      BY <3>2, <3>3
  <2> QED
    BY <1>11, <2>2, <2>3 DEF Linked
<1>15. \A x \in sup' \ sup : x = <<<<r, c>>, t>> /\ t # NoClaim
  BY <1>1, <1>2 DEF Edge
<1>16. sup' # sup => t \in stored \cup known /\ Rightful(r, c, t)
  <2>1. t = NoClaim => sup' = sup
    BY <1>1, <1>2 DEF Edge
  <2> QED
    BY <1>1, <1>2, <2>1, TargetFacts
<1>17. SupersededForAReason'
  <2>1. ASSUME NEW x \in sup' \ sup PROVE Rightful(x[1][1], x[1][2], x[2])'
    <3>1. x[1][1] = r /\ x[1][2] = c /\ x[2] = t /\ Rightful(r, c, t)
      BY <1>15, <1>16, <2>1
    <3>2. req'[r].batch = req[r].batch /\ req'[r].mode = req[r].mode
      BY <1>1, <1>11 DEF SameTask
    <3> QED
      BY <3>1, <3>2 DEF Rightful
  <2>2. SameTask(req[r], h)
    BY <1>1, <1>11, <1>12
  <2> QED
    BY <1>5, <2>1, <2>2, ReasonsStay
<1>18. Typed'
  <2>1. sup' \subseteq stored \X (stored \cup known)
    <3>1. ASSUME NEW x \in sup', x \notin sup
          PROVE  x \in stored \X (stored \cup known)
      BY <1>3, <1>15, <1>16, <3>1
    <3>2. sup \subseteq stored \X (stored \cup known)
      BY DEF Inv, Typed
    <3> QED
      BY <3>1, <3>2
  <2> QED
    BY <1>2, <2>1 DEF Inv, Typed
<1> QED
  BY <1>5, <1>11, <1>12, <1>13, <1>14, <1>17, <1>18, Rebuilt DEF Local

-----------------------------------------------------------------------------

LEMMA InvInit == Init => Inv
<1> SUFFICES ASSUME Init PROVE Inv
  OBVIOUS
<1>1. /\ known = {} /\ stored = {} /\ sup = {} /\ lock = NoRequest
      /\ faults = 0 /\ partial = {} /\ expired = {}
      /\ req = [r \in Request |-> Idle]
  BY DEF Init
<1>2. Idle \in Frame
  <2>1. /\ <<>> \in Seq(Plan) /\ <<>> \in Seq(Nat)
        /\ <<>> \in Seq(Nat \X Verdict) /\ {} \in SUBSET Nat
    OBVIOUS
  <2> QED
    BY <2>1 DEF Idle, Frame, Modes, Pc
<1>3. req \in [Request -> Frame]
  BY <1>1, <1>2
<1>4. ASSUME NEW r \in Request PROVE Local(r)
  <2>1. req[r] = Idle
    BY <1>1
  <2>2. /\ Idle.pc = "idle" /\ Idle.plan = <<>> /\ Idle.todo = <<>>
        /\ Idle.pos = 1 /\ Idle.made = {} /\ Idle.answer = <<>>
        /\ Idle.batch = <<>>
    BY DEF Idle
  <2> HIDE DEF Idle
  <2>3. Fits(r)
    BY <1>1, <2>1, <2>2, EmptyPlan DEF Fits
  <2>4. Begun(r)
    BY <1>1, <2>1, <2>2 DEF Begun
  <2>5. Midway(r) /\ Answered(r)
    BY <2>1, <2>2 DEF Midway, Answered
  <2>6. Reasons(r)
    BY <2>1, <2>2 DEF Reasons
  <2>7. Linked(r)
    BY <2>1, <2>2 DEF Linked
  <2> QED
    BY <2>3, <2>4, <2>5, <2>6, <2>7 DEF Local
<1>5. Typed
  BY <1>1, BatchAssumption DEF Typed
<1>6. SupersededForAReason
  BY <1>1 DEF SupersededForAReason
<1> QED
  BY <1>3, <1>4, <1>5, <1>6 DEF Inv

LEMMA LFails ==
  ASSUME Inv, NEW r \in Request,
         CreateFails(r) \/ LinkHashed(r) \/ LinkFails(r)
  PROVE  Inv' /\ req'[r].pc \in {"create", "release"}
<1>1. CASE CreateFails(r)
  <2>1. /\ req[r].pc = "create" /\ req' = [req EXCEPT ![r] = Failed(r)]
        /\ stored' = stored /\ known' = known /\ partial' = partial
        /\ sup' = sup /\ lock' = lock /\ expired' = expired
    BY <1>1 DEF CreateFails, At, graphVars
  <2>2. faults' \in 0 .. MaxFaults
    BY <1>1, FaultTyped DEF CreateFails
  <2> QED
    BY <2>1, <2>2, ItemFails
<1>2. CASE LinkHashed(r)
  <2>1. faults \in 0 .. MaxFaults
    BY DEF Inv, Typed
  <2> QED
    BY <1>2, <2>1, ItemFails DEF LinkHashed, At
<1>3. CASE LinkFails(r)
  <2>1. faults' \in 0 .. MaxFaults
    BY <1>3, FaultTyped DEF LinkFails
  <2> QED
    BY <1>3, <2>1, ItemFails DEF LinkFails, At
<1> QED
  BY <1>1, <1>2, <1>3

LEMMA InvStep == Inv /\ [Next]_vars => Inv'
<1> SUFFICES ASSUME Inv, [Next]_vars PROVE Inv'
  OBVIOUS
<1>1. faults \in 0 .. MaxFaults /\ lock \in Request \cup {NoRequest}
  BY DEF Inv, Typed
<1>2. ASSUME NEW r \in Request, Arrive(r) PROVE Inv'
  BY <1>2, LArrive
<1>3. ASSUME NEW r \in Request, Acquire(r) PROVE Inv'
  <2>1. Typed'
    BY <1>1, <1>3, TypedStays DEF Acquire
  <2> QED
    BY <1>3, <2>1, PcStep DEF Acquire, At, Before, Over
<1>4. ASSUME NEW r \in Request, GiveUp(r) PROVE Inv'
  <2>1. Typed'
    BY <1>1, <1>4, TypedStays DEF GiveUp
  <2> QED
    BY <1>4, <2>1, PcStep DEF GiveUp, At, Before, Over
<1>5. ASSUME NEW r \in Request, Detect(r) PROVE Inv'
  BY <1>5, LDetect
<1>6. ASSUME NEW r \in Request, DetectFails(r) PROVE Inv'
  <2>1. Typed'
    BY <1>1, <1>6, TypedStays, FaultTyped DEF DetectFails
  <2>2. req[r].answer = <<>>
    BY <1>6 DEF Inv, Local, Begun, DetectFails, At, Before
  <2> QED
    BY <1>6, <2>1, <2>2, PcStep DEF DetectFails, At, Before, Over
<1>7. ASSUME NEW r \in Request, Create(r) PROVE Inv'
  BY <1>7, LCreate
<1>8. ASSUME NEW r \in Request,
             CreateFails(r) \/ LinkHashed(r) \/ LinkFails(r)
      PROVE  Inv'
  BY <1>8, LFails
<1>9. ASSUME NEW r \in Request, Link(r) PROVE Inv'
  BY <1>9, LLink
<1>10. ASSUME NEW r \in Request, ReleaseGet(r) PROVE Inv'
  <2>1. Typed'
    BY <1>1, <1>10, TypedStays DEF ReleaseGet
  <2>2. PICK pc : /\ pc \in {"delete", "done"} /\ Goes(r, pc)
                  /\ UNCHANGED graphVars /\ req[r].pc = "release"
    BY <1>10 DEF ReleaseGet, At
  <2> QED
    BY <2>1, <2>2, PcStep DEF Before, Over
<1>11. ASSUME NEW r \in Request, ReleaseDelete(r) PROVE Inv'
  <2>1. Typed'
    BY <1>1, <1>11, TypedStays DEF ReleaseDelete
  <2> QED
    BY <1>11, <2>1, PcStep DEF ReleaseDelete, At, Before, Over
<1>12. ASSUME NEW r \in Request, Dies(r) PROVE Inv'
  <2>1. Typed'
    BY <1>1, <1>12, TypedStays, FaultTyped DEF Dies
  <2> QED
    BY <1>12, <2>1, PcStep DEF Dies, Before, Over
<1>13. ASSUME req' = req, Grows, \A q \in Request : Apart(q), Typed',
              sup' = sup
       PROVE  Inv'
  <2>1. \A q \in Request : Local(q)'
    BY <1>13, Others DEF Inv
  <2>2. SupersededForAReason'
    BY <1>13 DEF Inv, SupersededForAReason, Rightful
  <2> QED
    BY <1>13, <2>1, <2>2 DEF Inv
<1>14. ASSUME NEW x \in Extracted, Extract(x) PROVE Inv'
  <2>1. Grows /\ (\A q \in Request : Apart(q)) /\ req' = req /\ sup' = sup
    BY <1>14 DEF Extract, Grows, Apart
  <2>2. Typed'
    BY <1>14 DEF Extract, Inv, Typed
  <2> QED
    BY <1>13, <2>1, <2>2
<1>15. ASSUME Expire PROVE Inv'
  <2>1. UNCHANGED graphVars /\ req' = req
    BY <1>15 DEF Expire
  <2>2. <<lock, req[lock].pc>> \in Request \X Pc
    <3>1. lock \in Request
      BY <1>1, <1>15 DEF Expire
    <3>2. req[lock].pc \in Pc
      <4>1. req[lock] \in Frame
        BY <3>1 DEF Inv
      <4> QED
        BY <4>1 DEF Frame
    <3> QED
      BY <3>1, <3>2
  <2>3. Typed'
    <3>1. expired' \subseteq Request \X Pc
      BY <1>15, <2>2 DEF Expire, Inv, Typed
    <3>2. faults' \in 0 .. MaxFaults
      BY <1>15, FaultTyped DEF Expire
    <3> QED
      BY <1>15, <2>1, <3>1, <3>2 DEF Expire, Inv, Typed, graphVars
  <2>4. sup' = sup
    BY <2>1 DEF graphVars
  <2> QED
    BY <1>13, <2>1, <2>3, <2>4, Quiet
<1>16. ASSUME UNCHANGED vars PROVE Inv'
  <2>1. UNCHANGED graphVars /\ req' = req /\ sup' = sup
    BY <1>16 DEF vars, graphVars
  <2>2. Typed'
    BY <1>16 DEF vars, graphVars, Inv, Typed
  <2> QED
    BY <1>13, <2>1, <2>2, Quiet
<1> QED
  BY <1>2, <1>3, <1>4, <1>5, <1>6, <1>7, <1>8, <1>9, <1>10, <1>11,
     <1>12, <1>14, <1>15, <1>16 DEF Next

LEMMA InvHolds == Spec => []Inv
BY InvInit, InvStep, PTL DEF Spec

\* Every variable keeps its type, and no request writes what its plan does not
\* list, whatever its batch.
THEOREM TypeCorrect == Spec => []TypeOK
BY InvHolds, InvTypes, PTL

\* Whoever is superseded, is superseded for a reason.
THEOREM Rightfully == Spec => []SupersededForAReason
<1>1. Inv => SupersededForAReason
  BY DEF Inv
<1> QED
  BY <1>1, InvHolds, PTL

\* Neighbours of one batch are linked, across the chunks.
THEOREM ChainsWithinABatch == Spec => []NeighboursLinked
<1>1. Inv => NeighboursLinked
  BY DEF Inv, Local, Linked, NeighboursLinked
<1> QED
  BY <1>1, InvHolds, PTL

\* The answer says one true thing of every item.
THEOREM AnswersAreTrue == Spec => []AnswersTrue
<1>1. Inv => AnswersTrue
  BY DEF Inv, Local, Answered, AnswersTrue, Over, IsTrue
<1> QED
  BY <1>1, InvHolds, PTL

-----------------------------------------------------------------------------
(* The lock.                                                               *)

\* Some lock expired between the two commands of its release.
ExpiredLate == \E e \in expired : e[2] = "delete"

\* A request about to delete the lock holds it, unless its lock expired there,
\* or was deleted by one whose lock did.
DeletesOwn ==
  \A r \in Request : At(r, "delete") => lock = r \/ ExpiredLate

LockInv == InsideUnderLock /\ DeletesOwn

\* A request moves to pc, the lock and its expiries stay.
LEMMA Moves ==
  ASSUME Inv, LockInv, NEW r \in Request, NEW h,
         req' = [req EXCEPT ![r] = h], UNCHANGED <<lock, expired>>,
         h.pc \in {"detect", "create", "edge"} => Inside(r),
         h.pc = "delete" => lock = r
  PROVE  LockInv'
<1>1. req'[r] = h /\ \A q \in Request \ {r} : req'[q] = req[q]
  BY DEF Inv
<1>2. InsideUnderLock'
  BY <1>1 DEF LockInv, InsideUnderLock, Inside
<1>3. DeletesOwn'
  BY <1>1 DEF LockInv, DeletesOwn, At, ExpiredLate
<1> QED
  BY <1>2, <1>3 DEF LockInv

\* Where a request is after it goes to pc, and where the others are.
LEMMA GoesTo ==
  ASSUME Inv, NEW r \in Request, NEW pc, Goes(r, pc)
  PROVE  req'[r].pc = pc /\ \A q \in Request \ {r} : req'[q] = req[q]
<1>1. PICK f : f = req[r] /\ f \in Frame
  BY DEF Inv
<1>2. [f EXCEPT !.pc = pc].pc = pc
  BY <1>1 DEF Frame
<1> QED
  BY <1>1, <1>2 DEF Inv, Goes

LEMMA GoesOn ==
  ASSUME Inv, LockInv, NEW r \in Request, NEW pc, Goes(r, pc),
         UNCHANGED <<lock, expired>>,
         pc \in {"detect", "create", "edge"} => Inside(r),
         pc = "delete" => lock = r
  PROVE  LockInv'
<1>1. req'[r].pc = pc /\ \A q \in Request \ {r} : req'[q] = req[q]
  BY GoesTo
<1>2. InsideUnderLock'
  BY <1>1 DEF LockInv, InsideUnderLock, Inside
<1>3. DeletesOwn'
  BY <1>1 DEF LockInv, DeletesOwn, At, ExpiredLate
<1> QED
  BY <1>2, <1>3 DEF LockInv

LEMMA Acquires ==
  ASSUME Inv, LockInv, NEW r \in Request, Acquire(r)
  PROVE  LockInv'
<1>1. NoRequest \notin Request
  BY BatchAssumption
<1>2. /\ req'[r].pc = "detect"
      /\ \A q \in Request \ {r} : req'[q] = req[q]
      /\ lock = NoRequest /\ lock' = r /\ expired' = expired
  BY GoesTo DEF Acquire
<1>3. InsideUnderLock'
  BY <1>1, <1>2 DEF LockInv, InsideUnderLock, Inside
<1>4. DeletesOwn'
  BY <1>1, <1>2 DEF LockInv, DeletesOwn, At, ExpiredLate
<1> QED
  BY <1>3, <1>4 DEF LockInv

\* If the lock that is deleted is another's, some lock has expired late.
LEMMA Deletes ==
  ASSUME Inv, LockInv, NEW r \in Request, ReleaseDelete(r)
  PROVE  LockInv'
<1>1. /\ req'[r].pc = "done"
      /\ \A q \in Request \ {r} : req'[q] = req[q]
      /\ lock' = NoRequest /\ expired' = expired
  BY GoesTo DEF ReleaseDelete
<1>2. lock = r \/ ExpiredLate
  BY DEF LockInv, DeletesOwn, ReleaseDelete
<1>3. InsideUnderLock'
  BY <1>1, <1>2 DEF LockInv, InsideUnderLock, Inside, ExpiredLate
<1>4. DeletesOwn'
  BY <1>1, <1>2 DEF LockInv, DeletesOwn, At, ExpiredLate
<1> QED
  BY <1>3, <1>4 DEF LockInv

LEMMA Expires ==
  ASSUME Inv, LockInv, Expire
  PROVE  LockInv'
<1>1. PICK e : e = <<lock, req[lock].pc>>
  OBVIOUS
<1>2. /\ req' = req /\ lock \in Request /\ lock' = NoRequest
      /\ expired' = expired \cup {e} /\ e[1] = lock /\ e[2] = req[lock].pc
  BY <1>1 DEF Inv, Typed, Expire
<1>3. InsideUnderLock'
  <2> SUFFICES ASSUME NEW r \in Request, Inside(r)
               PROVE  \E x \in expired' : x[1] = r \/ x[2] = "delete"
    BY <1>2 DEF InsideUnderLock, Inside
  <2>1. CASE lock = r
    BY <1>2, <2>1
  <2>2. CASE lock # r
    BY <1>2, <2>2 DEF LockInv, InsideUnderLock
  <2> QED
    BY <2>1, <2>2
<1>4. DeletesOwn'
  <2> SUFFICES ASSUME NEW r \in Request, At(r, "delete")
               PROVE  \E x \in expired' : x[2] = "delete"
    BY <1>2 DEF DeletesOwn, At, ExpiredLate
  <2>1. CASE lock = r
    BY <1>2, <2>1 DEF At
  <2>2. CASE lock # r
    BY <1>2, <2>2 DEF LockInv, DeletesOwn, ExpiredLate
  <2> QED
    BY <2>1, <2>2
<1> QED
  BY <1>3, <1>4 DEF LockInv

LEMMA LockInvInit == Init => LockInv
<1>1. ASSUME Init PROVE \A r \in Request : req[r].pc = "idle"
  BY <1>1 DEF Init, Idle
<1> QED
  BY <1>1 DEF LockInv, InsideUnderLock, Inside, DeletesOwn, At

LEMMA LockInvStep == Inv /\ LockInv /\ [Next]_vars => LockInv'
<1> SUFFICES ASSUME Inv, LockInv, [Next]_vars PROVE LockInv'
  OBVIOUS
<1>1. ASSUME NEW r \in Request, Arrive(r) PROVE LockInv'
  <2>1. PICK b \in Batch, mode \in Modes :
          req' = [req EXCEPT ![r] =
                    [Idle EXCEPT !.pc = "lock", !.batch = b, !.mode = mode]]
    BY <1>1 DEF Arrive
  <2>2. PICK h : h = [Idle EXCEPT !.pc = "lock", !.batch = b, !.mode = mode]
    OBVIOUS
  <2>3. h.pc = "lock"
    BY <2>2 DEF Idle
  <2> QED
    BY <1>1, <2>1, <2>2, <2>3, Moves DEF Arrive
<1>2. ASSUME NEW r \in Request, GiveUp(r) PROVE LockInv'
  BY <1>2, GoesOn DEF GiveUp
<1>3. ASSUME NEW r \in Request, DetectFails(r) PROVE LockInv'
  BY <1>3, GoesOn DEF DetectFails
<1>4. ASSUME NEW r \in Request, Create(r) PROVE LockInv'
  BY <1>4, GoesOn DEF Create, At, Inside
<1>5. ASSUME NEW r \in Request, ReleaseGet(r) PROVE LockInv'
  BY <1>5, GoesOn DEF ReleaseGet
<1>6. ASSUME NEW r \in Request, Dies(r) PROVE LockInv'
  BY <1>6, GoesOn DEF Dies
<1>7. ASSUME NEW r \in Request,
             \/ Detect(r) \/ Link(r) \/ LinkHashed(r)
             \/ CreateFails(r) \/ LinkFails(r)
      PROVE  LockInv'
  <2>1. PICK h : req' = [req EXCEPT ![r] = h]
    BY <1>7 DEF Detect, Link, LinkHashed, CreateFails, LinkFails
  <2>2. h.pc \in {"create", "release"}
    <3>1. req'[r].pc \in {"create", "release"}
      BY <1>7, LDetect, LLink, LFails
    <3> QED
      BY <2>1, <3>1 DEF Inv
  <2>3. Inside(r) /\ UNCHANGED <<lock, expired>>
    BY <1>7 DEF Detect, Link, LinkHashed, CreateFails, LinkFails, At, Inside
  <2> QED
    BY <2>1, <2>2, <2>3, Moves
<1>8. ASSUME NEW x \in Extracted, Extract(x) PROVE LockInv'
  BY <1>8 DEF Extract, LockInv, InsideUnderLock, Inside, DeletesOwn, At,
              ExpiredLate
<1>9. CASE UNCHANGED vars
  BY <1>9 DEF vars, LockInv, InsideUnderLock, Inside, DeletesOwn, At,
              ExpiredLate
<1> QED
  BY <1>1, <1>2, <1>3, <1>4, <1>5, <1>6, <1>7, <1>8, <1>9, Acquires, Deletes,
     Expires DEF Next

\* A request is inside without the lock only if its lock expired, or some lock
\* between the two commands of its release, however many requests there are.
THEOREM LockHeld == Spec => []InsideUnderLock
<1>1. LockInv => InsideUnderLock
  BY DEF LockInv
<1> QED
  BY <1>1, InvHolds, LockInvInit, LockInvStep, PTL DEF Spec

=============================================================================
