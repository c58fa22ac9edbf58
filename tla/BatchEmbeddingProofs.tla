------------------------ MODULE BatchEmbeddingProofs ------------------------
(***************************************************************************)
(* Proofs about BatchEmbedding for every set of calls and every batch      *)
(* size: type correctness, NoStranded, CloseDrains, and that the           *)
(* accumulator implements the safety part of EmbeddingOutbox.              *)
(***************************************************************************)
EXTENDS BatchEmbedding, TLAPS, FiniteSetTheorems, SequenceTheorems

\* The tasks that wait for the lock, as their own states tell.
Waiting ==
  {t \in Item \cup {Timer, Closer} :
     \/ t \in Item /\ caller[t] = "waiting"
     \/ t = Timer /\ timer = "waiting"
     \/ t = Closer /\ closer = "waiting"}

\* The deque of the lock holds each of them once and nobody else: no task is
\* served twice, and none is served after it was cancelled.
QueueInv == IsInjective(queue) /\ ToSet(queue) = Waiting

\* The lock is held by the task that is between its cancelling of the timer
\* and its flush; a timer is only cancelled under the lock.
LockInv ==
  /\ timer = "cancelling" => owner # Nobody
  /\ closer = "flushing" <=> owner = Closer
  /\ \A i \in Item : caller[i] = "flushing" <=> owner = i

\* An item whose add went through is pending or in a flush, and only such an
\* item is; what a flush has taken belongs to an add that has returned.
CallersInv ==
  /\ \A i \in pending : caller[i] \in {"returned", "flushing"}
  /\ \A i \in Item : caller[i] = "flushing" => i \in pending
  /\ \A i \in Item : caller[i] = "returned" => i \in pending \cup Handed
  /\ \A k \in DOMAIN flushes :
       \A i \in flushes[k].items : caller[i] = "returned"

\* The pending list is short of a batch, unless the add that filled it up is
\* about to flush it.
SizeInv ==
  /\ IsFiniteSet(pending)
  /\ Cardinality(pending) <= BatchSize
  /\ owner \notin Item => Cardinality(pending) < BatchSize

\* No item is in two places.
DisjointInv ==
  /\ \A k \in DOMAIN flushes : flushes[k].items \cap pending = {}
  /\ \A j, k \in DOMAIN flushes :
       j # k => flushes[j].items \cap flushes[k].items = {}

\* A flush accounts for what it leaves behind.
OutcomeInv ==
  \A k \in DOMAIN flushes : \A i \in flushes[k].items :
    \/ flushes[k].phase = "done"
    \/ flushes[k].phase \in {"embed", "upsert"} /\ i \notin flushes[k].valid
    => outcome[i] # "none"

\* Once close has gathered, what it promised to drain is in a flush that it
\* waits for or that was over already.
DrainInv ==
  /\ \A i \in before : caller[i] = "returned"
  /\ closer \in {"gathering", "closed"} =>
       \A i \in before : \E k \in DOMAIN flushes :
         i \in flushes[k].items /\ (k \in gathered \/ flushes[k].phase = "done")
  /\ closer = "closed" => \A k \in gathered : flushes[k].phase = "done"

Inv ==
  /\ TypeOK /\ QueueInv /\ LockInv /\ CallersInv /\ SizeInv /\ DisjointInv
  /\ OutcomeInv /\ DrainInv /\ NoStranded

-----------------------------------------------------------------------------

\* A task joins the deque of the lock.
LEMMA Joined ==
  ASSUME NEW S, NEW q \in Seq(S), IsInjective(q), NEW t \in S, t \notin ToSet(q)
  PROVE  /\ Append(q, t) \in Seq(S)
         /\ IsInjective(Append(q, t))
         /\ ToSet(Append(q, t)) = ToSet(q) \cup {t}
  BY DEF IsInjective, ToSet

\* The task in front leaves it.
LEMMA Served ==
  ASSUME NEW S, NEW q \in Seq(S), IsInjective(q), q # <<>>
  PROVE  /\ Head(q) \in ToSet(q) 
         /\ Tail(q) \in Seq(S)
         /\ IsInjective(Tail(q))
         /\ ToSet(Tail(q)) = ToSet(q) \ {Head(q)}
<1> DEFINE n == Len(q)
<1>1. n \in Nat \ {0} /\ DOMAIN q = 1 .. n /\ Head(q) = q[1]
  OBVIOUS
<1>2. Tail(q) \in Seq(S) /\ DOMAIN Tail(q) = 1 .. n - 1
  OBVIOUS
<1>3. \A k \in 1 .. n - 1 : Tail(q)[k] = q[k + 1]
  OBVIOUS
<1> HIDE DEF n
<1>4. IsInjective(Tail(q))
  BY <1>1, <1>2, <1>3 DEF IsInjective
<1>5. \A k \in 1 .. n - 1 : k + 1 \in 1 .. n /\ k + 1 # 1
  BY <1>1
<1>6. ASSUME NEW k \in 1 .. n, k # 1
      PROVE  \E j \in 1 .. n - 1 : k = j + 1
  <2>1. k - 1 \in 1 .. n - 1 /\ k = (k - 1) + 1
    BY <1>1, <1>6
  <2>2. QED
    BY <2>1
<1>7. 1 \in 1 .. n
  BY <1>1
<1>8. \A e : e \in ToSet(q) <=> \E k \in 1 .. n : e = q[k]
  BY <1>1 DEF ToSet
<1>9. \A e : e \in ToSet(Tail(q)) <=> \E k \in 1 .. n - 1 : e = q[k + 1]
  BY <1>2, <1>3 DEF ToSet
<1>10. \A k \in 1 .. n : q[k] = q[1] <=> k = 1
  BY <1>1, <1>7 DEF IsInjective
<1>11. ASSUME NEW e PROVE e \in ToSet(Tail(q)) <=> e \in ToSet(q) \ {q[1]}
  <2>1. ASSUME NEW k \in 1 .. n - 1, e = q[k + 1]
        PROVE  e \in ToSet(q) /\ e # q[1]
    BY <2>1, <1>5, <1>8, <1>10
  <2>2. ASSUME NEW k \in 1 .. n, e = q[k], e # q[1]
        PROVE  e \in ToSet(Tail(q))
    <3>1. k # 1
      BY <2>2
    <3>2. PICK j \in 1 .. n - 1 : k = j + 1
      BY <1>6, <3>1
    <3>3. QED
      BY <1>9, <2>2, <3>2
  <2>3. QED
    BY <1>8, <1>9, <2>1, <2>2
<1>12. QED
  BY <1>1, <1>2, <1>4, <1>7, <1>8, <1>11

\* A cancelled waiter is removed from it.
LEMMA Withdrawn ==
  ASSUME NEW S, NEW q \in Seq(S), IsInjective(q), NEW t
  PROVE  /\ RemoveFirst(q, t) \in Seq(S)
         /\ IsInjective(RemoveFirst(q, t))
         /\ ToSet(RemoveFirst(q, t)) = ToSet(q) \ {t}
<1>1. CASE ~ \E i \in 1 .. Len(q) : q[i] = t
  BY <1>1 DEF RemoveFirst, ToSet
<1>2. ASSUME NEW k \in 1 .. Len(q), q[k] = t
      PROVE  /\ RemoveFirst(q, t) \in Seq(S)
             /\ IsInjective(RemoveFirst(q, t))
             /\ ToSet(RemoveFirst(q, t)) = ToSet(q) \ {t}
  <2> DEFINE n == Len(q)
             r == RemoveFirst(q, t)
             left(j) == IF j < k THEN j ELSE j + 1
  <2>1. n \in Nat /\ DOMAIN q = 1 .. n
    OBVIOUS
  <2>2. {i \in 1 .. n : q[i] = t} = {k}
    BY <1>2, <2>1 DEF IsInjective
  <2>3. SelectInSeq(q, LAMBDA v : v = t) = k
    BY <2>2 DEF SelectInSeq, Min
  <2>4. r = SubSeq(q, 1, k - 1) \o SubSeq(q, k + 1, n)
    BY <1>2, <2>3 DEF RemoveFirst, RemoveAt
  <2> DEFINE a == SubSeq(q, 1, k - 1)
             b == SubSeq(q, k + 1, n)
  <2>5. /\ a \in Seq(S) /\ Len(a) = k - 1
        /\ \A j \in 1 .. k - 1 : a[j] = q[j]
    <3>1. 1 \in Int /\ k - 1 \in Int /\ \A i \in 1 .. k - 1 : q[i] \in S
      BY <1>2, <2>1
    <3>2. a \in Seq(S) /\ Len(a) = (IF 1 <= k - 1 THEN k - 1 - 1 + 1 ELSE 0)
      BY <3>1, SubSeqProperties
    <3>3. \A j \in 1 .. k - 1 - 1 + 1 : a[j] = q[1 + j - 1]
      BY <3>1, SubSeqProperties
    <3> HIDE DEF n, a
    <3>4. (IF 1 <= k - 1 THEN k - 1 - 1 + 1 ELSE 0) = k - 1
      BY <1>2, <2>1 DEF n
    <3>5. \A j \in 1 .. k - 1 : j \in 1 .. k - 1 - 1 + 1 /\ 1 + j - 1 = j
      BY <1>2, <2>1 DEF n
    <3>6. \A j \in 1 .. k - 1 : a[j] = q[j]
      BY <3>3, <3>5
    <3>7. QED
      BY <3>2, <3>4, <3>6
  <2>6. /\ b \in Seq(S) /\ Len(b) = n - k
        /\ \A j \in 1 .. n - k : b[j] = q[k + j]
    <3>1. k + 1 \in Int /\ n \in Int /\ \A i \in k + 1 .. n : q[i] \in S
      BY <1>2, <2>1
    <3>2. b \in Seq(S) /\ Len(b) = (IF k + 1 <= n THEN n - (k + 1) + 1 ELSE 0)
      BY <3>1, SubSeqProperties
    <3>3. \A j \in 1 .. n - (k + 1) + 1 : b[j] = q[k + 1 + j - 1]
      BY <3>1, SubSeqProperties
    <3> HIDE DEF n, b
    <3>4. k \in Int /\ n \in Int /\ k <= n
      BY <1>2, <2>1 DEF n
    <3>5. Len(b) = n - k
      <4>1. CASE k + 1 <= n
        BY <3>2, <3>4, <4>1
      <4>2. CASE n = k
        BY <3>2, <3>4, <4>2
      <4>3. QED
        BY <3>4, <4>1, <4>2
    <3>6. \A j \in 1 .. n - k :
             j \in 1 .. n - (k + 1) + 1 /\ k + 1 + j - 1 = k + j
      BY <3>4
    <3>7. \A j \in 1 .. n - k : b[j] = q[k + j]
      BY <3>3, <3>6
    <3>8. QED
      BY <3>2, <3>5, <3>7
  <2> HIDE DEF a, b
  <2>7. r = a \o b
    BY <2>4 DEF a, b
  <2> HIDE DEF n, r
  <2>8. r \in Seq(S) /\ Len(r) = n - 1
    <3>1. r \in Seq(S) /\ Len(r) = Len(a) + Len(b)
      BY <2>7, <2>5, <2>6, ConcatProperties
    <3>2. (k - 1) + (n - k) = n - 1
      BY <1>2, <2>1
    <3>3. QED
      BY <2>5, <2>6, <3>1, <3>2
  <2>9. \A j \in 1 .. n - 1 : r[j] = q[left(j)]
    <3>1. \A j \in 1 .. Len(a) + Len(b) :
             r[j] = IF j <= Len(a) THEN a[j] ELSE b[j - Len(a)]
      BY <2>7, <2>5, <2>6, ConcatProperties
    <3>2. \A j \in 1 .. n - 1 : j < k => j \in 1 .. k - 1
      BY <1>2, <2>1 DEF n
    <3>3. \A j \in 1 .. n - 1 :
             ~ j < k => j - (k - 1) \in 1 .. n - k /\ k + (j - (k - 1)) = j + 1
      BY <1>2, <2>1 DEF n
    <3>4. \A j \in 1 .. n - 1 : j <= k - 1 <=> j < k
      BY <1>2, <2>1 DEF n
    <3>5. (k - 1) + (n - k) = n - 1
      BY <1>2, <2>1 DEF n
    <3>6. \A j \in 1 .. n - 1 :
             r[j] = IF j < k THEN a[j] ELSE b[j - (k - 1)]
      BY <2>5, <2>6, <3>1, <3>4, <3>5
    <3>7. ASSUME NEW j \in 1 .. n - 1, j < k
          PROVE  r[j] = q[left(j)]
      BY <2>5, <3>2, <3>6, <3>7
    <3>8. ASSUME NEW j \in 1 .. n - 1, ~ j < k
          PROVE  r[j] = q[left(j)]
      <4>1. r[j] = b[j - (k - 1)]
        BY <3>6, <3>8
      <4>2. b[j - (k - 1)] = q[k + (j - (k - 1))]
        BY <2>6, <3>3, <3>8
      <4>3. QED
        BY <3>3, <3>8, <4>1, <4>2
    <3>9. QED
      BY <3>7, <3>8
  <2>10. DOMAIN r = 1 .. n - 1
    BY <2>1, <2>8
  <2>11. \A j \in 1 .. n - 1 : left(j) \in 1 .. n /\ left(j) # k
    BY <1>2, <2>1 DEF n
  <2>12. \A i, j \in 1 .. n - 1 : left(i) = left(j) => i = j
    BY <1>2, <2>1
  <2>13. ASSUME NEW i \in 1 .. n, i # k
         PROVE  \E j \in 1 .. n - 1 : left(j) = i
    <3>1. CASE i < k
      <4>1. i \in 1 .. n - 1 /\ left(i) = i
        BY <1>2, <2>1, <3>1 DEF n
      <4>2. QED
        BY <4>1
    <3>2. CASE i > k
      <4>1. i - 1 \in 1 .. n - 1 /\ left(i - 1) = i
        BY <1>2, <2>1, <3>2 DEF n
      <4>2. QED
        BY <4>1
    <3>3. QED
      BY <1>2, <2>1, <2>13, <3>1, <3>2 DEF n
  <2> HIDE DEF left
  <2>14. IsInjective(r)
    BY <2>1, <2>9, <2>10, <2>11, <2>12 DEF IsInjective
  <2>15. ToSet(r) = ToSet(q) \ {t}
    <3>1. \A e : e \in ToSet(q) <=> \E i \in 1 .. n : e = q[i]
      BY <2>1 DEF ToSet
    <3>2. \A e : e \in ToSet(r) <=> \E j \in 1 .. n - 1 : e = q[left(j)]
      BY <2>9, <2>10 DEF ToSet
    <3>3. \A i \in 1 .. n : q[i] = t <=> i = k
      BY <1>2, <2>1, <2>2 DEF n
    <3>4. \A e : e \in ToSet(r) <=> e \in ToSet(q) \ {t}
      BY <2>11, <2>13, <3>1, <3>2, <3>3
    <3>5. QED
      BY <3>4
  <2>16. QED
    BY <2>8, <2>14, <2>15 DEF r
<1>3. QED
  BY <1>1, <1>2

-----------------------------------------------------------------------------

\* Only a waiting task enters, and it enters once.
LEMMA HeadWaits ==
  ASSUME TypeOK, QueueInv, NEW t, Enters(t)
  PROVE  /\ owner = Nobody /\ t \in Waiting
         /\ Tail(queue) \in Seq(Item \cup {Timer, Closer})
         /\ IsInjective(Tail(queue))
         /\ ToSet(Tail(queue)) = Waiting \ {t}
  BY Served DEF TypeOK, QueueInv, Enters

\* Cancelling the timer takes it out of the deque.
LEMMA TimerWithdrawn ==
  ASSUME NEW q \in Seq(Item \cup {Timer, Closer}), IsInjective(q), CancelTimer(q)
  PROVE  /\ queue' \in Seq(Item \cup {Timer, Closer})
         /\ IsInjective(queue')
         /\ ToSet(queue') = ToSet(q) \ {Timer}
         /\ timer' = IF LiveTimer THEN "cancelling" ELSE timer
  BY Withdrawn DEF CancelTimer

\* _take_batch swaps the pending list for an empty one.
LEMMA Scheduled ==
  ASSUME TypeOK, ScheduleFlush
  PROVE  /\ pending' = {}
         /\ flushes' \in Seq(FlushTask)
         /\ Len(flushes) \in Nat /\ Len(flushes) + 1 \notin DOMAIN flushes
         /\ DOMAIN flushes' = DOMAIN flushes \cup {Len(flushes) + 1}
         /\ \A k \in DOMAIN flushes : flushes'[k] = flushes[k]
         /\ flushes'[Len(flushes) + 1].items = pending
         /\ flushes'[Len(flushes) + 1].valid = {}
         /\ flushes'[Len(flushes) + 1].phase = "fetch"
<1> DEFINE new == [items |-> pending, valid |-> {}, phase |-> "fetch"]
<1>1. /\ new \in FlushTask /\ new.items = pending
      /\ new.valid = {} /\ new.phase = "fetch"
  BY DEF TypeOK, FlushTask
<1> HIDE DEF new
<1>2. /\ flushes' = Append(flushes, new) /\ pending' = {}
      /\ flushes \in Seq(FlushTask)
  BY DEF ScheduleFlush, TypeOK, new
<1>3. QED
  BY <1>1, <1>2

\* A step of a flush changes that flush, never its snapshot, and never takes
\* back an outcome.
LEMMA Advanced ==
  ASSUME TypeOK, NEW k \in DOMAIN flushes, Flush(k)
  PROVE  /\ flushes' \in Seq(FlushTask)
         /\ DOMAIN flushes' = DOMAIN flushes
         /\ \A j \in DOMAIN flushes : j # k => flushes'[j] = flushes[j]
         /\ flushes'[k].items = flushes[k].items
         /\ flushes'[k].valid \subseteq flushes[k].items
         /\ flushes[k].phase # "done"
         /\ outcome' \in [Item -> {"none", "embedded", "dropped"}]
         /\ \A i \in Item : outcome[i] # "none" => outcome'[i] # "none"
         /\ UNCHANGED <<pending, queue, owner, timer, caller, closer, gathered,
                        before>>
<1> DEFINE f == flushes[k]
<1>1. f \in FlushTask /\ f.items \subseteq Item /\ f.valid \subseteq f.items
  <2>1. flushes[k] \in FlushTask /\ flushes[k].valid \subseteq flushes[k].items
    BY DEF TypeOK
  <2>2. QED
    BY <2>1 DEF FlushTask
<1> HIDE DEF f
<1>2. ASSUME NEW S, NEW v \in SUBSET f.items,
             NEW ph \in {"fetch", "embed", "upsert", "done"}, Settle(k, S, v, ph)
      PROVE  /\ flushes' \in Seq(FlushTask)
             /\ DOMAIN flushes' = DOMAIN flushes
             /\ \A j \in DOMAIN flushes : j # k => flushes'[j] = flushes[j]
             /\ flushes'[k].items = f.items
             /\ flushes'[k].valid = v
             /\ outcome' \in [Item -> {"none", "embedded", "dropped"}]
             /\ \A i \in Item : outcome[i] # "none" => outcome'[i] # "none"
             /\ UNCHANGED <<pending, queue, owner, timer, caller, closer, gathered,
                            before>>
  <2> DEFINE g == [f EXCEPT !.valid = v, !.phase = ph]
  <2>1. g \in FlushTask /\ g.items = f.items /\ g.valid = v
    BY <1>1, <1>2 DEF FlushTask
  <2>2. flushes' = [flushes EXCEPT ![k] = g]
    BY <1>2 DEF Settle, f
  <2> HIDE DEF g
  <2>3. /\ flushes' \in Seq(FlushTask) /\ DOMAIN flushes' = DOMAIN flushes
        /\ flushes'[k] = g
        /\ \A j \in DOMAIN flushes : j # k => flushes'[j] = flushes[j]
    BY <2>1, <2>2 DEF TypeOK
  <2>4. /\ outcome' \in [Item -> {"none", "embedded", "dropped"}]
        /\ \A i \in Item : outcome[i] # "none" => outcome'[i] # "none"
    BY <1>2 DEF Settle, TypeOK
  <2>5. QED
    BY <1>2, <2>1, <2>3, <2>4 DEF Settle
<1>3. CASE FlushFetch(k)
  BY <1>1, <1>2, <1>3 DEF FlushFetch, f
<1>4. CASE FlushEmbed(k)
  BY <1>1, <1>2, <1>4 DEF FlushEmbed, f
<1>5. CASE FlushUpsert(k)
  <2> DEFINE g == [f EXCEPT !.phase = "done"]
  <2>1. g \in FlushTask /\ g.items = f.items /\ g.valid = f.valid
    BY <1>1 DEF FlushTask
  <2>2. flushes' = [flushes EXCEPT ![k] = g]
    BY <1>5 DEF FlushUpsert, f
  <2> HIDE DEF g
  <2>3. /\ flushes' \in Seq(FlushTask) /\ DOMAIN flushes' = DOMAIN flushes
        /\ flushes'[k] = g
        /\ \A j \in DOMAIN flushes : j # k => flushes'[j] = flushes[j]
    BY <2>1, <2>2 DEF TypeOK
  <2>4. /\ outcome' \in [Item -> {"none", "embedded", "dropped"}]
        /\ \A i \in Item : outcome[i] # "none" => outcome'[i] # "none"
    BY <1>5 DEF FlushUpsert, TypeOK
  <2>5. QED
    BY <1>1, <1>5, <2>1, <2>3, <2>4 DEF FlushUpsert, f
<1>6. QED
  BY <1>3, <1>4, <1>5 DEF Flush

-----------------------------------------------------------------------------

\* Every step keeps the types.
LEMMA TypeStep ==
  ASSUME TypeOK, QueueInv, [Next]_vars
  PROVE  TypeOK'
<1>1. ASSUME NEW i \in Item, AddCall(i) PROVE TypeOK'
  BY <1>1 DEF AddCall, TypeOK
<1>2. ASSUME NEW i \in Item, AddCancelled(i) PROVE TypeOK'
  BY <1>2, Withdrawn DEF AddCancelled, TypeOK, QueueInv
<1>3. ASSUME NEW i \in Item, AddPartial(i) PROVE TypeOK'
  <2>1. /\ Tail(queue) \in Seq(Item \cup {Timer, Closer})
        /\ queue' = Tail(queue)
    BY <1>3, HeadWaits DEF AddPartial
  <2>2. QED
    BY <1>3, <2>1 DEF AddPartial, TypeOK
<1>4. ASSUME NEW i \in Item, AddFull(i) PROVE TypeOK'
  <2>1. /\ Tail(queue) \in Seq(Item \cup {Timer, Closer})
        /\ IsInjective(Tail(queue)) /\ CancelTimer(Tail(queue))
    BY <1>4, HeadWaits DEF AddFull
  <2>2. /\ queue' \in Seq(Item \cup {Timer, Closer})
        /\ timer' \in {"none", "sleeping", "waiting", "cancelling"}
    BY <2>1, TimerWithdrawn DEF TypeOK
  <2>3. QED
    BY <1>4, <2>2 DEF AddFull, TypeOK
<1>5. ASSUME NEW i \in Item, AddFlush(i) PROVE TypeOK'
  <2>1. CASE ScheduleFlush
    <3>1. \A k \in DOMAIN flushes' : flushes'[k].valid \subseteq flushes'[k].items
      BY <2>1, Scheduled DEF TypeOK
    <3>2. gathered' \subseteq DOMAIN flushes'
      BY <1>5, <2>1, Scheduled DEF AddFlush, TypeOK
    <3>3. QED
      BY <1>5, <2>1, <3>1, <3>2, Scheduled DEF AddFlush, TypeOK
  <2>2. CASE UNCHANGED <<pending, flushes>>
    BY <1>5, <2>2 DEF AddFlush, TypeOK
  <2>3. QED
    BY <1>5, <2>1, <2>2 DEF AddFlush
<1>6. CASE TimerFires
  BY <1>6 DEF TimerFires, TypeOK
<1>7. CASE TimerFlush
  <2>1. CASE ScheduleFlush
    <3>1. \A k \in DOMAIN flushes' : flushes'[k].valid \subseteq flushes'[k].items
      BY <2>1, Scheduled DEF TypeOK
    <3>2. gathered' \subseteq DOMAIN flushes'
      BY <1>7, <2>1, Scheduled DEF TimerFlush, TypeOK
    <3>3. QED
      BY <1>7, <2>1, <3>1, <3>2, Scheduled, HeadWaits DEF TimerFlush, TypeOK
  <2>2. CASE UNCHANGED <<pending, flushes>>
    BY <1>7, <2>2, HeadWaits DEF TimerFlush, TypeOK
  <2>3. QED
    BY <1>7, <2>1, <2>2 DEF TimerFlush
<1>8. CASE TimerCancelled
  BY <1>8 DEF TimerCancelled, TypeOK
<1>9. CASE CloseCall
  BY <1>9 DEF CloseCall, TypeOK
<1>10. CASE CloseCancelTimer
  <2>1. /\ Tail(queue) \in Seq(Item \cup {Timer, Closer})
        /\ IsInjective(Tail(queue)) /\ CancelTimer(Tail(queue))
    BY <1>10, HeadWaits DEF CloseCancelTimer
  <2>2. /\ queue' \in Seq(Item \cup {Timer, Closer})
        /\ timer' \in {"none", "sleeping", "waiting", "cancelling"}
    BY <2>1, TimerWithdrawn DEF TypeOK
  <2>3. QED
    BY <1>10, <2>2 DEF CloseCancelTimer, TypeOK
<1>11. CASE CloseFlush
  <2>1. CASE ScheduleFlush
    <3>1. \A k \in DOMAIN flushes' : flushes'[k].valid \subseteq flushes'[k].items
      BY <2>1, Scheduled DEF TypeOK
    <3>2. gathered' \subseteq DOMAIN flushes'
      BY <1>11, <2>1, Scheduled DEF CloseFlush, TypeOK
    <3>3. QED
      BY <1>11, <2>1, <3>1, <3>2, Scheduled DEF CloseFlush, TypeOK
  <2>2. CASE UNCHANGED <<pending, flushes>>
    BY <1>11, <2>2 DEF CloseFlush, TypeOK
  <2>3. QED
    BY <1>11, <2>1, <2>2 DEF CloseFlush
<1>12. CASE CloseReturn
  BY <1>12 DEF CloseReturn, TypeOK
<1>13. ASSUME NEW k \in DOMAIN flushes, Flush(k) PROVE TypeOK'
  <2>1. \A j \in DOMAIN flushes' : flushes'[j].valid \subseteq flushes'[j].items
    BY <1>13, Advanced DEF TypeOK
  <2>2. QED
    BY <1>13, <2>1, Advanced DEF TypeOK
<1>14. CASE Done
  BY <1>14 DEF Done, vars, TypeOK
<1>15. CASE UNCHANGED vars
  BY <1>15 DEF vars, TypeOK
<1>16. QED
  BY <1>1, <1>2, <1>3, <1>4, <1>5, <1>6, <1>7, <1>8, <1>9, <1>10, <1>11, <1>12,
     <1>13, <1>14, <1>15 DEF Next, Add, TimerStep, Close

\* Every step keeps the deque and the tasks' states in agreement.
LEMMA QueueStep ==
  ASSUME TypeOK, QueueInv, LockInv, [Next]_vars
  PROVE  QueueInv'
<1>1. ASSUME NEW i \in Item, AddCall(i) PROVE QueueInv'
  <2>1. queue' = Append(queue, i) /\ i \in Item \cup {Timer, Closer}
    BY <1>1 DEF AddCall
  <2>2. i \notin Waiting /\ Waiting' = Waiting \cup {i}
    BY <1>1, BatchAssumption DEF AddCall, Waiting, TypeOK
  <2>3. IsInjective(queue') /\ ToSet(queue') = Waiting \cup {i}
    BY <2>1, <2>2, Joined DEF QueueInv, TypeOK
  <2>4. QED
    BY <2>2, <2>3 DEF QueueInv
<1>2. ASSUME NEW i \in Item, AddCancelled(i) PROVE QueueInv'
  <2>1. IsInjective(queue') /\ ToSet(queue') = Waiting \ {i}
    BY <1>2, Withdrawn DEF AddCancelled, QueueInv, TypeOK
  <2>2. Waiting' = Waiting \ {i}
    BY <1>2, BatchAssumption DEF AddCancelled, Waiting, TypeOK
  <2>3. QED
    BY <2>1, <2>2 DEF QueueInv
<1>3. ASSUME NEW i \in Item, AddPartial(i) PROVE QueueInv'
  <2>1. queue' = Tail(queue)
    BY <1>3 DEF AddPartial
  <2>2. IsInjective(queue') /\ ToSet(queue') = Waiting \ {i}
    BY <1>3, <2>1, HeadWaits DEF AddPartial
  <2>3. Waiting' = Waiting \ {i}
    BY <1>3, BatchAssumption DEF AddPartial, Waiting, TypeOK, LiveTimer
  <2>4. QED
    BY <2>2, <2>3 DEF QueueInv
<1>4. ASSUME NEW i \in Item, AddFull(i) PROVE QueueInv'
  <2>1. CancelTimer(Tail(queue))
    BY <1>4 DEF AddFull
  <2>2. /\ IsInjective(queue') /\ ToSet(queue') = (Waiting \ {i}) \ {Timer}
        /\ timer' = IF LiveTimer THEN "cancelling" ELSE timer
    BY <1>4, <2>1, HeadWaits, TimerWithdrawn DEF AddFull
  <2>3. Waiting' = (Waiting \ {i}) \ {Timer}
    BY <1>4, <2>2, BatchAssumption DEF AddFull, Waiting, TypeOK, LiveTimer
  <2>4. QED
    BY <2>2, <2>3 DEF QueueInv
<1>5. ASSUME NEW i \in Item, AddFlush(i) PROVE QueueInv'
  <2>1. Waiting' = Waiting /\ queue' = queue
    BY <1>5 DEF AddFlush, Waiting, LockInv, TypeOK
  <2>2. QED
    BY <2>1 DEF QueueInv
<1>6. CASE TimerFires
  <2>1. queue' = Append(queue, Timer) /\ Timer \in Item \cup {Timer, Closer}
    BY <1>6 DEF TimerFires
  <2>2. Timer \notin Waiting /\ Waiting' = Waiting \cup {Timer}
    BY <1>6, BatchAssumption DEF TimerFires, Waiting, TypeOK
  <2>3. IsInjective(queue') /\ ToSet(queue') = Waiting \cup {Timer}
    BY <2>1, <2>2, Joined DEF QueueInv, TypeOK
  <2>4. QED
    BY <2>2, <2>3 DEF QueueInv
<1>7. CASE TimerFlush
  <2>1. queue' = Tail(queue)
    BY <1>7 DEF TimerFlush
  <2>2. IsInjective(queue') /\ ToSet(queue') = Waiting \ {Timer}
    BY <1>7, <2>1, HeadWaits DEF TimerFlush
  <2>3. Waiting' = Waiting \ {Timer}
    BY <1>7, BatchAssumption DEF TimerFlush, Waiting, TypeOK, LiveTimer
  <2>4. QED
    BY <2>2, <2>3 DEF QueueInv
<1>8. CASE TimerCancelled
  <2>1. Waiting' = Waiting /\ queue' = queue
    BY <1>8 DEF TimerCancelled, Waiting, LockInv, TypeOK
  <2>2. QED
    BY <2>1 DEF QueueInv
<1>9. CASE CloseCall
  <2>1. queue' = Append(queue, Closer) /\ Closer \in Item \cup {Timer, Closer}
    BY <1>9 DEF CloseCall
  <2>2. Closer \notin Waiting /\ Waiting' = Waiting \cup {Closer}
    BY <1>9, BatchAssumption DEF CloseCall, Waiting, TypeOK
  <2>3. IsInjective(queue') /\ ToSet(queue') = Waiting \cup {Closer}
    BY <2>1, <2>2, Joined DEF QueueInv, TypeOK
  <2>4. QED
    BY <2>2, <2>3 DEF QueueInv
<1>10. CASE CloseCancelTimer
  <2>1. CancelTimer(Tail(queue))
    BY <1>10 DEF CloseCancelTimer
  <2>2. /\ IsInjective(queue') /\ ToSet(queue') = (Waiting \ {Closer}) \ {Timer}
        /\ timer' = IF LiveTimer THEN "cancelling" ELSE timer
    BY <1>10, <2>1, HeadWaits, TimerWithdrawn DEF CloseCancelTimer
  <2>3. Waiting' = (Waiting \ {Closer}) \ {Timer}
    BY <1>10, <2>2, BatchAssumption DEF CloseCancelTimer, Waiting, TypeOK,
       LiveTimer
  <2>4. QED
    BY <2>2, <2>3 DEF QueueInv
<1>11. CASE CloseFlush
  <2>1. Waiting' = Waiting /\ queue' = queue
    BY <1>11 DEF CloseFlush, Waiting, LockInv, TypeOK
  <2>2. QED
    BY <2>1 DEF QueueInv
<1>12. CASE CloseReturn
  <2>1. Waiting' = Waiting /\ queue' = queue
    BY <1>12 DEF CloseReturn, Waiting, LockInv, TypeOK
  <2>2. QED
    BY <2>1 DEF QueueInv
<1>13. ASSUME NEW k \in DOMAIN flushes, Flush(k) PROVE QueueInv'
  <2>1. Waiting' = Waiting /\ queue' = queue
    BY <1>13, Advanced DEF Waiting
  <2>2. QED
    BY <2>1 DEF QueueInv
<1>14. CASE Done
  BY <1>14 DEF Done, vars, QueueInv, Waiting
<1>15. CASE UNCHANGED vars
  BY <1>15 DEF vars, QueueInv, Waiting
<1>16. QED
  BY <1>1, <1>2, <1>3, <1>4, <1>5, <1>6, <1>7, <1>8, <1>9, <1>10, <1>11, <1>12,
     <1>13, <1>14, <1>15 DEF Next, Add, TimerStep, Close

\* Every step keeps the lock with the task that is flushing.
LEMMA LockStep ==
  ASSUME TypeOK, QueueInv, LockInv, [Next]_vars
  PROVE  LockInv'
<1>1. ASSUME NEW i \in Item, AddCall(i) PROVE LockInv'
  BY <1>1, BatchAssumption DEF AddCall, LockInv, TypeOK, Enters, ScheduleFlush,
     LiveTimer
<1>2. ASSUME NEW i \in Item, AddCancelled(i) PROVE LockInv'
  BY <1>2, BatchAssumption DEF AddCancelled, LockInv, TypeOK, Enters,
     ScheduleFlush, LiveTimer
<1>3. ASSUME NEW i \in Item, AddPartial(i) PROVE LockInv'
  <2>1. i \in Waiting /\ owner = Nobody
    BY <1>3, HeadWaits DEF AddPartial
  <2>2. caller[i] = "waiting"
    BY <2>1, BatchAssumption DEF Waiting
  <2>3. QED
    BY <1>3, <2>1, <2>2, BatchAssumption DEF AddPartial, LockInv, TypeOK
<1>4. ASSUME NEW i \in Item, AddFull(i) PROVE LockInv'
  <2>1. owner = Nobody
    BY <1>4 DEF AddFull, Enters
  <2>2. QED
    BY <1>4, <2>1, BatchAssumption DEF AddFull, LockInv, TypeOK
<1>5. ASSUME NEW i \in Item, AddFlush(i) PROVE LockInv'
  BY <1>5, BatchAssumption DEF AddFlush, LockInv, TypeOK, Enters,
     ScheduleFlush, LiveTimer
<1>6. CASE TimerFires
  BY <1>6, BatchAssumption DEF TimerFires, LockInv, TypeOK, Enters,
     ScheduleFlush, LiveTimer
<1>7. CASE TimerFlush
  BY <1>7, BatchAssumption DEF TimerFlush, LockInv, TypeOK, Enters,
     ScheduleFlush, LiveTimer
<1>8. CASE TimerCancelled
  BY <1>8, BatchAssumption DEF TimerCancelled, LockInv, TypeOK, Enters,
     ScheduleFlush, LiveTimer
<1>9. CASE CloseCall
  BY <1>9, BatchAssumption DEF CloseCall, LockInv, TypeOK, Enters,
     ScheduleFlush, LiveTimer
<1>10. CASE CloseCancelTimer
  <2>1. owner = Nobody
    BY <1>10 DEF CloseCancelTimer, Enters
  <2>2. QED
    BY <1>10, <2>1, BatchAssumption DEF CloseCancelTimer, LockInv, TypeOK
<1>11. CASE CloseFlush
  BY <1>11, BatchAssumption DEF CloseFlush, LockInv, TypeOK, Enters,
     ScheduleFlush, LiveTimer
<1>12. CASE CloseReturn
  BY <1>12, BatchAssumption DEF CloseReturn, LockInv, TypeOK, Enters,
     ScheduleFlush, LiveTimer
<1>13. ASSUME NEW k \in DOMAIN flushes, Flush(k) PROVE LockInv'
  BY <1>13, Advanced DEF LockInv
<1>14. CASE Done
  BY <1>14 DEF Done, vars, LockInv
<1>15. CASE UNCHANGED vars
  BY <1>15 DEF vars, LockInv
<1>16. QED
  BY <1>1, <1>2, <1>3, <1>4, <1>5, <1>6, <1>7, <1>8, <1>9, <1>10, <1>11, <1>12,
     <1>13, <1>14, <1>15 DEF Next, Add, TimerStep, Close

-----------------------------------------------------------------------------

\* A scheduled flush takes exactly the pending items.
LEMMA HandedScheduled ==
  ASSUME TypeOK, ScheduleFlush
  PROVE  Handed' = Handed \cup pending
<1>1. \A e : e \in Handed' => e \in Handed \cup pending
  BY Scheduled DEF Handed
<1>2. \A e : e \in Handed => e \in Handed'
  BY Scheduled DEF Handed
<1>3. \A e : e \in pending => e \in Handed'
  BY Scheduled DEF Handed
<1>4. QED
  BY <1>1, <1>2, <1>3

\* A flush that moves on takes nothing more.
LEMMA HandedAdvanced ==
  ASSUME TypeOK, NEW k \in DOMAIN flushes, Flush(k)
  PROVE  Handed' = Handed
<1>1. DOMAIN flushes' = DOMAIN flushes
  BY Advanced
<1>2. \A j \in DOMAIN flushes : flushes'[j].items = flushes[j].items
  BY Advanced
<1>3. QED
  BY <1>1, <1>2 DEF Handed

\* An add enters its critical section once, while it waits.
LEMMA Entering ==
  ASSUME TypeOK, QueueInv, NEW i \in Item, Enters(i)
  PROVE  owner = Nobody /\ caller[i] = "waiting"
  BY HeadWaits, BatchAssumption DEF Waiting

\* Every step leaves a live timer behind pending items.
LEMMA StrandStep ==
  ASSUME TypeOK, QueueInv, LockInv, NoStranded, [Next]_vars
  PROVE  NoStranded'
<1>1. ASSUME NEW i \in Item, AddCall(i) PROVE NoStranded'
  BY <1>1, BatchAssumption DEF AddCall, NoStranded, LockInv, TypeOK, Enters,
     ScheduleFlush, LiveTimer
<1>2. ASSUME NEW i \in Item, AddCancelled(i) PROVE NoStranded'
  BY <1>2, BatchAssumption DEF AddCancelled, NoStranded, LockInv, TypeOK,
     Enters, ScheduleFlush, LiveTimer
<1>3. ASSUME NEW i \in Item, AddPartial(i) PROVE NoStranded'
  BY <1>3, BatchAssumption DEF AddPartial, NoStranded, LockInv, TypeOK, Enters,
     ScheduleFlush, LiveTimer
<1>4. ASSUME NEW i \in Item, AddFull(i) PROVE NoStranded'
  BY <1>4, BatchAssumption DEF AddFull, NoStranded, LockInv, TypeOK, Enters,
     ScheduleFlush, LiveTimer
<1>5. ASSUME NEW i \in Item, AddFlush(i) PROVE NoStranded'
  BY <1>5, BatchAssumption DEF AddFlush, NoStranded, LockInv, TypeOK, Enters,
     ScheduleFlush, LiveTimer
<1>6. CASE TimerFires
  BY <1>6, BatchAssumption DEF TimerFires, NoStranded, LockInv, TypeOK, Enters,
     ScheduleFlush, LiveTimer
<1>7. CASE TimerFlush
  BY <1>7, BatchAssumption DEF TimerFlush, NoStranded, LockInv, TypeOK, Enters,
     ScheduleFlush, LiveTimer
<1>8. CASE TimerCancelled
  BY <1>8, BatchAssumption DEF TimerCancelled, NoStranded, LockInv, TypeOK,
     Enters, ScheduleFlush, LiveTimer
<1>9. CASE CloseCall
  BY <1>9, BatchAssumption DEF CloseCall, NoStranded, LockInv, TypeOK, Enters,
     ScheduleFlush, LiveTimer
<1>10. CASE CloseCancelTimer
  BY <1>10, BatchAssumption DEF CloseCancelTimer, NoStranded, LockInv, TypeOK,
     Enters, ScheduleFlush, LiveTimer
<1>11. CASE CloseFlush
  BY <1>11, BatchAssumption DEF CloseFlush, NoStranded, LockInv, TypeOK,
     Enters, ScheduleFlush, LiveTimer
<1>12. CASE CloseReturn
  BY <1>12, BatchAssumption DEF CloseReturn, NoStranded, LockInv, TypeOK,
     Enters, ScheduleFlush, LiveTimer
<1>13. ASSUME NEW k \in DOMAIN flushes, Flush(k) PROVE NoStranded'
  BY <1>13, Advanced DEF NoStranded, LiveTimer
<1>14. CASE Done
  BY <1>14 DEF Done, vars, NoStranded, LiveTimer
<1>15. CASE UNCHANGED vars
  BY <1>15 DEF vars, NoStranded, LiveTimer
<1>16. QED
  BY <1>1, <1>2, <1>3, <1>4, <1>5, <1>6, <1>7, <1>8, <1>9, <1>10, <1>11, <1>12,
     <1>13, <1>14, <1>15 DEF Next, Add, TimerStep, Close

\* Every step keeps the batch within its size.
LEMMA SizeStep ==
  ASSUME TypeOK, LockInv, SizeInv, [Next]_vars
  PROVE  SizeInv'
<1>1. ASSUME NEW i \in Item, AddCall(i) PROVE SizeInv'
  BY <1>1 DEF AddCall, SizeInv
<1>2. ASSUME NEW i \in Item, AddCancelled(i) PROVE SizeInv'
  BY <1>2 DEF AddCancelled, SizeInv
<1>3. ASSUME NEW i \in Item, AddPartial(i) PROVE SizeInv'
  <2>1. IsFiniteSet(pending \cup {i})
    BY FS_AddElement DEF SizeInv
  <2>2. Cardinality(pending \cup {i}) \in Nat
    BY <2>1, FS_CardinalityType
  <2>3. QED
    BY <1>3, <2>1, <2>2, BatchAssumption DEF AddPartial, SizeInv
<1>4. ASSUME NEW i \in Item, AddFull(i) PROVE SizeInv'
  <2>1. owner = Nobody /\ owner' = i
    BY <1>4 DEF AddFull, Enters
  <2>2. IsFiniteSet(pending) /\ Cardinality(pending) < BatchSize
    BY <2>1, BatchAssumption DEF SizeInv
  <2>3. Cardinality(pending) \in Nat
    BY <2>2, FS_CardinalityType
  <2>4. /\ IsFiniteSet(pending \cup {i})
        /\ \/ Cardinality(pending \cup {i}) = Cardinality(pending)
           \/ Cardinality(pending \cup {i}) = Cardinality(pending) + 1
    BY <2>2, FS_AddElement
  <2>5. Cardinality(pending \cup {i}) <= BatchSize
    BY <2>2, <2>3, <2>4, BatchAssumption
  <2>6. QED
    BY <1>4, <2>1, <2>4, <2>5 DEF AddFull, SizeInv
<1>5. ASSUME NEW i \in Item, AddFlush(i) PROVE SizeInv'
  <2>1. pending' = {} \/ pending' = pending
    BY <1>5 DEF AddFlush, ScheduleFlush
  <2>2. pending' = {} \/ owner' = owner \/ owner \notin Item
    BY <1>5, BatchAssumption DEF AddFlush, ScheduleFlush, LockInv
  <2>3. IsFiniteSet({}) /\ Cardinality({}) = 0
    BY FS_EmptySet
  <2>4. QED
    BY <2>1, <2>2, <2>3, BatchAssumption DEF SizeInv
<1>6. CASE TimerFires
  BY <1>6 DEF TimerFires, SizeInv
<1>7. CASE TimerFlush
  <2>1. pending' = {} \/ pending' = pending
    BY <1>7 DEF TimerFlush, ScheduleFlush
  <2>2. pending' = {} \/ owner' = owner \/ owner \notin Item
    BY <1>7, BatchAssumption DEF TimerFlush, ScheduleFlush, LockInv
  <2>3. IsFiniteSet({}) /\ Cardinality({}) = 0
    BY FS_EmptySet
  <2>4. QED
    BY <2>1, <2>2, <2>3, BatchAssumption DEF SizeInv
<1>8. CASE TimerCancelled
  BY <1>8 DEF TimerCancelled, SizeInv
<1>9. CASE CloseCall
  BY <1>9 DEF CloseCall, SizeInv
<1>10. CASE CloseCancelTimer
  <2>1. owner = Nobody /\ pending' = pending
    BY <1>10 DEF CloseCancelTimer, Enters
  <2>2. QED
    BY <2>1, BatchAssumption DEF SizeInv
<1>11. CASE CloseFlush
  <2>1. pending' = {} \/ pending' = pending
    BY <1>11 DEF CloseFlush, ScheduleFlush
  <2>2. pending' = {} \/ owner' = owner \/ owner \notin Item
    BY <1>11, BatchAssumption DEF CloseFlush, ScheduleFlush, LockInv
  <2>3. IsFiniteSet({}) /\ Cardinality({}) = 0
    BY FS_EmptySet
  <2>4. QED
    BY <2>1, <2>2, <2>3, BatchAssumption DEF SizeInv
<1>12. CASE CloseReturn
  BY <1>12 DEF CloseReturn, SizeInv
<1>13. ASSUME NEW k \in DOMAIN flushes, Flush(k) PROVE SizeInv'
  BY <1>13, Advanced DEF SizeInv
<1>14. CASE Done
  BY <1>14 DEF Done, vars, SizeInv
<1>15. CASE UNCHANGED vars
  BY <1>15 DEF vars, SizeInv
<1>16. QED
  BY <1>1, <1>2, <1>3, <1>4, <1>5, <1>6, <1>7, <1>8, <1>9, <1>10, <1>11, <1>12,
     <1>13, <1>14, <1>15 DEF Next, Add, TimerStep, Close

\* Every step keeps accepted items pending or handed over.
LEMMA CallersStep ==
  ASSUME TypeOK, QueueInv, LockInv, CallersInv, [Next]_vars
  PROVE  CallersInv'
<1>1. ASSUME NEW i \in Item, AddCall(i) PROVE CallersInv'
  BY <1>1 DEF AddCall, CallersInv, Handed, TypeOK
<1>2. ASSUME NEW i \in Item, AddCancelled(i) PROVE CallersInv'
  BY <1>2 DEF AddCancelled, CallersInv, Handed, TypeOK
<1>3. ASSUME NEW i \in Item, AddPartial(i) PROVE CallersInv'
  <2>1. caller[i] = "waiting"
    BY <1>3, Entering DEF AddPartial
  <2>2. Handed' = Handed
    BY <1>3 DEF AddPartial, Handed
  <2>3. QED
    BY <1>3, <2>1, <2>2 DEF AddPartial, CallersInv, TypeOK
<1>4. ASSUME NEW i \in Item, AddFull(i) PROVE CallersInv'
  <2>1. caller[i] = "waiting"
    BY <1>4, Entering DEF AddFull
  <2>2. Handed' = Handed
    BY <1>4 DEF AddFull, Handed
  <2>3. QED
    BY <1>4, <2>1, <2>2 DEF AddFull, CallersInv, TypeOK
<1>5. ASSUME NEW i \in Item, AddFlush(i) PROVE CallersInv'
  <2>1. \A j \in Item : caller[j] = "flushing" => j = i
    BY <1>5 DEF AddFlush, LockInv
  <2>2. CASE ScheduleFlush
    <3>1. \A j \in Item : caller'[j] \in {"flushing", "returned"}
                          => j \in pending \cup Handed
      BY <1>5 DEF AddFlush, CallersInv, LockInv, TypeOK
    <3>2. \A j \in pending : caller'[j] = "returned"
      BY <1>5, <2>1 DEF AddFlush, CallersInv, TypeOK
    <3>3. \A j \in Item : caller'[j] # "flushing"
      BY <1>5, <2>1 DEF AddFlush, TypeOK
    <3>4. \A k \in DOMAIN flushes' :
            \A j \in flushes'[k].items : caller'[j] = "returned"
      <4>1. \A k \in DOMAIN flushes :
              \A j \in flushes[k].items : caller'[j] = "returned"
        BY <1>5 DEF AddFlush, CallersInv, TypeOK
      <4>2. QED
        BY <2>2, <3>2, <4>1, Scheduled
    <3>5. QED
      BY <2>2, <3>1, <3>2, <3>3, <3>4, Scheduled, HandedScheduled
         DEF CallersInv
  <2>3. CASE UNCHANGED <<pending, flushes>>
    <3>1. Handed' = Handed
      BY <2>3 DEF Handed
    <3>2. QED
      BY <1>5, <2>1, <2>3, <3>1 DEF AddFlush, CallersInv, ScheduleFlush, TypeOK
  <2>4. QED
    BY <1>5, <2>2, <2>3 DEF AddFlush
<1>6. CASE TimerFires
  BY <1>6 DEF TimerFires, CallersInv, Handed, TypeOK
<1>7. CASE TimerFlush
  <2>1. \A j \in Item : caller[j] # "flushing"
    BY <1>7, BatchAssumption DEF TimerFlush, Enters, LockInv
  <2>2. CASE ScheduleFlush
    <3>1. \A j \in Item : caller'[j] \in {"flushing", "returned"}
                          => j \in pending \cup Handed
      BY <1>7 DEF TimerFlush, CallersInv, TypeOK
    <3>2. \A j \in pending : caller'[j] = "returned"
      BY <1>7, <2>1 DEF TimerFlush, CallersInv, TypeOK
    <3>3. \A j \in Item : caller'[j] # "flushing"
      BY <1>7, <2>1 DEF TimerFlush, TypeOK
    <3>4. \A k \in DOMAIN flushes' :
            \A j \in flushes'[k].items : caller'[j] = "returned"
      <4>1. \A k \in DOMAIN flushes :
              \A j \in flushes[k].items : caller'[j] = "returned"
        BY <1>7 DEF TimerFlush, CallersInv, TypeOK
      <4>2. QED
        BY <2>2, <3>2, <4>1, Scheduled
    <3>5. QED
      BY <2>2, <3>1, <3>2, <3>3, <3>4, Scheduled, HandedScheduled
         DEF CallersInv
  <2>3. CASE UNCHANGED <<pending, flushes>>
    <3>1. Handed' = Handed
      BY <2>3 DEF Handed
    <3>2. QED
      BY <1>7, <2>1, <2>3, <3>1 DEF TimerFlush, CallersInv, ScheduleFlush,
         TypeOK
  <2>4. QED
    BY <1>7, <2>2, <2>3 DEF TimerFlush
<1>8. CASE TimerCancelled
  BY <1>8 DEF TimerCancelled, CallersInv, Handed, TypeOK
<1>9. CASE CloseCall
  BY <1>9 DEF CloseCall, CallersInv, Handed, TypeOK
<1>10. CASE CloseCancelTimer
  BY <1>10 DEF CloseCancelTimer, CallersInv, Handed, TypeOK
<1>11. CASE CloseFlush
  <2>1. \A j \in Item : caller[j] # "flushing"
    BY <1>11, BatchAssumption DEF CloseFlush, LockInv
  <2>2. CASE ScheduleFlush
    <3>1. \A j \in Item : caller'[j] \in {"flushing", "returned"}
                          => j \in pending \cup Handed
      BY <1>11 DEF CloseFlush, CallersInv, TypeOK
    <3>2. \A j \in pending : caller'[j] = "returned"
      BY <1>11, <2>1 DEF CloseFlush, CallersInv, TypeOK
    <3>3. \A j \in Item : caller'[j] # "flushing"
      BY <1>11, <2>1 DEF CloseFlush, TypeOK
    <3>4. \A k \in DOMAIN flushes' :
            \A j \in flushes'[k].items : caller'[j] = "returned"
      <4>1. \A k \in DOMAIN flushes :
              \A j \in flushes[k].items : caller'[j] = "returned"
        BY <1>11 DEF CloseFlush, CallersInv, TypeOK
      <4>2. QED
        BY <2>2, <3>2, <4>1, Scheduled
    <3>5. QED
      BY <2>2, <3>1, <3>2, <3>3, <3>4, Scheduled, HandedScheduled
         DEF CallersInv
  <2>3. CASE UNCHANGED <<pending, flushes>>
    <3>1. Handed' = Handed
      BY <2>3 DEF Handed
    <3>2. QED
      BY <1>11, <2>1, <2>3, <3>1 DEF CloseFlush, CallersInv, ScheduleFlush,
         TypeOK
  <2>4. QED
    BY <1>11, <2>2, <2>3 DEF CloseFlush
<1>12. CASE CloseReturn
  BY <1>12 DEF CloseReturn, CallersInv, Handed, TypeOK
<1>13. ASSUME NEW k \in DOMAIN flushes, Flush(k) PROVE CallersInv'
  <2>1. Handed' = Handed
    BY <1>13, HandedAdvanced
  <2>2. DOMAIN flushes' = DOMAIN flushes
        /\ \A j \in DOMAIN flushes : flushes'[j].items = flushes[j].items
    BY <1>13, Advanced
  <2>3. caller' = caller /\ pending' = pending
    BY <1>13, Advanced
  <2>4. QED
    BY <2>1, <2>2, <2>3 DEF CallersInv
<1>14. CASE Done
  BY <1>14 DEF Done, vars, CallersInv, Handed
<1>15. CASE UNCHANGED vars
  BY <1>15 DEF vars, CallersInv, Handed
<1>16. QED
  BY <1>1, <1>2, <1>3, <1>4, <1>5, <1>6, <1>7, <1>8, <1>9, <1>10, <1>11, <1>12,
     <1>13, <1>14, <1>15 DEF Next, Add, TimerStep, Close

\* Every step keeps an item in one place.
LEMMA DisjointStep ==
  ASSUME TypeOK, QueueInv, CallersInv, DisjointInv, [Next]_vars
  PROVE  DisjointInv'
<1>1. ASSUME NEW i \in Item, AddCall(i) PROVE DisjointInv'
  BY <1>1 DEF AddCall, DisjointInv
<1>2. ASSUME NEW i \in Item, AddCancelled(i) PROVE DisjointInv'
  BY <1>2 DEF AddCancelled, DisjointInv
<1>3. ASSUME NEW i \in Item, AddPartial(i) PROVE DisjointInv'
  <2>1. caller[i] = "waiting"
    BY <1>3, Entering DEF AddPartial
  <2>2. \A k \in DOMAIN flushes : i \notin flushes[k].items
    BY <2>1 DEF CallersInv
  <2>3. QED
    BY <1>3, <2>2 DEF AddPartial, DisjointInv
<1>4. ASSUME NEW i \in Item, AddFull(i) PROVE DisjointInv'
  <2>1. caller[i] = "waiting"
    BY <1>4, Entering DEF AddFull
  <2>2. \A k \in DOMAIN flushes : i \notin flushes[k].items
    BY <2>1 DEF CallersInv
  <2>3. QED
    BY <1>4, <2>2 DEF AddFull, DisjointInv
<1>5. ASSUME NEW i \in Item, AddFlush(i) PROVE DisjointInv'
  <2>1. CASE ScheduleFlush
    <3>1. \A k \in DOMAIN flushes' : flushes'[k].items \cap {} = {}
      OBVIOUS
    <3>2. \A j, k \in DOMAIN flushes' :
            j # k => flushes'[j].items \cap flushes'[k].items = {}
      BY <2>1, Scheduled DEF DisjointInv
    <3>3. QED
      BY <2>1, <3>1, <3>2, Scheduled DEF DisjointInv
  <2>2. CASE UNCHANGED <<pending, flushes>>
    BY <2>2 DEF DisjointInv
  <2>3. QED
    BY <1>5, <2>1, <2>2 DEF AddFlush
<1>6. CASE TimerFires
  BY <1>6 DEF TimerFires, DisjointInv
<1>7. CASE TimerFlush
  <2>1. CASE ScheduleFlush
    <3>1. \A k \in DOMAIN flushes' : flushes'[k].items \cap {} = {}
      OBVIOUS
    <3>2. \A j, k \in DOMAIN flushes' :
            j # k => flushes'[j].items \cap flushes'[k].items = {}
      BY <2>1, Scheduled DEF DisjointInv
    <3>3. QED
      BY <2>1, <3>1, <3>2, Scheduled DEF DisjointInv
  <2>2. CASE UNCHANGED <<pending, flushes>>
    BY <2>2 DEF DisjointInv
  <2>3. QED
    BY <1>7, <2>1, <2>2 DEF TimerFlush
<1>8. CASE TimerCancelled
  BY <1>8 DEF TimerCancelled, DisjointInv
<1>9. CASE CloseCall
  BY <1>9 DEF CloseCall, DisjointInv
<1>10. CASE CloseCancelTimer
  BY <1>10 DEF CloseCancelTimer, DisjointInv
<1>11. CASE CloseFlush
  <2>1. CASE ScheduleFlush
    <3>1. \A k \in DOMAIN flushes' : flushes'[k].items \cap {} = {}
      OBVIOUS
    <3>2. \A j, k \in DOMAIN flushes' :
            j # k => flushes'[j].items \cap flushes'[k].items = {}
      BY <2>1, Scheduled DEF DisjointInv
    <3>3. QED
      BY <2>1, <3>1, <3>2, Scheduled DEF DisjointInv
  <2>2. CASE UNCHANGED <<pending, flushes>>
    BY <2>2 DEF DisjointInv
  <2>3. QED
    BY <1>11, <2>1, <2>2 DEF CloseFlush
<1>12. CASE CloseReturn
  BY <1>12 DEF CloseReturn, DisjointInv
<1>13. ASSUME NEW k \in DOMAIN flushes, Flush(k) PROVE DisjointInv'
  <2>1. DOMAIN flushes' = DOMAIN flushes
        /\ \A j \in DOMAIN flushes : flushes'[j].items = flushes[j].items
    BY <1>13, Advanced
  <2>2. pending' = pending
    BY <1>13, Advanced
  <2>3. QED
    BY <2>1, <2>2 DEF DisjointInv
<1>14. CASE Done
  BY <1>14 DEF Done, vars, DisjointInv
<1>15. CASE UNCHANGED vars
  BY <1>15 DEF vars, DisjointInv
<1>16. QED
  BY <1>1, <1>2, <1>3, <1>4, <1>5, <1>6, <1>7, <1>8, <1>9, <1>10, <1>11, <1>12,
     <1>13, <1>14, <1>15 DEF Next, Add, TimerStep, Close

\* What a flush record holds.
LEMMA Snapshot ==
  ASSUME TypeOK, NEW k \in DOMAIN flushes
  PROVE  /\ flushes[k] \in FlushTask
         /\ flushes[k].items \subseteq Item
         /\ flushes[k].valid \subseteq flushes[k].items
         /\ flushes[k].phase \in {"fetch", "embed", "upsert", "done"}
<1>1. flushes[k] \in FlushTask /\ flushes[k].valid \subseteq flushes[k].items
  BY DEF TypeOK
<1>2. QED
  BY <1>1 DEF FlushTask

\* A flush that leaves an item behind has recorded what became of it.
LEMMA FlushSettles ==
  ASSUME TypeOK, OutcomeInv, NEW k \in DOMAIN flushes, Flush(k),
         NEW i \in flushes[k].items,
         \/ flushes'[k].phase = "done"
         \/ flushes'[k].phase \in {"embed", "upsert"} /\ i \notin flushes'[k].valid
  PROVE  outcome'[i] # "none"
<1> DEFINE f == flushes[k]
<1>1. /\ f \in FlushTask /\ f.items \subseteq Item
      /\ f.valid \subseteq f.items /\ i \in f.items
      /\ i \in Item /\ flushes \in Seq(FlushTask)
  BY Snapshot DEF TypeOK
<1>2. /\ f.phase \in {"embed", "upsert"} /\ i \notin f.valid => outcome[i] # "none"
      /\ outcome[i] # "none" => outcome'[i] # "none"
  BY <1>1, Advanced DEF OutcomeInv
<1> HIDE DEF f
<1>3. ASSUME NEW S, NEW v, NEW ph, Settle(k, S, v, ph)
      PROVE  /\ flushes'[k].valid = v /\ flushes'[k].phase = ph
             /\ i \in S => outcome'[i] = "dropped"
  <2>1. flushes' = [flushes EXCEPT ![k] = [f EXCEPT !.valid = v, !.phase = ph]]
    BY <1>3 DEF Settle, f
  <2>2. flushes'[k] = [f EXCEPT !.valid = v, !.phase = ph]
    BY <1>1, <2>1
  <2>3. QED
    BY <1>1, <1>3, <2>2 DEF FlushTask, Settle
<1>4. CASE FlushFetch(k)
  BY <1>1, <1>3, <1>4 DEF FlushFetch, f
<1>5. CASE FlushEmbed(k)
  BY <1>1, <1>2, <1>3, <1>5 DEF FlushEmbed, f
<1>6. CASE FlushUpsert(k)
  BY <1>1, <1>2, <1>6 DEF FlushUpsert, f
<1>7. QED
  BY <1>4, <1>5, <1>6 DEF Flush

\* Every step keeps the outcomes accounted for.
LEMMA OutcomeStep ==
  ASSUME TypeOK, OutcomeInv, [Next]_vars
  PROVE  OutcomeInv'
<1>1. ASSUME NEW i \in Item, AddCall(i) PROVE OutcomeInv'
  BY <1>1 DEF AddCall, OutcomeInv
<1>2. ASSUME NEW i \in Item, AddCancelled(i) PROVE OutcomeInv'
  BY <1>2 DEF AddCancelled, OutcomeInv
<1>3. ASSUME NEW i \in Item, AddPartial(i) PROVE OutcomeInv'
  BY <1>3 DEF AddPartial, OutcomeInv
<1>4. ASSUME NEW i \in Item, AddFull(i) PROVE OutcomeInv'
  BY <1>4 DEF AddFull, OutcomeInv
<1>5. ASSUME NEW i \in Item, AddFlush(i) PROVE OutcomeInv'
  <2>1. outcome' = outcome
    BY <1>5 DEF AddFlush
  <2>2. CASE ScheduleFlush
    BY <2>1, <2>2, Scheduled DEF OutcomeInv
  <2>3. CASE UNCHANGED <<pending, flushes>>
    BY <2>1, <2>3 DEF OutcomeInv
  <2>4. QED
    BY <1>5, <2>2, <2>3 DEF AddFlush
<1>6. CASE TimerFires
  BY <1>6 DEF TimerFires, OutcomeInv
<1>7. CASE TimerFlush
  <2>1. outcome' = outcome
    BY <1>7 DEF TimerFlush
  <2>2. CASE ScheduleFlush
    BY <2>1, <2>2, Scheduled DEF OutcomeInv
  <2>3. CASE UNCHANGED <<pending, flushes>>
    BY <2>1, <2>3 DEF OutcomeInv
  <2>4. QED
    BY <1>7, <2>2, <2>3 DEF TimerFlush
<1>8. CASE TimerCancelled
  BY <1>8 DEF TimerCancelled, OutcomeInv
<1>9. CASE CloseCall
  BY <1>9 DEF CloseCall, OutcomeInv
<1>10. CASE CloseCancelTimer
  BY <1>10 DEF CloseCancelTimer, OutcomeInv
<1>11. CASE CloseFlush
  <2>1. outcome' = outcome
    BY <1>11 DEF CloseFlush
  <2>2. CASE ScheduleFlush
    BY <2>1, <2>2, Scheduled DEF OutcomeInv
  <2>3. CASE UNCHANGED <<pending, flushes>>
    BY <2>1, <2>3 DEF OutcomeInv
  <2>4. QED
    BY <1>11, <2>2, <2>3 DEF CloseFlush
<1>12. CASE CloseReturn
  BY <1>12 DEF CloseReturn, OutcomeInv
<1>13. ASSUME NEW k \in DOMAIN flushes, Flush(k) PROVE OutcomeInv'
  <2>1. \A i \in Item : outcome[i] # "none" => outcome'[i] # "none"
    BY <1>13, Advanced
  <2>2. ASSUME NEW j \in DOMAIN flushes, j # k, NEW i \in flushes'[j].items,
               \/ flushes'[j].phase = "done"
               \/ flushes'[j].phase \in {"embed", "upsert"} /\ i \notin flushes'[j].valid
        PROVE  outcome'[i] # "none"
    <3>1. flushes'[j] = flushes[j]
      BY <1>13, <2>2, Advanced
    <3>2. flushes[j].items \subseteq Item
      BY Snapshot
    <3>3. QED
      BY <2>1, <2>2, <3>1, <3>2 DEF OutcomeInv
  <2>3. ASSUME NEW i \in flushes[k].items,
               \/ flushes'[k].phase = "done"
               \/ flushes'[k].phase \in {"embed", "upsert"} /\ i \notin flushes'[k].valid
        PROVE  outcome'[i] # "none"
    BY <1>13, <2>3, FlushSettles
  <2>4. QED
    BY <1>13, <2>2, <2>3, Advanced DEF OutcomeInv
<1>14. CASE Done
  BY <1>14 DEF Done, vars, OutcomeInv
<1>15. CASE UNCHANGED vars
  BY <1>15 DEF vars, OutcomeInv
<1>16. QED
  BY <1>1, <1>2, <1>3, <1>4, <1>5, <1>6, <1>7, <1>8, <1>9, <1>10, <1>11, <1>12,
     <1>13, <1>14, <1>15 DEF Next, Add, TimerStep, Close

\* Every step keeps the promise of close.
LEMMA DrainStep ==
  ASSUME TypeOK, QueueInv, CallersInv, DrainInv, [Next]_vars
  PROVE  DrainInv'
<1>1. ASSUME NEW i \in Item, AddCall(i) PROVE DrainInv'
  <2>1. \A j \in before' : caller'[j] = "returned"
    BY <1>1 DEF AddCall, DrainInv, TypeOK
  <2>2. QED
    BY <1>1, <2>1 DEF AddCall, DrainInv, TypeOK
<1>2. ASSUME NEW i \in Item, AddCancelled(i) PROVE DrainInv'
  <2>1. \A j \in before' : caller'[j] = "returned"
    BY <1>2 DEF AddCancelled, DrainInv, TypeOK
  <2>2. QED
    BY <1>2, <2>1 DEF AddCancelled, DrainInv, TypeOK
<1>3. ASSUME NEW i \in Item, AddPartial(i) PROVE DrainInv'
  <2>1. \A j \in before' : caller'[j] = "returned"
    BY <1>3, Entering DEF AddPartial, DrainInv, TypeOK
  <2>2. QED
    BY <1>3, <2>1 DEF AddPartial, DrainInv, TypeOK
<1>4. ASSUME NEW i \in Item, AddFull(i) PROVE DrainInv'
  <2>1. \A j \in before' : caller'[j] = "returned"
    BY <1>4, Entering DEF AddFull, DrainInv, TypeOK
  <2>2. QED
    BY <1>4, <2>1 DEF AddFull, DrainInv, TypeOK
<1>5. ASSUME NEW i \in Item, AddFlush(i) PROVE DrainInv'
  <2>1. /\ \A j \in before' : caller'[j] = "returned"
        /\ UNCHANGED <<before, closer, gathered>>
    BY <1>5 DEF AddFlush, DrainInv, TypeOK
  <2>2. CASE ScheduleFlush
    <3>1. gathered \subseteq DOMAIN flushes
      BY DEF TypeOK
    <3>2. QED
      BY <2>1, <2>2, <3>1, Scheduled DEF DrainInv
  <2>3. CASE UNCHANGED <<pending, flushes>>
    BY <2>1, <2>3 DEF DrainInv
  <2>4. QED
    BY <1>5, <2>2, <2>3 DEF AddFlush
<1>6. CASE TimerFires
  <2>1. \A j \in before' : caller'[j] = "returned"
    BY <1>6 DEF TimerFires, DrainInv, TypeOK
  <2>2. QED
    BY <1>6, <2>1 DEF TimerFires, DrainInv, TypeOK
<1>7. CASE TimerFlush
  <2>1. /\ \A j \in before' : caller'[j] = "returned"
        /\ UNCHANGED <<before, closer, gathered>>
    BY <1>7 DEF TimerFlush, DrainInv, TypeOK
  <2>2. CASE ScheduleFlush
    <3>1. gathered \subseteq DOMAIN flushes
      BY DEF TypeOK
    <3>2. QED
      BY <2>1, <2>2, <3>1, Scheduled DEF DrainInv
  <2>3. CASE UNCHANGED <<pending, flushes>>
    BY <2>1, <2>3 DEF DrainInv
  <2>4. QED
    BY <1>7, <2>2, <2>3 DEF TimerFlush
<1>8. CASE TimerCancelled
  <2>1. \A j \in before' : caller'[j] = "returned"
    BY <1>8 DEF TimerCancelled, DrainInv, TypeOK
  <2>2. QED
    BY <1>8, <2>1 DEF TimerCancelled, DrainInv, TypeOK
<1>9. CASE CloseCall
  <2>1. \A j \in before' : caller'[j] = "returned"
    BY <1>9 DEF CloseCall, DrainInv, TypeOK
  <2>2. QED
    BY <1>9, <2>1 DEF CloseCall, DrainInv, TypeOK
<1>10. CASE CloseCancelTimer
  <2>1. \A j \in before' : caller'[j] = "returned"
    BY <1>10 DEF CloseCancelTimer, DrainInv, TypeOK
  <2>2. QED
    BY <1>10, <2>1 DEF CloseCancelTimer, DrainInv, TypeOK
<1>11. CASE CloseFlush
  <2>1. \A j \in before' : caller'[j] = "returned"
    BY <1>11 DEF CloseFlush, DrainInv
  <2>2. before' \subseteq Handed'
    <3>1. before \subseteq pending \cup Handed
      BY DEF DrainInv, CallersInv, TypeOK
    <3>2. CASE ScheduleFlush
      BY <1>11, <3>1, <3>2, HandedScheduled DEF CloseFlush
    <3>3. CASE pending = {} /\ UNCHANGED <<pending, flushes>>
      BY <1>11, <3>1, <3>3 DEF CloseFlush, Handed
    <3>4. QED
      BY <1>11, <3>2, <3>3 DEF CloseFlush
  <2>3. \A j \in before' : \E k \in DOMAIN flushes' :
          j \in flushes'[k].items /\ (k \in gathered' \/ flushes'[k].phase = "done")
    BY <1>11, <2>2 DEF CloseFlush, Handed
  <2>4. closer' = "gathering"
    BY <1>11 DEF CloseFlush
  <2>5. QED
    BY <2>1, <2>3, <2>4 DEF DrainInv
<1>12. CASE CloseReturn
  <2>1. \A j \in before' : caller'[j] = "returned"
    BY <1>12 DEF CloseReturn, DrainInv, TypeOK
  <2>2. QED
    BY <1>12, <2>1 DEF CloseReturn, DrainInv, TypeOK, Active
<1>13. ASSUME NEW k \in DOMAIN flushes, Flush(k) PROVE DrainInv'
  <2>1. /\ DOMAIN flushes' = DOMAIN flushes
        /\ \A j \in DOMAIN flushes : flushes'[j].items = flushes[j].items
        /\ \A j \in DOMAIN flushes :
             flushes[j].phase = "done" => flushes'[j] = flushes[j]
    BY <1>13, Advanced
  <2>2. /\ UNCHANGED <<before, closer, gathered, caller>>
        /\ gathered \subseteq DOMAIN flushes
    BY <1>13, Advanced DEF TypeOK
  <2>3. \A j \in before : caller'[j] = "returned"
    BY <2>2 DEF DrainInv
  <2>4. closer' \in {"gathering", "closed"} =>
          \A j \in before' : \E m \in DOMAIN flushes' :
            j \in flushes'[m].items /\ (m \in gathered' \/ flushes'[m].phase = "done")
    BY <2>1, <2>2 DEF DrainInv
  <2>5. closer' = "closed" => \A m \in gathered' : flushes'[m].phase = "done"
    BY <2>1, <2>2 DEF DrainInv
  <2>6. QED
    BY <2>2, <2>3, <2>4, <2>5 DEF DrainInv
<1>14. CASE Done
  BY <1>14 DEF Done, vars, DrainInv
<1>15. CASE UNCHANGED vars
  BY <1>15 DEF vars, DrainInv
<1>16. QED
  BY <1>1, <1>2, <1>3, <1>4, <1>5, <1>6, <1>7, <1>8, <1>9, <1>10, <1>11, <1>12,
     <1>13, <1>14, <1>15 DEF Next, Add, TimerStep, Close

-----------------------------------------------------------------------------

\* The inductive invariant: where each task stands in relation to the lock,
\* and where each item is.
THEOREM InvHolds == Spec => []Inv
<1>1. Init => Inv
  <2> SUFFICES ASSUME Init PROVE Inv
    OBVIOUS
  <2>1. /\ TypeOK /\ LockInv /\ CallersInv /\ DisjointInv /\ OutcomeInv
        /\ DrainInv /\ NoStranded
    BY BatchAssumption
       DEF Init, TypeOK, LockInv, CallersInv, DisjointInv, OutcomeInv, DrainInv,
           NoStranded, Handed
  <2>2. QueueInv
    BY DEF Init, QueueInv, Waiting, IsInjective, ToSet
  <2>3. SizeInv
    BY FS_EmptySet, BatchAssumption DEF Init, SizeInv
  <2>4. QED
    BY <2>1, <2>2, <2>3 DEF Inv
<1>2. Inv /\ [Next]_vars => Inv'
  BY TypeStep, QueueStep, LockStep, CallersStep, SizeStep, DisjointStep,
     OutcomeStep, DrainStep,
     StrandStep DEF Inv
<1>3. QED
  BY <1>1, <1>2, PTL DEF Spec

\* Every task of the accumulator is in a state the code knows.
THEOREM TypeCorrect == Spec => []TypeOK
<1>1. Inv => TypeOK
  BY DEF Inv
<1>2. QED
  BY <1>1, InvHolds, PTL

\* No item waits for a timer that add or close has cancelled (add,
\* _cancel_timer and _flush_after_timeout in any order).
THEOREM NothingStranded == Spec => []NoStranded
<1>1. Inv => NoStranded
  BY DEF Inv
<1>2. QED
  BY <1>1, InvHolds, PTL

\* When close returns, every item whose add had returned before is through
\* its flush (close, gather of _flush_tasks).
THEOREM ClosingDrains == Spec => []CloseDrains
<1>1. Inv => CloseDrains
  <2> SUFFICES ASSUME Inv, closer = "closed", NEW i \in before
               PROVE  outcome[i] # "none"
    BY DEF CloseDrains
  <2>1. PICK k \in DOMAIN flushes :
          i \in flushes[k].items /\ (k \in gathered \/ flushes[k].phase = "done")
    BY DEF Inv, DrainInv
  <2>2. flushes[k].phase = "done"
    BY <2>1 DEF Inv, DrainInv
  <2>3. QED
    BY <2>1, <2>2 DEF Inv, OutcomeInv
<1>2. QED
  BY <1>1, InvHolds, PTL

-----------------------------------------------------------------------------

\* What the mapping substitutes for the batches of the outbox.
batches == [k \in DOMAIN flushes |-> flushes[k].items]

\* A scheduled batch is a dispatch of the outbox: it is not empty, not too
\* large and none of it was dispatched before.
LEMMA Dispatching ==
  ASSUME TypeOK, DisjointInv, SizeInv, ScheduleFlush, pending # {}
  PROVE  Outbox!Next
<1>1. /\ flushes \in Seq(FlushTask) /\ Len(flushes) \in Nat
      /\ DOMAIN flushes = 1 .. Len(flushes)
  BY DEF TypeOK
<1>2. /\ batches \in Seq(SUBSET Item) /\ Len(batches) = Len(flushes)
      /\ DOMAIN batches = DOMAIN flushes
  BY <1>1, Snapshot DEF batches
<1>3. Outbox!Dispatched = Handed
  BY <1>1, <1>2 DEF Outbox!Dispatched, batches, Handed
<1>4. pending \subseteq (pending \cup Handed) \ Outbox!Dispatched
  BY <1>3 DEF DisjointInv, Handed
<1>5. batches' = Append(batches, pending)
  <2>1. DOMAIN batches' = 1 .. Len(flushes) + 1
    BY <1>1, Scheduled DEF batches
  <2>2. \A k \in 1 .. Len(flushes) : batches'[k] = batches[k]
    BY <1>1, Scheduled DEF batches
  <2>3. batches'[Len(flushes) + 1] = pending
    BY <1>1, Scheduled DEF batches
  <2>4. pending \in SUBSET Item
    BY DEF TypeOK
  <2>5. batches' = [k \in 1 .. Len(flushes) + 1 |-> batches'[k]]
    BY <2>1 DEF batches
  <2>6. QED
    BY <1>1, <1>2, <2>2, <2>3, <2>4, <2>5
<1>6. (pending \cup Handed)' = pending \cup Handed
  BY HandedScheduled, Scheduled
<1>7. [k \in DOMAIN flushes |-> flushes[k].items]'
        = Append([k \in DOMAIN flushes |-> flushes[k].items], pending)
  BY <1>5 DEF batches
<1>8. Outbox!Cardinality(pending) <= BatchSize
  <2>1. Cardinality(pending) <= BatchSize
    BY DEF SizeInv
  <2>2. Outbox!Cardinality(pending) = Cardinality(pending)
    BY Zenon DEF Outbox!Cardinality, Cardinality
  <2>3. QED
    BY <2>1, <2>2
<1>9. PICK S \in SUBSET Item : S = pending
  BY DEF TypeOK
<1>10. Outbox!Dispatch(S)
  BY <1>4, <1>6, <1>7, <1>8, <1>9 DEF Outbox!Dispatch
<1>11. QED
  BY <1>10 DEF Outbox!Next

\* A step that touches neither list is invisible to the outbox.
LEMMA NothingNew ==
  ASSUME UNCHANGED <<pending, flushes>>
  PROVE  UNCHANGED <<pending \cup Handed, batches>>
  BY DEF Handed, batches

\* Every step of the accumulator is a step of the outbox or a stutter.
LEMMA OutboxStep ==
  ASSUME Inv, [Next]_vars
  PROVE  [Outbox!Next]_<<pending \cup Handed, batches>>
<1>1. ASSUME NEW i \in Item, AddCall(i)
      PROVE  [Outbox!Next]_<<pending \cup Handed, batches>>
  <2>1. UNCHANGED <<pending, flushes>>
    BY <1>1 DEF AddCall
  <2>2. QED
    BY <2>1, NothingNew
<1>2. ASSUME NEW i \in Item, AddCancelled(i)
      PROVE  [Outbox!Next]_<<pending \cup Handed, batches>>
  <2>1. UNCHANGED <<pending, flushes>>
    BY <1>2 DEF AddCancelled
  <2>2. QED
    BY <2>1, NothingNew
<1>3. ASSUME NEW i \in Item, AddPartial(i)
      PROVE  [Outbox!Next]_<<pending \cup Handed, batches>>
  <2>1. caller[i] = "waiting"
    BY <1>3, Entering DEF AddPartial, Inv
  <2>2. i \notin pending /\ i \notin Handed
    BY <2>1 DEF Inv, CallersInv, Handed
  <2>3. pending' = pending \cup {i} /\ flushes' = flushes
    BY <1>3 DEF AddPartial
  <2>4. Outbox!Accept(i)
    BY <2>2, <2>3 DEF Outbox!Accept, Handed
  <2>5. QED
    BY <2>4 DEF Outbox!Next
<1>4. ASSUME NEW i \in Item, AddFull(i)
      PROVE  [Outbox!Next]_<<pending \cup Handed, batches>>
  <2>1. caller[i] = "waiting"
    BY <1>4, Entering DEF AddFull, Inv
  <2>2. i \notin pending /\ i \notin Handed
    BY <2>1 DEF Inv, CallersInv, Handed
  <2>3. pending' = pending \cup {i} /\ flushes' = flushes
    BY <1>4 DEF AddFull
  <2>4. Outbox!Accept(i)
    BY <2>2, <2>3 DEF Outbox!Accept, Handed
  <2>5. QED
    BY <2>4 DEF Outbox!Next
<1>5. ASSUME NEW i \in Item, AddFlush(i)
      PROVE  [Outbox!Next]_<<pending \cup Handed, batches>>
  <2>1. ScheduleFlush /\ owner = i
    BY <1>5 DEF AddFlush
  <2>2. i \in pending
    BY <2>1 DEF Inv, LockInv, CallersInv
  <2>3. QED
    BY <2>1, <2>2, Dispatching DEF Inv
<1>6. CASE TimerFires
  <2>1. UNCHANGED <<pending, flushes>>
    BY <1>6 DEF TimerFires
  <2>2. QED
    BY <2>1, NothingNew
<1>7. CASE TimerFlush
  <2>1. CASE pending = {}
    <3>1. UNCHANGED <<pending, flushes>>
      BY <1>7, <2>1 DEF TimerFlush
    <3>2. QED
      BY <3>1, NothingNew
  <2>2. CASE pending # {}
    <3>1. ScheduleFlush
      BY <1>7, <2>2 DEF TimerFlush
    <3>2. QED
      BY <2>2, <3>1, Dispatching DEF Inv
  <2>3. QED
    BY <2>1, <2>2
<1>8. CASE TimerCancelled
  <2>1. UNCHANGED <<pending, flushes>>
    BY <1>8 DEF TimerCancelled
  <2>2. QED
    BY <2>1, NothingNew
<1>9. CASE CloseCall
  <2>1. UNCHANGED <<pending, flushes>>
    BY <1>9 DEF CloseCall
  <2>2. QED
    BY <2>1, NothingNew
<1>10. CASE CloseCancelTimer
  <2>1. UNCHANGED <<pending, flushes>>
    BY <1>10 DEF CloseCancelTimer
  <2>2. QED
    BY <2>1, NothingNew
<1>11. CASE CloseFlush
  <2>1. CASE pending = {}
    <3>1. UNCHANGED <<pending, flushes>>
      BY <1>11, <2>1 DEF CloseFlush
    <3>2. QED
      BY <3>1, NothingNew
  <2>2. CASE pending # {}
    <3>1. ScheduleFlush
      BY <1>11, <2>2 DEF CloseFlush
    <3>2. QED
      BY <2>2, <3>1, Dispatching DEF Inv
  <2>3. QED
    BY <2>1, <2>2
<1>12. CASE CloseReturn
  <2>1. UNCHANGED <<pending, flushes>>
    BY <1>12 DEF CloseReturn
  <2>2. QED
    BY <2>1, NothingNew
<1>13. ASSUME NEW k \in DOMAIN flushes, Flush(k)
      PROVE  [Outbox!Next]_<<pending \cup Handed, batches>>
  <2>1. Handed' = Handed /\ pending' = pending
    BY <1>13, HandedAdvanced, Advanced DEF Inv
  <2>2. DOMAIN flushes' = DOMAIN flushes
        /\ \A j \in DOMAIN flushes : flushes'[j].items = flushes[j].items
    BY <1>13, Advanced DEF Inv
  <2>3. batches' = batches
    BY <2>2 DEF batches
  <2>4. QED
    BY <2>1, <2>3
<1>14. CASE Done
  <2>1. UNCHANGED <<pending, flushes>>
    BY <1>14 DEF Done, vars
  <2>2. QED
    BY <2>1, NothingNew
<1>15. CASE UNCHANGED vars
  <2>1. UNCHANGED <<pending, flushes>>
    BY <1>15 DEF vars
  <2>2. QED
    BY <2>1, NothingNew
<1>16. QED
  BY <1>1, <1>2, <1>3, <1>4, <1>5, <1>6, <1>7, <1>8, <1>9, <1>10, <1>11, <1>12,
     <1>13, <1>14, <1>15 DEF Next, Add, TimerStep, Close

\* The accumulator implements the outbox, as far as safety goes: what add has
\* accepted is handed over at most once, in batches that are neither empty nor
\* larger than batch_size (that it is handed over at all is a liveness
\* property, ImplementsOutbox, and stays with the model checker).
THEOREM ImplementsOutboxSafely == Spec => Outbox!SafeSpec
<1>1. Init => Outbox!Init
  BY DEF Init, Outbox!Init, Handed
<1>2. Inv /\ [Next]_vars => [Outbox!Next]_<<pending \cup Handed, batches>>
  BY OutboxStep
<1>3. QED
  BY <1>1, <1>2, InvHolds, PTL DEF Spec, Outbox!SafeSpec, batches

=============================================================================
