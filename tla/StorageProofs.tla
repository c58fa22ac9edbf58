---------------------------- MODULE StorageProofs ----------------------------
(***************************************************************************)
(* Proofs about the two modules on the storage backends: StorageCircuit,   *)
(* the breaker through which every backend call goes, for every number of  *)
(* concurrent calls and every threshold, window and cooldown, and          *)
(* Retention, which clears the graph and the vectors, for every number of  *)
(* memories and reflections, every number of reflections to keep and every *)
(* batch size.                                                             *)
(***************************************************************************)
EXTENDS StorageCircuit, Retention, TLAPS, FiniteSetTheorems, SequenceTheorems

-----------------------------------------------------------------------------
(* StorageCircuit: the invariant.                                          *)

\* The four properties need each other: that a closed breaker holds fewer
\* than Threshold failures is what bounds them at the moment it trips.
CircuitInv ==
  /\ CircuitTypeOK
  /\ NeverSilentlyOpen
  /\ FailuresBounded
  /\ GaugeAgrees

\* _prune only ever shortens the deque.
LEMMA PruneShortens ==
  ASSUME NEW S, NEW fs \in Seq(S)
  PROVE  /\ Prune(fs) \in Seq(S)
         /\ Len(Prune(fs)) \in Nat
         /\ Len(Prune(fs)) <= Len(fs)
<1>1. Len(fs) \in Nat
  OBVIOUS
<1>2. IsFiniteSet(1 .. Len(fs)) /\ Cardinality(1 .. Len(fs)) = Len(fs)
  BY <1>1, FS_Interval
<1>3. /\ IsFiniteSet(Expired(fs))
      /\ Cardinality(Expired(fs)) <= Len(fs)
  BY <1>2, FS_Subset DEF Expired
<1>4. PICK n \in Nat : n = Cardinality(Expired(fs))
  BY <1>3, FS_CardinalityType
<1>5. Prune(fs) = SubSeq(fs, n + 1, Len(fs)) /\ n <= Len(fs)
  BY <1>3, <1>4 DEF Prune
<1> QED
  BY <1>1, <1>4, <1>5

\* The calls under way are a finite set, and there are never more than Call.
LEMMA RunningFinite ==
  /\ IsFiniteSet(Running) /\ Cardinality(Running) \in Nat
  /\ Cardinality(Call) \in Nat /\ Cardinality(Running) <= Cardinality(Call)
  BY CircuitAssumption, FS_Subset, FS_CardinalityType DEF Running

\* A call that ends leaves one call less under way.
LEMMA CallEnds ==
  ASSUME CircuitTypeOK, NEW c \in Call, call[c] = "running",
         call' = [call EXCEPT ![c] = "idle"]
  PROVE  /\ Cardinality(Running') = Cardinality(Running) - 1
         /\ Cardinality(Running) \in Nat
         /\ Cardinality(Running) <= Cardinality(Call)
<1>1. Running' = Running \ {c} /\ c \in Running
  BY DEF CircuitTypeOK, Running
<1> QED
  BY <1>1, RunningFinite, FS_RemoveElement

\* Recording a failure makes the pruned deque at most one longer.
LEMMA FailureAdded ==
  ASSUME CircuitTypeOK
  PROVE  LET fs == Prune(Append(failures, 0)) IN
         /\ fs \in Seq(0 .. WindowS + 1)
         /\ Len(fs) \in Nat /\ Len(fs) <= Len(failures) + 1
<1>1. 0 \in 0 .. WindowS + 1
  BY CircuitAssumption
<1>2. /\ Append(failures, 0) \in Seq(0 .. WindowS + 1)
      /\ Len(Append(failures, 0)) = Len(failures) + 1
  BY <1>1, AppendProperties DEF CircuitTypeOK
<1> QED
  BY <1>2, PruneShortens

\* No failure is left after a reset, so nothing remains to be bounded.
LEMMA ResetStep ==
  ASSUME CircuitInv, Reset, call' \in [Call -> {"idle", "running"}],
         gauge' \in {"closed", "opened"}, gauge' # "opened"
  PROVE  CircuitInv'
<1>1. /\ failures' = <<>> /\ Len(failures') = 0
      /\ failures' \in Seq(0 .. WindowS + 1)
  BY DEF Reset
<1>2. opened' = -1 /\ opened' \in NotOpen .. Cooldown
  BY CircuitAssumption DEF Reset, NotOpen
<1>3. CircuitTypeOK'
  BY <1>1, <1>2 DEF CircuitTypeOK
<1> QED
  BY <1>1, <1>2, <1>3, CircuitAssumption
  DEF CircuitInv, NeverSilentlyOpen, FailuresBounded, GaugeAgrees, Open,
      NotOpen

\* Entering a guard, refused or not, keeps the invariant.
LEMMA GuardStep ==
  ASSUME CircuitInv, NEW c \in Call, Guard(c)
  PROVE  CircuitInv'
<1>1. CircuitTypeOK
  BY DEF CircuitInv
<1>2. CASE GuardClosed(c)
  <2>1. /\ failures' = Prune(failures) /\ ~Open /\ UNCHANGED <<opened, gauge>>
        /\ call' \in [Call -> {"idle", "running"}]
    BY <1>1, <1>2 DEF GuardClosed, CircuitTypeOK
  <2>2. /\ failures' \in Seq(0 .. WindowS + 1)
        /\ Len(failures') \in Nat /\ Len(failures') <= Len(failures)
    BY <1>1, <2>1, PruneShortens DEF CircuitTypeOK
  <2>3. CircuitTypeOK'
    BY <1>1, <2>1, <2>2 DEF CircuitTypeOK
  <2>4. NeverSilentlyOpen'
    BY <1>1, <2>1, <2>2, CircuitAssumption DEF CircuitInv, CircuitTypeOK,
       NeverSilentlyOpen, Open
  <2>5. FailuresBounded' /\ GaugeAgrees'
    BY <2>1 DEF CircuitInv, FailuresBounded, GaugeAgrees, Open
  <2> QED
    BY <2>3, <2>4, <2>5 DEF CircuitInv
<1>3. CASE GuardCooledDown(c)
  BY <1>1, <1>3, ResetStep DEF GuardCooledDown, CircuitTypeOK
<1>4. CASE GuardOpen(c)
  BY <1>4
  DEF GuardOpen, circuitVars, CircuitInv, CircuitTypeOK, NeverSilentlyOpen,
      FailuresBounded, GaugeAgrees,
      Open, Running
<1> QED
  BY <1>2, <1>3, <1>4, Guard(c) DEF Guard

\* record_failure keeps the invariant, at the trip and below the threshold.
LEMMA FailureStep ==
  ASSUME CircuitInv, NEW c \in Call, RecordFailure(c)
  PROVE  CircuitInv'
<1>1. /\ CircuitTypeOK /\ call[c] = "running"
      /\ call' = [call EXCEPT ![c] = "idle"]
  BY DEF CircuitInv, RecordFailure
<1>2. /\ failures' \in Seq(0 .. WindowS + 1)
      /\ Len(failures') \in Nat /\ Len(failures) \in Nat
      /\ Len(failures') <= Len(failures) + 1
  BY <1>1, FailureAdded DEF RecordFailure, CircuitTypeOK
<1>3. /\ Cardinality(Running') = Cardinality(Running) - 1
      /\ Cardinality(Running) \in Nat /\ Cardinality(Call) \in Nat
      /\ Cardinality(Running) <= Cardinality(Call)
  BY <1>1, CallEnds, RunningFinite
<1>4. call' \in [Call -> {"idle", "running"}]
  BY <1>1 DEF CircuitTypeOK
<1>5. CASE Len(failures') >= Threshold /\ ~Open
  <2>1. opened' = 0 /\ gauge' = "opened" /\ Len(failures) < Threshold
    BY <1>5 DEF RecordFailure, CircuitInv, NeverSilentlyOpen
  <2>2. opened' \in NotOpen .. Cooldown /\ Open'
    BY <2>1, CircuitAssumption DEF NotOpen, Open
  <2>3. CircuitTypeOK'
    BY <1>2, <1>4, <2>1, <2>2 DEF CircuitTypeOK
  <2>4. Len(failures') + Cardinality(Running') < Threshold + Cardinality(Call)
    BY <1>2, <1>3, <2>1, CircuitAssumption
  <2> QED
    BY <2>1, <2>2, <2>3, <2>4 DEF CircuitInv, NeverSilentlyOpen,
       FailuresBounded, GaugeAgrees
<1>6. CASE ~(Len(failures') >= Threshold /\ ~Open)
  <2>1. UNCHANGED <<opened, gauge>>
    BY <1>6 DEF RecordFailure
  <2>2. CircuitTypeOK'
    BY <1>1, <1>2, <1>4, <2>1 DEF CircuitTypeOK
  <2>3. NeverSilentlyOpen'
    BY <1>2, <1>6, <2>1, CircuitAssumption DEF NeverSilentlyOpen, Open
  <2>4. FailuresBounded'
    BY <1>2, <1>3, <2>1, CircuitAssumption DEF CircuitInv, FailuresBounded,
       Open
  <2>5. GaugeAgrees'
    BY <2>1 DEF CircuitInv, GaugeAgrees, Open
  <2> QED
    BY <2>2, <2>3, <2>4, <2>5 DEF CircuitInv
<1> QED
  BY <1>5, <1>6

\* A success and a call that ends uncounted keep the invariant.
LEMMA OtherStep ==
  ASSUME CircuitInv, NEW c \in Call, RecordSuccess(c) \/ TimedOut(c)
  PROVE  CircuitInv'
<1>1. /\ CircuitTypeOK /\ call[c] = "running"
      /\ call' = [call EXCEPT ![c] = "idle"]
  BY DEF CircuitInv, RecordSuccess, TimedOut
<1>2. call' \in [Call -> {"idle", "running"}]
  BY <1>1 DEF CircuitTypeOK
<1>3. CASE RecordSuccess(c)
  <2>1. gauge' \in {"closed", "opened"} /\ gauge' # "opened"
    BY <1>1, <1>3 DEF RecordSuccess, CircuitInv, GaugeAgrees, CircuitTypeOK
  <2> QED
    BY <1>2, <1>3, <2>1, ResetStep DEF RecordSuccess
<1>4. CASE TimedOut(c)
  <2>1. UNCHANGED <<failures, opened, gauge>>
    BY <1>4 DEF TimedOut
  <2>2. CircuitTypeOK' /\ NeverSilentlyOpen' /\ GaugeAgrees'
    BY <1>1, <1>2, <2>1 DEF CircuitInv, CircuitTypeOK, NeverSilentlyOpen,
       GaugeAgrees, Open
  <2>3. /\ Cardinality(Running') = Cardinality(Running) - 1
        /\ Cardinality(Running) \in Nat /\ Cardinality(Call) \in Nat
    BY <1>1, CallEnds, RunningFinite
  <2>n. Len(failures) \in Nat
    BY <1>1 DEF CircuitTypeOK
  <2>4. FailuresBounded'
    BY <2>1, <2>3, <2>n, CircuitAssumption DEF CircuitInv, FailuresBounded,
       Open
  <2> QED
    BY <2>2, <2>4 DEF CircuitInv
<1> QED
  BY <1>3, <1>4

\* The passing of time keeps the invariant: ages only saturate.
LEMMA TickStep ==
  ASSUME CircuitInv, Tick
  PROVE  CircuitInv'
<1>1. CircuitTypeOK
  BY DEF CircuitInv
<1>2. failures' \in Seq(0 .. WindowS + 1) /\ Len(failures') = Len(failures)
  <2>1. PICK n \in Nat : n = Len(failures) /\ DOMAIN failures = 1 .. n
    BY <1>1 DEF CircuitTypeOK
  <2>2. \A k \in 1 .. n : failures[k] \in 0 .. WindowS + 1
    BY <1>1, <2>1, ElementOfSeq DEF CircuitTypeOK
  <2>3. failures' = [k \in 1 .. n |-> IF failures[k] > WindowS THEN failures[k]
                                      ELSE failures[k] + 1]
    BY <2>1 DEF Tick
  <2>4. \A k \in 1 .. n : failures'[k] \in 0 .. WindowS + 1
    BY <2>2, <2>3, CircuitAssumption
  <2>5. failures' \in [1 .. n -> 0 .. WindowS + 1]
    BY <2>3, <2>4
  <2> QED
    BY <2>1, <2>3, <2>5, IsASeq, LenProperties
<1>3. opened' \in NotOpen .. Cooldown /\ (Open' <=> Open)
  BY <1>1, CircuitAssumption DEF Tick, CircuitTypeOK, Open, NotOpen
<1>4. UNCHANGED <<call, gauge>> /\ Running' = Running
  BY DEF Tick, Running
<1> QED
  BY <1>1, <1>2, <1>3, <1>4
  DEF CircuitInv, CircuitTypeOK, NeverSilentlyOpen, FailuresBounded,
      GaugeAgrees

-----------------------------------------------------------------------------
(* The theorems about StorageCircuit.                                      *)

\* The inductive invariant holds whatever calls overlap and however they end.
THEOREM CircuitInvariance == CircuitSpec => []CircuitInv
<1>1. CircuitInit => CircuitInv
  <2> SUFFICES ASSUME CircuitInit PROVE CircuitInv
    OBVIOUS
  <2>1. failures \in Seq(0 .. WindowS + 1) /\ Len(failures) = 0 /\ opened = -1
    BY DEF CircuitInit, NotOpen
  <2> QED
    BY <2>1, CircuitAssumption
    DEF CircuitInit, CircuitInv, CircuitTypeOK, NeverSilentlyOpen,
        FailuresBounded, GaugeAgrees, Open, NotOpen
<1>2. CircuitInv /\ [CircuitNext]_circuitVars => CircuitInv'
  <2> SUFFICES ASSUME CircuitInv, [CircuitNext]_circuitVars PROVE CircuitInv'
    OBVIOUS
  <2>1. CASE UNCHANGED circuitVars
    BY <2>1
    DEF circuitVars, CircuitInv, CircuitTypeOK, NeverSilentlyOpen,
        FailuresBounded, GaugeAgrees, Open, Running
  <2>2. ASSUME NEW c \in Call,
               Guard(c) \/ RecordFailure(c) \/ RecordSuccess(c) \/ TimedOut(c)
        PROVE  CircuitInv'
    BY <2>2, GuardStep, FailureStep, OtherStep
  <2> QED
    BY <2>1, <2>2, TickStep, [CircuitNext]_circuitVars DEF CircuitNext
<1> QED
  BY <1>1, <1>2, PTL DEF CircuitSpec

\* Every age the breaker keeps stays within what its methods compare it with.
THEOREM CircuitTypeCorrect == CircuitSpec => []CircuitTypeOK
<1>1. CircuitInv => CircuitTypeOK
  BY DEF CircuitInv
<1> QED
  BY <1>1, CircuitInvariance, PTL

\* A closed breaker never refuses a call: the last line of check_open cannot
\* answer "open".
THEOREM NoSilentRefusal == CircuitSpec => []NeverSilentlyOpen
<1>1. CircuitInv => NeverSilentlyOpen
  BY DEF CircuitInv
<1> QED
  BY <1>1, CircuitInvariance, PTL

\* An outage costs at most Threshold failures plus the calls under way when
\* record_failure trips the breaker.
THEOREM OutageBounded == CircuitSpec => []FailuresBounded
<1>1. CircuitInv => FailuresBounded
  BY DEF CircuitInv
<1> QED
  BY <1>1, CircuitInvariance, PTL

\* The reported trips and resets always agree with the breaker.
THEOREM GaugeIsRight == CircuitSpec => []GaugeAgrees
<1>1. CircuitInv => GaugeAgrees
  BY DEF CircuitInv
<1> QED
  BY <1>1, CircuitInvariance, PTL

-----------------------------------------------------------------------------
(* Retention: the invariant.                                               *)

\* The reflections younger than r.
Younger(r) == {q \in Reflection : r < q /\ q =< count}

\* The vector of m, if it is still there, is not forgotten.
Known(m) ==
  m \in vec => m \in ToSet(dlq) \cup ToSet(batch) \cup dropped \cup unseen

\* What the sweep has found: by the policy only memories, and of the excess
\* only reflections with enough younger ones.
SweepInv ==
  /\ sweep.pc = "policy" => sweep.list \subseteq Memory
  /\ sweep.pc = "excess" =>
       \A r \in sweep.list :
         r \in Reflection /\ Cardinality(Younger(r)) >= KeepCount

\* The groundskeeper has dealt with the vectors of the nodes it is going to
\* delete, except for those still on its list.
GcInv == gc.pc = "vectors" => \A m \in gc.list \ gc.todo : Known(m)

\* The inductive invariant.
RetentionInv ==
  /\ TypeOK /\ SweepInv /\ GcInv
  /\ VectorsAccounted /\ NewestReflectionsKept

-----------------------------------------------------------------------------
(* Sets of reflections, and queues of entries.                             *)

LEMMA NodeKinds ==
  /\ Memory \cap Reflection = {} /\ Node = 1 .. Memories + Reflections
  /\ Memory \subseteq Nat /\ Reflection \subseteq Nat
BY RetentionAssumption DEF Memory, Reflection, Node

LEMMA SomeReflections ==
  ASSUME NEW S, S \subseteq Reflection
  PROVE  IsFiniteSet(S) /\ Cardinality(S) \in Nat
<1>1. Memories + 1 \in Int /\ Memories + Reflections \in Int
  BY RetentionAssumption
<1>2. IsFiniteSet(Reflection)
  BY <1>1, FS_Interval DEF Reflection
<1>3. IsFiniteSet(S)
  BY <1>2, FS_Subset
<1>4. QED
  BY <1>3, FS_CardinalityType

\* Enough stay enough when there are more.
LEMMA StillEnough ==
  ASSUME NEW S, NEW T, S \subseteq T, T \subseteq Reflection,
         Cardinality(S) >= KeepCount
  PROVE  Cardinality(T) >= KeepCount
<1>1. Cardinality(S) \in Nat /\ Cardinality(T) \in Nat /\ IsFiniteSet(T)
  BY SomeReflections
<1>2. Cardinality(S) =< Cardinality(T)
  BY <1>1, FS_Subset
<1>3. QED
  BY <1>1, <1>2, RetentionAssumption

\* The younger reflections become more.
LEMMA YoungerGrow ==
  ASSUME TypeOK, count' \in Nat, count' >= count, NEW r \in Reflection,
         Cardinality(Younger(r)) >= KeepCount
  PROVE  Cardinality(Younger(r)') >= KeepCount
<1>1. PICK S : S = Younger(r)
  OBVIOUS
<1>2. PICK T : T = Younger(r)'
  OBVIOUS
<1>3. count \in Nat
  BY RetentionAssumption DEF TypeOK
<1>4. PICK m : m = count'
  OBVIOUS
<1>5. /\ S = {q \in Reflection : r < q /\ q =< count}
      /\ T = {q \in Reflection : r < q /\ q =< m}
  BY <1>1, <1>2, <1>4 DEF Younger, Reflection
<1>6. \A q \in Reflection : q =< count => q =< m
  BY <1>3, <1>4, NodeKinds
<1>7. S \subseteq T /\ T \subseteq Reflection
  BY <1>5, <1>6
<1>8. QED
  BY <1>1, <1>2, <1>7, StillEnough

LEMMA ExcessYounger ==
  ASSUME TypeOK, NEW r \in Excess
  PROVE  r \in Reflection /\ Cardinality(Younger(r)) >= KeepCount
<1>1. PICK S : S = {q \in Reflection : q > r /\ Live(q)}
  OBVIOUS
<1>2. PICK T : T = Younger(r)
  OBVIOUS
<1>3. r \in Reflection /\ Cardinality(S) >= KeepCount
  BY <1>1 DEF Excess
<1>4. \A q \in S : q \in Reflection /\ r < q /\ q =< count
  BY <1>1, <1>3, NodeKinds, RetentionAssumption DEF TypeOK, Live
<1>5. S \subseteq T /\ T \subseteq Reflection
  BY <1>2, <1>4 DEF Younger
<1>6. QED
  BY <1>2, <1>3, <1>5, StillEnough

\* The entries of a queue when one joins at the end or leaves at the front.
LEMMA EntryJoins ==
  ASSUME NEW S, NEW q \in Seq(S), NEW x \in S
  PROVE  Append(q, x) \in Seq(S) /\ ToSet(Append(q, x)) = ToSet(q) \cup {x}
<1>1. /\ Append(q, x) \in Seq(S) /\ Len(Append(q, x)) = Len(q) + 1
      /\ Append(q, x)[Len(q) + 1] = x
      /\ \A i \in 1 .. Len(q) : Append(q, x)[i] = q[i]
  OBVIOUS
<1>2. Len(q) \in Nat /\ DOMAIN q = 1 .. Len(q)
      /\ DOMAIN Append(q, x) = 1 .. Len(q) + 1
  OBVIOUS
<1>3. 1 .. Len(q) + 1 = 1 .. Len(q) \cup {Len(q) + 1}
  BY <1>2
<1>4. QED
  BY <1>1, <1>2, <1>3 DEF ToSet

LEMMA EntryLeaves ==
  ASSUME NEW S, NEW q \in Seq(S), q # <<>>
  PROVE  /\ Tail(q) \in Seq(S) /\ Head(q) \in S
         /\ Len(Tail(q)) = Len(q) - 1
         /\ ToSet(q) = ToSet(Tail(q)) \cup {Head(q)}
<1>1. /\ Tail(q) \in Seq(S) /\ Head(q) \in S /\ Head(q) = q[1]
      /\ Len(q) \in Nat /\ Len(q) >= 1 /\ Len(Tail(q)) = Len(q) - 1
      /\ DOMAIN q = 1 .. Len(q) /\ DOMAIN Tail(q) = 1 .. Len(q) - 1
      /\ \A i \in 1 .. Len(q) - 1 : Tail(q)[i] = q[i + 1]
  OBVIOUS
<1>2. ASSUME NEW x \in ToSet(q) PROVE x \in ToSet(Tail(q)) \cup {Head(q)}
  <2>1. PICK i \in 1 .. Len(q) : x = q[i]
    BY <1>1 DEF ToSet
  <2>2. CASE i = 1
    BY <1>1, <2>1, <2>2
  <2>3. CASE i # 1
    <3>1. i - 1 \in 1 .. Len(q) - 1 /\ (i - 1) + 1 = i
      BY <1>1, <2>1, <2>3
    <3>2. Tail(q)[i - 1] = x
      BY <1>1, <2>1, <3>1
    <3>3. QED
      BY <1>1, <3>1, <3>2 DEF ToSet
  <2>4. QED
    BY <2>2, <2>3
<1>3. ToSet(Tail(q)) \subseteq ToSet(q)
  <2>1. \A i \in 1 .. Len(q) - 1 : i + 1 \in 1 .. Len(q)
    BY <1>1
  <2>2. QED
    BY <1>1, <2>1 DEF ToSet
<1>4. Head(q) \in ToSet(q)
  BY <1>1 DEF ToSet
<1>5. QED
  BY <1>1, <1>2, <1>3, <1>4

-----------------------------------------------------------------------------
(* Every step of the sweep, the groundskeeper, the reconciler and erase    *)
(* keeps the types and what the processes know.                            *)

LEMMA RetentionFault ==
  ASSUME TypeOK, Fault
  PROVE  faults' \in 0 .. MaxFaults
BY RetentionAssumption DEF TypeOK, Fault

LEMMA RetentionIdles ==
  /\ NoSweep \in SweepRecord /\ NoGc \in GcRecord
  /\ NoErasure \in ErasureRecord
BY DEF NoSweep, NoGc, NoErasure, SweepRecord, GcRecord, ErasureRecord

\* Ids that have been given out are nodes.
LEMMA StoredNodes ==
  ASSUME TypeOK
  PROVE  /\ 1 .. count \subseteq Node /\ count \in Nat
         /\ graph \subseteq Node /\ tomb \subseteq Node
BY NodeKinds, RetentionAssumption DEF TypeOK

\* The next stage of the sweep.
LEMMA SweepType ==
  ASSUME NEW pc \in {"idle", "policy", "meta", "excess", "find", "delete"},
         NEW list \in SUBSET Node
  PROVE  /\ [pc |-> pc, list |-> list] \in SweepRecord
         /\ SweepGoes(pc, list) =>
              sweep' \in SweepRecord /\ sweep'.pc = pc /\ sweep'.list = list
BY DEF SweepGoes, SweepRecord

LEMMA RetentionTypes ==
  ASSUME TypeOK, [Next]_vars
  PROVE  TypeOK'
<1> USE RetentionIdles
<1>1. CASE Reflect
  <2>1. count + 1 \in Memories .. Memories + Reflections
    BY <1>1, RetentionAssumption DEF TypeOK, Reflect, Reflection
  <2>2. 1 .. count \subseteq 1 .. count + 1 /\ count + 1 \in 1 .. count + 1
    BY RetentionAssumption DEF TypeOK
  <2>3. QED
    BY <1>1, <2>1, <2>2 DEF TypeOK, Reflect, history
<1>2. ASSUME NEW n \in Node, GraceEnds(n) PROVE TypeOK'
  BY <1>2 DEF TypeOK, GraceEnds, history
<1>3. CASE SweepStart
  <2>1. PICK list \in SUBSET {m \in Memory : Live(m)} :
          SweepGoes("policy", list)
    BY <1>3 DEF SweepStart
  <2>2. list \in SUBSET Node
    BY NodeKinds DEF Node
  <2>3. sweep' \in SweepRecord
    BY <2>1, <2>2, SweepType
  <2>4. QED
    BY <1>3, <2>3 DEF TypeOK, SweepStart, SweepKeeps, graphVars, history
<1>4. CASE SweepFindExcess
  <2>1. Excess \in SUBSET Node
    BY DEF Excess, Node
  <2>2. sweep' \in SweepRecord
    BY <1>4, <2>1, SweepType DEF SweepFindExcess
  <2>3. QED
    BY <1>4, <2>2 DEF TypeOK, SweepFindExcess, SweepKeeps, graphVars, history
<1>5. CASE SweepTombstone
  <2>1. sweep' \in SweepRecord
    BY <1>5 DEF SweepTombstone, SweepGoes, SweepRecord
  <2>2. tomb' \subseteq 1 .. count /\ graced \subseteq tomb'
    BY <1>5 DEF TypeOK, SweepTombstone
  <2>3. QED
    BY <1>5, <2>1, <2>2 DEF TypeOK, SweepTombstone, SweepKeeps, history
<1>6. CASE SweepFind
  <2>1. graph \cap graced \in SUBSET Node
    BY StoredNodes
  <2>2. sweep' \in SweepRecord
    BY <1>6, <2>1, SweepType DEF SweepFind
  <2>3. QED
    BY <1>6, <2>2 DEF TypeOK, SweepFind, SweepKeeps, graphVars, history
<1>7. ASSUME NEW n \in Node, SweepDelete(n) PROVE TypeOK'
  <2>1. sweep.list \ {n} \in SUBSET Node
    BY DEF TypeOK, SweepRecord
  <2>2. sweep' \in SweepRecord
    BY <1>7, <2>1, SweepType DEF SweepDelete
  <2>3. QED
    BY <1>7, <2>2 DEF TypeOK, SweepDelete, HardDeleted
<1>8. CASE SweepEnds
  BY <1>8 DEF TypeOK, SweepEnds, SweepKeeps, graphVars, history
<1>9. CASE SweepFails
  BY <1>9, RetentionFault
  DEF TypeOK, SweepFails, SweepKeeps, graphVars, history
<1>10. CASE GcStart
  <2>1. gc' \in GcRecord
    BY <1>10 DEF GcStart, GcRecord
  <2>2. QED
    BY <1>10, <2>1 DEF TypeOK, GcStart, graphVars, history
<1>11. ASSUME NEW m \in Memory, GcVector(m) PROVE TypeOK'
  <2>1. gc' \in GcRecord
    BY <1>11 DEF TypeOK, GcVector, GcRecord
  <2>2. vec' \subseteq Memory /\ dlq' \in Seq(Memory)
    <3>1. dlq \in Seq(Memory) /\ Append(dlq, m) \in Seq(Memory)
      BY EntryJoins DEF TypeOK
    <3>2. QED
      BY <1>11, <3>1 DEF TypeOK, GcVector
  <2>3. faults' \in 0 .. MaxFaults
    BY <1>11, RetentionFault DEF TypeOK, GcVector
  <2>4. QED
    BY <1>11, <2>1, <2>2, <2>3 DEF TypeOK, GcVector, graphVars, history
<1>12. CASE GcDelete
  BY <1>12 DEF TypeOK, GcDelete, history
<1>13. CASE GcFails
  BY <1>13, RetentionFault DEF TypeOK, GcFails, graphVars, history
<1>14. CASE RecPop
  <2>1. dlq \in Seq(Memory) /\ batch \in Seq(Memory) /\ dlq # <<>>
    BY <1>14 DEF TypeOK, RecPop
  <2>2. dlq' \in Seq(Memory) /\ Head(dlq) \in Memory
    BY <1>14, <2>1, EntryLeaves DEF RecPop
  <2>3. batch' \in Seq(Memory) /\ Len(batch') = Len(batch) + 1
    BY <1>14, <2>1, <2>2 DEF RecPop
  <2>4. Len(batch') =< BatchSize
    BY <1>14, <2>1, <2>3, RetentionAssumption DEF RecPop
  <2>5. QED
    BY <1>14, <2>2, <2>3, <2>4 DEF TypeOK, RecPop, graphVars, history
<1>15. CASE RecRetry
  <2>1. dlq \in Seq(Memory) /\ batch \in Seq(Memory) /\ batch # <<>>
    BY <1>15 DEF TypeOK, RecRetry
  <2>2. /\ batch' \in Seq(Memory) /\ Head(batch) \in Memory
        /\ Len(batch') = Len(batch) - 1
    BY <1>15, <2>1, EntryLeaves DEF RecRetry
  <2>3. Len(batch) \in Nat /\ Len(batch) =< BatchSize
    BY <2>1 DEF TypeOK
  <2>4. Len(batch') =< BatchSize
    BY <2>2, <2>3, RetentionAssumption
  <2>5. vec' \subseteq Memory /\ dlq' \in Seq(Memory)
    <3>1. Append(dlq, Head(batch)) \in Seq(Memory)
      BY <2>1, <2>2, EntryJoins
    <3>2. QED
      BY <1>15, <2>1, <3>1 DEF TypeOK, RecRetry
  <2>6. faults' \in 0 .. MaxFaults
    BY <1>15, RetentionFault DEF TypeOK, RecRetry
  <2>7. QED
    BY <1>15, <2>2, <2>4, <2>5, <2>6
    DEF TypeOK, RecRetry, graphVars, history
<1>16. CASE RecFails
  <2>1. batch' = <<>> /\ batch' \in Seq(Memory) /\ Len(batch') = 0
    BY <1>16 DEF RecFails
  <2>2. Len(batch') =< BatchSize
    BY <2>1, RetentionAssumption
  <2>3. ToSet(batch) \subseteq Memory
    BY DEF TypeOK, ToSet
  <2>4. dropped' \subseteq Memory
    BY <1>16, <2>3 DEF TypeOK, RecFails
  <2>5. QED
    BY <1>16, <2>1, <2>2, <2>4, RetentionFault
    DEF TypeOK, RecFails, graphVars
<1>17. ASSUME NEW n \in Node, NEW cascade \in BOOLEAN, EraseStart(n, cascade)
       PROVE  TypeOK'
  <2>1. erasure' \in ErasureRecord
    BY <1>17 DEF EraseStart, ErasureRecord
  <2>2. QED
    BY <1>17, <2>1 DEF TypeOK, EraseStart, graphVars, history
<1>18. CASE EraseRefs
  <2>1. Referencing(erasure.ask) \subseteq Node
    BY DEF Referencing, Node
  <2>2. erasure' \in ErasureRecord
    BY <1>18, <2>1 DEF TypeOK, EraseRefs, ErasureRecord
  <2>3. QED
    BY <1>18, <2>2 DEF TypeOK, EraseRefs, graphVars, history
<1>19. ASSUME NEW n \in Node, EraseDelete(n) PROVE TypeOK'
  <2>1. erasure' \in ErasureRecord
    BY <1>19 DEF TypeOK, EraseDelete, ErasureRecord
  <2>2. QED
    BY <1>19, <2>1 DEF TypeOK, EraseDelete, HardDeleted
<1>20. ASSUME NEW n \in Node, EraseDeleteFails(n) PROVE TypeOK'
  <2>1. erasure' \in ErasureRecord
    BY <1>20 DEF TypeOK, EraseDeleteFails, ErasureRecord
  <2>2. QED
    BY <1>20, <2>1, RetentionFault
    DEF TypeOK, EraseDeleteFails, graphVars, history
<1>21. CASE EraseEnds
  BY <1>21 DEF TypeOK, EraseEnds, graphVars, history
<1>22. CASE EraseFails
  BY <1>22, RetentionFault DEF TypeOK, EraseFails, graphVars, history
<1>23. CASE UNCHANGED vars
  BY <1>23 DEF TypeOK, vars, graphVars, history
<1>24. QED
  BY <1>1, <1>2, <1>3, <1>4, <1>5, <1>6, <1>7, <1>8, <1>9, <1>10, <1>11,
     <1>12, <1>13, <1>14, <1>15, <1>16, <1>17, <1>18, <1>19, <1>20, <1>21,
     <1>22, <1>23
  DEF Next, SweepStep, GcStep

-----------------------------------------------------------------------------
(* No vector is forgotten.                                                 *)

\* A vector that somebody knows of stays known until it is deleted.
LEMMA KnownStays ==
  ASSUME TypeOK, [Next]_vars, NEW v, Known(v)
  PROVE  Known(v)'
<1>1. ASSUME NEW m \in Memory, GcVector(m) PROVE Known(v)'
  <2>1. dlq \in Seq(Memory) /\ ToSet(Append(dlq, m)) = ToSet(dlq) \cup {m}
    BY EntryJoins DEF TypeOK
  <2>2. vec' \subseteq vec /\ ToSet(dlq) \subseteq ToSet(dlq')
    BY <1>1, <2>1 DEF GcVector
  <2>3. UNCHANGED <<batch, dropped, unseen>>
    BY <1>1 DEF GcVector, history
  <2>4. QED
    BY <2>2, <2>3 DEF Known
<1>2. CASE RecPop
  <2>1. dlq \in Seq(Memory) /\ batch \in Seq(Memory) /\ dlq # <<>>
    BY <1>2 DEF TypeOK, RecPop
  <2>2. /\ Head(dlq) \in Memory
        /\ ToSet(dlq) = ToSet(Tail(dlq)) \cup {Head(dlq)}
    BY <2>1, EntryLeaves
  <2>3. ToSet(Append(batch, Head(dlq))) = ToSet(batch) \cup {Head(dlq)}
    BY <2>1, <2>2, EntryJoins
  <2>4. dlq' = Tail(dlq) /\ batch' = Append(batch, Head(dlq))
    BY <1>2 DEF RecPop
  <2>5. ToSet(dlq') \cup ToSet(batch') = ToSet(dlq) \cup ToSet(batch)
    BY <2>2, <2>3, <2>4
  <2>6. UNCHANGED <<vec, dropped, unseen>>
    BY <1>2 DEF RecPop, history
  <2>7. QED
    BY <2>5, <2>6 DEF Known
<1>3. CASE RecRetry
  <2>1. dlq \in Seq(Memory) /\ batch \in Seq(Memory) /\ batch # <<>>
    BY <1>3 DEF TypeOK, RecRetry
  <2>2. /\ Head(batch) \in Memory
        /\ ToSet(batch) = ToSet(Tail(batch)) \cup {Head(batch)}
    BY <2>1, EntryLeaves
  <2>3. ToSet(Append(dlq, Head(batch))) = ToSet(dlq) \cup {Head(batch)}
    BY <2>1, <2>2, EntryJoins
  <2>4. batch' = Tail(batch) /\ UNCHANGED <<dropped, unseen>>
    BY <1>3 DEF RecRetry, history
  <2>5. \/ vec' = vec \ {Head(batch)} /\ dlq' = dlq
        \/ vec' = vec /\ dlq' = Append(dlq, Head(batch))
    BY <1>3 DEF RecRetry
  <2>6. QED
    BY <2>2, <2>3, <2>4, <2>5 DEF Known
<1>4. CASE RecFails
  <2>1. /\ UNCHANGED <<vec, dlq, unseen>>
        /\ dropped' = dropped \cup ToSet(batch)
    BY <1>4 DEF RecFails
  <2>2. QED
    BY <2>1 DEF Known
<1>5. ASSUME NEW n \in Node, SweepDelete(n) \/ EraseDelete(n) PROVE Known(v)'
  BY <1>5 DEF SweepDelete, EraseDelete, HardDeleted, Known
<1>6. ASSUME UNCHANGED <<vec, dlq, batch, history>> PROVE Known(v)'
  BY <1>6 DEF Known, history
<1>7. QED
  BY <1>1, <1>2, <1>3, <1>4, <1>5, <1>6
  DEF Next, SweepStep, GcStep, Reflect, GraceEnds, SweepStart, SweepFindExcess,
      SweepTombstone, SweepFind, SweepEnds, SweepFails, SweepKeeps, GcStart,
      GcDelete, GcFails, EraseStart, EraseRefs, EraseDeleteFails, EraseEnds,
      EraseFails, vars

LEMMA GcInvStep ==
  ASSUME TypeOK, GcInv, [Next]_vars
  PROVE  GcInv'
<1>1. CASE GcStart
  BY <1>1 DEF GcStart, GcInv
<1>2. ASSUME NEW m \in Memory, GcVector(m) PROVE GcInv'
  <2>1. gc.pc = "vectors" /\ m \in gc.todo /\ gc \in GcRecord
    BY <1>2 DEF GcVector, TypeOK
  <2>2. gc'.list = gc.list /\ gc'.todo = gc.todo \ {m}
    BY <1>2, <2>1 DEF GcVector, GcRecord
  <2>3. Known(m)'
    <3>1. CASE vec' = vec \ {m}
      BY <3>1 DEF Known
    <3>2. CASE dlq' = Append(dlq, m)
      <4>1. ToSet(Append(dlq, m)) = ToSet(dlq) \cup {m}
        BY EntryJoins DEF TypeOK
      <4>2. QED
        BY <3>2, <4>1 DEF Known
    <3>3. QED
      BY <1>2, <3>1, <3>2 DEF GcVector
  <2>4. ASSUME NEW v \in gc.list \ gc.todo PROVE Known(v)'
    BY <2>1, <2>4, KnownStays DEF GcInv
  <2>5. QED
    BY <2>2, <2>3, <2>4 DEF GcInv
<1>3. CASE GcDelete
  BY <1>3 DEF GcDelete, GcInv, NoGc
<1>4. CASE GcFails
  BY <1>4 DEF GcFails, GcInv, NoGc
<1>5. ASSUME gc' = gc PROVE GcInv'
  <2>1. SUFFICES ASSUME gc.pc = "vectors", NEW v \in gc.list \ gc.todo
                 PROVE  Known(v)'
    BY <1>5 DEF GcInv
  <2>2. Known(v)
    BY <2>1 DEF GcInv
  <2>3. QED
    BY <2>2, KnownStays
<1>6. QED
  BY <1>1, <1>2, <1>3, <1>4, <1>5
  DEF Next, SweepStep, GcStep, Reflect, GraceEnds, SweepStart, SweepFindExcess,
      SweepTombstone, SweepFind, SweepDelete, SweepEnds, SweepFails,
      SweepKeeps, RecPop, RecRetry, RecFails, EraseStart, EraseRefs,
      EraseDelete, EraseDeleteFails, EraseEnds, EraseFails, vars

\* Which steps take a node from the graph, and that none adds a vector.
LEMMA VectorsStep ==
  ASSUME TypeOK, TypeOK', GcInv, VectorsAccounted, [Next]_vars
  PROVE  VectorsAccounted'
<1>1. SUFFICES ASSUME NEW v \in vec', v \notin graph' PROVE Known(v)'
  BY DEF VectorsAccounted, Known
<1>2. v \in vec
  BY DEF Next, SweepStep, GcStep, Reflect, GraceEnds, SweepStart,
     SweepFindExcess, SweepTombstone, SweepFind, SweepDelete, SweepEnds,
     SweepFails, SweepKeeps, GcStart, GcVector, GcDelete, GcFails, RecPop,
     RecRetry, RecFails, EraseStart, EraseRefs, EraseDelete, EraseDeleteFails,
     EraseEnds, EraseFails, vars
<1>3. CASE v \notin graph
  <2>1. Known(v)
    BY <1>2, <1>3 DEF VectorsAccounted, Known
  <2>2. QED
    BY <2>1, KnownStays
<1>4. CASE v \in graph
  <2>1. ASSUME NEW n \in Node, SweepDelete(n) \/ EraseDelete(n)
        PROVE  Known(v)'
    BY <1>1, <1>4, <2>1 DEF SweepDelete, EraseDelete, HardDeleted, Known
  <2>2. CASE GcDelete
    <3>1. gc.pc = "vectors" /\ v \in gc.list \ gc.todo
      BY <1>1, <1>4, <2>2 DEF GcDelete
    <3>2. Known(v)
      BY <3>1 DEF GcInv
    <3>3. QED
      BY <3>2, KnownStays
  <2>3. ASSUME graph \subseteq graph' PROVE FALSE
    BY <1>1, <1>4, <2>3
  <2>4. QED
    BY <2>1, <2>2, <2>3
    DEF Next, SweepStep, GcStep, Reflect, GraceEnds, SweepStart,
        SweepFindExcess, SweepTombstone, SweepFind, SweepEnds, SweepFails,
        SweepKeeps, GcStart, GcVector, GcFails, RecPop, RecRetry, RecFails,
        EraseStart, EraseRefs, EraseDeleteFails, EraseEnds, EraseFails, vars,
        graphVars
<1>5. QED
  BY <1>3, <1>4

-----------------------------------------------------------------------------
(* The newest reflections are kept.                                        *)

\* The number of nodes only grows.
LEMMA CountGrows ==
  ASSUME TypeOK, [Next]_vars
  PROVE  count' \in Nat /\ count' >= count
<1>1. count \in Nat
  BY StoredNodes
<1>2. count' = count \/ count' = count + 1
  BY DEF Next, SweepStep, GcStep, Reflect, GraceEnds, SweepStart,
     SweepFindExcess, SweepTombstone, SweepFind, SweepDelete, SweepEnds,
     SweepFails, SweepKeeps, GcStart, GcVector, GcDelete, GcFails, RecPop,
     RecRetry, RecFails, EraseStart, EraseRefs, EraseDelete, EraseDeleteFails,
     EraseEnds, EraseFails, vars, graphVars
<1>3. QED
  BY <1>1, <1>2

LEMMA SweepInvStep ==
  ASSUME TypeOK, SweepInv, [Next]_vars
  PROVE  SweepInv'
<1>1. CASE SweepStart
  <2>1. PICK list \in SUBSET {m \in Memory : Live(m)} :
          SweepGoes("policy", list)
    BY <1>1 DEF SweepStart
  <2>2. sweep'.pc = "policy" /\ sweep'.list = list /\ list \subseteq Memory
    BY <2>1 DEF SweepGoes
  <2>3. QED
    BY <2>2 DEF SweepInv
<1>2. CASE SweepFindExcess
  <2>1. sweep'.pc = "excess" /\ sweep'.list = Excess
    BY <1>2 DEF SweepFindExcess, SweepGoes
  <2>2. ASSUME NEW r \in Excess
        PROVE  r \in Reflection /\ Cardinality(Younger(r)') >= KeepCount
    <3>1. r \in Reflection /\ Cardinality(Younger(r)) >= KeepCount
      BY ExcessYounger
    <3>2. QED
      BY <3>1, CountGrows, YoungerGrow
  <2>3. QED
    BY <2>1, <2>2 DEF SweepInv
<1>3. CASE SweepTombstone
  BY <1>3 DEF SweepTombstone, SweepGoes, SweepInv
<1>4. CASE SweepFind
  BY <1>4 DEF SweepFind, SweepGoes, SweepInv
<1>5. ASSUME NEW n \in Node, SweepDelete(n) PROVE SweepInv'
  BY <1>5 DEF SweepDelete, SweepGoes, SweepInv
<1>6. CASE SweepEnds
  BY <1>6 DEF SweepEnds, NoSweep, SweepInv
<1>7. CASE SweepFails
  BY <1>7 DEF SweepFails, NoSweep, SweepInv
<1>8. ASSUME sweep' = sweep PROVE SweepInv'
  <2>1. ASSUME sweep.pc = "excess", NEW r \in sweep.list
        PROVE  r \in Reflection /\ Cardinality(Younger(r)') >= KeepCount
    <3>1. r \in Reflection /\ Cardinality(Younger(r)) >= KeepCount
      BY <2>1 DEF SweepInv
    <3>2. QED
      BY <3>1, CountGrows, YoungerGrow
  <2>2. QED
    BY <1>8, <2>1 DEF SweepInv
<1>9. QED
  BY <1>1, <1>2, <1>3, <1>4, <1>5, <1>6, <1>7, <1>8
  DEF Next, SweepStep, GcStep, Reflect, GraceEnds, GcStart, GcVector, GcDelete,
      GcFails, RecPop, RecRetry, RecFails, EraseStart, EraseRefs, EraseDelete,
      EraseDeleteFails, EraseEnds, EraseFails, vars

LEMMA NewestStep ==
  ASSUME TypeOK, SweepInv, NewestReflectionsKept, [Next]_vars
  PROVE  NewestReflectionsKept'
<1>1. SUFFICES ASSUME NEW r \in Reflection, r \in tomb'
               PROVE  Cardinality(Younger(r)') >= KeepCount
  BY DEF NewestReflectionsKept, Younger
<1>2. Cardinality(Younger(r)) >= KeepCount
  <2>1. CASE r \in tomb
    BY <2>1 DEF NewestReflectionsKept, Younger
  <2>2. CASE r \notin tomb
    <3>1. SweepTombstone /\ r \in sweep.list
      BY <1>1, <2>2
      DEF Next, SweepStep, GcStep, Reflect, GraceEnds, SweepStart,
          SweepFindExcess, SweepTombstone, SweepFind, SweepDelete, SweepEnds,
          SweepFails, SweepKeeps, GcStart, GcVector, GcDelete, GcFails,
          RecPop, RecRetry, RecFails, EraseStart, EraseRefs, EraseDelete,
          EraseDeleteFails, EraseEnds, EraseFails, vars, graphVars
    <3>2. sweep.pc = "excess"
      BY <1>1, <3>1, NodeKinds DEF SweepTombstone, SweepInv
    <3>3. QED
      BY <3>1, <3>2 DEF SweepInv
  <2>3. QED
    BY <2>1, <2>2
<1>3. QED
  BY <1>1, <1>2, CountGrows, YoungerGrow

-----------------------------------------------------------------------------
(* The theorems about Retention.                                           *)

LEMMA RetentionInit == Init => RetentionInv
<1> SUFFICES ASSUME Init PROVE RetentionInv
  OBVIOUS
<1>1. /\ count \in Memories .. Memories + Reflections
      /\ Memory = 1 .. count
      /\ <<>> \in Seq(Memory) /\ Len(<<>>) =< BatchSize
      /\ 0 \in 0 .. MaxFaults
  BY RetentionAssumption DEF Init, Memory
<1>2. TypeOK
  BY <1>1, RetentionIdles DEF Init, TypeOK
<1>3. SweepInv /\ GcInv
  BY DEF Init, SweepInv, GcInv, NoSweep, NoGc
<1>4. VectorsAccounted /\ NewestReflectionsKept
  BY DEF Init, VectorsAccounted, NewestReflectionsKept
<1>5. QED
  BY <1>2, <1>3, <1>4 DEF RetentionInv

LEMMA RetentionStep == RetentionInv /\ [Next]_vars => RetentionInv'
<1> SUFFICES ASSUME RetentionInv, [Next]_vars PROVE RetentionInv'
  OBVIOUS
<1>1. TypeOK'
  BY RetentionTypes DEF RetentionInv
<1>2. QED
  BY <1>1, SweepInvStep, GcInvStep, VectorsStep, NewestStep DEF RetentionInv

LEMMA RetentionInvHolds == Spec => []RetentionInv
<1>1. QED
  BY RetentionInit, RetentionStep, PTL DEF Spec

\* Every value of the retention processes keeps its type.
THEOREM RetentionTypeCorrect == Spec => []TypeOK
<1>1. RetentionInv => TypeOK
  BY DEF RetentionInv
<1>2. QED
  BY <1>1, RetentionInvHolds, PTL

\* No vector of a node that has left the graph is forgotten, except by the
\* reconciler that lost its batch and by hard_delete_node.
THEOREM VectorsNotForgotten == Spec => []VectorsAccounted
<1>1. RetentionInv => VectorsAccounted
  BY DEF RetentionInv
<1>2. QED
  BY <1>1, RetentionInvHolds, PTL

\* A tombstoned reflection has KeepCount younger ones.
THEOREM NewestKept == Spec => []NewestReflectionsKept
<1>1. RetentionInv => NewestReflectionsKept
  BY DEF RetentionInv
<1>2. QED
  BY <1>1, RetentionInvHolds, PTL

=============================================================================
