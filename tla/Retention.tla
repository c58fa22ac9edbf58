----------------------------- MODULE Retention -----------------------------
(***************************************************************************)
(* How nodes leave the graph for good, and their vectors the per-silo      *)
(* collection: the daily retention sweep (retention/service.py), the       *)
(* nightly garbage collection of the groundskeeper                         *)
(* (custodian/identities/groundskeeper.py), erasure on request             *)
(* (retention/erasure_service.py) and the dead-letter queue of failed      *)
(* vector deletes with its reconciler (retention/dead_letter.py,           *)
(* pipelines/assets/dead_letter_reconciliation.py).                        *)
(*                                                                         *)
(* The nodes are those whose retention fields the queries can see:         *)
(* memories of the earlier layout, which carry decay_class and have a      *)
(* vector, and reflections, which create_auto_reflection writes.  The      *)
(* write path of today keeps its fields in n.properties, out of sight of   *)
(* these queries; so does the search for orphaned summaries, which asks    *)
(* for a label nobody writes.  Which memories are old and cold enough is  *)
(* a choice at every search.                                               *)
(***************************************************************************)
EXTENDS Naturals, Sequences, FiniteSets, SequencesExt

CONSTANTS
  Memories,     \* how many memories there are at the start
  Reflections,  \* bound: how many reflections are written
  KeepCount,    \* meta_observation_max_count
  BatchSize,    \* how many entries the reconciler takes at once
  MaxFaults     \* bound: how many things go wrong

ASSUME RetentionAssumption ==
  /\ Memories \in Nat /\ Reflections \in Nat /\ KeepCount \in Nat
  /\ BatchSize \in Nat \ {0} /\ MaxFaults \in Nat

\* Ids in the order of creation.
Memory == 1 .. Memories
Reflection == Memories + 1 .. Memories + Reflections
Node == Memory \cup Reflection

VARIABLES
  count,    \* the nodes created so far
  graph,    \* the nodes in Memgraph
  tomb,     \* tombstoned_at is set
  graced,   \* tombstones older than the grace period
  about,    \* ABOUT: the memory a reflection concerns
  vec,      \* the points of the silo's collection
  dlq,      \* dead_letter:qdrant_delete, oldest entry first
  sweep,    \* the retention sweep
  gc,       \* the groundskeeper
  batch,    \* what the reconciler has popped and not yet retried
  erasure,  \* the erasure request being served
  faults,   \* how many things have gone wrong
  dropped,  \* history: entries the reconciler lost
  unseen    \* history: nodes that hard_delete_node deleted

graphVars == <<count, graph, tomb, graced, about>>
history == <<dropped, unseen>>
vars == <<graphVars, vec, dlq, sweep, gc, batch, erasure, faults, history>>

NoSweep == [pc |-> "idle", list |-> {}]
NoGc == [pc |-> "idle", todo |-> {}, list |-> {}]
NoErasure == [pc |-> "idle", cascade |-> FALSE, ask |-> {}, todo |-> {}]

SweepRecord == [pc: {"idle", "policy", "meta", "excess", "find", "delete"},
                list: SUBSET Node]
GcRecord == [pc: {"idle", "vectors"}, todo: SUBSET Memory,
             list: SUBSET Memory]
ErasureRecord == [pc: {"idle", "refs", "delete"}, cascade: BOOLEAN,
                  ask: SUBSET Node, todo: SUBSET Node]

TypeOK ==
  /\ count \in Memories .. Memories + Reflections
  /\ graph \subseteq 1 .. count /\ tomb \subseteq 1 .. count
  /\ graced \subseteq tomb
  /\ about \in [Reflection -> Memory]
  /\ vec \subseteq Memory
  /\ dlq \in Seq(Memory) /\ batch \in Seq(Memory) /\ Len(batch) =< BatchSize
  /\ sweep \in SweepRecord /\ gc \in GcRecord /\ erasure \in ErasureRecord
  /\ faults \in 0 .. MaxFaults
  /\ dropped \subseteq Memory /\ unseen \subseteq Node

Init ==
  /\ count = Memories /\ graph = Memory /\ vec = Memory
  /\ tomb = {} /\ graced = {}
  /\ about \in [Reflection -> Memory]
  /\ dlq = <<>> /\ batch = <<>>
  /\ sweep = NoSweep /\ gc = NoGc /\ erasure = NoErasure
  /\ faults = 0 /\ dropped = {} /\ unseen = {}

\* A statement raises, or a process ends.
Fault ==
  /\ faults < MaxFaults
  /\ faults' = faults + 1

-----------------------------------------------------------------------------
(* What goes on around: reflections are written, time passes.              *)

\* create_auto_reflection.
Reflect ==
  /\ count + 1 \in Reflection
  /\ count' = count + 1
  /\ graph' = graph \cup {count + 1}
  /\ UNCHANGED <<tomb, graced, about, vec, dlq, sweep, gc,
                 batch, erasure, faults, history>>

\* A tombstone outlives the grace period.
GraceEnds(n) ==
  /\ n \in tomb \ graced
  /\ graced' = graced \cup {n}
  /\ UNCHANGED <<count, graph, tomb, about, vec, dlq, sweep, gc,
                 batch, erasure, faults, history>>

-----------------------------------------------------------------------------
(* run_sweep: three finds, each followed by a write.                       *)

SweepGoes(pc, list) == sweep' = [pc |-> pc, list |-> list]
SweepKeeps == UNCHANGED <<vec, dlq, gc, batch, erasure, history>>

Live(n) == n \in graph \ tomb

\* FIND_TOMBSTONE_CANDIDATES, and those that is_eligible_for_tombstone picks.
SweepStart ==
  /\ sweep.pc = "idle"
  /\ \E list \in SUBSET {m \in Memory : Live(m)} : SweepGoes("policy", list)
  /\ UNCHANGED <<graphVars, faults>> /\ SweepKeeps

\* Mutant: the reflections are sorted the other way.
ExcessOldestFirst ==
  {r \in Reflection :
     Live(r) /\ Cardinality({q \in Reflection : q < r /\ Live(q)}) >= KeepCount}

\* FIND_EXCESS_META_OBSERVATIONS: the newest first, KeepCount of them skipped.
Excess ==
  {r \in Reflection :
     Live(r) /\ Cardinality({q \in Reflection : q > r /\ Live(q)}) >= KeepCount}

SweepFindExcess ==
  /\ sweep.pc = "meta"
  /\ SweepGoes("excess", Excess)
  /\ UNCHANGED <<graphVars, faults>> /\ SweepKeeps

\* TOMBSTONE_NODES_BATCH: those of the list that are still there.
SweepTombstone ==
  /\ sweep.pc \in {"policy", "excess"}
  /\ tomb' = tomb \cup (sweep.list \cap graph)
  /\ SweepGoes(IF sweep.pc = "policy" THEN "meta" ELSE "find", {})
  /\ UNCHANGED <<count, graph, graced, about, faults>>
  /\ SweepKeeps

\* Mutant: the grace period is compared the wrong way round.
SweepFindRecent ==
  /\ sweep.pc = "find"
  /\ SweepGoes("delete", graph \cap (tomb \ graced))
  /\ UNCHANGED <<graphVars, faults>> /\ SweepKeeps

\* FIND_HARD_DELETE_CANDIDATES.
SweepFind ==
  /\ sweep.pc = "find"
  /\ SweepGoes("delete", graph \cap graced)
  /\ UNCHANGED <<graphVars, faults>> /\ SweepKeeps

\* hard_delete_node: HARD_DELETE_NODE returns no row, so the method ends with
\* False before it comes to the vector.
HardDeleted(n) ==
  /\ graph' = graph \ {n}
  /\ unseen' = unseen \cup {n}

SweepDelete(n) ==
  /\ sweep.pc = "delete" /\ n \in sweep.list
  /\ HardDeleted(n)
  /\ SweepGoes("delete", sweep.list \ {n})
  /\ UNCHANGED <<count, tomb, graced, about, vec, dlq, gc, batch,
                 erasure, faults, dropped>>

SweepEnds ==
  /\ sweep.pc = "delete" /\ sweep.list = {}
  /\ sweep' = NoSweep
  /\ UNCHANGED <<graphVars, faults>> /\ SweepKeeps

\* Nothing catches an exception: the run is over until the next day.
SweepFails ==
  /\ sweep.pc # "idle"
  /\ Fault
  /\ sweep' = NoSweep
  /\ UNCHANGED graphVars /\ SweepKeeps

-----------------------------------------------------------------------------
(* The groundskeeper: vectors first, then nodes.                           *)

\* Mutant: the label is not tested.
GcStartAnyLabel ==
  /\ gc.pc = "idle"
  /\ \E list \in SUBSET graph \ {{}} :
       gc' = [pc |-> "vectors", todo |-> list, list |-> list]
  /\ UNCHANGED <<graphVars, vec, dlq, sweep, batch, erasure, faults, history>>

\* EXPIRED_MEMORY_QUERY: the memories past hard_delete_days, tombstoned or not.
GcStart ==
  /\ gc.pc = "idle"
  /\ \E list \in SUBSET (graph \cap Memory) \ {{}} :
       gc' = [pc |-> "vectors", todo |-> list, list |-> list]
  /\ UNCHANGED <<graphVars, vec, dlq, sweep, batch, erasure, faults, history>>

\* Mutant: a failed delete is not put on the dead-letter list.
GcVectorUnrecorded(m) ==
  /\ gc.pc = "vectors" /\ m \in gc.todo
  /\ gc' = [gc EXCEPT !.todo = @ \ {m}]
  /\ \/ vec' = vec \ {m} /\ UNCHANGED faults
     \/ Fault /\ UNCHANGED vec
  /\ UNCHANGED <<graphVars, dlq, sweep, batch, erasure, history>>

\* Three attempts; after the last failure the delete is dead-lettered.
GcVector(m) ==
  /\ gc.pc = "vectors" /\ m \in gc.todo
  /\ gc' = [gc EXCEPT !.todo = @ \ {m}]
  /\ \/ vec' = vec \ {m} /\ UNCHANGED <<dlq, faults>>
     \/ Fault /\ dlq' = Append(dlq, m) /\ UNCHANGED vec
  /\ UNCHANGED <<graphVars, sweep, batch, erasure, history>>

\* DELETE_NODES_QUERY.
GcDelete ==
  /\ gc.pc = "vectors" /\ gc.todo = {}
  /\ graph' = graph \ gc.list
  /\ gc' = NoGc
  /\ UNCHANGED <<count, tomb, graced, about, vec, dlq, sweep,
                 batch, erasure, faults, history>>

\* enqueue_failed_delete or the last query raises, or the process dies.
GcFails ==
  /\ gc.pc # "idle"
  /\ Fault
  /\ gc' = NoGc
  /\ UNCHANGED <<graphVars, vec, dlq, sweep, batch, erasure, history>>

-----------------------------------------------------------------------------
(* The reconciler, started by hand.                                        *)

\* dequeue_failed_deletes: rpop after rpop.
RecPop ==
  /\ dlq # <<>> /\ Len(batch) < BatchSize
  /\ batch' = Append(batch, Head(dlq))
  /\ dlq' = Tail(dlq)
  /\ UNCHANGED <<graphVars, vec, sweep, gc, erasure, faults, history>>

\* The retry of one entry; a failing one goes back to the queue.
RecRetry ==
  /\ batch # <<>>
  /\ batch' = Tail(batch)
  /\ \/ vec' = vec \ {Head(batch)} /\ UNCHANGED <<dlq, faults>>
     \/ Fault /\ dlq' = Append(dlq, Head(batch)) /\ UNCHANGED vec
  /\ UNCHANGED <<graphVars, sweep, gc, erasure, history>>

\* The process dies, or the push back raises: the whole batch is gone.
RecFails ==
  /\ batch # <<>>
  /\ Fault
  /\ batch' = <<>>
  /\ dropped' = dropped \cup ToSet(batch)
  /\ UNCHANGED <<graphVars, vec, dlq, sweep, gc, erasure, unseen>>

-----------------------------------------------------------------------------
(* erase.                                                                  *)

EraseStart(n, cascade) ==
  /\ erasure.pc = "idle" /\ n \in graph
  /\ erasure' = [pc |-> IF cascade THEN "refs" ELSE "delete",
                 cascade |-> cascade, ask |-> {n}, todo |-> {n}]
  /\ UNCHANGED <<graphVars, vec, dlq, sweep, gc, batch, faults, history>>

\* FIND_REFERENCING_NODES, one level deep.
Referencing(S) == {r \in graph \cap Reflection : about[r] \in S}

EraseRefs ==
  /\ erasure.pc = "refs"
  /\ erasure' = [erasure EXCEPT !.pc = "delete",
                                !.todo = @ \cup Referencing(erasure.ask)]
  /\ UNCHANGED <<graphVars, vec, dlq, sweep, gc, batch, faults, history>>

EraseDelete(n) ==
  /\ erasure.pc = "delete" /\ n \in erasure.todo
  /\ HardDeleted(n)
  /\ erasure' = [erasure EXCEPT !.todo = @ \ {n}]
  /\ UNCHANGED <<count, tomb, graced, about, vec, dlq, sweep, gc,
                 batch, faults, dropped>>

\* The delete raises: the id goes to failed_ids and the loop goes on.
EraseDeleteFails(n) ==
  /\ erasure.pc = "delete" /\ n \in erasure.todo
  /\ Fault
  /\ erasure' = [erasure EXCEPT !.todo = @ \ {n}]
  /\ UNCHANGED <<graphVars, vec, dlq, sweep, gc, batch, history>>

\* The audit row is committed.
EraseEnds ==
  /\ erasure.pc = "delete" /\ erasure.todo = {}
  /\ erasure' = NoErasure
  /\ UNCHANGED <<graphVars, vec, dlq, sweep, gc, batch, faults, history>>

\* The search for references raises, or the request dies.
EraseFails ==
  /\ erasure.pc # "idle"
  /\ Fault
  /\ erasure' = NoErasure
  /\ UNCHANGED <<graphVars, vec, dlq, sweep, gc, batch, history>>

-----------------------------------------------------------------------------

SweepStep ==
  \/ SweepStart \/ SweepFindExcess \/ SweepTombstone \/ SweepFind
  \/ \E n \in Node : SweepDelete(n)
  \/ SweepEnds \/ SweepFails

GcStep ==
  GcStart \/ GcDelete \/ GcFails \/ \E m \in Memory : GcVector(m)

Next ==
  \/ Reflect
  \/ \E n \in Node : GraceEnds(n)
  \/ SweepStep \/ GcStep
  \/ RecPop \/ RecRetry \/ RecFails
  \/ \E n \in Node, cascade \in BOOLEAN : EraseStart(n, cascade)
  \/ \E n \in Node : EraseDelete(n) \/ EraseDeleteFails(n)
  \/ EraseRefs \/ EraseEnds \/ EraseFails

\* The silo is one the daily schedule knows (_LIST_ACTIVE_SILOS: it has a
\* Document), so its sweep comes again, and time passes.  The groundskeeper
\* runs nightly but may find nothing, and the reconciler is on no schedule.
Fairness ==
  /\ WF_vars(SweepStep)
  /\ \A n \in Node : WF_vars(GraceEnds(n))

Spec == Init /\ [][Next]_vars /\ Fairness

-----------------------------------------------------------------------------

\* A vector whose node has left the graph is known to somebody: its delete is
\* waiting in the dead-letter queue or in the reconciler's hands.  It is
\* stranded only where the reconciler lost its batch, or where the node was
\* taken by hard_delete_node, which never comes to the vector.  In particular
\* the groundskeeper strands none, whatever fails and in whatever order it,
\* the sweep and an erasure take the same node.
VectorsAccounted ==
  \A m \in vec \ graph :
    m \in ToSet(dlq) \cup ToSet(batch) \cup dropped \cup unseen

\* The sweep clears reflections from the old end: a tombstoned one has at
\* least KeepCount younger ones, whatever is written, erased or deleted
\* between the search and the tombstoning.
NewestReflectionsKept ==
  \A r \in tomb \cap Reflection :
    Cardinality({q \in Reflection : r < q /\ q =< count}) >= KeepCount

\* What is tombstoned leaves the graph in the end, although a sweep gives up
\* at the first error and starts again from the beginning.
TombstonedLeave == \A n \in Node : (n \in tomb) ~> (n \notin graph)

\* "Qdrant deletion is retried up to three times; failures are enqueued to the
\* dead-letter queue for later reconciliation": a node that hard_delete_node
\* has deleted has no vector that nobody knows of.
HardDeleteReachesQdrant ==
  \A n \in unseen \cap vec : n \in ToSet(dlq) \cup ToSet(batch)

=============================================================================
