# Engrammic in TLA+

A verification development for the context service (`src/src/context_service`,
abbreviated `CS/` below): TLA+ modules for the parts of the service whose
correctness depends on interleavings, failures and ordering, TLC runs on small
instances, and TLAPS proofs for every value of the constants.

Contents: 1 inventory, 2 modules, 3 runs, 4 proofs, 5 disagreements between the
code and its documentation, 6 what is not modelled, 7 plan.

## 1. Inventory

Engrammic is a multi-tenant memory for agents. Agents call MCP tools or the HTTP
API; the calls end in *transactions* (`CS/sage/transactions.py`) on a Memgraph
graph. Postgres holds reasoning-chain steps and a shadow of the nodes for text
search, Qdrant the vectors, Redis the reaction queue and the caches. Reaction
workers and Dagster jobs change the same graph in the background. No lock spans
two requests, and no transaction spans two queries: each `execute_query` or
`execute_write` commits by itself. Nearly all that is hard follows from this.

| component | state | operations | what is hard | correct means |
|---|---|---|---|---|
| SAGE write path (`sage/transactions.py`) | nodes with lifecycle state, typed edges, conflict flags, cancel window | store_memory, store_claim, supersede, link, forget, cancel_forget, hard_delete | validate in one transaction, write in another; crash between two writes; the collector works from an old list | contradictions flagged, provenance kept, replaced versions stay replaced, no live edge collected, SUPERSEDES acyclic |
| Postgres search shadow | one row per node with a state | upsert after a store, state update after a supersession | best effort, unordered with the graph | text search serves no superseded node |
| Batch embedding accumulator (`reactions/batch_embedding.py`) | pending list, lock, timer task, flush tasks | add, timer, flush, close | lock held across an await of a task that wants the lock; cancellation | every accepted item handed over once, close drains, no deadlock |
| Storage circuit breakers (`extraction/filter/circuit_breaker.py`, `engine/storage_circuit.py`) | failure deque, opened_at, metrics | guard_hard_fail, guard_degrade, record_* | calls that started before the trip end after it | never open without a cooldown, bounded failures, alert agrees |
| Reasoning-chain storage (`engine/chain_saga.py`, `reactions/tasks.py` trace, `pipelines/jobs/orphan_recovery.py`, `pipelines/assets/reconciliation_gc.py`) | steps in Postgres, dead letters, summary node in Memgraph | write_chain, trace_reasoning, recovery, collector | two stores without a common transaction, lost acknowledgements, three jobs at once | acknowledged chains survive, dead letters are not dropped, what failed writes leave in Postgres settles |
| Beliefs and their staleness (`sage/transactions.py`) | facts, beliefs with state and synthesis_state, revision_in_progress | cascade_staleness, revise_belief, supersession and demotion of facts | counts and marks in two transactions without guards, check-then-set of the revision flag | a belief that outlives its grounds is on somebody's list |
| Reaction queue (`reactions/`) | Redis list, retry labels, dead letters | emit, consume, retry, dead-letter | emission times out, two middlewares decide apart, a popped message dies with its worker | each message in one place, reactions end |
| Supersession chains (`mcp/tools/context_store.py`, `engine/memgraph_store.py`) | SUPERSEDES edges, valid_to, head and tail pointers, a Redis lock | validate, store, create_supersession, prune | lock with a TTL, claims that know no pointers, node stored long before its edge | chains acyclic, pointers agree, a chain has a current head |
| Retention and erasure (`retention/`, `custodian/identities/groundskeeper.py`) | tombstones, vectors, dead-letter list | sweep, collection, erase, reconcile | two stores without a transaction, pop before retry, three jobs on one node | no vector outlives its node unnoticed, the newest reflections stay |
| Promotion (`sage/transactions.py`, `pipelines/jobs/promoter_job.py`) | claim_status, confidence, Source nodes | learn, list, count, verify, promote, demote, clean up | overlapping runs, an LLM call between count and update, cleanup after a failed guard | facts have their evidence, boosted once, sources go only with a reason |
| Batch ingestion (`api/routes/batch.py`, `services/supersession.py`) | a Redis lock per silo, the plan of a request | lock, detect supersession, store in chunks, answer, release | release in two commands, order of the array against order of time, a store that fails halfway | one batch at a time, claims superseded for a reason, neighbours linked, true answers |
| Markers (`engine/markers.py`, `engine/engagement.py`, three Dagster assets) | markers in the graph, their index and touches in Redis, a watermark | detect, index, recall, dismiss, clean up | graph first and Redis after, a watermark over an unfinished batch | index and graph agree, evidence is judged, only pending markers block |
| Consolidation, custodian, heat, result cache, OAuth, rate limits | see `PROJECT.json` | | | |

How they interact: a transaction emits reaction events; the workers that consume
them call further transactions (cascade, embed, trace) and so act as more
agents of the write path; every store call passes through a circuit breaker; the
Dagster jobs run hard_delete, chain recovery and collection, retention, promotion,
marker detection and pruning on their own schedules. `PROJECT.json` lists every component with its status, and under
`hazards` each place where something hard to test can go wrong.

## 2. Modules

### SageLifecycle (write path and shadow)

`state`, `object`, `evidence`, `edges`, `window`, `prev` and `flagged` are node
properties and relationships; `shadow` is the Postgres row; `op[a]` is the
coroutine frame of agent `a` (where it is, and the locals it holds across
awaits). Each query of the code is an action, so agents interleave exactly where
the code awaits. An operation that raises before its first write changes nothing
and is no action; one that is interrupted later is `Fail`, possible at every
point. `replaced` and `done` only observe: which nodes a SUPERSEDES write has
replaced, which claims had all their graph writes done.

Semantics of Memgraph the model relies on: the items of a `SET` are applied in
order and see each other; `DELETE` without `DETACH` raises when the node has
edges; a `MATCH` that finds nothing makes the whole query a no-op; an edge is
kept as a member of a set, so parallel duplicates are merged.

Abstractions: one silo (every MATCH is by silo); forget with `cascade=False`,
without Qdrant and without `about`; evidence as the set of `node:` references
(an empty set stands for evidence made of URIs only); one subject and predicate,
several objects; one batch of hard_delete. Reaction events, heat, corroboration
reads and confidence propagation do not touch the modelled state.

### BatchEmbedding and EmbeddingOutbox (accumulator)

The tasks of one event loop. A step runs from one await to the next; the FIFO
queue of `asyncio.Lock` is explicit. Every backend failure is a choice of the
flush steps, and a request may be cancelled while it waits for the lock.
`EmbeddingOutbox` is the promise: each accepted item is handed over exactly once,
eventually, in a batch no larger than the limit. `ImplementsOutbox` is the
refinement (accepted = pending and everything in a flush; batches = the flushes).

### StorageCircuit (breaker)

One breaker and the coroutines that use its backend. No breaker method awaits
under its lock, so each is a step; the backend call lies between two steps. Time
stamps are kept as ages, capped at the largest value they are compared with, so
neither time nor the number of calls is bounded. `TimedOut` covers
`asyncio.wait_for` and the errors a guard does not count.

### ChainStorage (two-store chains)

`steps` and `dead` are the two Postgres tables, `nodes` the summary nodes with
their `:Node` label and the writer of their summary, `saga[c]` the place of the
writer of chain `c`, `rec` and `gc` the frames of the two jobs. Every statement is
an action. A statement that raises may have taken effect (its acknowledgement was
lost): each fault action has both outcomes, and `MaxFaults` bounds how many occur.
`raced` observes the chains whose write was not over when a dangling scan read
their row. The collector's `LIMIT` without `ORDER BY` returns any rows of the
right number (`Limited`).

Abstractions: `ensure_silo_config` writes an unrelated table; chain ids are fresh
uuid4s, so no chain is written twice; two runs of the recovery job do not
overlap; nodes deleted by session compaction or forget are outside the model (the
collector then removes their steps, as intended); the exhausted-chain alert only
logs.

### ReactionQueue and BeliefFlow (staleness)

`ReactionQueue` is the transport: `queue` the Redis list, `job[w]` the message a
worker slot holds, `dlq` the dead letters. A popped message exists only in its
worker. The two middlewares decide about a failed message independently
(`Exhausted`, `DeadLettered`), as in the code; either push may fail.
`live` and `lost` only observe. `BeliefFlow` extends it: `active` and `promoted`
are the facts, `belief` the beliefs, `cascade[w]` the recursion of
cascade_staleness flattened to the list of dependents still to visit, with their
depth, `revision[r]` the frame of revise_belief. `owed` holds a node whose write
is committed and whose event is still to come. `basis`, `raced` and `dropped`
observe what a belief's content stands for and the two paths on which a belief
escapes its cascade. What derives from what is stated by closed sets
(`DerivesFrom`, `Grounds`) and not by recursion, so that proofs can use it.

DERIVED_FROM is one of the ACYCLIC_EDGE_TYPES that `link` checks, and store_claim
writes it from a new node only. But `link` checks and writes in two transactions, so
opposite links at the same moment could close a cycle. The module therefore does not
assume that there is none, and the theorems hold on graphs with cycles. The run has a
graph without: on a cycle longer than MAX_CASCADE_DEPTH every deferred cascade would
defer another, and `ReactionsSettle` would not hold.

Abstractions: the LLM's answer and the confidence test of a revision are choices;
no belief is another's source; the retry delay is not modelled (any order of
messages that a delay produces is one of the orders of two workers).

### SupersessionChain (pointers)

Ids are numbers in the order of storing. `sup`, `closed`, `tail`, `head` are the
edges and the three properties CREATE_CROSS_NODE_SUPERSEDES sets in one
transaction; `lock` the Redis keys; `writer[p]` a request. Claims (`kind =
"claim"`) go through `_create_supersedes_edge`, everything else through
`create_supersession`. `bypassed` observes the nodes superseded by a claim, or
before their own edge was written. Names that `BeliefFlow` also uses carry the
prefix `Chain` (`ChainInit`, `ChainNext`, `ChainSpec`), so that one module can
hold both proofs. `Above` is the path over SUPERSEDES edges, stated by closed
sets. The range limit of the cycle check (20 hops)
is not modelled: no store deduplicates by content, so the check never fails.
No step deletes a node of a chain, though the retention sweep, the groundskeeper,
an erasure and hard_delete can: `HeadsCurrent` and its two named paths are about
what the writers and the pruning do to a chain.

### Retention (two stores and a dead-letter list)

`graph`, `tomb`, `graced` are the nodes, their tombstones and the tombstones past
the grace period; `vec` the vectors; `dlq` and `batch` the dead-letter list and
what the reconciler has popped. `sweep`, `gc` and `erasure` are the frames of the
three callers. The sweep runs without a Qdrant store, and `hard_delete_node`
never comes to the vector (section 5); `unseen` observes the nodes it took.
Which memories are old or cold enough is a choice at each search.

### Promotion (claims and facts)

`job[r]` is a run of the promoter: the batch still to be counted, the candidates
found, and the call of promote it is in. `source` follows the Source node of a
claim; `supported` is what an LLM would say of it, and an LLM that fails says yes.
Claims say the same thing, so all of them count for each other; `freeform` chooses
between the two ways of counting. Confidence counts in tenths. `thin` observes the
claims whose count has lost a claim since, `was` those that have been facts.

### Markers (graph and Redis index)

`status`, `about` and `expired` are the markers in the graph, `index` the sorted
sets, `touches` the touch counters. `contra`, `stale` and `cleanup` are the runs of
the three assets, at most one of each by their concurrency key; `call[s]` is the
recall or dismiss of a session. The watermark is represented by `newer`, the
claims created after it. `unindexed`, `stray`, `examined` and `missed` observe the
named ways in which index and graph, or evidence and LLM, part. Proposed beliefs,
which recall also lists, have no index and are left out.

### BatchLearn (many claims in one request)

`lock` is the Redis key of the silo, `req[r]` the frame of a request: its batch,
the plan detect_supersession has made of it, the places still to be written
(`todo`, `pos`), the claims made so far (`made`), the failures of the current
chunk and the answer. Documents and timestamps are numbers in the order of their
strings, a topic is a subject and a predicate. `Place` and `Sooner` are the sort
of the entries; an item is compared with the one before it only. `known` are the
claims the extraction asset has written, the only ones `query_spo_pairs` can find:
it asks for properties of the node, and store_claim writes them into the node's
`properties`. For the same reason the duplicate check finds nothing. `partial`
and `expired` observe the claims whose store_claim raised after its CREATE, and
where locks expired. store_claim appears as its CREATE and the rest; what the rest
does besides the SUPERSEDES edge is in SageLifecycle.

Abstractions: one silo; no item names the claim it supersedes itself; embeddings
change nothing but their event; without Redis there is no lock, and requests then
interleave as they do here after an expiry.

### Other modules

`MC*` modules extend a specification for TLC with symmetry sets and the sets of
the instance. `SageLifecycleProofs`, `BatchEmbeddingProofs`, `StorageProofs`
(the breaker and the retention sweep), `ChainStorageProofs`, `MarkersProofs`,
`SupersessionProofs` (the chain, the reaction queue and the beliefs),
`PromotionProofs` and `BatchLearnProofs` hold the proofs. `StorageCircuit` calls
its specification `CircuitSpec`, so that one module can hold both proofs of
`StorageProofs`. Definitions marked *Mutant* are plausible
wrong versions of the definition that follows them; nothing uses them, they show
that the properties can fail.

## 3. Runs

| run | instance | checks |
|---|---|---|
| SageConflicts | 2 agents, 1 memory, 2 claims, 2 objects, 4 calls, failures anywhere | ConflictsFlagged, ReplacedStaysReplaced |
| SageForget | 2 agents, 1 memory, 1 claim, 5 calls, clock to 2, enforcement on, Postgres unreliable | LiveProvenance, LiveEdgesKept |
| BatchEmbedding | 3 adds, batch size 2, timer, close, cancellations | TypeOK, NoStranded, CloseDrains, CallersReturn, ImplementsOutbox; no deadlock |
| StorageCircuit | 4 calls, threshold 3, window 3, cooldown 2 | NeverSilentlyOpen, FailuresBounded; no deadlock |
| ChainStorage | 2 chains, 2 compensation attempts, retry limits 3 and 1, a row limit of 1, 6 faults | SummarizedStepsKept, AckedSummaryKept, NoSilentDrop, RowsSettle; no deadlock |
| BeliefFlow | 2 facts, 1 memory, 2 beliefs, 2 workers, 1 reviser, threshold 1, depth 2, 2 tries, 1 departure, 1 fault | TypeOK, StalenessAccounted, MessagesConserved, ReactionsSettle |
| Supersession | 2 requests, 4 nodes, pruning beyond 1 edge | NewerSupersedesOlder, PointersAgree, HeadsCurrent, StubsAreHistory |
| Retention | 1 memory, 2 reflections of which 1 is kept, batches of 2, 2 faults | TypeOK, VectorsAccounted, NewestReflectionsKept, TombstonedLeave |
| RetentionVectors | the same | HardDeleteReachesQdrant, violated (section 5) |
| Promotion | 2 claims, 1 with a Source, 3 pieces of evidence, threshold 2, batches of 1, 2 overlapping runs, 1 fault | TypeOK, FactsCorroborated, SourceLossAccounted, BoostedOnce, PromotionComes |
| Markers | 2 claims, 1 marker, row limit 1, and either 2 sessions, escalation at 2 touches, 2 faults or 2 commitments and 1 fault (`OneHalf`) | IndexAccounted, BlockedByPending, EvidenceAccounted |
| BatchLearn | 2 requests of 3 claims each (3 batches), 1 extracted claim, chunks of 2, 2 faults | TypeOK, InsideUnderLock, SupersededForAReason, NeighboursLinked, AnswersTrue |

What the properties say is stated above each of them in the modules. The type
invariants of the modules without one in the table are proved (section 4). Why the
bounds are enough for the cases of interest:

- *SageLifecycle.* Each property relates at most two nodes and two operations
  that overlap; a third operation sets the scene (create, forget) and a fourth
  disturbs. Two agents cover every pair of overlapping operations. In SageForget
  the window is one tick and the clock runs to two, so it reaches before, at and
  after the window's end and the collector works; in SageConflicts the clock
  stands still, which keeps the window open, and the collector finds nothing.
  LiveProvenance and LiveEdgesKept, which are about the collector, are therefore
  checked in SageForget. Runs stop when the
  calls are used up, hence no deadlock check. The theorems remove all the bounds.
- *BatchEmbedding.* With batch size 2, three adds give a full batch and a partial
  one, in both orders relative to the timer and to close.
- *StorageCircuit.* Four calls against a threshold of three leave a call under way
  after the trip. The deployed window and cooldown are equal (60 s); the run takes
  a longer window, so that failures from before a trip outlive its cooldown, and
  the theorems cover every pair.
- *ChainStorage.* A chain is archived after a failed projection, two failed
  compensations, a failed retry and a failed merge: five faults; the sixth falls
  anywhere. The retry limits keep the order they have in the code (the collector
  takes a letter before recovery gives it up). A row limit of one and two chains
  let one chain hide the other from the dangling scan. The collector's lists then
  have one row; the safety theorems hold for every limit.

- *BeliefFlow.* One fact derives from a memory and the other from that fact, so
  that a cascade for the memory visits the first fact itself and, at a depth of
  two, defers the second to the queue. The initial belief is built on any of the
  facts and FRESH or STALE, so that one departure is enough for a revision that
  overlaps it; two workers make cascades overlap. One fault is enough for each way
  of losing an event; a message already on its last try is in the queue of some
  initial states, so that the dead letter queue is reached as well.
- *Supersession.* Four nodes give a chain of three edges, of which the pruning
  may take two nodes, and room for two writers behind one predecessor.
- *Retention.* Two reflections and a keep count of one make one of them excess;
  one memory is what the sweep, the collection and an erasure fight over.
- *Promotion.* With two claims of which one has two pieces of evidence of its own,
  the threshold of two is reached by one claim or by both together.
- *Markers.* All conditions are about one marker or one pair of evidence and
  commitment; two claims and a row limit of one make LIMIT cut a row off. The
  constraint `OneHalf` keeps the run to states in which either the sessions and
  the detection of contradictions, or the detection of stale commitments, have
  been at work; the theorems are about both together.
- *BatchLearn.* The three batches are a chain of three claims in their order, one
  against its order without documents, and one whose document says two things; the
  extracted claim is about the topic of all three. Three claims in chunks of two
  cross a chunk, and a chunk of two may be aborted. Two requests are enough for a
  lock that is deleted under its holder.

Except where the table says "no deadlock", a run may stop because its bound
(nodes, faults, calls) is used up, so deadlock is not checked.

Fairness. *BatchEmbedding*: the event loop runs ready tasks, a sleep ends, a
backend call returns or raises (clients have timeouts). *ChainStorage*: a writer
goes on to its end, a started run goes on, backoffs elapse; faults are finitely
many, and a fair job may still fail at each of them. That a run *starts* is not
assumed: `orphan_recovery_schedule` and `reconciliation_gc_schedule` declare no
`default_status`, so Dagster keeps them stopped until an operator turns them on.
`RowsSettle` states the fairness of the two starts as its premise (`SchedulesOn`). *BeliefFlow*: a transaction that has written goes on to its event
or dies, and a worker goes on or dies and is restarted; revisions and departures
are not fair. *Retention*: the sweep is scheduled daily, and grace periods end. The premise is
that the schedule knows the silo: `daily_maintenance_schedule` asks for runs only
for silos with a `:Document` node (`CS/pipelines/schedules.py:31`). As only the
sweep tombstones in this module, a silo with a tombstone had one when the sweep
came; that it still has one is assumed;
the collection may find nothing and the reconciler is on no schedule, so neither
is fair. *Promotion*: runs are scheduled every five minutes and go on; learn,
demote and the cleanup are not fair. Nobody has to call anything: starting a
request is not fair. The other specifications state safety only.

## 4. Proofs

TLAPS proves, from the named assumptions on the constants alone:

**SageLifecycleProofs**: `TypeCorrect`, `ConflictsAreFlagged`, `ProvenanceIsKept`,
`ReplacedForGood`, `EdgesAreKept`, for any sets of nodes, agents and objects. The
inductive invariant `IInv` adds to the type invariant:
`FrameInv` (what the locals of each frame are worth at each point),
`UniqueInv` (no two calls store the same claim), `TombstoneInv` (a tombstone
records itself as its previous state), `ReplacedInv`, `DoneInv` (provenance of
finished claims) and `ConflictInv`. The last carries the main argument: a claim
looks for conflicts after it is visible, so of two contradicting claims the one
that looks later sees the other; the pair is flagged, or on the list of a call
that is still running. A call that dies is not `done`.

A caution: `EdgesAreKept`, `ProvenanceIsKept` and `ReplacedForGood` rest on
`TombstoneInv`, that is, on cancel_forget never really restoring anything
(section 5). Repairing the order of that `SET` exposes the unguarded
`DELETE_EDGES_FOR_NODE` and the restoration of replaced nodes: the mutant
`RestoreToActive` breaks all three properties.

**BatchEmbeddingProofs**: `TypeCorrect`, `NothingStranded`, `ClosingDrains`,
`ImplementsOutboxSafely`, for any set of calls and any batch size. The
strengthening ties the deque of the lock to the states of the tasks (each waiting
task is in it once), the holder of the lock to the tasks between two awaits, and
every item to one place: the batch, one flush, or nowhere. `DrainInv` is what
close promises while it still gathers. The refinement maps the items whose add
went through to `accepted` and the flush tasks to `batches`; the proof takes every
step of the accumulator to a step of the outbox or a stutter, with the batch size
and the disjointness of the batches from the invariant.

**StorageProofs**, the breaker: `CircuitTypeCorrect`, `NoSilentRefusal`,
`OutageBounded`, `GaugeIsRight`, for any threshold, window, cooldown and finite set
of calls. The four properties are inductive together; the facts about `_prune` and
about the number of calls under way are lemmas. The retention sweep:
`RetentionTypeCorrect`, `VectorsNotForgotten`, `NewestKept`, for any number of
memories, reflections, erasures and faults. `SweepInv` says of the list a sweep has
read that its reflections still have enough younger ones (reflections are never
taken back, so the count only grows); `GcInv` that the groundskeeper knows, or has
queued, the vector of each node it is about to delete and has already dealt with.

**ChainStorageProofs**: `TypeCorrect`, `StepsSurvive` (for `SummarizedStepsKept`),
`SummarySurvives`, `NothingDropped`, for any chains, faults, limits and batch size. `IInv` adds
`LettersInv` (only a write that gave up leaves a dead letter), `RecInv` and
`GcInv` (what each job still knows of a list it read earlier), `StepsInv` and
`NodesInv` (nobody but its writer creates the node of a chain being written).
`NothingDropped` and `StepsSurvive` are action properties, proved from the invariant
step by step. The second needs that a letter dropped while recovery still has it on
its list leaves a node or no steps: otherwise recovery could create the node of a
chain between the check of the dangling scan and its delete.

**MarkersProofs**: `TypeCorrect`, `EvidenceSafe`, `IndexSafe`, `BlockedSafe`, for
any claims, commitments, sessions, markers, limits and faults. The invariants are
strengthened by what the frames of the detectors, of the cleanup and of dismiss
still hold in their hands between the write to the graph and the write to Redis;
what a recall has found is related to the status the marker had at the lookup.

**SupersessionProofs**, the chain: `ChainTypeCorrect`, `NoCycles`,
`PointersHold`, `HeadsFound`, `StubsSuperseded`, for any number of requests and
nodes. `ChainInv` says that a request that has stored its node and not yet written
its edge has the node to itself, that edges lead from younger to older nodes and
end their validity, that the head of a tail names that tail, that a node
superseded before its own edge is among `bypassed`, and that what the pruning has
listed or cleared has a successor. `PointersHold` adds `TailInv`, that every node
with a tail supersedes it over edges: a new edge extends the path of the node it
supersedes, and edges are never taken back, so paths stay.

The beliefs: `FlowTypeCorrect`, `MessagesKept`, `StalenessKnown`, for every graph of
derivations, with cycles or without, every threshold and limit of depth, and any
number of beliefs, workers, revisers, retries and faults. `StalenessAccounted` is not
inductive, because a failed execution starts again at the node of its message,
whatever its list held, and because a node between the one that left and the
belief may leave as well. `FlowInv` therefore says more:

- `GroundInv`: every part of what a content stands for has one of the belief's facts,
  or an edge from the rest leads into it (`Grounded`); a revision that has read its
  facts holds such a content.
- `CascadeInv`: a run that has read nothing has an empty list, and one that is
  about to write has a belief at its head.
- `NewsInv`: for every fresh belief `b` and every node `k` it stands for that has
  left, the news are `Heard`. Some node that derives from `k`, and from which live
  nodes lead to `b`, is owed, queued, lost or about to be read (`Spread`), or a worker
  whose *message* is about such a node `Carries` them: its list holds `b`, or a node
  from which live nodes that it has not visited lead to `b`.

That nodes of a set lead from `n` to `b` (`Leads`) is stated by cuts: every set with
`n` that the edges do not leave has one of the facts of `b`. Recursion over the graph
is not needed then, and a cycle does no harm. Three lemmas carry the argument. With a
node `f` taken out of the set, what led over `f` begins again at `f` (`Detour`); a way
has a first step (`Onwards`); where no way is left, a node between has left before, and
its own news were already on their way (`Gaps`). With `Detour` a worker that goes on
from `n` (`Expands`), a node that leaves (`HeardOn`) and a node that leaves a list
because it was visited, is deferred to the queue, or failed (`Drops`) keep the
invariant. The invariant itself was checked by TLC on graphs with and without cycles
before it was proved. `MessagesKept` needs the count of busy workers and that a message
has tries left exactly when the other middleware does not bury it.

**PromotionProofs**: `TypeCorrect`, `Corroborated`, `SourcesKept`, `OneBoost`, for
any claims, evidence, threshold, batch size and number of overlapping runs. The
invariant says of every fact, and of every claim a run has counted and not yet
written, that it is grounded: it has left, the ACTIVE claims together still have
the evidence the threshold asks for, or a claim has left since (`thin`). ACTIVE
claims lose evidence only when one of them leaves, and that makes every fact and
every pending count thin. `OneBoost` is an action property: a run whose claim was
promoted under it finds it in `fact` and writes nothing.

**BatchLearnProofs**: `TypeCorrect`, `Rightfully`, `ChainsWithinABatch`,
`AnswersAreTrue`, `LockHeld`, for any number of requests, batches, chunk sizes and
faults. The invariant is local to a request but for `SupersededForAReason`: what
the frame holds fits its plan (`Fits`), nothing is stored before the plan
(`Begun`), the items before the current one are answered for truly and those after
it are not stored (`Midway`), every target in the plan has a reason (`Reasons`),
and finished requests are answered and linked (`Answered`, `Linked`). The proof
needs that `InOrder` lists each item of a plan once and in the order of the array,
so that of two neighbours the earlier one has been made when the later one is
linked. `LockHeld` adds that a request between the two commands of its release
holds the lock, unless some lock expired at that very place; it is what one expiry
late in one request breaks for all others.

Only model-checked: liveness (`CallersReturn`, `RowsSettle`, `ReactionsSettle`,
`TombstonedLeave`, `PromotionComes`), the fairness of the `EmbeddingOutbox`
refinement and deadlock freedom, which the prover does not do. Every invariant and
action property of a passing run is a theorem. `GaugeAgrees` is proved and has no
run of its own.

## 5. Where code and documentation disagree

With a run, quoted under `findings` in `PROJECT.json`:

- `RetentionVectors`: `hard_delete_node` (`CS/retention/service.py:140`) takes an
  empty result for a missing node, and its query has no RETURN. The sweep and an
  erasure therefore delete the node and leave its vector, without an entry in the
  dead-letter queue; the erasure reports every id as failed.

Seen while modelling; the models contain the behaviour as it is, and the
properties are stated so that they name it:

- `cancel_forget`: TOMBSTONE_NODE (`CS/db/queries.py:1769`) writes `state` before
  it copies it to `previous_state`, so a cancelled forget restores the tombstone
  and clears its window; the node can then be neither restored nor collected.
- `supersede` (`CS/sage/transactions.py:1109`) checks for cycles and writes in two
  transactions; opposite calls build a cycle and both versions are SUPERSEDED,
  although the docstring claims INV4.
- The ACTIVE upsert of a shadow row (`CS/sage/transactions.py:1007`) may come after
  the supersession of its node, and text search then serves the old version.
- The chain collector (`CS/pipelines/assets/reconciliation_gc.py:211`) looks up
  nodes and deletes steps in two transactions; a chain acknowledged in between
  loses its steps (`raced` in `SummarizedStepsKept`). Its dangling scan (:199)
  is an unordered LIMIT over healthy and dangling rows, so healthy rows can hide
  the dangling ones for ever (`Crowded` in `RowsSettle`).
- The collector archives "rows that still fail after re-reconciliation"
  (`CS/pipelines/assets/reconciliation_gc.py:8`), but the except branch covers the
  removal of the dead letter as well: when only that raises, the steps of a chain
  that was just reconciled are deleted (the second exception of
  `SummarizedStepsKept`).
- A projection of write_chain that raises after its commit is compensated
  (`CS/engine/chain_saga.py:87`): the node stays in the graph without steps, and
  neither job looks for such a node (the first exception of
  `SummarizedStepsKept`; `RowsSettle` says nothing of it).
- Both repair jobs are described as running on their own: hourly
  (`CS/pipelines/schedules.py:11`, `CS/pipelines/jobs/orphan_recovery.py:196`) or
  every 15 minutes (`CS/pipelines/assets/reconciliation_gc.py:3`). Neither schedule
  sets a `default_status`, as the other maintenance schedules do, so after a
  deployment they stand still until somebody turns them on.
- The breaker's cooldown runs from the trip; the docstring
  (`CS/extraction/filter/circuit_breaker.py:48`) says from the last failure.
- cascade_staleness "defers failed node" (`CS/sage/transactions.py:3053`) by an
  event for the belief itself, whose handler marks the belief's dependents: the
  belief stays fresh (`dropped` in `StalenessAccounted`).
- The supersession lock is meant to exclude orphaned heads
  (`CS/engine/memgraph_store.py:560`); a claim that supersedes, a lock that
  expires, or a successor written before a node's own edge still leaves a chain
  without a current head (`bypassed` in `HeadsCurrent`).
- promote cleans up Source nodes "after successful promotion"
  (`CS/sage/transactions.py:3439`) even when its update matched nothing; and
  RECOUNT_CORROBORATION counts nodes, so a fact promoted on URIs is demoted.
- The module docstring of the source cleanup job speaks of claims never promoted;
  the query takes only Source nodes without an edge.
- `CS/engine/markers.py:5` names a graph-side fallback for a failing index, which
  recall does not call (`unindexed` in `IndexAccounted`).
- The watermark of detect_stale_commitment is the time at the end of the run, so
  evidence linked during a run, cut off by its LIMIT, or judged with an error is
  never judged (`missed` in `EvidenceAccounted`).

- batch learn (`CS/api/routes/batch.py:363`): the duplicate check looks for Memory
  nodes with a `document_id` of their own, and store_claim writes it into the
  `properties` of a Claim; no duplicate is ever found. For the same reason
  `query_spo_pairs` finds no claim of an earlier batch.
- With conflict_mode "supersede", an item that follows an extracted claim is stored
  and then fails: store_claim converts the claim's id, a SHA-256 hash, to a UUID
  (`CS/sage/transactions.py:987`) after its writes. The item is reported as failed,
  and enough of them abort the batch (`LinkHashed`, named in `AnswersTrue`);
  `docs/superpowers/specs/2026-06-27-batch-learn-api-design.md:219` says that items
  supersede existing nodes.
- The same document says (:218) that items of one batch with the same subject and
  predicate are linked. An item whose predecessor comes later in the array is not,
  and one whose predecessor shares its document with another item supersedes the
  last claim made of that document, whatever its topic
  (`SupersededForAReason` and `NeighboursLinked` name both).
- batch_silo_lock (`CS/api/routes/batch.py:62`) means to release only a lock it
  still owns, with a GET and a DELETE; and it lapses after five minutes
  (`InsideUnderLock` names both ways).

## 6. Not modelled

Left out for good: retrieval scoring, reranking and expansion (float arithmetic
without state), extraction and LLM prompts, client libraries, telemetry, request
parsing, schema declarations and configuration. Together they are most of the
lines of the service.

Left out because the code does not get there: consolidation (the event's payload
and its handler disagree on a key, so it is never queued), consensus (emitted by
nobody), synthesis from facts and accept_proposal (their queries look for
properties and labels the write path does not set), ForgetService and
ContextService.store (called by tests only), the orphaned-summary search of the
sweep.

Left out of a model although it can happen: duplicate execution by the retry of
`stores/memgraph.py` (its CREATE statements would run twice); two overlapping runs
of the chain recovery job; a collector and a recovery that create two summary
nodes with one id because of their labels (reached by ChainStorage, promised
nowhere).

## 7. Plan

1. `SageLifecycle`, `BatchEmbedding`, `StorageCircuit`, `ChainStorage`,
   `ReactionQueue` with `BeliefFlow`, `SupersessionChain`, `Retention`,
   `Promotion`, `Markers`, `BatchLearn`: done.
2. Proofs: done for every invariant and action property that a run checks.
3. Session state and heat, custodian visit state, OAuth code exchange, rate
   limiter.
