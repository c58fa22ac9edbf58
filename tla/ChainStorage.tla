---------------------------- MODULE ChainStorage ----------------------------
(***************************************************************************)
(* A reasoning chain lives in two stores: its steps in Postgres, a summary *)
(* node in Memgraph.  ChainSagaWriter (engine/chain_saga.py) writes both,  *)
(* and so does the trace_reasoning task (reactions/tasks.py); the hourly   *)
(* orphan_recovery job (pipelines/jobs/orphan_recovery.py) and the hourly  *)
(* reconciliation_gc asset (pipelines/assets) repair what a failed write   *)
(* leaves behind, once an operator has turned their schedules on.  All of  *)
(* them run at once.                                                       *)
(*                                                                         *)
(* Every session.execute and every Cypher query is an action.  A statement *)
(* that raises has taken effect or not (the acknowledgement may be what    *)
(* was lost): both are outcomes of its fault action.                       *)
(***************************************************************************)
EXTENDS Integers, FiniteSets

CONSTANTS
  Chain,        \* chain ids; every write takes a fresh uuid4
  NoChain,
  CompRetries,  \* _MAX_COMPENSATION_RETRIES
  MaxRetries,   \* MAX_RETRIES of orphan_recovery
  GcThreshold,  \* _RETRY_THRESHOLD of reconciliation_gc
  BatchLimit,   \* _BATCH_LIMIT of reconciliation_gc
  MaxFaults     \* bound on the statements that raise and the runs that die

ASSUME ChainAssumption ==
  /\ NoChain \notin Chain
  /\ CompRetries \in Nat \ {0}
  /\ MaxRetries \in Nat /\ GcThreshold \in Nat
  /\ BatchLimit \in Nat \ {0}
  /\ MaxFaults \in Nat

VARIABLES
  steps,    \* chains with a reasoning_chain_steps row
  dead,     \* orphaned_chains.retry_count, 0 when there is no row
  resting,  \* dead letters whose backoff has not elapsed
  nodes,    \* <<chain, has the :Node label, who wrote its summary>>
  saga,     \* where the write of each chain is
  tries,    \* compensation attempts of each write_chain
  rec,      \* the frame of the recovery job
  gc,       \* the frame of the reconciliation pass
  faults,   \* number of faults so far
  raced     \* observer: chains whose write was not over when a dangling scan
            \* read their row

vars == <<steps, dead, resting, nodes, saga, tries, rec, gc, faults, raced>>

SagaPCs == {"new", "project", "trace", "compensate", "dead_letter", "acked", "failed"}
RecPCs == {"idle", "fetch", "upsert", "delete", "increment"}
GcPCs == {"idle", "fetch", "purge", "merge", "clear", "archive",
          "scan", "check", "delete"}
Job(PCs) == [pc : PCs, todo : SUBSET Chain, cur : Chain \cup {NoChain}]
IdleJob == [pc |-> "idle", todo |-> {}, cur |-> NoChain]

\* Rows, nodes and frames hold values the code can give them; in particular
\* the retry counter of a dead letter never passes the limit of the job.
TypeOK ==
  /\ steps \subseteq Chain
  /\ dead \in [Chain -> Nat]
  /\ \A c \in Chain : dead[c] > 1 => dead[c] <= MaxRetries
  /\ resting \subseteq Chain
  /\ nodes \subseteq Chain \X BOOLEAN \X {"agent", "recovery", "gc"}
  /\ saga \in [Chain -> SagaPCs]
  /\ tries \in [Chain -> Nat]
  /\ rec \in Job(RecPCs)
  /\ gc \in Job(GcPCs)
  /\ faults \in Nat
  /\ raced \subseteq Chain

Init ==
  /\ steps = {}
  /\ dead = [c \in Chain |-> 0]
  /\ resting = {}
  /\ nodes = {}
  /\ saga = [c \in Chain |-> "new"]
  /\ tries = [c \in Chain |-> 0]
  /\ rec = IdleJob
  /\ gc = IdleJob
  /\ faults = 0
  /\ raced = {}

-----------------------------------------------------------------------------
(* The statements the three have in common.                                *)

InGraph(c) == \E n \in nodes : n[1] = c

Of(c, labels) == {n \in nodes : n[1] = c /\ n[2] \in labels}

\* MERGE of a node with at least the given labels: rewrite the summary of
\* those that match, create one when none does.
Merge(c, labels, created, by) ==
  nodes' = IF Of(c, labels) = {}
             THEN nodes \cup {<<c, created, by>>}
             ELSE (nodes \ Of(c, labels)) \cup {<<c, n[2], by>> : n \in Of(c, labels)}

\* upsert_reasoning_chain merges a (:ReasoningChain:Node).
UpsertReasoningChain(c, by) == Merge(c, {TRUE}, TRUE, by)

\* The collector merges a (:ReasoningChain) and creates it without :Node.
GcMergeNode(c) == Merge(c, BOOLEAN, FALSE, "gc")

\* DELETE of the dead letter: its retry count and backoff go with it.
DropLetter(c) ==
  /\ dead' = [dead EXCEPT ![c] = 0]
  /\ resting' = resting \ {c}

\* One more statement raises or one more run dies.
Fault == faults < MaxFaults /\ faults' = faults + 1

-----------------------------------------------------------------------------
(* The writers: Postgres first, then Memgraph; write_chain compensates.     *)

At(c, pc) == saga[c] = pc
To(c, pc) == saga' = [saga EXCEPT ![c] = pc]

UpsertChainSteps(c) ==
  /\ At(c, "new")
  /\ steps' = steps \cup {c}
  /\ To(c, "project")
  /\ UNCHANGED <<dead, resting, nodes, tries, rec, gc, faults, raced>>

\* Outside the try block: write_chain raises, nothing is compensated.  (When
\* the insert of trace_reasoning raises, it gives up the chain as well.)
UpsertChainStepsFails(c) ==
  /\ At(c, "new")
  /\ Fault
  /\ steps' \in {steps, steps \cup {c}}
  /\ To(c, "failed")
  /\ UNCHANGED <<dead, resting, nodes, tries, rec, gc, raced>>

Project(c) ==
  /\ At(c, "project")
  /\ UpsertReasoningChain(c, "agent")
  /\ To(c, "acked")
  /\ UNCHANGED <<steps, dead, resting, tries, rec, gc, faults, raced>>

\* Mutant: the failed projection is dead-lettered at once and then retried.
ProjectFailsRetried(c) ==
  /\ At(c, "project")
  /\ Fault
  /\ dead' = [dead EXCEPT ![c] = 1]
  /\ UNCHANGED <<steps, resting, nodes, saga, tries, rec, gc, raced>>

ProjectFails(c) ==
  /\ At(c, "project")
  /\ Fault
  /\ UpsertReasoningChain(c, "agent") \/ UNCHANGED nodes
  /\ To(c, "compensate")
  /\ UNCHANGED <<steps, dead, resting, tries, rec, gc, raced>>

Compensate(c) ==
  /\ At(c, "compensate")
  /\ steps' = steps \ {c}
  /\ To(c, "failed")
  /\ UNCHANGED <<dead, resting, nodes, tries, rec, gc, faults, raced>>

CompensateFails(c) ==
  /\ At(c, "compensate")
  /\ Fault
  /\ steps' \in {steps, steps \ {c}}
  /\ tries' = [tries EXCEPT ![c] = @ + 1]
  /\ To(c, IF tries[c] + 1 = CompRetries THEN "dead_letter" ELSE "compensate")
  /\ UNCHANGED <<dead, resting, nodes, rec, gc, raced>>

AddOrphanedChain(c) ==
  /\ At(c, "dead_letter")
  /\ dead' = [dead EXCEPT ![c] = @ + 1]
  /\ To(c, "failed")
  /\ UNCHANGED <<steps, resting, nodes, tries, rec, gc, faults, raced>>

AddOrphanedChainFails(c) ==
  /\ At(c, "dead_letter")
  /\ Fault
  /\ dead' \in {dead, [dead EXCEPT ![c] = @ + 1]}
  /\ To(c, "failed")
  /\ UNCHANGED <<steps, resting, nodes, tries, rec, gc, raced>>

\* trace_reasoning: insert the steps, then create the node.  A failure of the
\* second is logged and nothing else: no compensation and no dead letter.
TraceSteps(c) ==
  /\ At(c, "new")
  /\ steps' = steps \cup {c}
  /\ To(c, "trace")
  /\ UNCHANGED <<dead, resting, nodes, tries, rec, gc, faults, raced>>

TraceNode(c) ==
  /\ At(c, "trace")
  /\ nodes' = nodes \cup {<<c, TRUE, "agent">>}
  /\ To(c, "acked")
  /\ UNCHANGED <<steps, dead, resting, tries, rec, gc, faults, raced>>

TraceNodeFails(c) ==
  /\ At(c, "trace")
  /\ Fault
  /\ nodes' \in {nodes, nodes \cup {<<c, TRUE, "agent">>}}
  /\ To(c, "failed")
  /\ UNCHANGED <<steps, dead, resting, tries, rec, gc, raced>>

\* The writer is cancelled or the process dies between two statements.
WriterDies(c) ==
  /\ saga[c] \in {"project", "trace", "compensate", "dead_letter"}
  /\ Fault
  /\ To(c, "failed")
  /\ UNCHANGED <<steps, dead, resting, nodes, tries, rec, gc, raced>>

Writer(c) ==
  \/ Project(c) \/ ProjectFails(c)
  \/ Compensate(c) \/ CompensateFails(c)
  \/ AddOrphanedChain(c) \/ AddOrphanedChainFails(c)
  \/ TraceNode(c) \/ TraceNodeFails(c)

-----------------------------------------------------------------------------
(* orphan_recovery: retry the dead letters one by one from a list fetched   *)
(* at the start of the run.                                                 *)

RecTo(pc) == rec' = [rec EXCEPT !.pc = pc]

RecNext ==
  LET rest == rec.todo \ {rec.cur} IN
  rec' = IF rest = {} THEN IdleJob ELSE [pc |-> "fetch", todo |-> rest, cur |-> NoChain]

FetchOrphanedChains ==
  LET eligible == {c \in Chain : dead[c] \in 1 .. MaxRetries - 1 /\ c \notin resting} IN
  /\ rec.pc = "idle" /\ eligible # {}
  /\ rec' = [pc |-> "fetch", todo |-> eligible, cur |-> NoChain]
  /\ UNCHANGED <<steps, dead, resting, nodes, saga, tries, gc, faults, raced>>

\* Raises when the steps are gone, which counts as a failed retry.
FetchChainFromPostgres ==
  /\ rec.pc = "fetch"
  /\ \E c \in rec.todo :
       rec' = [rec EXCEPT !.pc = IF c \in steps THEN "upsert" ELSE "increment", !.cur = c]
  /\ UNCHANGED <<steps, dead, resting, nodes, saga, tries, gc, faults, raced>>

RecoverUpsert ==
  /\ rec.pc = "upsert"
  /\ UpsertReasoningChain(rec.cur, "recovery")
  /\ RecTo("delete")
  /\ UNCHANGED <<steps, dead, resting, saga, tries, gc, faults, raced>>

DeleteOrphan ==
  /\ rec.pc = "delete"
  /\ DropLetter(rec.cur)
  /\ RecNext
  /\ UNCHANGED <<steps, nodes, saga, tries, gc, faults, raced>>

\* UPDATE: no effect when the row has been removed meanwhile.
IncrementRetry ==
  LET c == rec.cur IN
  /\ rec.pc = "increment"
  /\ dead' = [dead EXCEPT ![c] = IF @ = 0 THEN 0 ELSE @ + 1]
  /\ resting' = IF dead[c] = 0 THEN resting ELSE resting \cup {c}
  /\ RecNext
  /\ UNCHANGED <<steps, nodes, saga, tries, gc, faults, raced>>

\* A statement inside the try block raises: the retry is counted as failed.
FetchChainFails ==
  /\ rec.pc = "fetch"
  /\ Fault
  /\ \E c \in rec.todo : rec' = [rec EXCEPT !.pc = "increment", !.cur = c]
  /\ UNCHANGED <<steps, dead, resting, nodes, saga, tries, gc, raced>>

RecoverUpsertFails ==
  /\ rec.pc = "upsert"
  /\ Fault
  /\ UpsertReasoningChain(rec.cur, "recovery") \/ UNCHANGED nodes
  /\ RecTo("increment")
  /\ UNCHANGED <<steps, dead, resting, saga, tries, gc, raced>>

DeleteOrphanFails ==
  /\ rec.pc = "delete"
  /\ Fault
  /\ \/ UNCHANGED <<dead, resting>>
     \/ DropLetter(rec.cur)
  /\ RecTo("increment")
  /\ UNCHANGED <<steps, nodes, saga, tries, gc, raced>>

\* increment_retry raises out of the handler, or the run is killed.
RecoveryDies ==
  /\ rec.pc # "idle"
  /\ Fault
  /\ rec' = IdleJob
  /\ UNCHANGED <<steps, dead, resting, nodes, saga, tries, gc, raced>>

BackoffElapses(c) ==
  /\ c \in resting
  /\ resting' = resting \ {c}
  /\ UNCHANGED <<steps, dead, nodes, saga, tries, rec, gc, faults, raced>>

RecoveryRun ==
  \/ FetchChainFromPostgres \/ RecoverUpsert \/ DeleteOrphan \/ IncrementRetry
  \/ FetchChainFails \/ RecoverUpsertFails \/ DeleteOrphanFails
Recovery == FetchOrphanedChains \/ RecoveryRun

-----------------------------------------------------------------------------
(* reconciliation_gc, phase 1: the dead letters recovery could not help.    *)

GcTo(pc) == gc' = [gc EXCEPT !.pc = pc]

GcNext ==
  LET rest == gc.todo \ {gc.cur} IN
  gc' = [pc |-> IF rest = {} THEN "scan" ELSE "fetch", todo |-> rest, cur |-> NoChain]

\* SELECT ... LIMIT without ORDER BY: any rows, as many as the limit allows.
Limited(rows) ==
  {batch \in SUBSET rows :
     IF Cardinality(rows) <= BatchLimit THEN batch = rows
                                        ELSE Cardinality(batch) = BatchLimit}

\* Mutant: the threshold is the retry limit of the recovery job.
GcStartExhausted ==
  /\ gc.pc = "idle"
  /\ \E rows \in Limited({c \in Chain : dead[c] > MaxRetries}) :
       gc' = [pc |-> IF rows = {} THEN "scan" ELSE "fetch", todo |-> rows, cur |-> NoChain]
  /\ UNCHANGED <<steps, dead, resting, nodes, saga, tries, rec, faults, raced>>

GcStart ==
  /\ gc.pc = "idle"
  /\ \E rows \in Limited({c \in Chain : dead[c] > GcThreshold}) :
       gc' = [pc |-> IF rows = {} THEN "scan" ELSE "fetch", todo |-> rows, cur |-> NoChain]
  /\ UNCHANGED <<steps, dead, resting, nodes, saga, tries, rec, faults, raced>>

GcFetchSteps ==
  /\ gc.pc = "fetch"
  /\ \E c \in gc.todo :
       gc' = [gc EXCEPT !.pc = IF c \in steps THEN "merge" ELSE "purge", !.cur = c]
  /\ UNCHANGED <<steps, dead, resting, nodes, saga, tries, rec, faults, raced>>

\* The dead letter goes: nothing to reconcile, or reconciled.
GcRemoveOrphan ==
  /\ gc.pc \in {"purge", "clear"}
  /\ DropLetter(gc.cur)
  /\ GcNext
  /\ UNCHANGED <<steps, nodes, saga, tries, rec, faults, raced>>

GcMerge ==
  /\ gc.pc = "merge"
  /\ GcMergeNode(gc.cur)
  /\ GcTo("clear")
  /\ UNCHANGED <<steps, dead, resting, saga, tries, rec, faults, raced>>

\* The except branch covers the merge and the removal of the dead letter.
GcMergeFails ==
  /\ gc.pc = "merge"
  /\ Fault
  /\ GcMergeNode(gc.cur) \/ UNCHANGED nodes
  /\ GcTo("archive")
  /\ UNCHANGED <<steps, dead, resting, saga, tries, rec, raced>>

GcRemoveOrphanFails ==
  /\ gc.pc = "clear"
  /\ Fault
  /\ \/ UNCHANGED <<dead, resting>>
     \/ DropLetter(gc.cur)
  /\ GcTo("archive")
  /\ UNCHANGED <<steps, nodes, saga, tries, rec, raced>>

\* Mutant: only the dead letter is deleted, the steps stay.
GcArchiveRowOnly ==
  /\ gc.pc = "archive"
  /\ DropLetter(gc.cur)
  /\ GcNext
  /\ UNCHANGED <<steps, nodes, saga, tries, rec, faults, raced>>

\* One transaction: the dead letter and the steps.
GcArchive ==
  /\ gc.pc = "archive"
  /\ DropLetter(gc.cur)
  /\ steps' = steps \ {gc.cur}
  /\ GcNext
  /\ UNCHANGED <<nodes, saga, tries, rec, faults, raced>>

-----------------------------------------------------------------------------
(* Phase 2: steps without a node, found by a query on each store.           *)

GcScanDangling ==
  /\ gc.pc = "scan"
  /\ \E rows \in Limited({c \in steps : dead[c] = 0}) :
       /\ gc' = IF rows = {} THEN IdleJob
                ELSE [pc |-> "check", todo |-> rows, cur |-> NoChain]
       /\ raced' = raced \cup {c \in rows : saga[c] \notin {"acked", "failed"}}
  /\ UNCHANGED <<steps, dead, resting, nodes, saga, tries, rec, faults>>

\* Mutant: the chains the graph knows are deleted, not the others.
GcCheckInverted ==
  LET gone == {c \in gc.todo : InGraph(c)} IN
  /\ gc.pc = "check"
  /\ gc' = IF gone = {} THEN IdleJob ELSE [gc EXCEPT !.pc = "delete", !.todo = gone]
  /\ UNCHANGED <<steps, dead, resting, nodes, saga, tries, rec, faults, raced>>

GcCheckDangling ==
  LET dangling == {c \in gc.todo : ~InGraph(c)} IN
  /\ gc.pc = "check"
  /\ gc' = IF dangling = {} THEN IdleJob
           ELSE [gc EXCEPT !.pc = "delete", !.todo = dangling]
  /\ UNCHANGED <<steps, dead, resting, nodes, saga, tries, rec, faults, raced>>

GcDeleteDangling ==
  /\ gc.pc = "delete"
  /\ steps' = steps \ gc.todo
  /\ gc' = IdleJob
  /\ UNCHANGED <<dead, resting, nodes, saga, tries, rec, faults, raced>>

\* Any other statement raises, or the run is killed: the pass ends here.  (One
\* that took effect first is that statement's action followed by this one.)
GcDies ==
  /\ gc.pc # "idle"
  /\ Fault
  /\ gc' = IdleJob
  /\ UNCHANGED <<steps, dead, resting, nodes, saga, tries, rec, raced>>

GcPhase1 ==
  \/ GcFetchSteps \/ GcRemoveOrphan \/ GcMerge
  \/ GcMergeFails \/ GcRemoveOrphanFails \/ GcArchive
GcPhase2 == GcScanDangling \/ GcCheckDangling \/ GcDeleteDangling
GcRun == GcPhase1 \/ GcPhase2
Collector == GcStart \/ GcRun

-----------------------------------------------------------------------------

Next ==
  \/ \E c \in Chain : \/ UpsertChainSteps(c) \/ UpsertChainStepsFails(c)
                      \/ TraceSteps(c) \/ Writer(c) \/ WriterDies(c) \/ BackoffElapses(c)
  \/ Recovery \/ RecoveryDies
  \/ Collector \/ GcDies

\* Writers run to their end, a run that has started goes on, and time passes.
\* Nobody has to write a chain, and no run has to start: the schedules of both
\* jobs have no default_status, so Dagster keeps them stopped until somebody
\* turns them on.
Fairness ==
  /\ \A c \in Chain : WF_vars(Writer(c)) /\ WF_vars(BackoffElapses(c))
  /\ WF_vars(RecoveryRun)
  /\ WF_vars(GcRun)

Spec == Init /\ [][Next]_vars /\ Fairness

-----------------------------------------------------------------------------
(* Properties.                                                             *)

\* The steps behind a summary the graph shows are never deleted, by the writer
\* or by either repair job, whatever faults they meet, except in three ways:
\* the writer compensates because the projection raised (it may have taken
\* effect), the collector archives a chain whose merge or removal raised, or a
\* dangling scan had read the row before the write was over.  In particular a
\* chain one job has just recovered is safe from the old list of the other.
SummarizedStepsKept ==
  [][\A c \in steps \ steps' :
       InGraph(c) => \/ saga[c] = "compensate"
                     \/ gc.pc = "archive" /\ c = gc.cur
                     \/ c \in raced]_vars

\* The summary of a chain whose write has succeeded is the writer's own:
\* neither job replaces it by the one it rebuilds from the steps, which lacks
\* the evidence the writer named and, from recovery, every premise and outcome.
AckedSummaryKept ==
  \A c \in Chain : saga[c] = "acked" => Of(c, BOOLEAN) = {<<c, TRUE, "agent">>}

\* No dead letter disappears and leaves steps nobody can reach: when its row
\* goes, the chain is in the graph or its steps are gone as well.
NoSilentDrop ==
  [][\A c \in Chain : dead[c] # 0 /\ dead'[c] = 0 => InGraph(c)' \/ c \notin steps']_vars

\* The premise of the next property: both schedules have been turned on, so
\* neither job waits for ever to start its next run.
SchedulesOn == WF_vars(FetchOrphanedChains) /\ WF_vars(GcStart)

\* The chains in the graph fill the dangling scan, whose LIMIT has no ORDER BY.
Crowded == Cardinality({c \in steps : InGraph(c)}) >= BatchLimit

\* While the schedules are on and once the faults stop, what failed writes left
\* in Postgres settles for good: no dead letter remains, and the steps of a
\* failed write have a node, unless the rows of complete chains fill the scan
\* and starve those without one.  Nothing is said of a node without steps:
\* neither job looks for one.
RowsSettle ==
  SchedulesOn =>
    \A c \in Chain :
      <>[](/\ dead[c] = 0
           /\ c \in steps /\ saga[c] = "failed" => InGraph(c) \/ Crowded)

=============================================================================
