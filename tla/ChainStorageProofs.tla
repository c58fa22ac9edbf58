------------------------- MODULE ChainStorageProofs -------------------------
(***************************************************************************)
(* Proofs about ChainStorage for any number of chains, faults and retries  *)
(* and for every batch limit of the collector.                             *)
(***************************************************************************)
EXTENDS ChainStorage, TLAPS

\* Only a write_chain that has given up leaves a dead letter.
LettersInv == \A c \in Chain : dead[c] > 0 => saga[c] = "failed"

\* What the recovery job knows of the list it fetched at the start: a letter
\* the collector has dropped meanwhile leaves a node or no steps.
RecInv ==
  /\ \A c \in rec.todo : saga[c] = "failed" /\ dead[c] < MaxRetries
  /\ \A c \in rec.todo : dead[c] = 0 => InGraph(c) \/ c \notin steps
  /\ rec.pc \in {"upsert", "delete", "increment"} => rec.cur \in rec.todo
  /\ rec.pc = "delete" => InGraph(rec.cur)

\* What the collector knows of the rows of its two selects.
GcInv ==
  /\ gc.pc \in {"fetch", "purge", "merge", "clear", "archive"} =>
       \A c \in gc.todo : saga[c] = "failed"
  /\ gc.pc \in {"purge", "merge", "clear", "archive"} => gc.cur \in gc.todo
  /\ gc.pc = "clear" => InGraph(gc.cur)
  /\ gc.pc = "purge" => gc.cur \notin steps
  /\ gc.pc \in {"check", "delete"} =>
       \A c \in gc.todo :
         /\ saga[c] # "new"
         /\ c \notin raced => saga[c] \in {"acked", "failed"} /\ dead[c] = 0
  /\ gc.pc = "delete" =>
       \A c \in gc.todo : c \in raced \/ ~InGraph(c) \/ c \notin steps

\* Steps are there from the first statement of a writer on, unless raced.
StepsInv ==
  \A c \in Chain :
    /\ saga[c] = "new" => c \notin steps
    /\ saga[c] \in {"project", "trace", "acked"} => c \in steps \cup raced

\* Nobody but the writer creates the node of a chain that is being written.
NodesInv ==
  \A c \in Chain :
    /\ saga[c] \in {"new", "project", "trace"} => ~InGraph(c)
    /\ saga[c] = "acked" => Of(c, BOOLEAN) = {<<c, TRUE, "agent">>}

IInv == TypeOK /\ LettersInv /\ RecInv /\ GcInv /\ StepsInv /\ NodesInv

-----------------------------------------------------------------------------
(* The graph.                                                              *)

\* A step that writes nothing to Memgraph changes no chain's nodes.
LEMMA GraphSame ==
  ASSUME nodes' = nodes
  PROVE  \A c : /\ InGraph(c)' <=> InGraph(c)
                /\ Of(c, BOOLEAN)' = Of(c, BOOLEAN)
  BY DEF InGraph, Of

\* A created node adds to the nodes of its chain and of no other.
LEMMA CreateEffect ==
  ASSUME TypeOK, NEW c \in Chain, NEW created \in BOOLEAN,
         NEW by \in {"agent", "recovery", "gc"}, nodes' = nodes \cup {<<c, created, by>>}
  PROVE  /\ nodes' \subseteq Chain \X BOOLEAN \X {"agent", "recovery", "gc"}
         /\ InGraph(c)'
         /\ \A d : InGraph(d) => InGraph(d)'
         /\ \A d \in Chain \ {c} : /\ InGraph(d)' <=> InGraph(d)
                                  /\ Of(d, BOOLEAN)' = Of(d, BOOLEAN)
<1>1. \A n \in nodes : n \in Chain \X BOOLEAN \X {"agent", "recovery", "gc"}
  BY DEF TypeOK
<1>2. nodes' \subseteq Chain \X BOOLEAN \X {"agent", "recovery", "gc"}
  BY <1>1
<1>3. \A d \in Chain \ {c} : Of(d, BOOLEAN)' = Of(d, BOOLEAN)
  BY DEF Of
<1>4. <<c, created, by>> \in nodes' /\ <<c, created, by>>[1] = c
  OBVIOUS
<1>5. InGraph(c)'
  BY <1>4 DEF InGraph
<1>6. \A d : InGraph(d) => InGraph(d)'
  BY DEF InGraph
<1>7. \A d \in Chain \ {c} : InGraph(d)' <=> InGraph(d)
  BY DEF InGraph
<1> QED
  BY <1>2, <1>3, <1>5, <1>6, <1>7

\* A merge gives its chain a node, takes no node away and leaves the nodes of
\* the other chains alone.
LEMMA MergeEffect ==
  ASSUME TypeOK, NEW c \in Chain, NEW labels \in SUBSET BOOLEAN,
         NEW created \in BOOLEAN, NEW by \in {"agent", "recovery", "gc"},
         Merge(c, labels, created, by)
  PROVE  /\ nodes' \subseteq Chain \X BOOLEAN \X {"agent", "recovery", "gc"}
         /\ InGraph(c)'
         /\ \A d : InGraph(d) => InGraph(d)'
         /\ \A d \in Chain \ {c} : /\ InGraph(d)' <=> InGraph(d)
                                  /\ Of(d, BOOLEAN)' = Of(d, BOOLEAN)
<1>1. \A n \in nodes : n \in Chain \X BOOLEAN \X {"agent", "recovery", "gc"}
  BY DEF TypeOK
<1>2. CASE Of(c, labels) = {}
  BY <1>2, CreateEffect DEF Merge
<1>3. CASE Of(c, labels) # {}
  <2> DEFINE old == Of(c, labels)
             new == {<<c, n[2], by>> : n \in old}
  <2>1. nodes' = (nodes \ old) \cup new
    BY <1>3 DEF Merge
  <2>2. \A n \in old : n \in nodes /\ n[1] = c /\ n[2] \in BOOLEAN
    BY <1>1 DEF Of
  <2>3. \A n \in new : n \in Chain \X BOOLEAN \X {"agent", "recovery", "gc"} /\ n[1] = c
    BY <2>2
  <2>4. PICK n \in old : TRUE
    BY <1>3
  <2>5. <<c, n[2], by>> \in new
    BY <2>4
  <2>6. InGraph(c)'
    BY <2>1, <2>3, <2>5 DEF InGraph
  <2> HIDE DEF old, new
  <2>7. \A d \in Chain \ {c} : {m \in nodes' : m[1] = d} = {m \in nodes : m[1] = d}
    BY <2>1, <2>2, <2>3
  <2>8. \A d \in Chain \ {c} : Of(d, BOOLEAN)' = Of(d, BOOLEAN)
    BY <2>7 DEF Of
  <2>9. \A d : InGraph(d) => InGraph(d)'
    <3> SUFFICES ASSUME NEW d, InGraph(d) PROVE InGraph(d)'
      OBVIOUS
    <3>1. CASE d = c
      BY <3>1, <2>6
    <3>2. CASE d # c
      BY <3>2, <2>1, <2>2 DEF InGraph
    <3> QED
      BY <3>1, <3>2
  <2>10. \A d \in Chain \ {c} : InGraph(d)' <=> InGraph(d)
    BY <2>7 DEF InGraph
  <2> QED
    BY <1>1, <2>1, <2>3, <2>6, <2>8, <2>9, <2>10
<1> QED
  BY <1>2, <1>3

\* The merge of upsert_reasoning_chain.
LEMMA UpsertEffect ==
  ASSUME TypeOK, NEW c \in Chain, NEW by \in {"agent", "recovery", "gc"},
         UpsertReasoningChain(c, by)
  PROVE  /\ nodes' \subseteq Chain \X BOOLEAN \X {"agent", "recovery", "gc"}
         /\ InGraph(c)'
         /\ \A d : InGraph(d) => InGraph(d)'
         /\ \A d \in Chain \ {c} : /\ InGraph(d)' <=> InGraph(d)
                                  /\ Of(d, BOOLEAN)' = Of(d, BOOLEAN)
<1>1. {TRUE} \in SUBSET BOOLEAN /\ BOOLEAN \in SUBSET BOOLEAN
  OBVIOUS
<1> QED
  BY <1>1, MergeEffect DEF UpsertReasoningChain

\* The merge of the collector.
LEMMA GcMergeEffect ==
  ASSUME TypeOK, NEW c \in Chain, GcMergeNode(c)
  PROVE  /\ nodes' \subseteq Chain \X BOOLEAN \X {"agent", "recovery", "gc"}
         /\ InGraph(c)'
         /\ \A d : InGraph(d) => InGraph(d)'
         /\ \A d \in Chain \ {c} : /\ InGraph(d)' <=> InGraph(d)
                                  /\ Of(d, BOOLEAN)' = Of(d, BOOLEAN)
<1>1. {TRUE} \in SUBSET BOOLEAN /\ BOOLEAN \in SUBSET BOOLEAN
  OBVIOUS
<1> QED
  BY <1>1, MergeEffect DEF GcMergeNode

-----------------------------------------------------------------------------
(* Every action keeps the inductive invariant.                             *)

\* The first statement of write_chain: the chain has steps and no node yet.
LEMMA UpsertChainStepsKeeps ==
  ASSUME IInv, NEW c \in Chain, UpsertChainSteps(c)
  PROVE  IInv'
<1> USE DEF UpsertChainSteps, At, To
<1>1. TypeOK /\ LettersInv /\ RecInv /\ GcInv /\ StepsInv /\ NodesInv
  BY DEF IInv
<1>2. \A d : (InGraph(d)' <=> InGraph(d)) /\ Of(d, BOOLEAN)' = Of(d, BOOLEAN)
  BY GraphSame
<1>3. TypeOK'
  BY <1>1 DEF TypeOK, SagaPCs
<1>4. LettersInv'
  BY <1>1 DEF LettersInv
<1>5. RecInv'
  BY <1>1, <1>2 DEF RecInv
<1>6. GcInv'
  BY <1>1, <1>2 DEF GcInv
<1>7. StepsInv'
  BY <1>1 DEF TypeOK, StepsInv
<1>8. NodesInv'
  BY <1>1, <1>2 DEF TypeOK, NodesInv
<1> QED
  BY <1>3, <1>4, <1>5, <1>6, <1>7, <1>8 DEF IInv

\* The first statement raises: the steps may be there, the write is over.
LEMMA UpsertChainStepsFailsKeeps ==
  ASSUME IInv, NEW c \in Chain, UpsertChainStepsFails(c)
  PROVE  IInv'
<1> USE DEF UpsertChainStepsFails, At, To, Fault
<1>1. TypeOK /\ LettersInv /\ RecInv /\ GcInv /\ StepsInv /\ NodesInv
  BY DEF IInv
<1>2. \A d : (InGraph(d)' <=> InGraph(d)) /\ Of(d, BOOLEAN)' = Of(d, BOOLEAN)
  BY GraphSame
<1>3. TypeOK'
  BY <1>1 DEF TypeOK, SagaPCs
<1>4. LettersInv'
  BY <1>1 DEF LettersInv
<1>5. RecInv'
  BY <1>1, <1>2 DEF RecInv
<1>6. GcInv'
  BY <1>1, <1>2 DEF GcInv
<1>7. StepsInv'
  BY <1>1 DEF TypeOK, StepsInv
<1>8. NodesInv'
  BY <1>1, <1>2 DEF TypeOK, NodesInv
<1> QED
  BY <1>3, <1>4, <1>5, <1>6, <1>7, <1>8 DEF IInv

\* The projection succeeds: the chain had no node, so exactly one is created.
LEMMA ProjectKeeps ==
  ASSUME IInv, NEW c \in Chain, Project(c)
  PROVE  IInv'
<1> USE DEF Project, At, To
<1>1. TypeOK /\ LettersInv /\ RecInv /\ GcInv /\ StepsInv /\ NodesInv
  BY DEF IInv
<1>2. /\ nodes' \subseteq Chain \X BOOLEAN \X {"agent", "recovery", "gc"}
      /\ \A d : InGraph(d) => InGraph(d)'
      /\ \A d \in Chain \ {c} : /\ InGraph(d)' <=> InGraph(d)
                                /\ Of(d, BOOLEAN)' = Of(d, BOOLEAN)
  BY <1>1, GraphSame, UpsertEffect
<1>3. Of(c, BOOLEAN)' = {<<c, TRUE, "agent">>}
  <2>1. \A n \in nodes : n[1] # c
    BY <1>1 DEF NodesInv, InGraph
  <2>2. nodes' = nodes \cup {<<c, TRUE, "agent">>}
    BY <2>1 DEF Of, Merge, UpsertReasoningChain
  <2>3. <<c, TRUE, "agent">>[1] = c /\ <<c, TRUE, "agent">>[2] \in BOOLEAN
    OBVIOUS
  <2> QED
    BY <2>1, <2>2, <2>3 DEF Of
<1>4. TypeOK'
  BY <1>1, <1>2, <1>3 DEF TypeOK, SagaPCs
<1>5. LettersInv'
  BY <1>1, <1>3 DEF LettersInv
<1>6. RecInv'
  BY <1>1, <1>2, <1>3 DEF RecInv
<1>7. GcInv'
  BY <1>1, <1>2, <1>3 DEF TypeOK, Job, GcInv
<1>8. StepsInv'
  BY <1>1, <1>3 DEF StepsInv
<1>9. NodesInv'
  BY <1>1, <1>2, <1>3 DEF TypeOK, NodesInv
<1> QED
  BY <1>4, <1>5, <1>6, <1>7, <1>8, <1>9 DEF IInv

\* The projection raises, with or without a node: no longer acknowledged.
LEMMA ProjectFailsKeeps ==
  ASSUME IInv, NEW c \in Chain, ProjectFails(c)
  PROVE  IInv'
<1> USE DEF ProjectFails, At, To, Fault
<1>1. TypeOK /\ LettersInv /\ RecInv /\ GcInv /\ StepsInv /\ NodesInv
  BY DEF IInv
<1>2. /\ nodes' \subseteq Chain \X BOOLEAN \X {"agent", "recovery", "gc"}
      /\ \A d : InGraph(d) => InGraph(d)'
      /\ \A d \in Chain \ {c} : /\ InGraph(d)' <=> InGraph(d)
                                /\ Of(d, BOOLEAN)' = Of(d, BOOLEAN)
  BY <1>1, GraphSame, UpsertEffect DEF TypeOK
<1>3. TypeOK'
  BY <1>1, <1>2 DEF TypeOK, SagaPCs
<1>4. LettersInv'
  BY <1>1 DEF LettersInv
<1>5. RecInv'
  BY <1>1, <1>2 DEF RecInv
<1>6. GcInv'
  BY <1>1, <1>2 DEF TypeOK, Job, GcInv
<1>7. StepsInv'
  BY <1>1 DEF StepsInv
<1>8. NodesInv'
  BY <1>1, <1>2 DEF TypeOK, NodesInv
<1> QED
  BY <1>3, <1>4, <1>5, <1>6, <1>7, <1>8 DEF IInv

\* The compensation deletes the steps of a chain that is not acknowledged.
LEMMA CompensateKeeps ==
  ASSUME IInv, NEW c \in Chain, Compensate(c)
  PROVE  IInv'
<1> USE DEF Compensate, At, To
<1>1. TypeOK /\ LettersInv /\ RecInv /\ GcInv /\ StepsInv /\ NodesInv
  BY DEF IInv
<1>2. \A d : (InGraph(d)' <=> InGraph(d)) /\ Of(d, BOOLEAN)' = Of(d, BOOLEAN)
  BY GraphSame
<1>3. TypeOK'
  BY <1>1 DEF TypeOK, SagaPCs
<1>4. LettersInv'
  BY <1>1 DEF LettersInv
<1>5. RecInv'
  BY <1>1, <1>2 DEF RecInv
<1>6. GcInv'
  BY <1>1, <1>2 DEF GcInv
<1>7. StepsInv'
  BY <1>1 DEF StepsInv
<1>8. NodesInv'
  BY <1>1, <1>2 DEF TypeOK, NodesInv
<1> QED
  BY <1>3, <1>4, <1>5, <1>6, <1>7, <1>8 DEF IInv

\* A compensation attempt raises, with or without effect.
LEMMA CompensateFailsKeeps ==
  ASSUME IInv, NEW c \in Chain, CompensateFails(c)
  PROVE  IInv'
<1> USE DEF CompensateFails, At, To, Fault
<1>1. TypeOK /\ LettersInv /\ RecInv /\ GcInv /\ StepsInv /\ NodesInv
  BY DEF IInv
<1>2. \A d : (InGraph(d)' <=> InGraph(d)) /\ Of(d, BOOLEAN)' = Of(d, BOOLEAN)
  BY GraphSame
<1>3. TypeOK'
  BY <1>1 DEF TypeOK, SagaPCs
<1>4. LettersInv'
  BY <1>1 DEF LettersInv
<1>5. RecInv'
  BY <1>1, <1>2 DEF RecInv
<1>6. GcInv'
  BY <1>1, <1>2 DEF GcInv
<1>7. StepsInv'
  BY <1>1 DEF StepsInv
<1>8. NodesInv'
  BY <1>1, <1>2 DEF TypeOK, NodesInv
<1> QED
  BY <1>3, <1>4, <1>5, <1>6, <1>7, <1>8 DEF IInv

\* The dead letter starts at one: no job knows the chain before.
LEMMA AddOrphanedChainKeeps ==
  ASSUME IInv, NEW c \in Chain, AddOrphanedChain(c)
  PROVE  IInv'
<1> USE DEF AddOrphanedChain, At, To
<1>1. TypeOK /\ LettersInv /\ RecInv /\ GcInv /\ StepsInv /\ NodesInv
  BY DEF IInv
<1>2. \A d : (InGraph(d)' <=> InGraph(d)) /\ Of(d, BOOLEAN)' = Of(d, BOOLEAN)
  BY GraphSame
<1>3. TypeOK'
  BY <1>1 DEF TypeOK, SagaPCs, LettersInv
<1>4. LettersInv'
  BY <1>1 DEF TypeOK, LettersInv
<1>5. RecInv'
  BY <1>1, <1>2 DEF RecInv
<1>6. GcInv'
  BY <1>1, <1>2 DEF GcInv
<1>7. StepsInv'
  BY <1>1 DEF StepsInv
<1>8. NodesInv'
  BY <1>1, <1>2 DEF TypeOK, NodesInv
<1> QED
  BY <1>3, <1>4, <1>5, <1>6, <1>7, <1>8 DEF IInv

\* The dead letter may exist although writing it raised.
LEMMA AddOrphanedChainFailsKeeps ==
  ASSUME IInv, NEW c \in Chain, AddOrphanedChainFails(c)
  PROVE  IInv'
<1> USE DEF AddOrphanedChainFails, At, To, Fault
<1>1. TypeOK /\ LettersInv /\ RecInv /\ GcInv /\ StepsInv /\ NodesInv
  BY DEF IInv
<1>2. \A d : (InGraph(d)' <=> InGraph(d)) /\ Of(d, BOOLEAN)' = Of(d, BOOLEAN)
  BY GraphSame
<1>3. TypeOK'
  BY <1>1 DEF TypeOK, SagaPCs, LettersInv
<1>4. LettersInv'
  BY <1>1 DEF TypeOK, LettersInv
<1>5. RecInv'
  BY <1>1, <1>2 DEF TypeOK, RecInv, Job
<1>6. GcInv'
  BY <1>1, <1>2 DEF TypeOK, Job, GcInv
<1>7. StepsInv'
  BY <1>1 DEF StepsInv
<1>8. NodesInv'
  BY <1>1, <1>2 DEF TypeOK, NodesInv
<1> QED
  BY <1>3, <1>4, <1>5, <1>6, <1>7, <1>8 DEF IInv

\* The first statement of trace_reasoning: the chain has steps and no node yet.
LEMMA TraceStepsKeeps ==
  ASSUME IInv, NEW c \in Chain, TraceSteps(c)
  PROVE  IInv'
<1> USE DEF TraceSteps, At, To
<1>1. TypeOK /\ LettersInv /\ RecInv /\ GcInv /\ StepsInv /\ NodesInv
  BY DEF IInv
<1>2. \A d : (InGraph(d)' <=> InGraph(d)) /\ Of(d, BOOLEAN)' = Of(d, BOOLEAN)
  BY GraphSame
<1>3. TypeOK'
  BY <1>1 DEF TypeOK, SagaPCs
<1>4. LettersInv'
  BY <1>1 DEF LettersInv
<1>5. RecInv'
  BY <1>1, <1>2 DEF RecInv
<1>6. GcInv'
  BY <1>1, <1>2 DEF GcInv
<1>7. StepsInv'
  BY <1>1 DEF TypeOK, StepsInv
<1>8. NodesInv'
  BY <1>1, <1>2 DEF TypeOK, NodesInv
<1> QED
  BY <1>3, <1>4, <1>5, <1>6, <1>7, <1>8 DEF IInv

\* trace_reasoning creates the node: the chain had no node, so exactly one is created.
LEMMA TraceNodeKeeps ==
  ASSUME IInv, NEW c \in Chain, TraceNode(c)
  PROVE  IInv'
<1> USE DEF TraceNode, At, To
<1>1. TypeOK /\ LettersInv /\ RecInv /\ GcInv /\ StepsInv /\ NodesInv
  BY DEF IInv
<1>2. /\ nodes' \subseteq Chain \X BOOLEAN \X {"agent", "recovery", "gc"}
      /\ \A d : InGraph(d) => InGraph(d)'
      /\ \A d \in Chain \ {c} : /\ InGraph(d)' <=> InGraph(d)
                                /\ Of(d, BOOLEAN)' = Of(d, BOOLEAN)
  BY <1>1, CreateEffect
<1>3. Of(c, BOOLEAN)' = {<<c, TRUE, "agent">>}
  <2>1. \A n \in nodes : n[1] # c
    BY <1>1 DEF NodesInv, InGraph
  <2>2. nodes' = nodes \cup {<<c, TRUE, "agent">>}
    OBVIOUS
  <2>3. <<c, TRUE, "agent">>[1] = c /\ <<c, TRUE, "agent">>[2] \in BOOLEAN
    OBVIOUS
  <2> QED
    BY <2>1, <2>2, <2>3 DEF Of
<1>4. TypeOK'
  BY <1>1, <1>2, <1>3 DEF TypeOK, SagaPCs
<1>5. LettersInv'
  BY <1>1, <1>3 DEF LettersInv
<1>6. RecInv'
  BY <1>1, <1>2, <1>3 DEF RecInv
<1>7. GcInv'
  BY <1>1, <1>2, <1>3 DEF TypeOK, Job, GcInv
<1>8. StepsInv'
  BY <1>1, <1>3 DEF StepsInv
<1>9. NodesInv'
  BY <1>1, <1>2, <1>3 DEF TypeOK, NodesInv
<1> QED
  BY <1>4, <1>5, <1>6, <1>7, <1>8, <1>9 DEF IInv

\* The creation raises, with or without a node: the trace is not acknowledged.
LEMMA TraceNodeFailsKeeps ==
  ASSUME IInv, NEW c \in Chain, TraceNodeFails(c)
  PROVE  IInv'
<1> USE DEF TraceNodeFails, At, To, Fault
<1>1. TypeOK /\ LettersInv /\ RecInv /\ GcInv /\ StepsInv /\ NodesInv
  BY DEF IInv
<1>2. /\ nodes' \subseteq Chain \X BOOLEAN \X {"agent", "recovery", "gc"}
      /\ \A d : InGraph(d) => InGraph(d)'
      /\ \A d \in Chain \ {c} : /\ InGraph(d)' <=> InGraph(d)
                                /\ Of(d, BOOLEAN)' = Of(d, BOOLEAN)
  BY <1>1, GraphSame, CreateEffect DEF TypeOK
<1>3. TypeOK'
  BY <1>1, <1>2 DEF TypeOK, SagaPCs
<1>4. LettersInv'
  BY <1>1 DEF LettersInv
<1>5. RecInv'
  BY <1>1, <1>2 DEF RecInv
<1>6. GcInv'
  BY <1>1, <1>2 DEF TypeOK, Job, GcInv
<1>7. StepsInv'
  BY <1>1 DEF StepsInv
<1>8. NodesInv'
  BY <1>1, <1>2 DEF TypeOK, NodesInv
<1> QED
  BY <1>3, <1>4, <1>5, <1>6, <1>7, <1>8 DEF IInv

\* The writer disappears between two statements.
LEMMA WriterDiesKeeps ==
  ASSUME IInv, NEW c \in Chain, WriterDies(c)
  PROVE  IInv'
<1> USE DEF WriterDies, To, Fault
<1>1. TypeOK /\ LettersInv /\ RecInv /\ GcInv /\ StepsInv /\ NodesInv
  BY DEF IInv
<1>2. \A d : (InGraph(d)' <=> InGraph(d)) /\ Of(d, BOOLEAN)' = Of(d, BOOLEAN)
  BY GraphSame
<1>3. TypeOK'
  BY <1>1 DEF TypeOK, SagaPCs
<1>4. LettersInv'
  BY <1>1 DEF LettersInv
<1>5. RecInv'
  BY <1>1, <1>2 DEF RecInv
<1>6. GcInv'
  BY <1>1, <1>2 DEF GcInv
<1>7. StepsInv'
  BY <1>1 DEF StepsInv
<1>8. NodesInv'
  BY <1>1, <1>2 DEF TypeOK, NodesInv
<1> QED
  BY <1>3, <1>4, <1>5, <1>6, <1>7, <1>8 DEF IInv

\* Time passes for a dead letter.
LEMMA BackoffElapsesKeeps ==
  ASSUME IInv, NEW c \in Chain, BackoffElapses(c)
  PROVE  IInv'
<1> USE DEF BackoffElapses
<1>1. TypeOK /\ LettersInv /\ RecInv /\ GcInv /\ StepsInv /\ NodesInv
  BY DEF IInv
<1>2. \A d : (InGraph(d)' <=> InGraph(d)) /\ Of(d, BOOLEAN)' = Of(d, BOOLEAN)
  BY GraphSame
<1>3. TypeOK'
  BY <1>1 DEF TypeOK
<1>4. LettersInv' /\ RecInv' /\ GcInv' /\ StepsInv' /\ NodesInv'
  BY <1>1, <1>2 DEF LettersInv, RecInv, GcInv, StepsInv, NodesInv
<1> QED
  BY <1>3, <1>4 DEF IInv

\* The list holds dead letters below the limit, so failed chains only.
LEMMA FetchOrphanedChainsKeeps ==
  ASSUME IInv, FetchOrphanedChains
  PROVE  IInv'
<1> USE DEF FetchOrphanedChains
<1>1. TypeOK /\ LettersInv /\ RecInv /\ GcInv /\ StepsInv /\ NodesInv
  BY DEF IInv
<1>2. \A d : (InGraph(d)' <=> InGraph(d)) /\ Of(d, BOOLEAN)' = Of(d, BOOLEAN)
  BY GraphSame
<1>3. TypeOK'
  BY <1>1 DEF TypeOK, Job, RecPCs
<1>4. RecInv'
  BY <1>1, ChainAssumption DEF LettersInv, RecInv
<1>5. LettersInv' /\ GcInv' /\ StepsInv' /\ NodesInv'
  BY <1>1, <1>2 DEF LettersInv, GcInv, StepsInv, NodesInv
<1> QED
  BY <1>3, <1>4, <1>5 DEF IInv

\* The job takes one chain of its list.
LEMMA FetchChainFromPostgresKeeps ==
  ASSUME IInv, FetchChainFromPostgres
  PROVE  IInv'
<1> USE DEF FetchChainFromPostgres
<1>1. TypeOK /\ LettersInv /\ RecInv /\ GcInv /\ StepsInv /\ NodesInv
  BY DEF IInv
<1>2. \A d : (InGraph(d)' <=> InGraph(d)) /\ Of(d, BOOLEAN)' = Of(d, BOOLEAN)
  BY GraphSame
<1>3. TypeOK'
  BY <1>1 DEF TypeOK, Job, RecPCs
<1>4. RecInv'
  BY <1>1, <1>2 DEF RecInv
<1>5. LettersInv' /\ GcInv' /\ StepsInv' /\ NodesInv'
  BY <1>1, <1>2 DEF LettersInv, GcInv, StepsInv, NodesInv
<1> QED
  BY <1>3, <1>4, <1>5 DEF IInv

\* The job merges the node of a failed chain.
LEMMA RecoverUpsertKeeps ==
  ASSUME IInv, RecoverUpsert
  PROVE  IInv'
<1> USE DEF RecoverUpsert, RecTo
<1>1. TypeOK /\ LettersInv /\ RecInv /\ GcInv /\ StepsInv /\ NodesInv
  BY DEF IInv
<1>2. rec.cur \in rec.todo /\ rec.cur \in Chain
  BY <1>1 DEF RecInv, TypeOK, Job
<1>3. /\ nodes' \subseteq Chain \X BOOLEAN \X {"agent", "recovery", "gc"}
      /\ \A d : InGraph(d) => InGraph(d)'
      /\ \A d \in Chain \ {rec.cur} : /\ InGraph(d)' <=> InGraph(d)
                                      /\ Of(d, BOOLEAN)' = Of(d, BOOLEAN)
  BY <1>1, <1>2, GraphSame, UpsertEffect
<1>4. InGraph(rec.cur)'
  BY <1>1, <1>2, UpsertEffect
<1>5. TypeOK'
  BY <1>1, <1>3, <1>4 DEF TypeOK, Job, RecPCs
<1>6. RecInv'
  BY <1>1, <1>3, <1>4 DEF RecInv
<1>7. GcInv'
  BY <1>1, <1>2, <1>3, <1>4 DEF TypeOK, Job, RecInv, GcInv
<1>8. NodesInv'
  BY <1>1, <1>3, <1>4 DEF RecInv, NodesInv
<1>9. LettersInv' /\ StepsInv'
  BY <1>1, <1>3, <1>4 DEF LettersInv, StepsInv
<1> QED
  BY <1>5, <1>6, <1>7, <1>8, <1>9 DEF IInv

\* The dead letter goes once its chain is in the graph.
LEMMA DeleteOrphanKeeps ==
  ASSUME IInv, DeleteOrphan
  PROVE  IInv'
<1> USE DEF DeleteOrphan, DropLetter, RecNext
<1>1. TypeOK /\ LettersInv /\ RecInv /\ GcInv /\ StepsInv /\ NodesInv
  BY DEF IInv
<1>2. \A d : (InGraph(d)' <=> InGraph(d)) /\ Of(d, BOOLEAN)' = Of(d, BOOLEAN)
  BY GraphSame
<1>3. TypeOK'
  BY <1>1 DEF TypeOK, Job, IdleJob, RecPCs, RecInv
<1>4. LettersInv'
  BY <1>1 DEF LettersInv
<1>5. RecInv'
  BY <1>1, <1>2 DEF TypeOK, Job, RecInv, IdleJob
<1>6. GcInv' /\ StepsInv' /\ NodesInv'
  BY <1>1, <1>2 DEF TypeOK, Job, GcInv, StepsInv, NodesInv
<1> QED
  BY <1>3, <1>4, <1>5, <1>6 DEF IInv

\* The count stays within the limit: the chain was below it on the list.
LEMMA IncrementRetryKeeps ==
  ASSUME IInv, IncrementRetry
  PROVE  IInv'
<1> USE DEF IncrementRetry, RecNext
<1>1. TypeOK /\ LettersInv /\ RecInv /\ GcInv /\ StepsInv /\ NodesInv
  BY DEF IInv
<1>2. \A d : (InGraph(d)' <=> InGraph(d)) /\ Of(d, BOOLEAN)' = Of(d, BOOLEAN)
  BY GraphSame
<1>3. TypeOK'
  BY <1>1, ChainAssumption DEF TypeOK, Job, IdleJob, RecPCs, RecInv
<1>4. LettersInv'
  BY <1>1 DEF TypeOK, LettersInv
<1>5. RecInv'
  BY <1>1, <1>2 DEF TypeOK, Job, RecInv, IdleJob
<1>6. GcInv' /\ StepsInv' /\ NodesInv'
  BY <1>1, <1>2 DEF TypeOK, Job, GcInv, StepsInv, NodesInv
<1> QED
  BY <1>3, <1>4, <1>5, <1>6 DEF IInv

\* The read of the steps raises.
LEMMA FetchChainFailsKeeps ==
  ASSUME IInv, FetchChainFails
  PROVE  IInv'
<1> USE DEF FetchChainFails, Fault
<1>1. TypeOK /\ LettersInv /\ RecInv /\ GcInv /\ StepsInv /\ NodesInv
  BY DEF IInv
<1>2. \A d : (InGraph(d)' <=> InGraph(d)) /\ Of(d, BOOLEAN)' = Of(d, BOOLEAN)
  BY GraphSame
<1>3. rec' \in Job(RecPCs)
  BY <1>1 DEF TypeOK, Job, RecPCs
<1>4. TypeOK'
  BY <1>1, <1>3 DEF TypeOK
<1>5. RecInv'
  BY <1>1, <1>2, <1>3 DEF RecInv
<1>6. LettersInv' /\ GcInv' /\ StepsInv' /\ NodesInv'
  BY <1>1, <1>2, <1>3 DEF LettersInv, GcInv, StepsInv, NodesInv
<1> QED
  BY <1>4, <1>5, <1>6 DEF IInv

\* The merge raises, with or without a node.
LEMMA RecoverUpsertFailsKeeps ==
  ASSUME IInv, RecoverUpsertFails
  PROVE  IInv'
<1> USE DEF RecoverUpsertFails, RecTo, Fault
<1>1. TypeOK /\ LettersInv /\ RecInv /\ GcInv /\ StepsInv /\ NodesInv
  BY DEF IInv
<1>2. rec.cur \in rec.todo /\ rec.cur \in Chain
  BY <1>1 DEF RecInv, TypeOK, Job
<1>3. /\ nodes' \subseteq Chain \X BOOLEAN \X {"agent", "recovery", "gc"}
      /\ \A d : InGraph(d) => InGraph(d)'
      /\ \A d \in Chain \ {rec.cur} : /\ InGraph(d)' <=> InGraph(d)
                                      /\ Of(d, BOOLEAN)' = Of(d, BOOLEAN)
  BY <1>1, <1>2, GraphSame, UpsertEffect DEF TypeOK
<1>4. TypeOK'
  BY <1>1, <1>3 DEF TypeOK, Job, RecPCs
<1>5. RecInv'
  BY <1>1, <1>3 DEF RecInv
<1>6. GcInv'
  BY <1>1, <1>2, <1>3 DEF TypeOK, Job, RecInv, GcInv
<1>7. NodesInv'
  BY <1>1, <1>3 DEF RecInv, NodesInv
<1>8. LettersInv' /\ StepsInv'
  BY <1>1, <1>3 DEF LettersInv, StepsInv
<1> QED
  BY <1>4, <1>5, <1>6, <1>7, <1>8 DEF IInv

\* The delete raises, with or without effect.
LEMMA DeleteOrphanFailsKeeps ==
  ASSUME IInv, DeleteOrphanFails
  PROVE  IInv'
<1> USE DEF DeleteOrphanFails, DropLetter, RecTo, Fault
<1>1. TypeOK /\ LettersInv /\ RecInv /\ GcInv /\ StepsInv /\ NodesInv
  BY DEF IInv
<1>2. \A d : (InGraph(d)' <=> InGraph(d)) /\ Of(d, BOOLEAN)' = Of(d, BOOLEAN)
  BY GraphSame
<1>3. TypeOK'
  BY <1>1 DEF TypeOK, Job, RecPCs
<1>4. LettersInv'
  BY <1>1 DEF TypeOK, LettersInv
<1>5. RecInv'
  BY <1>1, <1>2, ChainAssumption DEF TypeOK, RecInv, Job
<1>6. GcInv' /\ StepsInv' /\ NodesInv'
  BY <1>1, <1>2 DEF TypeOK, Job, GcInv, StepsInv, NodesInv
<1> QED
  BY <1>3, <1>4, <1>5, <1>6 DEF IInv

\* The job is gone; its list with it.
LEMMA RecoveryDiesKeeps ==
  ASSUME IInv, RecoveryDies
  PROVE  IInv'
<1> USE DEF RecoveryDies, Fault
<1>1. TypeOK /\ LettersInv /\ RecInv /\ GcInv /\ StepsInv /\ NodesInv
  BY DEF IInv
<1>2. \A d : (InGraph(d)' <=> InGraph(d)) /\ Of(d, BOOLEAN)' = Of(d, BOOLEAN)
  BY GraphSame
<1>3. TypeOK'
  BY <1>1 DEF TypeOK, Job, IdleJob, RecPCs
<1>4. RecInv'
  BY <1>1 DEF RecInv, IdleJob
<1>5. LettersInv' /\ GcInv' /\ StepsInv' /\ NodesInv'
  BY <1>1, <1>2 DEF LettersInv, GcInv, StepsInv, NodesInv
<1> QED
  BY <1>3, <1>4, <1>5 DEF IInv

\* The select of phase 1 returns dead letters, so failed chains only.
LEMMA GcStartKeeps ==
  ASSUME IInv, GcStart
  PROVE  IInv'
<1> USE DEF GcStart, Limited
<1>1. TypeOK /\ LettersInv /\ RecInv /\ GcInv /\ StepsInv /\ NodesInv
  BY DEF IInv
<1>2. \A d : (InGraph(d)' <=> InGraph(d)) /\ Of(d, BOOLEAN)' = Of(d, BOOLEAN)
  BY GraphSame
<1>3. TypeOK'
  BY <1>1 DEF TypeOK, Job, GcPCs, GcInv
<1>4. GcInv'
  BY <1>1, ChainAssumption DEF TypeOK, LettersInv, GcInv
<1>5. LettersInv' /\ RecInv' /\ StepsInv' /\ NodesInv'
  BY <1>1, <1>2 DEF LettersInv, RecInv, StepsInv, NodesInv
<1> QED
  BY <1>3, <1>4, <1>5 DEF IInv

\* The collector takes one chain and knows whether it has steps.
LEMMA GcFetchStepsKeeps ==
  ASSUME IInv, GcFetchSteps
  PROVE  IInv'
<1> USE DEF GcFetchSteps
<1>1. TypeOK /\ LettersInv /\ RecInv /\ GcInv /\ StepsInv /\ NodesInv
  BY DEF IInv
<1>2. \A d : (InGraph(d)' <=> InGraph(d)) /\ Of(d, BOOLEAN)' = Of(d, BOOLEAN)
  BY GraphSame
<1>3. TypeOK'
  BY <1>1 DEF TypeOK, Job, GcPCs, GcInv
<1>4. GcInv'
  BY <1>1 DEF GcInv
<1>5. LettersInv' /\ RecInv' /\ StepsInv' /\ NodesInv'
  BY <1>1, <1>2 DEF LettersInv, RecInv, StepsInv, NodesInv
<1> QED
  BY <1>3, <1>4, <1>5 DEF IInv

\* The collector drops a dead letter and goes on.
LEMMA GcRemoveOrphanKeeps ==
  ASSUME IInv, GcRemoveOrphan
  PROVE  IInv'
<1> USE DEF GcRemoveOrphan, DropLetter, GcNext
<1>1. TypeOK /\ LettersInv /\ RecInv /\ GcInv /\ StepsInv /\ NodesInv
  BY DEF IInv
<1>2. \A d : (InGraph(d)' <=> InGraph(d)) /\ Of(d, BOOLEAN)' = Of(d, BOOLEAN)
  BY GraphSame
<1>3. TypeOK'
  BY <1>1 DEF TypeOK, Job, GcPCs, GcInv
<1>4. LettersInv'
  BY <1>1 DEF LettersInv, GcInv
<1>5. RecInv'
  BY <1>1, <1>2, ChainAssumption DEF TypeOK, GcInv, RecInv
<1>6. GcInv'
  BY <1>1 DEF GcInv
<1>7. StepsInv' /\ NodesInv'
  BY <1>1, <1>2 DEF StepsInv, NodesInv
<1> QED
  BY <1>3, <1>4, <1>5, <1>6, <1>7 DEF IInv

\* The collector merges the node of a failed chain.
LEMMA GcMergeKeeps ==
  ASSUME IInv, GcMerge
  PROVE  IInv'
<1> USE DEF GcMerge, GcTo
<1>1. TypeOK /\ LettersInv /\ RecInv /\ GcInv /\ StepsInv /\ NodesInv
  BY DEF IInv
<1>2. gc.cur \in gc.todo /\ gc.cur \in Chain
  BY <1>1 DEF GcInv, TypeOK, Job
<1>3. /\ nodes' \subseteq Chain \X BOOLEAN \X {"agent", "recovery", "gc"}
      /\ \A d : InGraph(d) => InGraph(d)'
      /\ \A d \in Chain \ {gc.cur} : /\ InGraph(d)' <=> InGraph(d)
                                     /\ Of(d, BOOLEAN)' = Of(d, BOOLEAN)
  BY <1>1, <1>2, GraphSame, GcMergeEffect
<1>4. InGraph(gc.cur)'
  BY <1>1, <1>2, GcMergeEffect
<1>5. TypeOK'
  BY <1>1, <1>3, <1>4 DEF TypeOK, Job, GcPCs, GcInv
<1>6. RecInv'
  BY <1>1, <1>3, <1>4 DEF GcInv, RecInv
<1>7. GcInv'
  BY <1>1, <1>3, <1>4 DEF GcInv
<1>8. NodesInv'
  BY <1>1, <1>3, <1>4 DEF GcInv, NodesInv
<1>9. LettersInv' /\ StepsInv'
  BY <1>1, <1>3, <1>4 DEF LettersInv, StepsInv
<1> QED
  BY <1>5, <1>6, <1>7, <1>8, <1>9 DEF IInv

\* The merge raises, with or without a node.
LEMMA GcMergeFailsKeeps ==
  ASSUME IInv, GcMergeFails
  PROVE  IInv'
<1> USE DEF GcMergeFails, GcTo, Fault
<1>1. TypeOK /\ LettersInv /\ RecInv /\ GcInv /\ StepsInv /\ NodesInv
  BY DEF IInv
<1>2. gc.cur \in gc.todo /\ gc.cur \in Chain
  BY <1>1 DEF GcInv, TypeOK, Job
<1>3. /\ nodes' \subseteq Chain \X BOOLEAN \X {"agent", "recovery", "gc"}
      /\ \A d : InGraph(d) => InGraph(d)'
      /\ \A d \in Chain \ {gc.cur} : /\ InGraph(d)' <=> InGraph(d)
                                     /\ Of(d, BOOLEAN)' = Of(d, BOOLEAN)
  BY <1>1, <1>2, GraphSame, GcMergeEffect DEF TypeOK
<1>4. TypeOK'
  BY <1>1, <1>3 DEF TypeOK, Job, GcPCs, GcInv
<1>5. RecInv'
  BY <1>1, <1>3 DEF GcInv, RecInv
<1>6. GcInv'
  BY <1>1, <1>3 DEF GcInv
<1>7. NodesInv'
  BY <1>1, <1>3 DEF GcInv, NodesInv
<1>8. LettersInv' /\ StepsInv'
  BY <1>1, <1>3 DEF LettersInv, StepsInv
<1> QED
  BY <1>4, <1>5, <1>6, <1>7, <1>8 DEF IInv

\* The delete raises, with or without effect.
LEMMA GcRemoveOrphanFailsKeeps ==
  ASSUME IInv, GcRemoveOrphanFails
  PROVE  IInv'
<1> USE DEF GcRemoveOrphanFails, DropLetter, GcTo, Fault
<1>1. TypeOK /\ LettersInv /\ RecInv /\ GcInv /\ StepsInv /\ NodesInv
  BY DEF IInv
<1>2. \A d : (InGraph(d)' <=> InGraph(d)) /\ Of(d, BOOLEAN)' = Of(d, BOOLEAN)
  BY GraphSame
<1>3. TypeOK'
  BY <1>1 DEF TypeOK, Job, GcPCs, GcInv
<1>4. LettersInv'
  BY <1>1 DEF TypeOK, LettersInv, GcInv
<1>5. RecInv'
  BY <1>1, <1>2, ChainAssumption DEF TypeOK, GcInv, RecInv, Job
<1>6. GcInv'
  BY <1>1 DEF GcInv
<1>7. StepsInv' /\ NodesInv'
  BY <1>1, <1>2 DEF StepsInv, NodesInv
<1> QED
  BY <1>3, <1>4, <1>5, <1>6, <1>7 DEF IInv

\* The archived chain is a failed one: its steps may go.
LEMMA GcArchiveKeeps ==
  ASSUME IInv, GcArchive
  PROVE  IInv'
<1> USE DEF GcArchive, DropLetter, GcNext
<1>1. TypeOK /\ LettersInv /\ RecInv /\ GcInv /\ StepsInv /\ NodesInv
  BY DEF IInv
<1>2. \A d : (InGraph(d)' <=> InGraph(d)) /\ Of(d, BOOLEAN)' = Of(d, BOOLEAN)
  BY GraphSame
<1>3. TypeOK'
  BY <1>1 DEF TypeOK, Job, GcPCs, GcInv
<1>4. LettersInv'
  BY <1>1 DEF LettersInv, GcInv
<1>5. RecInv'
  BY <1>1, <1>2, ChainAssumption DEF TypeOK, GcInv, RecInv
<1>6. GcInv'
  BY <1>1 DEF GcInv
<1>7. StepsInv'
  BY <1>1 DEF GcInv, StepsInv
<1>8. NodesInv'
  BY <1>1, <1>2 DEF NodesInv
<1> QED
  BY <1>3, <1>4, <1>5, <1>6, <1>7, <1>8 DEF IInv

\* The rows being written are remembered as raced.
LEMMA GcScanDanglingKeeps ==
  ASSUME IInv, GcScanDangling
  PROVE  IInv'
<1> USE DEF GcScanDangling, Limited
<1>1. TypeOK /\ LettersInv /\ RecInv /\ GcInv /\ StepsInv /\ NodesInv
  BY DEF IInv
<1>2. \A d : (InGraph(d)' <=> InGraph(d)) /\ Of(d, BOOLEAN)' = Of(d, BOOLEAN)
  BY GraphSame
<1>3. TypeOK'
  BY <1>1 DEF TypeOK, Job, IdleJob, GcPCs, GcInv
<1>4. GcInv'
  BY <1>1 DEF TypeOK, GcInv, StepsInv, IdleJob
<1>5. StepsInv'
  BY <1>1 DEF GcInv, StepsInv
<1>6. LettersInv' /\ RecInv' /\ NodesInv'
  BY <1>1, <1>2 DEF LettersInv, RecInv, NodesInv
<1> QED
  BY <1>3, <1>4, <1>5, <1>6 DEF IInv

\* An acknowledged chain is in the graph, so it stays unless it raced.
LEMMA GcCheckDanglingKeeps ==
  ASSUME IInv, GcCheckDangling
  PROVE  IInv'
<1> USE DEF GcCheckDangling
<1>1. TypeOK /\ LettersInv /\ RecInv /\ GcInv /\ StepsInv /\ NodesInv
  BY DEF IInv
<1>2. \A d : (InGraph(d)' <=> InGraph(d)) /\ Of(d, BOOLEAN)' = Of(d, BOOLEAN)
  BY GraphSame
<1>3. \A d \in Chain : saga[d] = "acked" => InGraph(d)
  BY <1>1 DEF NodesInv, InGraph, Of
<1>4. TypeOK'
  BY <1>1, <1>3 DEF TypeOK, Job, IdleJob, GcPCs, GcInv
<1>5. GcInv'
  BY <1>1, <1>2, <1>3 DEF TypeOK, GcInv, Job, IdleJob
<1>6. LettersInv' /\ RecInv' /\ StepsInv' /\ NodesInv'
  BY <1>1, <1>2, <1>3 DEF LettersInv, RecInv, StepsInv, NodesInv
<1> QED
  BY <1>4, <1>5, <1>6 DEF IInv

\* The delete takes the steps of raced and failed chains only.
LEMMA GcDeleteDanglingKeeps ==
  ASSUME IInv, GcDeleteDangling
  PROVE  IInv'
<1> USE DEF GcDeleteDangling
<1>1. TypeOK /\ LettersInv /\ RecInv /\ GcInv /\ StepsInv /\ NodesInv
  BY DEF IInv
<1>2. \A d : (InGraph(d)' <=> InGraph(d)) /\ Of(d, BOOLEAN)' = Of(d, BOOLEAN)
  BY GraphSame
<1>0. \A d \in Chain : saga[d] = "acked" => InGraph(d)
  BY <1>1 DEF NodesInv, InGraph, Of
<1>3. TypeOK'
  BY <1>1 DEF TypeOK, Job, IdleJob, GcPCs, GcInv
<1>4. GcInv'
  BY <1>1 DEF GcInv, IdleJob
<1>5. StepsInv'
  BY <1>1, <1>0 DEF GcInv, StepsInv
<1>6. LettersInv' /\ RecInv' /\ NodesInv'
  BY <1>1, <1>2 DEF LettersInv, RecInv, NodesInv
<1> QED
  BY <1>3, <1>4, <1>5, <1>6 DEF IInv

\* The pass ends early.
LEMMA GcDiesKeeps ==
  ASSUME IInv, GcDies
  PROVE  IInv'
<1> USE DEF GcDies, Fault
<1>1. TypeOK /\ LettersInv /\ RecInv /\ GcInv /\ StepsInv /\ NodesInv
  BY DEF IInv
<1>2. \A d : (InGraph(d)' <=> InGraph(d)) /\ Of(d, BOOLEAN)' = Of(d, BOOLEAN)
  BY GraphSame
<1>3. TypeOK'
  BY <1>1 DEF TypeOK, Job, IdleJob, GcPCs, GcInv
<1>4. GcInv'
  BY <1>1 DEF GcInv, IdleJob
<1>5. LettersInv' /\ RecInv' /\ StepsInv' /\ NodesInv'
  BY <1>1, <1>2 DEF LettersInv, RecInv, StepsInv, NodesInv
<1> QED
  BY <1>3, <1>4, <1>5 DEF IInv

\* Every step of the system keeps the invariant.
LEMMA NextKeeps ==
  ASSUME IInv, [Next]_vars
  PROVE  IInv'
<1>1. CASE UNCHANGED vars
  BY <1>1 DEF IInv, TypeOK, LettersInv, RecInv, GcInv, StepsInv, NodesInv,
              InGraph, Of, vars
<1>2. CASE \E c \in Chain : \/ UpsertChainSteps(c) \/ UpsertChainStepsFails(c)
                           \/ TraceSteps(c) \/ Writer(c) \/ WriterDies(c) \/ BackoffElapses(c)
  BY <1>2, UpsertChainStepsKeeps, UpsertChainStepsFailsKeeps, ProjectKeeps,
     ProjectFailsKeeps, CompensateKeeps, CompensateFailsKeeps,
     AddOrphanedChainKeeps, AddOrphanedChainFailsKeeps, TraceStepsKeeps,
     TraceNodeKeeps, TraceNodeFailsKeeps, WriterDiesKeeps,
     BackoffElapsesKeeps DEF Writer
<1>3. CASE Recovery \/ RecoveryDies
  BY <1>3, FetchOrphanedChainsKeeps, FetchChainFromPostgresKeeps,
     RecoverUpsertKeeps, DeleteOrphanKeeps, IncrementRetryKeeps,
     FetchChainFailsKeeps, RecoverUpsertFailsKeeps, DeleteOrphanFailsKeeps,
     RecoveryDiesKeeps DEF Recovery, RecoveryRun
<1>4. CASE Collector \/ GcDies
  BY <1>4, GcStartKeeps, GcFetchStepsKeeps, GcRemoveOrphanKeeps, GcMergeKeeps,
     GcMergeFailsKeeps, GcRemoveOrphanFailsKeeps, GcArchiveKeeps,
     GcScanDanglingKeeps, GcCheckDanglingKeeps, GcDeleteDanglingKeeps,
     GcDiesKeeps DEF Collector, GcRun, GcPhase1, GcPhase2
<1> QED
  BY <1>1, <1>2, <1>3, <1>4 DEF Next

-----------------------------------------------------------------------------
(* The theorems.                                                           *)

\* The inductive invariant holds in every reachable state, for any number of
\* chains, faults and retries.
THEOREM Invariance == Spec => []IInv
<1>1. Init => IInv
  BY DEF Init, IInv, TypeOK, LettersInv, RecInv, GcInv, StepsInv, NodesInv,
     InGraph, Of, Job, IdleJob, SagaPCs, RecPCs, GcPCs
<1>2. IInv /\ [Next]_vars => IInv'
  BY NextKeeps
<1> QED
  BY <1>1, <1>2, PTL DEF Spec

\* Rows, nodes and frames are well typed, and the retry counter of a dead letter
\* never passes the limit of the recovery job although two jobs, the writer and
\* the faults all touch it.
THEOREM TypeCorrect == Spec => []TypeOK
<1>1. IInv => TypeOK
  BY DEF IInv
<1> QED
  BY <1>1, Invariance, PTL

\* The steps of a chain in the graph are deleted by its writer's compensation,
\* by the collector's archive or after a raced scan only.
LEMMA DeleteStep ==
  ASSUME IInv, [Next]_vars, NEW c \in steps \ steps', InGraph(c)
  PROVE  \/ saga[c] = "compensate"
         \/ gc.pc = "archive" /\ c = gc.cur
         \/ c \in raced
<1>1. TypeOK /\ GcInv
  BY DEF IInv
<1>2. CASE UNCHANGED steps
  BY <1>2
<1>3. CASE \E d \in Chain : Compensate(d) \/ CompensateFails(d)
  BY <1>3 DEF Compensate, CompensateFails, At
<1>4. CASE GcArchive
  BY <1>4 DEF GcArchive
<1>5. CASE GcDeleteDangling
  BY <1>1, <1>5 DEF GcDeleteDangling, GcInv
<1>6. CASE \E d \in Chain : \/ UpsertChainSteps(d) \/ UpsertChainStepsFails(d)
                           \/ TraceSteps(d)
  BY <1>6 DEF UpsertChainSteps, UpsertChainStepsFails, TraceSteps
<1>7. CASE \E d \in Chain : \/ Project(d) \/ ProjectFails(d)
                           \/ AddOrphanedChain(d) \/ AddOrphanedChainFails(d)
                           \/ TraceNode(d) \/ TraceNodeFails(d)
                           \/ WriterDies(d) \/ BackoffElapses(d)
  BY <1>7 DEF Project, ProjectFails, AddOrphanedChain, AddOrphanedChainFails,
     TraceNode, TraceNodeFails, WriterDies, BackoffElapses
<1>8. CASE Recovery \/ RecoveryDies
  BY <1>8 DEF Recovery, RecoveryRun, FetchOrphanedChains,
     FetchChainFromPostgres, RecoverUpsert, DeleteOrphan, IncrementRetry,
     FetchChainFails, RecoverUpsertFails, DeleteOrphanFails, RecoveryDies
<1>9. CASE \/ GcStart \/ GcFetchSteps \/ GcRemoveOrphan \/ GcMerge
           \/ GcMergeFails \/ GcRemoveOrphanFails \/ GcScanDangling
           \/ GcCheckDangling \/ GcDies
  BY <1>9 DEF GcStart, GcFetchSteps, GcRemoveOrphan, GcMerge, GcMergeFails,
     GcRemoveOrphanFails, GcScanDangling, GcCheckDangling, GcDies
<1> QED
  BY <1>2, <1>3, <1>4, <1>5, <1>6, <1>7, <1>8, <1>9 DEF Next, vars, Writer,
     Collector, GcRun, GcPhase1, GcPhase2

\* The steps behind a summary in the graph are deleted in three ways only: a
\* compensation after a lost acknowledgement, an archive after a failed removal,
\* a dangling scan that had read the row before the write was over.
THEOREM StepsSurvive == Spec => SummarizedStepsKept
<1>1. IInv /\ [Next]_vars =>
        [\A c \in steps \ steps' :
           InGraph(c) => \/ saga[c] = "compensate"
                         \/ gc.pc = "archive" /\ c = gc.cur
                         \/ c \in raced]_vars
  BY DeleteStep
<1> QED
  BY <1>1, Invariance, PTL DEF Spec, SummarizedStepsKept

\* The summary of an acknowledged chain stays the one the agent wrote.
THEOREM SummarySurvives == Spec => []AckedSummaryKept
<1>1. IInv => AckedSummaryKept
  BY DEF IInv, NodesInv, AckedSummaryKept
<1> QED
  BY <1>1, Invariance, PTL

\* A dead letter is dropped only for a chain in the graph or without steps.
LEMMA DropStep ==
  ASSUME IInv, [Next]_vars, NEW c \in Chain, dead[c] # 0, dead'[c] = 0
  PROVE  InGraph(c)' \/ c \notin steps'
<1>1. TypeOK /\ LettersInv /\ RecInv /\ GcInv
  BY DEF IInv
<1>2. CASE UNCHANGED dead
  BY <1>2
<1>3. CASE DeleteOrphan \/ DeleteOrphanFails
  <2>1. InGraph(rec.cur) /\ nodes' = nodes
    BY <1>1, <1>3 DEF RecInv, DeleteOrphan, DeleteOrphanFails
  <2>2. c = rec.cur
    BY <1>1, <1>3 DEF TypeOK, DeleteOrphan, DeleteOrphanFails, DropLetter
  <2> QED
    BY <2>1, <2>2, GraphSame
<1>4. CASE GcRemoveOrphan \/ GcRemoveOrphanFails
  <2>1. InGraph(gc.cur) \/ gc.cur \notin steps
    BY <1>1, <1>4 DEF GcInv, GcRemoveOrphan, GcRemoveOrphanFails
  <2>2. nodes' = nodes /\ steps' = steps
    BY <1>4 DEF GcRemoveOrphan, GcRemoveOrphanFails
  <2>3. c = gc.cur
    BY <1>1, <1>4 DEF TypeOK, GcRemoveOrphan, GcRemoveOrphanFails, DropLetter
  <2> QED
    BY <2>1, <2>2, <2>3, GraphSame
<1>5. CASE GcArchive
  BY <1>1, <1>5 DEF GcArchive, DropLetter
<1>6. CASE \E d \in Chain : AddOrphanedChain(d) \/ AddOrphanedChainFails(d)
  BY <1>1, <1>6 DEF TypeOK, AddOrphanedChain, AddOrphanedChainFails, At
<1>7. CASE IncrementRetry
  BY <1>1, <1>7 DEF TypeOK, IncrementRetry
<1>8. CASE \E d \in Chain : \/ UpsertChainSteps(d) \/ UpsertChainStepsFails(d)
                           \/ Project(d) \/ ProjectFails(d) \/ Compensate(d)
                           \/ CompensateFails(d) \/ TraceSteps(d) \/ TraceNode(d)
                           \/ TraceNodeFails(d) \/ WriterDies(d) \/ BackoffElapses(d)
  BY <1>8 DEF UpsertChainSteps, UpsertChainStepsFails, Project, ProjectFails,
     Compensate, CompensateFails, TraceSteps, TraceNode, TraceNodeFails, WriterDies,
     BackoffElapses
<1>9. CASE \/ FetchOrphanedChains \/ FetchChainFromPostgres \/ RecoverUpsert
           \/ FetchChainFails \/ RecoverUpsertFails \/ RecoveryDies
  BY <1>9 DEF FetchOrphanedChains, FetchChainFromPostgres, RecoverUpsert,
     FetchChainFails, RecoverUpsertFails, RecoveryDies
<1>10. CASE \/ GcStart \/ GcFetchSteps \/ GcMerge \/ GcMergeFails
            \/ GcPhase2 \/ GcDies
  BY <1>10 DEF GcStart, GcFetchSteps, GcMerge, GcMergeFails, GcPhase2,
     GcScanDangling, GcCheckDangling, GcDeleteDangling, GcDies
<1> QED
  BY <1>3, <1>4, <1>5, <1>6, <1>7, <1>8, <1>9, <1>10 DEF Next, vars, Writer,
     Recovery, RecoveryRun, Collector, GcRun, GcPhase1

\* No dead letter disappears and leaves steps that no query reaches.
THEOREM NothingDropped == Spec => NoSilentDrop
<1>1. IInv /\ [Next]_vars =>
        [\A c \in Chain : dead[c] # 0 /\ dead'[c] = 0 => InGraph(c)' \/ c \notin steps']_vars
  BY DropStep
<1> QED
  BY <1>1, Invariance, PTL DEF Spec, NoSilentDrop

=============================================================================
