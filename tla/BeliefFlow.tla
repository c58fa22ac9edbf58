----------------------------- MODULE BeliefFlow -----------------------------
(***************************************************************************)
(* How a belief follows the facts it was synthesized from                  *)
(* (sage/transactions.py): a fact is superseded or demoted, a              *)
(* CASCADE_STALENESS event goes through the reaction queue,                *)
(* cascade_staleness marks the dependent beliefs STALE or tombstones them, *)
(* and revise_belief synthesizes a stale belief again.                     *)
(*                                                                         *)
(* Every execute_query and execute_write is a transaction of its own, so   *)
(* the steps of a handler interleave with everybody else's.  What the LLM  *)
(* answers, and whether the aggregated confidence reaches its threshold,   *)
(* are choices.  The Postgres shadow of a belief and the embedding events  *)
(* are left out: SageLifecycle and BatchEmbedding model them.              *)
(***************************************************************************)
EXTENDS ReactionQueue, SequencesExt

CONSTANTS
  Fact,       \* knowledge nodes that can carry the Fact label
  Memory,     \* the nodes facts are DERIVED_FROM
  Belief,     \* ids for beliefs
  First,      \* the belief there is at the start
  Derives,    \* <<f, m>>: the DERIVED_FROM edges
  Threshold,  \* SYNTHESIS_THRESHOLD
  MaxDepth,   \* MAX_CASCADE_DEPTH
  Reviser,    \* callers of revise_belief
  MaxLeaves   \* bound: how often a node leaves

Knowledge == Fact \cup Memory

\* n derives from k, directly or not: k is in every set that the edges lead
\* into from n and do not leave.
DerivesFrom(n, k) ==
  \A S \in SUBSET Knowledge :
    (\A d \in Derives : d[1] \in S \cup {n} => d[2] \in S) => k \in S

ASSUME BeliefAssumption ==
  /\ Target = Knowledge \cup Belief
  /\ First \in Belief /\ Belief \cap Knowledge = {}
  /\ Derives \subseteq Fact \X Knowledge
  /\ Threshold \in Nat \ {0} /\ MaxDepth \in Nat \ {0} /\ MaxLeaves \in Nat

VARIABLES
  active,    \* the knowledge nodes whose state is ACTIVE
  promoted,  \* the nodes that carry the Fact label
  belief,    \* the beliefs
  cascade,   \* the cascade_staleness run of each worker
  revision,  \* what each caller of revise_belief is doing
  owed,      \* nodes that have left and whose event is still to be emitted
  leaves,    \* how often a node has left
  basis,     \* history: the nodes the content of a belief stands for
  raced,     \* history: beliefs settled from facts that had left meanwhile
  dropped    \* history: beliefs whose marking failed

beliefVars == <<active, promoted, belief, cascade, revision, owed, leaves,
                basis, raced, dropped>>
vars == <<queueVars, beliefVars>>

NoBelief == [state |-> "ABSENT", syn |-> "FRESH", busy |-> FALSE, src |-> {}]
NoCascade == [pc |-> "read", todo |-> <<>>, visited |-> {}, count |-> 0]
NoRevision == [pc |-> "idle"]

BeliefRec == [state: {"ABSENT", "ACTIVE", "SUPERSEDED", "TOMBSTONED"},
              syn: {"FRESH", "STALE", "INVALIDATED"},
              busy: BOOLEAN,          \* revision_in_progress
              src: SUBSET Fact]       \* SYNTHESIZED_FROM
Dependent == [node: Target, depth: 1 .. MaxDepth]
CascadeRec == [pc: {"read", "each", "write"}, todo: Seq(Dependent),
               visited: SUBSET Target, count: Nat]
RevisionRec == [pc: {"mark", "facts", "decide", "replace"}, of: Belief,
                facts: SUBSET Fact, stands: SUBSET Knowledge]

TypeOK ==
  /\ QueueTypeOK
  /\ active \subseteq Knowledge /\ promoted \subseteq Fact
  /\ belief \in [Belief -> BeliefRec]
  /\ cascade \in [Worker -> CascadeRec]
  /\ revision \in [Reviser -> RevisionRec \cup {NoRevision}]
  /\ owed \subseteq Knowledge /\ leaves \in 0 .. MaxLeaves
  /\ basis \in [Belief -> SUBSET Knowledge]
  /\ raced \subseteq Belief /\ dropped \subseteq Belief

-----------------------------------------------------------------------------

Usable(k) == k \in active /\ (k \in Fact => k \in promoted)

\* What the content of a belief over these facts stands for: the facts and
\* the live nodes they derive from through live nodes.
Grounds(facts) ==
  {m \in active : \A S \in SUBSET active :
     /\ facts \subseteq S
     /\ \A d \in Derives : d[1] \in S /\ d[2] \in active => d[2] \in S
     => m \in S}

\* One belief, synthesized from enough facts: as CreateBelief leaves it, or
\* STALE after a cascade whose facts are back.
OneBelief ==
  /\ QueueInit(<<>>)
  /\ \E syn \in {"FRESH", "STALE"}, facts \in SUBSET Fact :
       /\ Cardinality(facts) >= Threshold
       /\ belief = [b \in Belief |->
                      IF b = First THEN [NoBelief EXCEPT !.state = "ACTIVE",
                                                         !.syn = syn,
                                                         !.src = facts]
                      ELSE NoBelief]
       /\ basis = [b \in Belief |-> IF b = First THEN Grounds(facts) ELSE {}]

\* No belief yet; a fact was demoted and is promoted again, and the event
\* waits for its last try.
RetryWaits ==
  /\ \E f \in Fact : QueueInit(<<[node |-> f, tries |-> MaxRetries - 1]>>)
  /\ belief = [b \in Belief |-> NoBelief]
  /\ basis = [b \in Belief |-> {}]

Init ==
  /\ active = Knowledge /\ promoted = Fact
  /\ OneBelief \/ RetryWaits
  /\ cascade = [w \in Worker |-> NoCascade]
  /\ revision = [r \in Reviser |-> NoRevision]
  /\ owed = {} /\ leaves = 0
  /\ raced = {} /\ dropped = {}

-----------------------------------------------------------------------------
(* Knowledge nodes leave, and facts are promoted again.                    *)

\* supersede and store_claim(supersedes): the write that ends the node.
Superseded(k) ==
  /\ leaves < MaxLeaves
  /\ k \in active
  /\ active' = active \ {k}
  /\ owed' = owed \cup {k}
  /\ leaves' = leaves + 1
  /\ UNCHANGED <<queueVars, promoted, belief, cascade, revision, basis, raced,
                 dropped>>

\* UPDATE_FACT_TO_DEMOTED takes the label off a live fact.
Demoted(f) ==
  /\ leaves < MaxLeaves
  /\ f \in active /\ f \in promoted
  /\ promoted' = promoted \ {f}
  /\ owed' = owed \cup {f}
  /\ leaves' = leaves + 1
  /\ UNCHANGED <<queueVars, active, belief, cascade, revision, basis, raced,
                 dropped>>

\* UPDATE_CLAIM_TO_PROMOTED; promote emits nothing.
Promoted(f) ==
  /\ f \in active /\ f \notin promoted
  /\ promoted' = promoted \cup {f}
  /\ UNCHANGED <<queueVars, active, belief, cascade, revision, owed, leaves,
                 basis, raced, dropped>>

\* The event that closes supersede, store_claim or demote.
EmitCascade(k) ==
  /\ k \in owed
  /\ owed' = owed \ {k}
  /\ Emit(k)
  /\ UNCHANGED <<job, dlq, active, promoted, belief, cascade, revision,
                 leaves, basis, raced, dropped>>

\* The process dies after the write and before the event.
DiesBeforeEmit(k) ==
  /\ k \in owed
  /\ owed' = owed \ {k}
  /\ Fault
  /\ lost' = lost \cup {k}
  /\ UNCHANGED <<queue, job, dlq, live, active, promoted, belief,
                 cascade, revision, leaves, basis, raced, dropped>>

-----------------------------------------------------------------------------
(* cascade_staleness in a worker.                                          *)

\* GET_DEPENDENTS_FOR_CASCADE: live nodes with an edge to n.
Dependents(n) ==
  {b \in Belief : belief[b].state = "ACTIVE" /\ n \in belief[b].src}
    \cup {f \in active : <<f, n>> \in Derives}

\* The rows come in no particular order.
Listings(S, d) ==
  {[i \in DOMAIN s |-> [node |-> s[i], depth |-> d]] :
     s \in SetToSeqs(S)}

ActiveSources(b) == Cardinality({f \in belief[b].src : Usable(f)})

TakeEvent(w) == Take(w) /\ UNCHANGED beliefVars

\* The first frame: depth 1 never exceeds the limit.
ReadDependents(w) ==
  /\ ~Idle(w) /\ cascade[w].pc = "read"
  /\ \E s \in Listings(Dependents(job[w].node), 1) :
       cascade' = [cascade EXCEPT ![w].pc = "each", ![w].todo = s,
                                  ![w].visited = {job[w].node}]
  /\ UNCHANGED <<queueVars, active, promoted, belief, revision, owed, leaves,
                 basis, raced, dropped>>

Next1(w) == Head(cascade[w].todo)
Popped(w) == [cascade[w] EXCEPT !.pc = "each", !.todo = Tail(@), !.count = 0]
InLoop(w) == ~Idle(w) /\ cascade[w].pc = "each" /\ cascade[w].todo # <<>>

\* COUNT_ACTIVE_SOURCE_FACTS for a belief.
CountSources(w) ==
  /\ InLoop(w) /\ Next1(w).node \in Belief
  /\ cascade' = [cascade EXCEPT ![w].pc = "write",
                                ![w].count = ActiveSources(Next1(w).node)]
  /\ UNCHANGED <<queueVars, active, promoted, belief, revision, owed, leaves,
                 basis, raced, dropped>>

\* TOMBSTONE_ORPHANED_BELIEF or MARK_BELIEF_STALE_FOR_CASCADE: neither looks
\* at the state the belief has by now.
Marked(w, b) ==
  IF cascade[w].count < Threshold
  THEN [belief EXCEPT ![b].state = "TOMBSTONED"]
  ELSE [belief EXCEPT ![b].syn = "STALE"]

MarkBelief(w) ==
  /\ ~Idle(w) /\ cascade[w].pc = "write"
  /\ belief' = Marked(w, Next1(w).node)
  /\ cascade' = [cascade EXCEPT ![w] = Popped(w)]
  /\ UNCHANGED <<queueVars, active, promoted, revision, owed, leaves, basis,
                 raced, dropped>>

\* The count or the write raises: the loop emits CASCADE_STALENESS for the
\* belief and goes on.
MarkFails(w) ==
  /\ ~Idle(w)
  /\ \/ InLoop(w) /\ Next1(w).node \in Belief
     \/ cascade[w].pc = "write"
  /\ Fault
  /\ Pushed(Next1(w).node) \/ Missed(Next1(w).node)
  /\ dropped' = dropped \cup {Next1(w).node}
  /\ cascade' = [cascade EXCEPT ![w] = Popped(w)]
  /\ UNCHANGED <<job, dlq, active, promoted, belief, revision, owed,
                 leaves, basis, raced>>

\* The recursive call for a dependent that is not a belief.
Visit(w, n, d) ==
  \/ /\ n \in cascade[w].visited
     /\ cascade' = [cascade EXCEPT ![w] = Popped(w)]
  \/ /\ n \notin cascade[w].visited
     /\ \E s \in Listings(Dependents(n), d) :
          cascade' = [cascade EXCEPT ![w].todo = s \o Tail(@),
                                     ![w].visited = @ \cup {n}]

\* Mutant: the recursion has no limit of depth.
RecurseUnlimited(w) ==
  LET n == Next1(w).node
      d == Next1(w).depth + 1
  IN  /\ InLoop(w) /\ n \notin Belief
      /\ Visit(w, n, d)
      /\ UNCHANGED <<queueVars, active, promoted, belief, revision, owed,
                     leaves, basis, raced, dropped>>

Recurse(w) ==
  LET n == Next1(w).node
      d == Next1(w).depth + 1
  IN  /\ InLoop(w) /\ n \notin Belief /\ d =< MaxDepth
      /\ Visit(w, n, d)
      /\ UNCHANGED <<queueVars, active, promoted, belief, revision, owed,
                     leaves, basis, raced, dropped>>

\* Beyond MAX_CASCADE_DEPTH the call defers the node to the queue.
TooDeep(w) ==
  InLoop(w) /\ Next1(w).node \notin Belief /\ Next1(w).depth + 1 > MaxDepth

\* Mutant: the cascade that goes too deep is not queued again.
DeferDropped(w) ==
  /\ TooDeep(w)
  /\ cascade' = [cascade EXCEPT ![w] = Popped(w)]
  /\ UNCHANGED <<queueVars, active, promoted, belief, revision, owed, leaves,
                 basis, raced, dropped>>

\* Mutant: the deferred event names the root of the cascade, not the node.
DeferRoot(w) ==
  /\ TooDeep(w)
  /\ Emit(job[w].node)
  /\ cascade' = [cascade EXCEPT ![w] = Popped(w)]
  /\ UNCHANGED <<job, dlq, active, promoted, belief, revision, owed, leaves,
                 basis, raced, dropped>>

Defer(w) ==
  /\ TooDeep(w)
  /\ Emit(Next1(w).node)
  /\ cascade' = [cascade EXCEPT ![w] = Popped(w)]
  /\ UNCHANGED <<job, dlq, active, promoted, belief, revision, owed, leaves,
                 basis, raced, dropped>>

\* The call's own query raises: the caller's loop emits the same event.
RecurseFails(w) ==
  LET n == Next1(w).node
  IN  /\ InLoop(w) /\ n \notin Belief
      /\ Next1(w).depth + 1 =< MaxDepth /\ n \notin cascade[w].visited
      /\ Fault
      /\ Pushed(n) \/ Missed(n)
      /\ cascade' = [cascade EXCEPT ![w] =
                       [Popped(w) EXCEPT !.visited = @ \cup {n}]]
      /\ UNCHANGED <<job, dlq, active, promoted, belief, revision, owed,
                     leaves, basis, raced, dropped>>

CascadeDone(w) ==
  /\ ~Idle(w) /\ cascade[w].pc = "each" /\ cascade[w].todo = <<>>
  /\ Finish(w)
  /\ cascade' = [cascade EXCEPT ![w] = NoCascade]
  /\ UNCHANGED <<queue, dlq, lost, faults, active, promoted, belief, revision,
                 owed, leaves, basis, raced, dropped>>

\* The first query raises, or _TIMEOUT_CASCADE cancels the task anywhere.
TaskFails(w) ==
  /\ ~Idle(w)
  /\ OnError(w)
  /\ cascade' = [cascade EXCEPT ![w] = NoCascade]
  /\ UNCHANGED <<active, promoted, belief, revision, owed, leaves, basis,
                 raced, dropped>>

WorkerCrash(w) ==
  /\ WorkerDies(w)
  /\ cascade' = [cascade EXCEPT ![w] = NoCascade]
  /\ UNCHANGED <<active, promoted, belief, revision, owed, leaves, basis,
                 raced, dropped>>

-----------------------------------------------------------------------------
(* revise_belief.                                                          *)

Step(r, pc) == revision[r].pc = pc
RevisionStays == UNCHANGED <<queue, job, dlq, live, lost, active, promoted,
                             cascade, owed, leaves, dropped>>

\* GET_BELIEF_FOR_REVISION and the checks on what it returned.
Revisable(b) ==
  /\ belief[b].state = "ACTIVE"
  /\ belief[b].syn = "STALE"
  /\ ~belief[b].busy

ReadBelief(r, b) ==
  /\ Step(r, "idle")
  /\ Revisable(b)
  /\ revision' = [revision EXCEPT ![r] =
                    [pc |-> "mark", of |-> b, facts |-> {}, stands |-> {}]]
  /\ UNCHANGED <<faults, belief, basis, raced>> /\ RevisionStays

\* MARK_BELIEF_REVISION_IN_PROGRESS, unconditional.
MarkInProgress(r) ==
  /\ Step(r, "mark")
  /\ belief' = [belief EXCEPT ![revision[r].of].busy = TRUE]
  /\ revision' = [revision EXCEPT ![r].pc = "facts"]
  /\ UNCHANGED <<faults, basis, raced>> /\ RevisionStays

\* GET_FACTS_VIA_SYNTHESIZED_FROM.
ReadFacts(r) ==
  LET facts == {f \in belief[revision[r].of].src : Usable(f)}
  IN  /\ Step(r, "facts")
      /\ revision' = [revision EXCEPT ![r].pc = "decide", ![r].facts = facts,
                                      ![r].stands = Grounds(facts)]
      /\ UNCHANGED <<faults, belief, basis, raced>> /\ RevisionStays

Enough(r) == Cardinality(revision[r].facts) >= Threshold
OutOfDate(r) == \E k \in revision[r].stands : ~Usable(k)

\* UPDATE_BELIEF_AFTER_REVISION with the outcome: too few facts or too little
\* confidence, an LLM that failed, or the same content again.
Settle(r, outcome) ==
  LET b == revision[r].of
  IN  /\ Step(r, "decide")
      /\ outcome \in {"FRESH", "STALE"} => Enough(r)
      /\ belief' = [belief EXCEPT ![b].syn = outcome, ![b].busy = FALSE]
      /\ basis' = IF outcome = "FRESH"
                  THEN [basis EXCEPT ![b] = revision[r].stands] ELSE basis
      /\ raced' = IF outcome = "FRESH" /\ OutOfDate(r)
                  THEN raced \cup {b} ELSE raced
      /\ revision' = [revision EXCEPT ![r] = NoRevision]
      /\ UNCHANGED faults /\ RevisionStays

\* CREATE_BELIEF_WITH_SYNTHESIZED_FROM: other content, a new belief.
CreateBelief(r, n) ==
  /\ Step(r, "decide")
  /\ Enough(r)
  /\ belief[n].state = "ABSENT"
  /\ belief' = [belief EXCEPT ![n] =
                  [state |-> "ACTIVE", syn |-> "FRESH", busy |-> FALSE,
                   src |-> revision[r].facts]]
  /\ basis' = [basis EXCEPT ![n] = revision[r].stands]
  /\ raced' = IF OutOfDate(r) THEN raced \cup {n} ELSE raced
  /\ revision' = [revision EXCEPT ![r].pc = "replace", ![r].facts = {},
                                  ![r].stands = {}]
  /\ UNCHANGED faults /\ RevisionStays

\* _create_supersedes_edge, unconditional as well.
ReplaceBelief(r) ==
  /\ Step(r, "replace")
  /\ belief' = [belief EXCEPT ![revision[r].of].state = "SUPERSEDED"]
  /\ revision' = [revision EXCEPT ![r] = NoRevision]
  /\ UNCHANGED <<faults, basis, raced>> /\ RevisionStays

\* Any exception after the flag was set: back to STALE.
ReviseFails(r) ==
  /\ Fault
  /\ revision[r].pc \in {"facts", "decide", "replace"}
  /\ belief' = [belief EXCEPT ![revision[r].of].syn = "STALE",
                              ![revision[r].of].busy = FALSE]
  /\ revision' = [revision EXCEPT ![r] = NoRevision]
  /\ UNCHANGED <<basis, raced>> /\ RevisionStays

\* The process dies, or that last write fails too.
ReviserDies(r) ==
  /\ Fault
  /\ ~Step(r, "idle")
  /\ revision' = [revision EXCEPT ![r] = NoRevision]
  /\ UNCHANGED <<belief, basis, raced>> /\ RevisionStays

-----------------------------------------------------------------------------

WorkerStep(w) ==
  \/ TakeEvent(w) \/ ReadDependents(w)
  \/ CountSources(w) \/ MarkBelief(w) \/ MarkFails(w)
  \/ Recurse(w) \/ RecurseFails(w) \/ Defer(w) \/ CascadeDone(w)
  \/ TaskFails(w) \/ WorkerCrash(w)

ReviserStep(r) ==
  \/ \E b \in Belief : ReadBelief(r, b) \/ CreateBelief(r, b)
  \/ MarkInProgress(r) \/ ReadFacts(r) \/ ReplaceBelief(r)
  \/ \E o \in {"FRESH", "STALE", "INVALIDATED"} : Settle(r, o)
  \/ ReviseFails(r) \/ ReviserDies(r)

EmitOwed(k) == EmitCascade(k) \/ DiesBeforeEmit(k)

Next ==
  \/ \E k \in Knowledge : Superseded(k) \/ EmitOwed(k)
  \/ \E f \in Fact : Demoted(f) \/ Promoted(f)
  \/ \E w \in Worker : WorkerStep(w)
  \/ \E r \in Reviser : ReviserStep(r)

\* A transaction that has written goes on to its event, and the worker
\* process is restarted: both end in one of their outcomes.  Nobody promises
\* that facts are demoted or beliefs revised.
Fairness ==
  /\ \A k \in Knowledge : WF_vars(EmitOwed(k))
  /\ \A w \in Worker : WF_vars(WorkerStep(w))

Spec == Init /\ [][Next]_vars /\ Fairness

-----------------------------------------------------------------------------

\* The nodes through which news about k reach belief b.
Relay(k, b) == {k} \cup {n \in basis[b] : DerivesFrom(n, k)}

\* A cascade for n has still to look at belief b.
Underway(n, b) ==
  \/ n \in owed
  \/ \E i \in DOMAIN queue : queue[i].node = n
  \/ \E w \in Busy :
       \/ job[w].node = n /\ cascade[w].pc = "read"
       \/ \E i \in DOMAIN cascade[w].todo : cascade[w].todo[i].node \in {n, b}

\* A live belief that counts as fresh although a node its content stands for
\* has left is on somebody's list: the news is underway, or it was lost on
\* the way (emit_reaction gave up, a process died, the retries ran out), or
\* its marking raised, or it was settled by a revision that had read the node
\* before it left.  No interleaving of cascades, deferred cascades,
\* promotions and revisions loses it in any other way.
StalenessAccounted ==
  \A b \in Belief :
    belief[b].state = "ACTIVE" /\ belief[b].syn = "FRESH" =>
      \A k \in basis[b] :
        ~Usable(k) =>
          \/ b \in raced \cup dropped
          \/ \E n \in Relay(k, b) : n \in lost \/ Underway(n, b)

\* All reactions come to an end: retries are bounded, and a deferred cascade
\* moves down the graph, so no failure keeps the queue busy for ever.  This
\* takes a graph without cycles longer than MAX_CASCADE_DEPTH: around such a
\* cycle the deferral would go on and on.
Quiet == queue = <<>> /\ Busy = {} /\ owed = {}
ReactionsSettle == <>[]Quiet

=============================================================================
