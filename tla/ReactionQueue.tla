--------------------------- MODULE ReactionQueue ---------------------------
(***************************************************************************)
(* The reaction queue: emit_reaction of reactions/events.py, the broker    *)
(* with its two middlewares of reactions/broker.py, and the worker process *)
(* that takes one message after the other.                                 *)
(*                                                                         *)
(* The Redis list and taskiq's worker loop are not part of the repository. *)
(* They appear as the code uses them: ListQueueBroker pushes at one end    *)
(* and pops at the other, and a popped message exists only in the worker   *)
(* that popped it.  What a handler does between Take and Finish or         *)
(* TaskFails is the business of the module that extends this one.          *)
(***************************************************************************)
EXTENDS Naturals, Sequences, FiniteSets

CONSTANTS
  Worker,     \* the worker's concurrent task slots
  Target,     \* what an event is about: its node_id
  MaxRetries, \* _MAX_RETRIES: the executions one message gets
  MaxFaults   \* bound: how many things go wrong

ASSUME QueueAssumption ==
  /\ IsFiniteSet(Worker) /\ IsFiniteSet(Target)
  /\ MaxRetries \in Nat \ {0} /\ MaxFaults \in Nat

VARIABLES
  queue,  \* reactions:default, oldest message first
  job,    \* the message each worker executes
  dlq,    \* the length of reactions:dlq
  live,   \* history: messages put into the queue and not executed or lost
  lost,   \* history: the targets of events that will never be executed
  faults  \* how many things have gone wrong

queueVars == <<queue, job, dlq, live, lost, faults>>

Message == [node: Target, tries: 0 .. MaxRetries - 1]
NoJob == [tries |-> MaxRetries]
Idle(w) == job[w] = NoJob
Busy == {w \in Worker : ~Idle(w)}

QueueTypeOK ==
  /\ queue \in Seq(Message)
  /\ job \in [Worker -> Message \cup {NoJob}]
  /\ dlq \in Nat /\ live \in Nat
  /\ lost \subseteq Target
  /\ faults \in 0 .. MaxFaults

QueueInit(waiting) ==
  /\ queue = waiting
  /\ job = [w \in Worker |-> NoJob]
  /\ dlq = 0 /\ live = Len(waiting)
  /\ lost = {} /\ faults = 0

\* A query raises, a push or a process fails.
Fault ==
  /\ faults < MaxFaults
  /\ faults' = faults + 1

-----------------------------------------------------------------------------

Pushed(n) ==
  /\ queue' = Append(queue, [node |-> n, tries |-> 0])
  /\ live' = live + 1
  /\ UNCHANGED lost

Missed(n) ==
  /\ lost' = lost \cup {n}
  /\ UNCHANGED <<queue, live>>

\* kiq within _EMIT_TIMEOUT_SECONDS.  When the wait times out the push may
\* still have reached Redis; otherwise the event is only logged.
Emit(n) ==
  \/ Pushed(n) /\ UNCHANGED faults
  \/ Fault /\ Missed(n)

\* The worker pops the oldest message.
Take(w) ==
  /\ Idle(w)
  /\ queue # <<>>
  /\ job' = [job EXCEPT ![w] = Head(queue)]
  /\ queue' = Tail(queue)
  /\ UNCHANGED <<dlq, live, lost, faults>>

\* The handler returned.
Finish(w) ==
  /\ job' = [job EXCEPT ![w] = NoJob]
  /\ live' = live - 1

\* The condition both middlewares compute from the _retries label.
Exhausted(m) == ~(m.tries + 1 < MaxRetries)

\* Mutant: an off-by-one against the other middleware.
DeadLetteredEarly(m) == ~(m.tries + 2 < MaxRetries)

\* DeadLetterMiddleware evaluates it again.
DeadLettered(m) == ~(m.tries + 1 < MaxRetries)

\* The on_error hooks, in registration order: SmartRetryMiddleware kicks the
\* message again, then DeadLetterMiddleware pushes it to the dead letter
\* queue.  Either push can fail and is then only logged.
OnError(w) ==
  LET m == job[w]
      again == [m EXCEPT !.tries = @ + 1]
  IN  /\ Fault
      /\ job' = [job EXCEPT ![w] = NoJob]
      /\ \E retried, buried \in BOOLEAN :
           /\ retried => ~Exhausted(m)
           /\ buried => DeadLettered(m)
           /\ queue' = IF retried THEN Append(queue, again) ELSE queue
           /\ dlq' = IF buried THEN dlq + 1 ELSE dlq
           /\ live' = IF retried \/ buried THEN live ELSE live - 1
           /\ lost' = IF retried THEN lost ELSE lost \cup {m.node}

\* The worker process dies: the popped message dies with it.
WorkerDies(w) ==
  /\ Fault
  /\ ~Idle(w)
  /\ job' = [job EXCEPT ![w] = NoJob]
  /\ live' = live - 1
  /\ lost' = lost \cup {job[w].node}
  /\ UNCHANGED <<queue, dlq>>

-----------------------------------------------------------------------------

\* A message is in one place only: waiting, executing, dead-lettered or gone.
\* The two middlewares decide about a failed message independently of each
\* other, and must not both keep it.
MessagesConserved ==
  live = Len(queue) + Cardinality(Busy) + dlq

=============================================================================
