--------------------------- MODULE BatchEmbedding ---------------------------
(***************************************************************************)
(* BatchEmbeddingAccumulator of reactions/batch_embedding.py: the tasks of *)
(* one asyncio event loop that share it.  An item is one call of add; the  *)
(* other tasks are the timer, the flushes and one call of close.  A step   *)
(* runs from one await to the next.                                        *)
(*                                                                         *)
(* asyncio.Lock hands itself over in FIFO order, so a task that wants it   *)
(* joins queue and runs its critical section when it is first and the lock *)
(* is free.  No path creates a second timer while one lives, so timer is   *)
(* the state of _timer_task, "none" standing for None and for done().      *)
(***************************************************************************)
EXTENDS Integers, Sequences, FiniteSets, SequencesExt

CONSTANTS
  Item,       \* calls of add
  BatchSize,  \* batch_size
  Timer,      \* the timer task, as a waiter of the lock
  Closer,     \* the task that calls close
  Nobody      \* the lock is free

ASSUME BatchAssumption ==
  /\ BatchSize \in Nat \ {0}
  /\ Timer \notin Item /\ Closer \notin Item /\ Nobody \notin Item
  /\ Timer # Closer /\ Timer # Nobody /\ Closer # Nobody

VARIABLES
  pending,  \* _pending
  queue,    \* tasks waiting for _lock
  owner,    \* the task that holds _lock across an await
  timer,    \* _timer_task
  flushes,  \* every flush task scheduled, in order
  caller,   \* where each call of add is
  closer,   \* where the call of close is
  gathered, \* the flushes close waits for
  before,   \* observer: items whose add had returned when close was called
  outcome   \* observer: what became of each item

vars == <<pending, queue, owner, timer, flushes, caller, closer, gathered,
          before, outcome>>

\* A run of _flush: its snapshot, the nodes worth embedding, how far it is.
FlushTask == [items : SUBSET Item, valid : SUBSET Item,
              phase : {"fetch", "embed", "upsert", "done"}]

Active(k) == flushes[k].phase # "done"
LiveTimer == timer \in {"sleeping", "waiting"}

\* Every task is in a state the code can be in, and only waiters are queued.
TypeOK ==
  /\ pending \subseteq Item
  /\ queue \in Seq(Item \cup {Timer, Closer})
  /\ owner \in Item \cup {Closer, Nobody}
  /\ timer \in {"none", "sleeping", "waiting", "cancelling"}
  /\ flushes \in Seq(FlushTask)
  /\ \A k \in DOMAIN flushes : flushes[k].valid \subseteq flushes[k].items
  /\ caller \in [Item -> {"new", "waiting", "flushing", "returned", "cancelled"}]
  /\ closer \in {"new", "waiting", "flushing", "gathering", "closed"}
  /\ gathered \subseteq DOMAIN flushes
  /\ before \subseteq Item
  /\ outcome \in [Item -> {"none", "embedded", "dropped"}]

Init ==
  /\ pending = {}
  /\ queue = <<>>
  /\ owner = Nobody
  /\ timer = "none"
  /\ flushes = <<>>
  /\ caller = [i \in Item |-> "new"]
  /\ closer = "new"
  /\ gathered = {}
  /\ before = {}
  /\ outcome = [i \in Item |-> "none"]

-----------------------------------------------------------------------------

Enters(t) == owner = Nobody /\ queue # <<>> /\ Head(queue) = t

\* _take_batch and _schedule_flush.
ScheduleFlush ==
  /\ flushes' = Append(flushes, [items |-> pending, valid |-> {}, phase |-> "fetch"])
  /\ pending' = {}

\* _cancel_timer up to its await: a timer waiting for the lock leaves the queue.
CancelTimer(q) ==
  /\ timer' = IF LiveTimer THEN "cancelling" ELSE timer
  /\ queue' = RemoveFirst(q, Timer)

AddCall(i) ==
  /\ caller[i] = "new"
  /\ caller' = [caller EXCEPT ![i] = "waiting"]
  /\ queue' = Append(queue, i)
  /\ UNCHANGED <<pending, owner, timer, flushes, closer, gathered, before, outcome>>

\* A request that is cancelled while its add waits for the lock.
AddCancelled(i) ==
  /\ caller[i] = "waiting"
  /\ caller' = [caller EXCEPT ![i] = "cancelled"]
  /\ queue' = RemoveFirst(queue, i)
  /\ UNCHANGED <<pending, owner, timer, flushes, closer, gathered, before, outcome>>

\* The batch is not full yet: make sure that a timer is running.
AddPartial(i) ==
  /\ Enters(i)
  /\ Cardinality(pending \cup {i}) < BatchSize
  /\ pending' = pending \cup {i}
  /\ timer' = IF timer = "none" THEN "sleeping" ELSE timer
  /\ caller' = [caller EXCEPT ![i] = "returned"]
  /\ queue' = Tail(queue)
  /\ UNCHANGED <<owner, flushes, closer, gathered, before, outcome>>

\* Mutant: the timer is awaited without being cancelled first.
AddFullAwait(i) ==
  /\ Enters(i)
  /\ Cardinality(pending \cup {i}) >= BatchSize
  /\ pending' = pending \cup {i}
  /\ queue' = Tail(queue)
  /\ owner' = i
  /\ caller' = [caller EXCEPT ![i] = "flushing"]
  /\ UNCHANGED <<timer, flushes, closer, gathered, before, outcome>>

\* The batch is full: cancel the timer and await it, still holding the lock.
AddFull(i) ==
  /\ Enters(i)
  /\ Cardinality(pending \cup {i}) >= BatchSize
  /\ pending' = pending \cup {i}
  /\ CancelTimer(Tail(queue))
  /\ owner' = i
  /\ caller' = [caller EXCEPT ![i] = "flushing"]
  /\ UNCHANGED <<flushes, closer, gathered, before, outcome>>

\* Mutant: the batch is taken before the new item is appended.
AddFlushEarly(i) ==
  /\ owner = i
  /\ timer = "none"
  /\ flushes' = Append(flushes, [items |-> pending \ {i}, valid |-> {}, phase |-> "fetch"])
  /\ pending' = {i}
  /\ owner' = Nobody
  /\ caller' = [caller EXCEPT ![i] = "returned"]
  /\ UNCHANGED <<queue, timer, closer, gathered, before, outcome>>

\* The CancelledError of the timer is suppressed (so is one meant for add).
AddFlush(i) ==
  /\ owner = i
  /\ timer = "none"
  /\ ScheduleFlush
  /\ owner' = Nobody
  /\ caller' = [caller EXCEPT ![i] = "returned"]
  /\ UNCHANGED <<queue, timer, closer, gathered, before, outcome>>

\* _flush_after_timeout: the sleep is over.
TimerFires ==
  /\ timer = "sleeping"
  /\ timer' = "waiting"
  /\ queue' = Append(queue, Timer)
  /\ UNCHANGED <<pending, owner, flushes, caller, closer, gathered, before, outcome>>

\* Mutant: the timer copies the pending list instead of swapping it out.
TimerFlushCopy ==
  /\ Enters(Timer)
  /\ flushes' = IF pending = {} THEN flushes
                ELSE Append(flushes, [items |-> pending, valid |-> {}, phase |-> "fetch"])
  /\ timer' = "none"
  /\ queue' = Tail(queue)
  /\ UNCHANGED <<pending, owner, caller, closer, gathered, before, outcome>>

TimerFlush ==
  /\ Enters(Timer)
  /\ IF pending = {} THEN UNCHANGED <<pending, flushes>> ELSE ScheduleFlush
  /\ timer' = "none"
  /\ queue' = Tail(queue)
  /\ UNCHANGED <<owner, caller, closer, gathered, before, outcome>>

TimerCancelled ==
  /\ timer = "cancelling"
  /\ timer' = "none"
  /\ UNCHANGED <<pending, queue, owner, flushes, caller, closer, gathered,
                 before, outcome>>

-----------------------------------------------------------------------------
(* close                                                                   *)

CloseCall ==
  /\ closer = "new"
  /\ closer' = "waiting"
  /\ queue' = Append(queue, Closer)
  /\ before' = {i \in Item : caller[i] = "returned"}
  /\ UNCHANGED <<pending, owner, timer, flushes, caller, gathered, outcome>>

CloseCancelTimer ==
  /\ Enters(Closer)
  /\ CancelTimer(Tail(queue))
  /\ owner' = Closer
  /\ closer' = "flushing"
  /\ UNCHANGED <<pending, flushes, caller, gathered, before, outcome>>

\* Mutant: close collects the flushes to wait for before it schedules its own.
CloseFlushGatherFirst ==
  /\ closer = "flushing"
  /\ timer = "none"
  /\ IF pending = {} THEN UNCHANGED <<pending, flushes>> ELSE ScheduleFlush
  /\ gathered' = {k \in DOMAIN flushes : flushes[k].phase # "done"}
  /\ owner' = Nobody
  /\ closer' = "gathering"
  /\ UNCHANGED <<queue, timer, caller, before, outcome>>

CloseFlush ==
  /\ closer = "flushing"
  /\ timer = "none"
  /\ IF pending = {} THEN UNCHANGED <<pending, flushes>> ELSE ScheduleFlush
  /\ gathered' = {k \in DOMAIN flushes' : flushes'[k].phase # "done"}
  /\ owner' = Nobody
  /\ closer' = "gathering"
  /\ UNCHANGED <<queue, timer, caller, before, outcome>>

CloseReturn ==
  /\ closer = "gathering"
  /\ \A k \in gathered : ~Active(k)
  /\ closer' = "closed"
  /\ UNCHANGED <<pending, queue, owner, timer, flushes, caller, gathered,
                 before, outcome>>

-----------------------------------------------------------------------------
(* _flush.  A failure of any phase is logged; what it hits is not retried.  *)

Settle(k, S, valid, phase) ==
  /\ flushes' = [flushes EXCEPT ![k].valid = valid, ![k].phase = phase]
  /\ outcome' = [i \in Item |-> IF i \in S THEN "dropped" ELSE outcome[i]]
  /\ UNCHANGED <<pending, queue, owner, timer, caller, closer, gathered, before>>

\* Mutant: the fetch loop runs over the live pending list, not the snapshot.
FlushFetchLive(k) ==
  /\ flushes[k].phase = "fetch"
  /\ \E valid \in SUBSET (flushes[k].items \cup pending) :
       Settle(k, flushes[k].items \ valid, valid,
              IF valid = {} THEN "done" ELSE "embed")

\* Nodes that cannot be read, are missing or have no content are skipped; no
\* node is valid when the services are not configured.
FlushFetch(k) ==
  /\ flushes[k].phase = "fetch"
  /\ \E valid \in SUBSET flushes[k].items :
       Settle(k, flushes[k].items \ valid, valid,
              IF valid = {} THEN "done" ELSE "embed")

\* One call for the whole batch: an error or a short answer drops all of it.
FlushEmbed(k) ==
  /\ flushes[k].phase = "embed"
  /\ \/ Settle(k, {}, flushes[k].valid, "upsert")
     \/ Settle(k, flushes[k].valid, flushes[k].valid, "done")

FlushUpsert(k) ==
  /\ flushes[k].phase = "upsert"
  /\ \E stored \in SUBSET flushes[k].valid :
       outcome' = [i \in Item |-> IF i \in stored THEN "embedded"
                                  ELSE IF i \in flushes[k].valid THEN "dropped"
                                  ELSE outcome[i]]
  /\ flushes' = [flushes EXCEPT ![k].phase = "done"]
  /\ UNCHANGED <<pending, queue, owner, timer, caller, closer, gathered, before>>

Flush(k) == FlushFetch(k) \/ FlushEmbed(k) \/ FlushUpsert(k)

-----------------------------------------------------------------------------

Add(i) == AddPartial(i) \/ AddFull(i) \/ AddFlush(i)
TimerStep == TimerFires \/ TimerFlush \/ TimerCancelled
Close == CloseCancelTimer \/ CloseFlush \/ CloseReturn

Done ==
  /\ \A i \in Item : caller[i] \in {"returned", "cancelled"}
  /\ closer = "closed" /\ timer = "none" /\ pending = {}
  /\ \A k \in DOMAIN flushes : ~Active(k)
  /\ UNCHANGED vars

Next ==
  \/ \E i \in Item : AddCall(i) \/ AddCancelled(i) \/ Add(i)
  \/ TimerStep
  \/ CloseCall \/ Close
  \/ \E k \in DOMAIN flushes : Flush(k)
  \/ Done

\* The event loop runs every ready task, the sleep ends, and every call a
\* flush makes returns or raises.  Nobody has to call add or close.
Fairness ==
  /\ \A i \in Item : WF_vars(Add(i))
  /\ WF_vars(TimerStep)
  /\ WF_vars(Close)
  /\ \A k \in 1 .. Cardinality(Item) : WF_vars(k \in DOMAIN flushes /\ Flush(k))

Spec == Init /\ [][Next]_vars /\ Fairness

-----------------------------------------------------------------------------
(* Properties.                                                             *)

\* No item is stranded: whenever the lock is free and something is pending, a
\* timer that will flush it is alive, whatever add, the timer and close did in
\* between and in whichever order they got the lock.
NoStranded == owner = Nobody /\ pending # {} => LiveTimer

\* When close returns, every item whose add had returned before close was
\* called has been through its flush: none waits for a timer that close
\* cancelled and none is in a flush that close did not wait for.
CloseDrains == closer = "closed" => \A i \in before : outcome[i] # "none"

\* No deadlock on the lock: a call of add returns (or is cancelled by its own
\* caller), although the task that holds the lock may be awaiting a timer
\* that is itself waiting for the lock; and so does close.
CallersReturn ==
  /\ \A i \in Item :
       caller[i] = "waiting" ~> caller[i] \in {"returned", "cancelled"}
  /\ closer = "waiting" ~> closer = "closed"

\* The items some flush has taken.
Handed == UNION {flushes[k].items : k \in DOMAIN flushes}

Outbox == INSTANCE EmbeddingOutbox WITH
  accepted <- pending \cup Handed,
  batches <- [k \in DOMAIN flushes |-> flushes[k].items]

\* The accumulator implements the outbox: every accepted item is handed over
\* exactly once, eventually, in a batch of at most BatchSize items.
ImplementsOutbox == Outbox!Spec

=============================================================================
