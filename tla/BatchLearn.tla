----------------------------- MODULE BatchLearn -----------------------------
(***************************************************************************)
(* POST /api/v1/batch/learn (api/routes/batch.py, services/supersession.py,*)
(* query_spo_pairs of engine/memgraph_store.py): many claims in one        *)
(* request.  Under a lock of the silo in Redis the request looks up what   *)
(* is known about its subjects and predicates, plans which claim           *)
(* supersedes which, and stores the claims one by one, in chunks.          *)
(*                                                                         *)
(* A topic stands for a subject and a predicate.  Documents and timestamps *)
(* are numbers, in the order of their strings; 0 is none.  The duplicate   *)
(* check finds nothing: it asks for Memory nodes with a document_id of     *)
(* their own, and store_claim puts it into the properties of a Claim.      *)
(* For the same reason only the claims of the extraction asset are found   *)
(* as known; they have neither document nor timestamp, and their ids are   *)
(* hashes.  Embeddings, which may be missing, decide nothing here.         *)
(***************************************************************************)
EXTENDS Naturals, Sequences, FiniteSets, FiniteSetsExt

CONSTANTS
  Request,    \* requests
  NoRequest,  \* nobody, or nothing there
  Batch,      \* the batches clients send: sequences of items
  Extracted,  \* claims the extraction asset may write
  Topic,      \* pairs of a subject and a predicate
  NoTopic,    \* an item without
  Object,     \* what claims say of their topics
  About,      \* the topic and object of each extracted claim
  ChunkSize,  \* GRAPH_WRITE_CHUNK_SIZE
  MaxFaults   \* bound: how many statements raise, processes die, locks expire

Item(topic, object, time, doc) ==
  [topic |-> topic, object |-> object, time |-> time, doc |-> doc]

ASSUME BatchAssumption ==
  /\ NoRequest \notin Request /\ NoTopic \notin Topic
  /\ \A b \in Batch :
       b \in Seq([topic : Topic \cup {NoTopic}, object : Object,
                  time : Nat, doc : Nat])
  /\ About \in [Extracted -> [topic : Topic, object : Object]]
  /\ ChunkSize \in Nat \ {0} /\ MaxFaults \in Nat

VARIABLES
  known,    \* the extracted claims in the graph
  stored,   \* the claims of batches in the graph: <<request, index>>
  sup,      \* SUPERSEDES: <<newer, older>>
  lock,     \* batch:lock:{silo_id}: whose value it holds
  req,      \* what each request is doing
  faults,   \* statements that raised, processes that died, locks that expired
  partial,  \* history: claims whose store_claim raised after its CREATE
  expired   \* history: <<request, pc>>, where the lock of a request expired

graphVars == <<known, stored, sup, partial>>
vars == <<graphVars, lock, req, faults, expired>>

Modes == {"skip", "supersede", "error"}
NoClaim == <<NoRequest, 0>>
\* What detect_supersession leaves on an item.
Plain == [skip |-> FALSE, error |-> FALSE, old |-> NoClaim, doc |-> 0,
          index |-> 0]

Idle == [pc |-> "idle", batch |-> <<>>, mode |-> "skip", plan |-> <<>>,
         todo |-> <<>>, pos |-> 1, made |-> {}, failed |-> 0, answer |-> <<>>]

Init ==
  /\ known = {} /\ stored = {} /\ sup = {}
  /\ lock = NoRequest
  /\ req = [r \in Request |-> Idle]
  /\ faults = 0
  /\ partial = {} /\ expired = {}

Fault ==
  /\ faults < MaxFaults
  /\ faults' = faults + 1

At(r, pc) == req[r].pc = pc
Goes(r, pc) == req' = [req EXCEPT ![r].pc = pc]

-----------------------------------------------------------------------------
(* batch_silo_lock.                                                        *)

Arrive(r) ==
  /\ At(r, "idle")
  /\ \E b \in Batch, mode \in Modes :
       req' = [req EXCEPT ![r] =
                 [Idle EXCEPT !.pc = "lock", !.batch = b, !.mode = mode]]
  /\ UNCHANGED <<graphVars, lock, faults, expired>>

\* SET NX EX.
Acquire(r) ==
  /\ At(r, "lock")
  /\ lock = NoRequest
  /\ lock' = r
  /\ Goes(r, "detect")
  /\ UNCHANGED <<graphVars, faults, expired>>

\* Ten attempts, then a 503; a lock that can be had may be missed by all.
GiveUp(r) ==
  /\ At(r, "lock")
  /\ Goes(r, "refused")
  /\ UNCHANGED <<graphVars, lock, faults, expired>>

\* Mutant: the lock is deleted without asking whose it is.
ReleaseUnasked(r) ==
  /\ At(r, "release")
  /\ lock' = NoRequest
  /\ Goes(r, "done")
  /\ UNCHANGED <<graphVars, faults, expired>>

\* The release asks first whether the lock is still its own ...
ReleaseGet(r) ==
  /\ At(r, "release")
  /\ Goes(r, IF lock = r THEN "delete" ELSE "done")
  /\ UNCHANGED <<graphVars, lock, faults, expired>>

\* ... and then deletes it, whoever's it is by now.
ReleaseDelete(r) ==
  /\ At(r, "delete")
  /\ lock' = NoRequest
  /\ Goes(r, "done")
  /\ UNCHANGED <<graphVars, faults, expired>>

\* The TTL of five minutes.
Expire ==
  /\ lock # NoRequest
  /\ Fault
  /\ lock' = NoRequest
  /\ expired' = expired \cup {<<lock, req[lock].pc>>}
  /\ UNCHANGED <<graphVars, req>>

\* The process dies, or Redis raises in the release: the lock stays.
Dies(r) ==
  /\ req[r].pc \in {"detect", "create", "edge", "release", "delete"}
  /\ Fault
  /\ Goes(r, "dead")
  /\ UNCHANGED <<graphVars, lock, expired>>

-----------------------------------------------------------------------------
(* detect_supersession.                                                    *)

\* The entries of a topic are sorted by timestamp, none last, by document,
\* none first, and by place in the batch, what is known last.
Late(b) == 1 + Max({b[i].time : i \in DOMAIN b} \cup {0})
Place(b, i) ==
  <<IF b[i].time = 0 THEN Late(b) ELSE b[i].time, b[i].doc, i>>
KnownPlace(b) == <<Late(b), 0, Len(b) + 1>>

Sooner(k, m) ==
  \/ k[1] < m[1]
  \/ k[1] = m[1] /\ k[2] < m[2]
  \/ k[1] = m[1] /\ k[2] = m[2] /\ k[3] < m[3]

Peers(b, i) == {j \in DOMAIN b : b[j].topic = b[i].topic}

\* Mutant: the items are taken in the order of the batch.
PreviousInBatch(b, i) == Max({j \in Peers(b, i) : j < i} \cup {0})

\* The item of the batch that is sorted right before item i; 0 if none is.
PreviousItem(b, i) ==
  LET before == {j \in Peers(b, i) : Sooner(Place(b, j), Place(b, i))}
  IN  IF before = {} THEN 0
      ELSE CHOOSE j \in before :
             \A k \in before \ {j} : Sooner(Place(b, k), Place(b, j))

\* What is known is right before item i.
FollowsKnown(b, i) ==
  /\ Sooner(KnownPlace(b), Place(b, i))
  /\ LET j == PreviousItem(b, i)
     IN  j = 0 \/ Sooner(Place(b, j), KnownPlace(b))

KnownAbout(topic) == {x \in known : About[x].topic = topic}

\* An item that follows a known claim x, by conflict_mode.
PlanKnown(mode, x) ==
  CASE mode = "error"     -> [Plain EXCEPT !.error = TRUE]
    [] mode = "skip"      -> [Plain EXCEPT !.skip = TRUE]
    [] mode = "supersede" -> [Plain EXCEPT !.old = x]

\* An item that follows item j.
PlanItem(b, j) ==
  IF b[j].doc # 0 THEN [Plain EXCEPT !.doc = b[j].doc]
  ELSE [Plain EXCEPT !.index = j]

\* last says which of the known claims of a topic comes last: they are alike
\* in all that is sorted by.
Planned(b, mode, last, i) ==
  LET j == PreviousItem(b, i)
      x == last[b[i].topic]
  IN  IF b[i].topic = NoTopic THEN Plain
      ELSE IF KnownAbout(b[i].topic) # {} /\ FollowsKnown(b, i)
      THEN IF About[x].object = b[i].object THEN Plain ELSE PlanKnown(mode, x)
      ELSE IF j = 0 \/ b[j].object = b[i].object THEN Plain
      ELSE PlanItem(b, j)

Lasts ==
  {f \in [Topic -> Extracted \cup {NoRequest}] :
     \A t \in Topic : IF KnownAbout(t) = {} THEN f[t] = NoRequest
                      ELSE f[t] \in KnownAbout(t)}

\* A set of places in a batch, in the order of the batch.
InOrder(S) ==
  [k \in 1 .. Cardinality(S) |->
     CHOOSE i \in S : Cardinality({j \in S : j < i}) = k - 1]

LeftOut(plan) == {i \in DOMAIN plan : plan[i].skip \/ plan[i].error}

\* The items that will be written, in the order of the batch.
ToWrite(plan) == InOrder(DOMAIN plan \ LeftOut(plan))

\* At the end the items that were not to be written are answered for.
NotWritten(plan) ==
  LET left == InOrder(LeftOut(plan))
  IN  [k \in DOMAIN left |->
         <<left[k], IF plan[left[k]].skip THEN "skipped" ELSE "failed">>]

Finished(frame) ==
  [frame EXCEPT !.pc = "release", !.answer = @ \o NotWritten(frame.plan)]

\* The duplicate check, the look-up and the plan.
Detect(r) ==
  /\ At(r, "detect")
  /\ \E last \in Lasts :
       LET b == req[r].batch
           plan == [i \in DOMAIN b |-> Planned(b, req[r].mode, last, i)]
           frame == [req[r] EXCEPT !.plan = plan, !.todo = ToWrite(plan)]
       IN  req' = [req EXCEPT ![r] =
             IF ToWrite(plan) = <<>> THEN Finished(frame)
             ELSE [frame EXCEPT !.pc = "create"]]
  /\ UNCHANGED <<graphVars, lock, faults, expired>>

\* A query raises: a 500, after the release.
DetectFails(r) ==
  /\ At(r, "detect")
  /\ Fault
  /\ Goes(r, "release")
  /\ UNCHANGED <<graphVars, lock, expired>>

\* The extraction asset, with its claims' subjects as properties of their own.
Extract(x) ==
  /\ x \notin known
  /\ known' = known \cup {x}
  /\ UNCHANGED <<stored, sup, partial, lock, req, faults, expired>>

-----------------------------------------------------------------------------
(* The writing.                                                            *)

Current(r) == req[r].todo[req[r].pos]

\* Mutant: nobody looks whether the earlier item has been stored.
TargetUnmade(r) ==
  LET p == req[r].plan[Current(r)]
  IN  IF p.old # NoClaim THEN p.old
      ELSE IF p.index # 0 THEN <<r, p.index>>
      ELSE NoClaim

\* Mutant: items are found by their documents only.
TargetByDocument(r) ==
  LET p == req[r].plan[Current(r)]
      ofDoc == {j \in req[r].made : req[r].batch[j].doc = p.doc}
  IN  IF p.old # NoClaim THEN p.old
      ELSE IF p.doc # 0 /\ ofDoc # {} THEN <<r, Max(ofDoc)>>
      ELSE NoClaim

\* The claim that the current item supersedes: one that was known, or one of
\* those made so far, by its place or as the last one of its document.
Target(r) ==
  LET p == req[r].plan[Current(r)]
      ofDoc == {j \in req[r].made : req[r].batch[j].doc = p.doc}
  IN  IF p.old # NoClaim THEN p.old
      ELSE IF p.index \in req[r].made THEN <<r, p.index>>
      ELSE IF p.doc # 0 /\ ofDoc # {} THEN <<r, Max(ofDoc)>>
      ELSE NoClaim

\* The place in todo where the chunk of the place pos ends.
ChunkEnd(todo, pos) ==
  LET end == ((pos - 1) \div ChunkSize + 1) * ChunkSize
  IN  IF end > Len(todo) THEN Len(todo) ELSE end

\* More than half of the chunk's items failed.
Aborts(frame) ==
  LET start == ((frame.pos - 1) \div ChunkSize) * ChunkSize
      size == ChunkEnd(frame.todo, frame.pos) - start
  IN  frame.failed > size \div 2

\* Mutant: the last item of the chunk is answered for again.
AbortedTooEarly(frame) ==
  [frame EXCEPT !.answer = @ \o
     [k \in 1 .. Len(frame.todo) - frame.pos + 1 |->
        <<frame.todo[frame.pos + k - 1], "failed">>]]

\* The items after the chunk are answered for as failed.
Aborted(frame) ==
  [frame EXCEPT !.answer = @ \o
     [k \in 1 .. Len(frame.todo) - frame.pos |->
        <<frame.todo[frame.pos + k], "failed">>]]

\* What follows an item.
Onwards(frame) ==
  LET end == ChunkEnd(frame.todo, frame.pos)
  IN  IF frame.pos = end /\ Aborts(frame) THEN Finished(Aborted(frame))
      ELSE IF frame.pos = Len(frame.todo) THEN Finished(frame)
      ELSE [frame EXCEPT !.pc = "create", !.pos = @ + 1,
                         !.failed = IF frame.pos = end THEN 0 ELSE @]

Created(r) ==
  Onwards([req[r] EXCEPT !.made = @ \cup {Current(r)},
                         !.answer = Append(@, <<Current(r), "created">>)])
Failed(r) ==
  Onwards([req[r] EXCEPT !.failed = @ + 1,
                         !.answer = Append(@, <<Current(r), "failed">>)])

\* store_claim creates the node ...
Create(r) ==
  /\ At(r, "create")
  /\ stored' = stored \cup {<<r, Current(r)>>}
  /\ Goes(r, "edge")
  /\ UNCHANGED <<known, sup, partial, lock, faults, expired>>

Edge(r) ==
  IF Target(r) = NoClaim THEN {} ELSE {<<<<r, Current(r)>>, Target(r)>>}

\* ... and then its SUPERSEDES edge, and what else store_claim has to do.
Link(r) ==
  /\ At(r, "edge")
  /\ Target(r) \notin Extracted
  /\ sup' = sup \cup Edge(r)
  /\ req' = [req EXCEPT ![r] = Created(r)]
  /\ UNCHANGED <<known, stored, partial, lock, faults, expired>>

\* After the edge to an extracted claim store_claim raises: the claim's id is
\* no UUID.  The edge may not even come to be, as its query sets the state
\* inside properties, which the claim lacks.
LinkHashed(r) ==
  /\ At(r, "edge")
  /\ Target(r) \in Extracted
  /\ sup' \in {sup, sup \cup Edge(r)}
  /\ partial' = partial \cup {<<r, Current(r)>>}
  /\ req' = [req EXCEPT ![r] = Failed(r)]
  /\ UNCHANGED <<known, stored, lock, faults, expired>>

\* store_claim raises before its CREATE ...
CreateFails(r) ==
  /\ At(r, "create")
  /\ Fault
  /\ req' = [req EXCEPT ![r] = Failed(r)]
  /\ UNCHANGED <<graphVars, lock, expired>>

\* ... or after it, before or after the edge.
LinkFails(r) ==
  /\ At(r, "edge")
  /\ Fault
  /\ sup' \in {sup, sup \cup Edge(r)}
  /\ partial' = partial \cup {<<r, Current(r)>>}
  /\ req' = [req EXCEPT ![r] = Failed(r)]
  /\ UNCHANGED <<known, stored, lock, expired>>

-----------------------------------------------------------------------------

Next ==
  \/ \E r \in Request :
       \/ Arrive(r) \/ Acquire(r) \/ GiveUp(r)
       \/ Detect(r) \/ DetectFails(r)
       \/ Create(r) \/ CreateFails(r)
       \/ Link(r) \/ LinkHashed(r) \/ LinkFails(r)
       \/ ReleaseGet(r) \/ ReleaseDelete(r) \/ Dies(r)
  \/ \E x \in Extracted : Extract(x)
  \/ Expire

Spec == Init /\ [][Next]_vars

-----------------------------------------------------------------------------

\* What detect_supersession may leave on an item, and what a request is.
Plan == [skip : BOOLEAN, error : BOOLEAN, old : Extracted \cup {NoClaim},
         doc : Nat, index : Nat]
Verdict == {"created", "skipped", "failed"}
Pc == {"idle", "lock", "refused", "detect", "create", "edge", "release",
       "delete", "done", "dead"}
Frame ==
  [pc : Pc, batch : Batch \cup {<<>>}, mode : Modes, plan : Seq(Plan),
   todo : Seq(Nat), pos : Nat \ {0}, made : SUBSET Nat, failed : Nat,
   answer : Seq(Nat \X Verdict)]

TypeOK ==
  /\ known \subseteq Extracted
  /\ stored \subseteq Request \X (Nat \ {0}) /\ partial \subseteq stored
  /\ sup \subseteq stored \X (stored \cup known)
  /\ lock \in Request \cup {NoRequest}
  /\ req \in [Request -> Frame]
  /\ \A r \in Request :
       LET f == req[r]
       IN  /\ f.made \subseteq DOMAIN f.batch /\ f.pos <= Len(f.batch) + 1
           /\ {f.todo[k] : k \in DOMAIN f.todo} \subseteq DOMAIN f.batch
  /\ faults \in 0 .. MaxFaults
  /\ expired \subseteq Request \X Pc

\* A request reads and writes under the lock, although the lock has a TTL and
\* its release is two commands: it is inside without the lock only if its own
\* lock has expired, or some lock expired between the two commands of its
\* release, so that the second deleted the lock of another request.
Inside(r) == req[r].pc \in {"detect", "create", "edge"}

InsideUnderLock ==
  \A r \in Request :
    Inside(r) => \/ lock = r
                 \/ \E e \in expired : e[1] = r \/ e[2] = "delete"

\* Some other item has the document of item j, so that created_by_doc_id may
\* name another claim for it.
SharedDoc(b, j) ==
  \E k \in DOMAIN b \ {j} : b[k].doc = b[j].doc /\ b[j].doc # 0

\* Whoever is superseded is superseded for a reason: by a claim about the
\* same topic that says something else and is later in the sorted order -
\* unless several items come from one document.
Rightful(r, i, old) ==
  LET b == req[r].batch
  IN  \/ /\ old \in Extracted
         /\ About[old].topic = b[i].topic /\ About[old].object # b[i].object
         /\ req[r].mode = "supersede"
      \/ \E j \in DOMAIN b :
           /\ old = <<r, j>>
           /\ \/ /\ b[j].topic = b[i].topic /\ b[j].object # b[i].object
                 /\ Sooner(Place(b, j), Place(b, i))
              \/ SharedDoc(b, j)

SupersededForAReason ==
  \A e \in sup : Rightful(e[1][1], e[1][2], e[2])

\* A known claim came, or may have come, between item i and the one before.
Interposed(r, i) ==
  KnownAbout(req[r].batch[i].topic) # {} /\ FollowsKnown(req[r].batch, i)

\* In every chunk, and across the chunks: of two claims of one batch that say
\* different things about a topic, and are next to each other in the sorted
\* order, the later one supersedes the earlier one - unless the batch has
\* them the other way round, the document of the earlier one is shared, or a
\* known claim is between them.
NeighboursLinked ==
  \A r \in Request :
    LET b == req[r].batch
    IN  \A i \in req[r].made :
          LET j == PreviousItem(b, i)
          IN  /\ b[i].topic # NoTopic /\ j \in req[r].made
              /\ j < i /\ b[j].object # b[i].object /\ ~SharedDoc(b, j)
              /\ ~Interposed(r, i)
              => <<<<r, i>>, <<r, j>>>> \in sup

\* A request that is answered says exactly one thing of every item, aborted
\* or not; and what it says is true, except of a claim whose store_claim
\* raised after its CREATE, as it always does if the claim supersedes an
\* extracted one: that one is called failed and is there.
AnswersTrue ==
  \A r \in Request :
    LET said == req[r].answer
        N == Len(req[r].batch)
    IN  req[r].pc \in {"release", "delete", "done"} /\ said # <<>> =>
          /\ Len(said) = N /\ {said[k][1] : k \in 1 .. N} = 1 .. N
          /\ \A k \in 1 .. N :
               <<r, said[k][1]>> \in stored <=>
                 \/ said[k][2] = "created"
                 \/ said[k][2] = "failed" /\ <<r, said[k][1]>> \in partial

=============================================================================
