--------------------------- MODULE SageLifecycle ---------------------------
(***************************************************************************)
(* The transactional write path of sage/transactions.py on one silo: what  *)
(* TX store_memory, store_claim, supersede, link, forget, cancel_forget    *)
(* and hard_delete do to the graph, to the lifecycle state of a node and   *)
(* to the Postgres shadow row used by text search.                         *)
(*                                                                         *)
(* Every store.execute_query / execute_write of the code is a Memgraph     *)
(* transaction of its own, so each is one action here and the operations   *)
(* of different agents interleave between them.  op[a] is the frame of the *)
(* coroutine agent a is running: where it is (pc) and the locals it holds  *)
(* across its awaits.  An operation that raises before its first write     *)
(* changes nothing and is not an action; one that raises, times out or     *)
(* dies later is Fail.                                                     *)
(***************************************************************************)
EXTENDS Integers, FiniteSets

CONSTANTS
  Memory,      \* ids that store_memory can draw (uuid4 is never reused)
  Claim,       \* ids that store_claim can draw
  Agent,       \* concurrent callers: requests, reaction workers, Dagster jobs
  Object,      \* object values of claims about one subject and predicate
  NoObject,    \* a claim stored without a complete SPO triple
  NoNode,      \* the argument or local that is None
  LinkTypes,   \* edge types callers pass to link
  Enforce,     \* settings.contradiction_enforcement_enabled
  PgReliable,  \* TRUE: no Postgres statement of the shadow sync fails
  Window,      \* CANCEL_WINDOW_DURATION_SECONDS, in clock units
  MaxTime,     \* bound on the clock
  MaxCalls     \* bound on the number of operations started

Node == Memory \cup Claim

ACYCLIC_EDGE_TYPES == {"SUPERSEDES", "DERIVED_FROM"}

ASSUME ConstantsAssumption ==
  /\ Memory \cap Claim = {}
  /\ NoNode \notin Node
  /\ NoObject \notin Object
  /\ LinkTypes \subseteq {"SUPERSEDES", "DERIVED_FROM", "CONTRADICTS"}
  /\ Enforce \in BOOLEAN
  /\ PgReliable \in BOOLEAN
  /\ Window \in Nat
  /\ MaxTime \in Nat
  /\ MaxCalls \in Nat

VARIABLES
  state,     \* properties.state; "absent" before CREATE, "gone" after DELETE
  object,    \* properties.object of a claim
  evidence,  \* the node: references in properties.evidence of a claim
  edges,     \* <<type, source, target>>
  window,    \* properties.cancel_window_expires, NoTime when null
  prev,      \* properties.previous_state
  flagged,   \* nodes whose conflict_status is 'unresolved'
  shadow,    \* nodes.state in Postgres, "none" when there is no row
  op,        \* the frame of each agent's current operation
  calls,     \* number of operations started
  clock,     \* datetime.now(UTC)
  replaced,  \* observer: nodes that some SUPERSEDES write has replaced
  done       \* observer: claims whose store_claim did all its graph writes

graph == <<state, object, evidence, edges, window, prev, flagged>>
vars == <<graph, shadow, op, calls, clock, replaced, done>>

NoTime == -1
States == {"absent", "ACTIVE", "SUPERSEDED", "TOMBSTONED", "gone"}
StoreClaimPCs == {"sc_check", "sc_create", "sc_derive", "sc_supersede",
                  "sc_shadow", "sc_detect", "sc_flag", "sc_status"}
PCs == StoreClaimPCs \cup
       {"idle", "sync", "su_cycle", "su_write", "su_shadow", "ln_check",
        "ln_cycle", "ln_write", "fo_write", "ca_write", "hd_edges", "hd_node"}

Frame == [pc : PCs, node : Node \cup {NoNode}, other : Node \cup {NoNode},
          obj : Object \cup {NoObject}, refs : SUBSET Node,
          todo : SUBSET Node, type : LinkTypes \cup {"none"}, now : Nat]

IdleFrame == [pc |-> "idle", node |-> NoNode, other |-> NoNode,
              obj |-> NoObject, refs |-> {}, todo |-> {}, type |-> "none",
              now |-> 0]

\* Every node, edge, shadow row and coroutine frame holds a value the code can
\* give it; the shadow row in particular is only ever ACTIVE or SUPERSEDED.
TypeOK ==
  /\ state \in [Node -> States]
  /\ object \in [Claim -> Object \cup {NoObject}]
  /\ evidence \in [Claim -> SUBSET Node]
  /\ edges \subseteq {"SUPERSEDES", "DERIVED_FROM", "CONTRADICTS"} \X Node \X Node
  /\ window \in [Node -> Int]
  /\ prev \in [Node -> States]
  /\ flagged \subseteq Node
  /\ shadow \in [Node -> {"none", "ACTIVE", "SUPERSEDED"}]
  /\ op \in [Agent -> Frame]
  /\ calls \in Nat
  /\ clock \in Nat
  /\ replaced \subseteq Node
  /\ done \subseteq Claim

Init ==
  /\ state = [n \in Node |-> "absent"]
  /\ object = [c \in Claim |-> NoObject]
  /\ evidence = [c \in Claim |-> {}]
  /\ edges = {}
  /\ window = [n \in Node |-> NoTime]
  /\ prev = [n \in Node |-> "absent"]
  /\ flagged = {}
  /\ shadow = [n \in Node |-> "none"]
  /\ op = [a \in Agent |-> IdleFrame]
  /\ calls = 0
  /\ clock = 0
  /\ replaced = {}
  /\ done = {}

-----------------------------------------------------------------------------
(* Queries.                                                                *)

Exists(n) == n \in Node /\ state[n] \notin {"absent", "gone"}

\* Mutant: store_claim is one snapshot transaction, so the claims of calls that
\* have not returned are invisible to the conflict query.
ConflictingCommitted(c, o) ==
  {d \in Claim : /\ \A b \in Agent : op[b].node # d
                 /\ state[d] = "ACTIVE"
                 /\ o # NoObject
                 /\ object[d] \notin {o, NoObject}}

\* The MATCH of detect_spo_conflict and check_contradiction_before_write.
Conflicting(c, o) ==
  {d \in Claim \ {c} : /\ state[d] = "ACTIVE"
                       /\ o # NoObject
                       /\ object[d] \notin {o, NoObject}}

\* Is there a path of at least one type-edge from s to t: t is in every set
\* that holds the successors of s and is closed under type-edges.
Path(type, s, t) ==
  \A S \in SUBSET Node :
    (/\ \A n \in Node : <<type, s, n>> \in edges => n \in S
     /\ \A m \in S, n \in Node : <<type, m, n>> \in edges => n \in S)
    => t \in S

Touching(n) == {e \in edges : e[2] = n \/ e[3] = n}

Goto(a, pc) == op' = [op EXCEPT ![a] = [@ EXCEPT !.pc = pc]]
Return(a) == op' = [op EXCEPT ![a] = IdleFrame]
Idle(a) == op[a].pc = "idle"

Fresh(n) == state[n] = "absent" /\ \A b \in Agent : op[b].node # n

-----------------------------------------------------------------------------
(* store_memory, and the shadow upsert that ends it and store_claim.        *)

StoreMemory(a, m) ==
  /\ Idle(a)
  /\ Fresh(m)
  /\ state' = [state EXCEPT ![m] = "ACTIVE"]
  /\ op' = [op EXCEPT ![a] = [IdleFrame EXCEPT !.pc = "sync", !.node = m]]
  /\ UNCHANGED <<object, evidence, edges, window, prev, flagged, shadow,
                 clock, replaced, done>>

\* Best effort: a failure is logged and swallowed.
SyncToPostgres(a) ==
  /\ op[a].pc = "sync"
  /\ \/ shadow' = [shadow EXCEPT ![op[a].node] = "ACTIVE"]
     \/ ~PgReliable /\ UNCHANGED shadow
  /\ Return(a)
  /\ UNCHANGED <<graph, clock, replaced, done>>

\* UPDATE nodes SET state: no effect when the row is not there (yet).
SyncPostgresState(n) ==
  \/ shadow' = [shadow EXCEPT ![n] = IF @ = "none" THEN @ ELSE "SUPERSEDED"]
  \/ ~PgReliable /\ UNCHANGED shadow

-----------------------------------------------------------------------------
(* store_claim: validate the evidence, optionally reject a contradiction,   *)
(* create, link the evidence, supersede, look for conflicts, flag them.     *)

EvidenceValid(refs) ==
  refs # {} => /\ \A e \in refs : Exists(e) /\ state[e] # "TOMBSTONED"
               /\ refs \cap Memory # {}

StoreClaim(a, c, o, refs, sup) ==
  /\ Idle(a)
  /\ Fresh(c)
  /\ EvidenceValid(refs)
  /\ sup # NoNode => state[sup] # "absent"
  /\ op' = [op EXCEPT ![a] =
              [IdleFrame EXCEPT !.pc = IF Enforce THEN "sc_check" ELSE "sc_create",
                                !.node = c, !.other = sup,
                                !.obj = o, !.refs = refs]]
  /\ UNCHANGED <<graph, shadow, clock, replaced, done>>

CheckContradictionBeforeWrite(a) ==
  /\ op[a].pc = "sc_check"
  /\ IF Conflicting(op[a].node, op[a].obj) = {}
       THEN Goto(a, "sc_create")
       ELSE Return(a)                     \* ContradictionRejected
  /\ UNCHANGED <<graph, shadow, clock, replaced, done>>

StoreClaimCreate(a) ==
  LET c == op[a].node IN
  /\ op[a].pc = "sc_create"
  /\ state' = [state EXCEPT ![c] = "ACTIVE"]
  /\ object' = [object EXCEPT ![c] = op[a].obj]
  /\ evidence' = [evidence EXCEPT ![c] = op[a].refs]
  /\ Goto(a, "sc_derive")
  /\ UNCHANGED <<edges, window, prev, flagged, shadow, clock, replaced, done>>

\* An evidence node that vanished since the validation is silently skipped.
CreateDerivedFromEdges(a) ==
  LET c == op[a].node IN
  /\ op[a].pc = "sc_derive"
  /\ edges' = edges \cup
       {<<"DERIVED_FROM", c, e>> : e \in {x \in op[a].refs : Exists(x) /\ Exists(c)}}
  /\ Goto(a, IF op[a].other = NoNode THEN "sc_detect" ELSE "sc_supersede")
  /\ UNCHANGED <<state, object, evidence, window, prev, flagged, shadow,
                 clock, replaced, done>>

\* One write: the loser's state and the edge, whatever state the loser is in;
\* nothing at all when either MATCH finds no node.
CreateSupersedesEdge(w, l) ==
  IF Exists(w) /\ Exists(l)
    THEN /\ state' = [state EXCEPT ![l] = "SUPERSEDED"]
         /\ edges' = edges \cup {<<"SUPERSEDES", w, l>>}
         /\ replaced' = replaced \cup {l}
    ELSE UNCHANGED <<state, edges, replaced>>

StoreClaimSupersede(a) ==
  /\ op[a].pc = "sc_supersede"
  /\ CreateSupersedesEdge(op[a].node, op[a].other)
  /\ Goto(a, "sc_shadow")
  /\ UNCHANGED <<object, evidence, window, prev, flagged, shadow, clock, done>>

StoreClaimShadow(a) ==
  /\ op[a].pc = "sc_shadow"
  /\ SyncPostgresState(op[a].other)
  /\ Goto(a, "sc_detect")
  /\ UNCHANGED <<graph, clock, replaced, done>>

\* The conflict query runs after the claim is visible to everyone else.
DetectSpoConflict(a) ==
  LET c == op[a].node
      found == Conflicting(c, op[a].obj)
  IN
  /\ op[a].pc = "sc_detect"
  /\ op' = [op EXCEPT ![a] =
              [@ EXCEPT !.pc = IF found = {} THEN "sync" ELSE "sc_flag",
                        !.todo = found]]
  /\ done' = IF found = {} THEN done \cup {c} ELSE done
  /\ UNCHANGED <<graph, shadow, clock, replaced>>

CreateBidirectionalContradicts(a) ==
  LET c == op[a].node IN
  /\ op[a].pc = "sc_flag"
  /\ \E d \in op[a].todo :
       /\ edges' = IF Exists(c) /\ Exists(d)
                     THEN edges \cup {<<"CONTRADICTS", c, d>>, <<"CONTRADICTS", d, c>>}
                     ELSE edges
       /\ op' = [op EXCEPT ![a] = [@ EXCEPT !.pc = "sc_status", !.other = d]]
  /\ UNCHANGED <<state, object, evidence, window, prev, flagged, shadow,
                 clock, replaced, done>>

SetConflictStatus(a) ==
  LET c == op[a].node
      rest == op[a].todo \ {op[a].other}
  IN
  /\ op[a].pc = "sc_status"
  /\ flagged' = flagged \cup {n \in {c, op[a].other} : Exists(n)}
  /\ op' = [op EXCEPT ![a] =
              [@ EXCEPT !.pc = IF rest = {} THEN "sync" ELSE "sc_flag",
                        !.todo = rest]]
  /\ done' = IF rest = {} THEN done \cup {c} ELSE done
  /\ UNCHANGED <<state, object, evidence, edges, window, prev, shadow,
                 clock, replaced>>

-----------------------------------------------------------------------------
(* supersede and link: validate by reading, then write unconditionally.     *)

Supersede(a, w, l) ==
  /\ Idle(a)
  /\ state[w] = "ACTIVE" /\ state[l] = "ACTIVE"
  /\ op' = [op EXCEPT ![a] = [IdleFrame EXCEPT !.pc = "su_cycle",
                                               !.node = w, !.other = l]]
  /\ UNCHANGED <<graph, shadow, clock, replaced, done>>

SupersedeCycleCheck(a) ==
  /\ op[a].pc = "su_cycle"
  /\ IF Path("SUPERSEDES", op[a].other, op[a].node)
       THEN Return(a)                     \* CycleError
       ELSE Goto(a, "su_write")
  /\ UNCHANGED <<graph, shadow, clock, replaced, done>>

SupersedeWrite(a) ==
  /\ op[a].pc = "su_write"
  /\ CreateSupersedesEdge(op[a].node, op[a].other)
  /\ Goto(a, "su_shadow")
  /\ UNCHANGED <<object, evidence, window, prev, flagged, shadow, clock, done>>

SupersedeShadow(a) ==
  /\ op[a].pc = "su_shadow"
  /\ SyncPostgresState(op[a].other)
  /\ Return(a)
  /\ UNCHANGED <<graph, clock, replaced, done>>

Link(a, s, t, type) ==
  /\ Idle(a)
  /\ Exists(s) /\ Exists(t)
  /\ op' = [op EXCEPT ![a] = [IdleFrame EXCEPT !.pc = "ln_check", !.node = s,
                                               !.other = t, !.type = type]]
  /\ UNCHANGED <<graph, shadow, clock, replaced, done>>

LinkDuplicateCheck(a) ==
  LET type == op[a].type IN
  /\ op[a].pc = "ln_check"
  /\ IF <<type, op[a].node, op[a].other>> \in edges
       THEN Return(a)                     \* DUPLICATE_EDGE
       ELSE Goto(a, IF type \in ACYCLIC_EDGE_TYPES THEN "ln_cycle" ELSE "ln_write")
  /\ UNCHANGED <<graph, shadow, clock, replaced, done>>

LinkCycleCheck(a) ==
  /\ op[a].pc = "ln_cycle"
  /\ IF Path(op[a].type, op[a].other, op[a].node)
       THEN Return(a)                     \* CycleError
       ELSE Goto(a, "ln_write")
  /\ UNCHANGED <<graph, shadow, clock, replaced, done>>

LinkWrite(a) ==
  LET s == op[a].node
      t == op[a].other
  IN
  /\ op[a].pc = "ln_write"
  /\ edges' = IF Exists(s) /\ Exists(t)
                THEN edges \cup {<<op[a].type, s, t>>} ELSE edges
  /\ Return(a)
  /\ UNCHANGED <<state, object, evidence, window, prev, flagged, shadow,
                 clock, replaced, done>>

-----------------------------------------------------------------------------
(* forget, cancel_forget, hard_delete.                                      *)

Forget(a, n) ==
  /\ Idle(a)
  /\ state[n] \in {"ACTIVE", "SUPERSEDED"}
  /\ op' = [op EXCEPT ![a] = [IdleFrame EXCEPT !.pc = "fo_write", !.node = n,
                                               !.now = clock]]
  /\ UNCHANGED <<graph, shadow, clock, replaced, done>>

\* TOMBSTONE_NODE.  Memgraph applies the items of a SET clause in order and
\* each one sees the ones before it, so previous_state = n.properties.state,
\* the last item, copies the 'TOMBSTONED' the first item has just written.
TombstoneNode(a) ==
  LET n == op[a].node IN
  /\ op[a].pc = "fo_write"
  /\ IF state[n] \in {"ACTIVE", "SUPERSEDED"}
       THEN /\ state' = [state EXCEPT ![n] = "TOMBSTONED"]
            /\ prev' = [prev EXCEPT ![n] = state'[n]]
            /\ window' = [window EXCEPT ![n] = op[a].now + Window]
       ELSE UNCHANGED <<state, prev, window>>
  /\ Return(a)
  /\ UNCHANGED <<object, evidence, edges, flagged, shadow, clock, replaced, done>>

CancelForget(a, n) ==
  /\ Idle(a)
  /\ state[n] = "TOMBSTONED"
  /\ window[n] # NoTime => clock <= window[n]
  /\ op' = [op EXCEPT ![a] = [IdleFrame EXCEPT !.pc = "ca_write", !.node = n,
                                               !.now = clock]]
  /\ UNCHANGED <<graph, shadow, clock, replaced, done>>

\* Mutant: cancel_forget sets 'ACTIVE' instead of the recorded state.
RestoreToActive(a) ==
  LET n == op[a].node IN
  /\ op[a].pc = "ca_write"
  /\ IF /\ state[n] = "TOMBSTONED"
        /\ window[n] # NoTime
        /\ window[n] > op[a].now
       THEN /\ state' = [state EXCEPT ![n] = "ACTIVE"]
            /\ window' = [window EXCEPT ![n] = NoTime]
       ELSE UNCHANGED <<state, window>>
  /\ Return(a)
  /\ UNCHANGED <<object, evidence, edges, prev, flagged, shadow, clock,
                 replaced, done>>

\* RESTORE_TOMBSTONED_NODE; the caller is told "restored" either way.
RestoreTombstonedNode(a) ==
  LET n == op[a].node IN
  /\ op[a].pc = "ca_write"
  /\ IF /\ state[n] = "TOMBSTONED"
        /\ window[n] # NoTime
        /\ window[n] > op[a].now
       THEN /\ state' = [state EXCEPT ![n] = prev[n]]
            /\ window' = [window EXCEPT ![n] = NoTime]
       ELSE UNCHANGED <<state, window>>
  /\ Return(a)
  /\ UNCHANGED <<object, evidence, edges, prev, flagged, shadow, clock,
                 replaced, done>>

GetTombstonedForGC ==
  {n \in Node : /\ state[n] = "TOMBSTONED"
                /\ window[n] # NoTime
                /\ window[n] < clock}

HardDelete(a) ==
  /\ Idle(a)
  /\ GetTombstonedForGC # {}
  /\ op' = [op EXCEPT ![a] = [IdleFrame EXCEPT !.pc = "hd_edges",
                                               !.todo = GetTombstonedForGC]]
  /\ UNCHANGED <<graph, shadow, clock, replaced, done>>

DeleteEdgesForNode(a) ==
  /\ op[a].pc = "hd_edges"
  /\ \E n \in op[a].todo :
       /\ edges' = edges \ Touching(n)
       /\ op' = [op EXCEPT ![a] = [@ EXCEPT !.pc = "hd_node", !.other = n]]
  /\ UNCHANGED <<state, object, evidence, window, prev, flagged, shadow,
                 clock, replaced, done>>

\* The rest of the loop, once n is dealt with.
NextCandidate(a, n) ==
  LET rest == op[a].todo \ {n} IN
  op' = [op EXCEPT ![a] = IF rest = {} THEN IdleFrame
                          ELSE [@ EXCEPT !.pc = "hd_edges", !.todo = rest]]

\* DELETE without DETACH raises when an edge has appeared since: skipped.
HardDeleteNode(a) ==
  LET n == op[a].other IN
  /\ op[a].pc = "hd_node"
  /\ state' = IF state[n] = "TOMBSTONED" /\ Touching(n) = {}
                THEN [state EXCEPT ![n] = "gone"] ELSE state
  /\ NextCandidate(a, n)
  /\ UNCHANGED <<object, evidence, edges, window, prev, flagged, shadow,
                 clock, replaced, done>>

\* Either delete raises: the candidate is counted as skipped, the loop goes on.
HardDeleteSkip(a) ==
  /\ \/ op[a].pc = "hd_edges" /\ \E n \in op[a].todo : NextCandidate(a, n)
     \/ op[a].pc = "hd_node" /\ NextCandidate(a, op[a].other)
  /\ UNCHANGED <<graph, shadow, clock, replaced, done>>

-----------------------------------------------------------------------------

\* A query times out, the connection drops or the process dies: whatever was
\* written stays, the rest of the operation never runs.
Fail(a) ==
  /\ ~Idle(a)
  /\ Return(a)
  /\ UNCHANGED <<graph, shadow, clock, replaced, done>>

Tick ==
  /\ clock < MaxTime
  /\ clock' = clock + 1
  /\ UNCHANGED <<graph, shadow, op, calls, replaced, done>>

Start(a) ==
  \/ \E m \in Memory : StoreMemory(a, m)
  \/ \E c \in Claim, o \in Object \cup {NoObject}, refs \in SUBSET Node,
        sup \in Node \cup {NoNode} : StoreClaim(a, c, o, refs, sup)
  \/ \E w, l \in Node : Supersede(a, w, l)
  \/ \E s, t \in Node, type \in LinkTypes : Link(a, s, t, type)
  \/ \E n \in Node : Forget(a, n)
  \/ \E n \in Node : CancelForget(a, n)
  \/ HardDelete(a)

Continue(a) ==
  \/ SyncToPostgres(a)
  \/ CheckContradictionBeforeWrite(a)
  \/ StoreClaimCreate(a)
  \/ CreateDerivedFromEdges(a)
  \/ StoreClaimSupersede(a)
  \/ StoreClaimShadow(a)
  \/ DetectSpoConflict(a)
  \/ CreateBidirectionalContradicts(a)
  \/ SetConflictStatus(a)
  \/ SupersedeCycleCheck(a)
  \/ SupersedeWrite(a)
  \/ SupersedeShadow(a)
  \/ LinkDuplicateCheck(a)
  \/ LinkCycleCheck(a)
  \/ LinkWrite(a)
  \/ TombstoneNode(a)
  \/ RestoreTombstonedNode(a)
  \/ DeleteEdgesForNode(a)
  \/ HardDeleteNode(a)
  \/ HardDeleteSkip(a)

Call(a) ==
  /\ calls < MaxCalls
  /\ calls' = calls + 1
  /\ Start(a)

Resume(a) == (Continue(a) \/ Fail(a)) /\ UNCHANGED calls

Next == Tick \/ \E a \in Agent : Call(a) \/ Resume(a)

Spec == Init /\ [][Next]_vars

-----------------------------------------------------------------------------
(* Properties.                                                             *)

Active(n) == state[n] = "ACTIVE"

Contradict(c, d) ==
  /\ object[c] # NoObject /\ object[d] # NoObject
  /\ object[c] # object[d]

FlaggedPair(c, d) ==
  /\ <<"CONTRADICTS", c, d>> \in edges /\ <<"CONTRADICTS", d, c>> \in edges
  /\ {c, d} \subseteq flagged

\* INV8: once the store_claim calls of two claims with the same subject and
\* predicate but different objects have both returned, and both claims are
\* still ACTIVE, they are linked by CONTRADICTS in both directions and both
\* are marked unresolved, however the two calls interleaved with each other
\* and with forget and supersede (the theorem adds the garbage collector, which
\* the run of this property, without a clock, never starts).
ConflictsFlagged ==
  \A c, d \in done :
    Active(c) /\ Active(d) /\ Contradict(c, d) => FlaggedPair(c, d)

\* INV2: an ACTIVE claim whose store_claim returned still has its DERIVED_FROM
\* edge to every evidence node that is itself ACTIVE: it was not lost between
\* validating the evidence and linking it, and no garbage collection working
\* from an old candidate list takes it away.
LiveProvenance ==
  \A c \in done : \A e \in evidence[c] :
    Active(c) /\ Active(e) => <<"DERIVED_FROM", c, e>> \in edges

\* A node replaced by supersede or by store_claim(supersedes=...) is never
\* ACTIVE again: forgetting it and cancelling the forget, in any order with
\* the replacement, does not bring the old version back into retrieval.
ReplacedStaysReplaced == \A n \in replaced : ~Active(n)

\* DELETE_EDGES_FOR_NODE has no guard of its own: even so hard_delete never
\* removes an edge between two nodes that are both ACTIVE.
LiveEdgesKept ==
  [][\A e \in edges \ edges' : ~(Active(e[2]) /\ Active(e[3]))]_vars

=============================================================================
