------------------------- MODULE SupersessionChain -------------------------
(***************************************************************************)
(* Writing a node that supersedes another one (mcp/tools/context_store.py, *)
(* mcp/tools/decide.py, engine/memgraph_store.py, engine/queries.py): the  *)
(* target is validated, the new node stored, and the SUPERSEDES edge       *)
(* written under a Redis lock, together with the head and tail pointers    *)
(* that give the current head of a chain without walking it.  Beside the   *)
(* requests runs the pruning of long chains.                               *)
(*                                                                         *)
(* Memories, commitments and decisions ("pointer") go through              *)
(* create_supersession; claims ("claim") supersede inside store_claim,     *)
(* with _create_supersedes_edge of sage/transactions.py, which knows no    *)
(* pointers.  The vectors of the nodes are left out, and so is the         *)
(* deletion of a node by retention, erasure or hard_delete.                *)
(***************************************************************************)
EXTENDS Naturals, FiniteSets

CONSTANTS
  MaxNodes,   \* bound: how many nodes are stored
  Writer,     \* requests being served
  MaxLength   \* retention_supersession_chain_max_length

ASSUME ChainAssumption == MaxNodes \in Nat /\ MaxLength \in Nat

VARIABLES
  count,    \* the nodes stored so far; a node's id is its place in that order
  sup,      \* SUPERSEDES: <<newer, older>>
  closed,   \* the nodes with valid_to set
  tail,     \* tail_id
  head,     \* head_id
  lock,     \* the predecessors whose supersession lock is in Redis
  stub,     \* the nodes whose content has been cleared
  prune,    \* the interior nodes chain_pruning has listed
  writer,   \* what each request is doing
  bypassed  \* history: nodes superseded by a claim, or before their own edge

graphVars == <<count, sup, closed, tail, head, bypassed>>
chainVars == <<graphVars, lock, stub, prune, writer>>

Node == 1 .. MaxNodes
NoNode == 0
Ref == Node \cup {NoNode}
Nodes == 1 .. count
NoRequest ==
  [pc |-> "idle", kind |-> "pointer", new |-> NoNode, old |-> NoNode]

ChainTypeOK ==
  /\ count \in 0 .. MaxNodes
  /\ sup \subseteq Nodes \X Nodes
  /\ closed \subseteq Nodes /\ stub \subseteq Nodes /\ prune \subseteq Nodes
  /\ tail \in [Node -> Ref] /\ head \in [Node -> Ref]
  /\ lock \subseteq Nodes /\ bypassed \subseteq Nodes
  /\ writer \in [Writer ->
       [pc: {"idle", "store", "edge", "check", "lock", "write", "release",
             "abort"},
        kind: {"pointer", "claim"}, new: Ref, old: Ref]]

ChainInit ==
  /\ count = 0
  /\ sup = {} /\ closed = {} /\ stub = {} /\ prune = {} /\ bypassed = {}
  /\ tail = [n \in Node |-> NoNode] /\ head = [n \in Node |-> NoNode]
  /\ lock = {}
  /\ writer = [p \in Writer |-> NoRequest]

-----------------------------------------------------------------------------
(* What the queries compute.                                               *)

\* COALESCE.
Or(a, b) == IF a = NoNode THEN b ELSE a

\* RESOLVE_CURRENT_HEAD: through the tail to its head pointer, which counts
\* only if that node is not superseded itself.
Resolve(n) ==
  LET pointer == Or(head[Or(tail[n], n)], n)
  IN  IF pointer \in closed THEN NoNode ELSE pointer

\* a supersedes b, directly or not: b is in every set that the edges lead into
\* from a and do not leave.
Above(a, b) ==
  \A S \in SUBSET Node :
    (\A e \in sup : e[1] \in S \cup {a} => e[2] \in S) => b \in S

\* A path of more than MaxLength edges leads down to n from a node that is
\* not the tail of a longer chain.
DeepBelow(n) ==
  \E len \in MaxLength + 1 .. MaxNodes :
    \E f \in [0 .. len -> Nodes] :
      /\ head[f[0]] \in {NoNode, f[0]}
      /\ f[len] = n
      /\ \A i \in 0 .. len - 1 : <<f[i], f[i + 1]>> \in sup

\* Mutant: the length of the path is not tested.
InteriorWithHeads ==
  {n \in Nodes \ stub : \E m \in Nodes : <<n, m>> \in sup}

\* FIND_STALE_CHAIN_INTERIOR: deep, not yet a stub, and not the chain's end.
Interior ==
  {n \in Nodes \ stub : DeepBelow(n) /\ \E m \in Nodes : <<n, m>> \in sup}

-----------------------------------------------------------------------------
(* The request.                                                            *)

Goes(p, pc) == writer' = [writer EXCEPT ![p].pc = pc]
Ends(p) == writer' = [writer EXCEPT ![p] = NoRequest]
At(p, pc) == writer[p].pc = pc

\* A request that supersedes nothing.
Plain(p) ==
  /\ At(p, "idle")
  /\ writer' = [writer EXCEPT ![p] = [NoRequest EXCEPT !.pc = "store"]]
  /\ UNCHANGED <<graphVars, lock, stub, prune>>

\* validate_supersession_target: the target must be its chain's current head.
Validate(p, kind, o) ==
  /\ At(p, "idle")
  /\ o \in Nodes
  /\ Resolve(o) = o
  /\ writer' = [writer EXCEPT ![p] =
                  [pc |-> "store", kind |-> kind, new |-> NoNode, old |-> o]]
  /\ UNCHANGED <<graphVars, lock, stub, prune>>

\* Where a request with a predecessor goes from there.
Linking(p, new) ==
  writer' = [writer EXCEPT
    ![p].new = new,
    ![p].pc = IF writer[p].kind = "claim" THEN "edge" ELSE "check"]

\* The node is stored: store_memory, store_claim or commit.  Without a
\* predecessor that is all.
Store(p) ==
  LET new == count + 1
  IN  /\ At(p, "store")
      /\ new \in Node
      /\ count' = new
      /\ IF writer[p].old = NoNode THEN Ends(p) ELSE Linking(p, new)
      /\ UNCHANGED <<sup, closed, tail, head, bypassed, lock, stub, prune>>

\* Nodes whose own edge is still to be written.
Unlinked ==
  {n \in Nodes : \E q \in Writer :
     /\ writer[q].new = n
     /\ writer[q].pc \in {"edge", "check", "lock", "write"}}

\* _create_supersedes_edge of store_claim.
ClaimEdge(p) ==
  /\ At(p, "edge")
  /\ sup' = sup \cup {<<writer[p].new, writer[p].old>>}
  /\ closed' = closed \cup {writer[p].old}
  /\ bypassed' = bypassed \cup {writer[p].old}
  /\ Ends(p)
  /\ UNCHANGED <<count, tail, head, lock, stub, prune>>

\* create_supersession: CHECK_SUPERSESSION_CYCLE.  No store deduplicates by
\* content any more, so the answer that ends the request is never given.
CheckCycle(p) ==
  /\ At(p, "check")
  /\ IF Above(writer[p].old, writer[p].new) THEN Ends(p) ELSE Goes(p, "lock")
  /\ UNCHANGED <<graphVars, lock, stub, prune>>

\* _acquire_supersession_lock: SET NX EX.  Somebody else's lock, or Redis
\* failing, raises ConflictError: the node stays, without its edge.
Lock(p) ==
  /\ At(p, "lock")
  /\ \/ /\ writer[p].old \notin lock
        /\ lock' = lock \cup {writer[p].old}
        /\ Goes(p, "write")
     \/ /\ Ends(p)
        /\ UNCHANGED lock
  /\ UNCHANGED <<graphVars, stub, prune>>

\* CREATE_CROSS_NODE_SUPERSEDES is one transaction: the edge, valid_to of the
\* old node, tail_id of the new one unless it has one, head_id of that tail.
Written(p, t) ==
  LET new == writer[p].new
      old == writer[p].old
  IN  /\ At(p, "write")
      /\ sup' = sup \cup {<<new, old>>}
      /\ closed' = closed \cup {old}
      /\ bypassed' = IF old \in Unlinked THEN bypassed \cup {old} ELSE bypassed
      /\ tail' = [tail EXCEPT ![new] = t]
      /\ head' = [head EXCEPT ![t] = new]
      /\ Goes(p, "release")
      /\ UNCHANGED <<count, lock, stub, prune>>

\* Mutant: the old node always counts as the chain's tail.
WriteEdgeToOld(p) == Written(p, writer[p].old)

\* Mutant: the new node is not given its tail.
WriteEdgeNoTail(p) ==
  /\ At(p, "write")
  /\ sup' = sup \cup {<<writer[p].new, writer[p].old>>}
  /\ closed' = closed \cup {writer[p].old}
  /\ head' = [head EXCEPT ![Or(tail[writer[p].old], writer[p].old)] =
                writer[p].new]
  /\ Goes(p, "release")
  /\ UNCHANGED <<count, tail, bypassed, lock, stub, prune>>

\* Mutant: the edge leads from the old node to the new one.
WriteEdgeReversed(p) ==
  /\ At(p, "write")
  /\ sup' = sup \cup {<<writer[p].old, writer[p].new>>}
  /\ closed' = closed \cup {writer[p].old}
  /\ Goes(p, "release")
  /\ UNCHANGED <<count, tail, head, bypassed, lock, stub, prune>>

WriteEdge(p) ==
  Written(p, Or(tail[writer[p].new],
                Or(tail[writer[p].old], writer[p].old)))

WriteFails(p) ==
  /\ At(p, "write")
  /\ Goes(p, "abort")
  /\ UNCHANGED <<graphVars, lock, stub, prune>>

\* _release_supersession_lock deletes the key, whoever set it; an error is
\* only logged.
Release(p) ==
  /\ writer[p].pc \in {"release", "abort"}
  /\ lock' \in {lock \ {writer[p].old}, lock}
  /\ Ends(p)
  /\ UNCHANGED <<graphVars, stub, prune>>

\* The key's TTL.
LockExpires(o) ==
  /\ o \in lock
  /\ lock' = lock \ {o}
  /\ UNCHANGED <<graphVars, stub, prune, writer>>

\* The process dies anywhere.
WriterDies(p) ==
  /\ ~At(p, "idle")
  /\ Ends(p)
  /\ UNCHANGED <<graphVars, lock, stub, prune>>

-----------------------------------------------------------------------------
(* The pruning.                                                            *)

PruneRead ==
  /\ prune = {}
  /\ Interior # {}
  /\ prune' = Interior
  /\ UNCHANGED <<graphVars, lock, stub, writer>>

\* convert_to_stub; a failure is counted and left.
PruneNode(n) ==
  /\ n \in prune
  /\ prune' = prune \ {n}
  /\ stub' \in {stub \cup {n}, stub}
  /\ UNCHANGED <<graphVars, lock, writer>>

-----------------------------------------------------------------------------

ChainNext ==
  \/ \E p \in Writer :
       \/ Plain(p) \/ Store(p) \/ ClaimEdge(p) \/ CheckCycle(p) \/ Lock(p)
       \/ WriteEdge(p) \/ WriteFails(p) \/ Release(p) \/ WriterDies(p)
       \/ \E o \in Node, kind \in {"pointer", "claim"} : Validate(p, kind, o)
  \/ \E n \in Node : LockExpires(n) \/ PruneNode(n)
  \/ PruneRead

ChainSpec == ChainInit /\ [][ChainNext]_chainVars

-----------------------------------------------------------------------------

\* Every SUPERSEDES edge, written by claims and by pointer writers in any
\* interleaving, leads from the younger node to the older one: chains have no
\* cycles although the cycle check is a read long before the write.
NewerSupersedesOlder ==
  \A e \in sup : e[1] > e[2]

\* The pointers of a chain agree, however writers overtake each other: the
\* head that a tail names has that tail, and supersedes it over the edges.
PointersAgree ==
  \A t \in Node :
    head[t] # NoNode => tail[head[t]] = t /\ Above(head[t], t)

\* Whatever the writers do, RESOLVE_CURRENT_HEAD gives up on a chain, and nobody
\* can supersede in it any more, only if the node its pointer names was
\* superseded by a claim, or between its own storing and its own edge.  (That
\* retention, erasure or hard_delete take the node is outside this module.)
HeadsCurrent ==
  \A n \in Nodes :
    Resolve(n) = NoNode =>
      Or(head[Or(tail[n], n)], n) \in bypassed

\* What the pruning clears, it clears for good: a stub has a successor, so no
\* request is told that it is a current head.
StubsAreHistory ==
  \A n \in stub : \E m \in Nodes : <<m, n>> \in sup /\ Resolve(m) # n

=============================================================================
