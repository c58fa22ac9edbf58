------------------------- MODULE SupersessionProofs -------------------------
(***************************************************************************)
(* Proofs about what supersession does: to the chain of nodes              *)
(* (SupersessionChain) and, through the cascade, to the beliefs            *)
(* (BeliefFlow with ReactionQueue).                                        *)
(*                                                                         *)
(* For every number of nodes and requests the chain keeps its types,       *)
(* NewerSupersedesOlder, PointersAgree, HeadsCurrent and StubsAreHistory.  *)
(* For every graph of derivations, with cycles or without, and any number  *)
(* of beliefs, workers and revisers, BeliefFlow keeps its types,           *)
(* MessagesConserved and StalenessAccounted.                               *)
(***************************************************************************)
EXTENDS SupersessionChain, BeliefFlow, TLAPS, FiniteSetTheorems,
        SequenceTheorems

-----------------------------------------------------------------------------
(* The chain.                                                              *)

WriterRec == [pc: {"idle", "store", "edge", "check", "lock", "write", "release",
                   "abort"},
              kind: {"pointer", "claim"}, new: Ref, old: Ref]

\* The requests with a node of their own that has no edge yet.
LinkingPCs == {"edge", "check", "lock", "write"}

\* What a request knows: the target it has validated is older than the node it
\* has stored, which has no tail before its edge.
WriterOK(w) ==
  /\ w.pc = "store" => w.old \in Nodes \cup {NoNode}
  /\ w.pc \in LinkingPCs =>
       /\ w.new \in Nodes /\ w.old \in Nodes /\ w.old < w.new
       /\ tail[w.new] = NoNode
  /\ w.pc \in {"release", "abort"} => w.old \in Nodes

\* No two requests have stored the same node.
WriterInv ==
  /\ \A p \in Writer : WriterOK(writer[p])
  /\ \A p, q \in Writer :
       /\ p # q
       /\ writer[p].pc \in LinkingPCs /\ writer[q].pc \in LinkingPCs
       => writer[p].new # writer[q].new

\* Edges lead from younger to older nodes, whose validity they end.
EdgeInv == \A e \in sup : e[1] > e[2] /\ e[2] \in closed

\* Only nodes that are stored have pointers or are named by one, and the head
\* of a tail has that tail.
PointerInv ==
  /\ \A n \in Node : /\ tail[n] \in Nodes \cup {NoNode}
                     /\ head[n] \in Nodes \cup {NoNode}
                     /\ n \notin Nodes => tail[n] = NoNode /\ head[n] = NoNode
  /\ \A t \in Node : head[t] # NoNode => tail[head[t]] = t

\* A node that was superseded before its own edge is recorded as bypassed.
BypassInv == Unlinked \cap closed \subseteq bypassed

\* What the pruning has listed or cleared has a successor.
Replaced(n) == \E m \in Nodes : <<m, n>> \in sup
PruneInv == \A n \in prune \cup stub : Replaced(n)

ChainInv ==
  /\ ChainTypeOK /\ WriterInv /\ EdgeInv /\ PointerInv /\ BypassInv
  /\ HeadsCurrent
  /\ PruneInv

-----------------------------------------------------------------------------
(* Steps of requests.                                                      *)

LEMMA Numbers ==
  /\ NoNode \notin Node /\ NoNode \notin Nodes /\ NoRequest \in WriterRec
  /\ ChainTypeOK => Nodes \subseteq Node
BY ChainAssumption
DEF NoNode, Node, Nodes, NoRequest, WriterRec, Ref, ChainTypeOK

LEMMA WriterType == ChainTypeOK => writer \in [Writer -> WriterRec]
  BY DEF ChainTypeOK, WriterRec

\* A request moves on and writes nothing to the graph.
LEMMA Moves ==
  ASSUME ChainInv, NEW p \in Writer, NEW w \in WriterRec,
         writer' = [writer EXCEPT ![p] = w], WriterOK(w),
         w.pc \in LinkingPCs =>
           writer[p].pc \in LinkingPCs /\ w.new = writer[p].new,
         lock' \subseteq Nodes,
         UNCHANGED <<graphVars, stub, prune>>
  PROVE  ChainInv'
<1> USE DEF graphVars
<1>1. /\ writer' \in [Writer -> WriterRec] /\ writer'[p] = w
      /\ \A q \in Writer \ {p} : writer'[q] = writer[q]
  BY WriterType DEF ChainInv
<1>2. Nodes' = Nodes /\ Unlinked' \subseteq Unlinked
  BY <1>1 DEF Nodes, Unlinked, LinkingPCs
<1>3. ChainTypeOK'
  BY <1>1, <1>2 DEF ChainInv, ChainTypeOK, WriterRec
<1>4. WriterInv'
  BY <1>1, <1>2 DEF ChainInv, WriterInv, WriterOK
<1>5. EdgeInv' /\ PointerInv' /\ HeadsCurrent' /\ PruneInv'
  BY <1>2 DEF ChainInv, EdgeInv, PointerInv, HeadsCurrent, PruneInv, Replaced,
              Resolve
<1>6. BypassInv'
  BY <1>2 DEF ChainInv, BypassInv
<1> QED
  BY <1>3, <1>4, <1>5, <1>6 DEF ChainInv

\* The end of a request.
LEMMA Ended ==
  ASSUME ChainInv, NEW p \in Writer, Ends(p), lock' \subseteq Nodes,
         UNCHANGED <<graphVars, stub, prune>>
  PROVE  ChainInv'
  BY Moves, Numbers DEF Ends, NoRequest, WriterOK, LinkingPCs

\* A request goes on with the nodes it has.
LEMMA GoesOn ==
  ASSUME ChainInv, NEW p \in Writer,
         NEW pc \in {"check", "lock", "write", "release", "abort"},
         Goes(p, pc), writer[p].pc \in LinkingPCs, lock' \subseteq Nodes,
         UNCHANGED <<graphVars, stub, prune>>
  PROVE  ChainInv'
<1> DEFINE w == [writer[p] EXCEPT !.pc = pc]
<1>1. writer[p] \in WriterRec /\ WriterOK(writer[p])
  BY WriterType DEF ChainInv, WriterInv
<1>2. /\ w \in WriterRec /\ w.pc = pc /\ w.new = writer[p].new
      /\ w.old = writer[p].old
  BY <1>1 DEF WriterRec
<1>3. writer' = [writer EXCEPT ![p] = w]
  BY DEF Goes
<1>4. WriterOK(w)
  BY <1>1, <1>2 DEF WriterOK, LinkingPCs
<1> QED
  BY <1>2, <1>3, <1>4, Moves DEF LinkingPCs

\* Plain and Validate: a request starts.
LEMMA Starts ==
  ASSUME ChainInv, NEW p \in Writer,
         Plain(p) \/ \E o \in Node, kind \in {"pointer", "claim"} :
                       Validate(p, kind, o)
  PROVE  ChainInv'
<1>0. lock \subseteq Nodes
  BY DEF ChainInv, ChainTypeOK
<1>1. CASE Plain(p)
  <2> DEFINE w == [NoRequest EXCEPT !.pc = "store"]
  <2>1. w \in WriterRec /\ w.pc = "store" /\ w.old = NoNode
    BY DEF NoRequest, WriterRec, Ref
  <2> QED
    BY <2>1, <1>0, <1>1, Moves DEF Plain, WriterOK, LinkingPCs
<1>2. ASSUME NEW o \in Node, NEW kind \in {"pointer", "claim"},
             Validate(p, kind, o)
      PROVE  ChainInv'
  <2> DEFINE w == [pc |-> "store", kind |-> kind, new |-> NoNode, old |-> o]
  <2>1. w \in WriterRec /\ w.pc = "store" /\ w.old = o
    BY DEF WriterRec, Ref
  <2> QED
    BY <2>1, <1>0, <1>2, Moves DEF Validate, WriterOK, LinkingPCs
<1> QED
  BY <1>1, <1>2

\* The node is stored: nobody knows it yet.
LEMMA Stores ==
  ASSUME ChainInv, NEW p \in Writer, Store(p)
  PROVE  ChainInv'
<1> DEFINE new == count + 1
<1> USE Numbers
<1>1. /\ new \in Node /\ new \notin Nodes /\ Nodes' = Nodes \cup {new}
      /\ count \in 0 .. MaxNodes /\ count' = new /\ new \in 0 .. MaxNodes
  <2>1. new \in Node /\ count' = new
    BY DEF Store
  <2>2. count \in 0 .. MaxNodes /\ count \in Nat
    BY ChainAssumption DEF ChainInv, ChainTypeOK
  <2>3. new \in 0 .. MaxNodes
    BY <2>1, ChainAssumption DEF Node
  <2>4. new \notin Nodes
    BY <2>2 DEF Nodes
  <2>5. Nodes' = Nodes \cup {new}
    BY <2>1, <2>2 DEF Nodes
  <2> QED
    BY <2>1, <2>2, <2>3, <2>4, <2>5
<1>2. UNCHANGED <<sup, closed, tail, head, bypassed, lock, stub, prune>>
  BY DEF Store
<1>3. PICK w \in WriterRec :
        /\ writer' = [writer EXCEPT ![p] = w]
        /\ w.pc \in {"idle", "edge", "check"}
        /\ w.pc # "idle" => /\ w.new = new /\ w.old = writer[p].old
                            /\ w.old \in Nodes
  <2>1. writer[p] \in WriterRec /\ WriterOK(writer[p]) /\ writer[p].pc = "store"
    BY WriterType DEF ChainInv, WriterInv, Store, At
  <2>2. CASE writer[p].old = NoNode
    BY <2>2 DEF Store, Ends, NoRequest
  <2>3. CASE writer[p].old # NoNode
    <3> DEFINE f == IF writer[p].kind = "claim" THEN "edge" ELSE "check"
               w == [writer[p] EXCEPT !.new = new, !.pc = f]
    <3>1. /\ w \in WriterRec /\ w.pc \in {"edge", "check"} /\ w.new = new
          /\ w.old = writer[p].old
      BY <2>1, <1>1 DEF WriterRec, Ref
    <3>2. writer' = [writer EXCEPT ![p] = w]
      BY <2>3 DEF Store, Linking
    <3> QED
      BY <3>1, <3>2, <2>1, <2>3 DEF WriterOK
  <2> QED
    BY <2>2, <2>3
<1>4. /\ writer' \in [Writer -> WriterRec] /\ writer'[p] = w
      /\ \A q \in Writer \ {p} : writer'[q] = writer[q]
  BY <1>3, WriterType DEF ChainInv
<1>5. ChainTypeOK'
  BY <1>1, <1>2, <1>4 DEF ChainInv, ChainTypeOK, WriterRec
<1>6. tail[new] = NoNode /\ head[new] = NoNode
  <2> HIDE DEF new
  <2> QED
    BY <1>1 DEF ChainInv, PointerInv
<1>7. WriterInv'
  <2>1. \A o \in Nodes : o < new
    BY <1>1 DEF Nodes
  <2> HIDE DEF new
  <2>2. WriterOK(writer[p])'
    BY <1>1, <1>2, <1>3, <1>4, <1>6, <2>1 DEF WriterOK, LinkingPCs
  <2>3. ASSUME NEW q \in Writer \ {p} PROVE WriterOK(writer[q])'
    BY <1>1, <1>2, <1>4, <2>3 DEF ChainInv, WriterInv, WriterOK
  <2>4. \A q \in Writer \ {p} :
          writer[q].pc \in LinkingPCs => writer[q].new \in Nodes
    BY DEF ChainInv, WriterInv, WriterOK
  <2> QED
    BY <1>1, <1>3, <1>4, <2>2, <2>3, <2>4 DEF ChainInv, WriterInv, LinkingPCs
<1>8. EdgeInv' /\ PointerInv' /\ PruneInv'
  <2> HIDE DEF new
  <2>1. EdgeInv' /\ PruneInv'
    BY <1>1, <1>2 DEF ChainInv, EdgeInv, PruneInv, Replaced
  <2>2. PointerInv'
    BY <1>1, <1>2 DEF ChainInv, PointerInv
  <2> QED
    BY <2>1, <2>2
<1>9. new \notin closed
  BY <1>1 DEF ChainInv, ChainTypeOK
<1>10. BypassInv'
  <2>1. Unlinked' \subseteq Unlinked \cup {new}
    BY <1>1, <1>3, <1>4 DEF Unlinked
  <2> QED
    BY <2>1, <1>2, <1>9 DEF ChainInv, BypassInv
<1>11. HeadsCurrent'
  <2>1. Resolve(new) = new
    BY <1>6, <1>9 DEF Resolve, Or
  <2>2. \A n : Resolve(n)' = Resolve(n)
    BY <1>2 DEF Resolve, Or
  <2> HIDE DEF new
  <2> QED
    BY <2>1, <2>2, <1>1, <1>2 DEF ChainInv, HeadsCurrent, Or
<1> QED
  BY <1>5, <1>7, <1>8, <1>10, <1>11 DEF ChainInv

\* What the two ways of writing an edge have in common.
LEMMA EdgeWritten ==
  ASSUME ChainInv, NEW p \in Writer, writer[p].pc \in {"edge", "write"},
         NEW w \in WriterRec, writer' = [writer EXCEPT ![p] = w],
         w.pc \in {"idle", "release"}, w.old \in Nodes \/ w.pc = "idle",
         sup' = sup \cup {<<writer[p].new, writer[p].old>>},
         closed' = closed \cup {writer[p].old},
         bypassed \subseteq bypassed', bypassed' \subseteq Nodes,
         writer[p].old \in Unlinked => writer[p].old \in bypassed',
         tail' \in [Node -> Ref], head' \in [Node -> Ref],
         \A n \in Node \ {writer[p].new} : tail'[n] = tail[n],
         UNCHANGED <<count, lock, stub, prune>>
  PROVE  ChainTypeOK' /\ WriterInv' /\ EdgeInv' /\ BypassInv' /\ PruneInv'
<1> USE Numbers
<1>1. /\ writer' \in [Writer -> WriterRec] /\ writer'[p] = w
      /\ \A q \in Writer \ {p} : writer'[q] = writer[q]
  BY WriterType DEF ChainInv
<1>2. Nodes' = Nodes /\ Unlinked' \subseteq Unlinked
  BY <1>1 DEF Nodes, Unlinked
<1>3. /\ writer[p].new \in Nodes /\ writer[p].old \in Nodes
      /\ writer[p].old < writer[p].new
  BY DEF ChainInv, WriterInv, WriterOK, LinkingPCs
<1>4. ChainTypeOK'
  BY <1>1, <1>2, <1>3 DEF ChainInv, ChainTypeOK, WriterRec
<1>5. WriterInv'
  <2>1. WriterOK(writer[p])'
    BY <1>1, <1>2 DEF WriterOK, LinkingPCs
  <2>2. ASSUME NEW q \in Writer \ {p} PROVE WriterOK(writer[q])'
    <3>1. WriterOK(writer[q])
      BY DEF ChainInv, WriterInv
    <3>2. writer[q].pc \in LinkingPCs => writer[q].new # writer[p].new
      BY DEF ChainInv, WriterInv, LinkingPCs
    <3> QED
      BY <3>1, <3>2, <1>1, <1>2 DEF WriterOK, ChainInv
  <2> QED
    BY <2>1, <2>2, <1>1 DEF ChainInv, WriterInv, LinkingPCs
<1>6. EdgeInv'
  <2>1. writer[p].new > writer[p].old
    BY <1>3 DEF Nodes, ChainInv, ChainTypeOK
  <2> QED
    BY <2>1 DEF ChainInv, EdgeInv
<1>7. BypassInv'
  BY <1>2 DEF ChainInv, BypassInv
<1>8. PruneInv'
  BY <1>2 DEF ChainInv, PruneInv, Replaced
<1> QED
  BY <1>4, <1>5, <1>6, <1>7, <1>8

\* A claim supersedes: the node it takes is known as bypassed.
LEMMA ClaimWrites ==
  ASSUME ChainInv, NEW p \in Writer, ClaimEdge(p)
  PROVE  ChainInv'
<1> USE Numbers
<1>1. writer[p].pc = "edge" /\ writer[p].old \in Nodes
  BY DEF ClaimEdge, At, ChainInv, WriterInv, WriterOK, LinkingPCs
<1>2. ChainTypeOK' /\ WriterInv' /\ EdgeInv' /\ BypassInv' /\ PruneInv'
  <2>1. /\ bypassed' \subseteq Nodes /\ tail' \in [Node -> Ref]
        /\ head' \in [Node -> Ref]
    BY <1>1 DEF ClaimEdge, ChainInv, ChainTypeOK
  <2>2. NoRequest.pc = "idle"
    BY DEF NoRequest
  <2> QED
    BY <2>1, <2>2, <1>1, EdgeWritten DEF ClaimEdge, Ends
<1>3. Nodes' = Nodes /\ UNCHANGED <<tail, head>>
  BY DEF ClaimEdge, Nodes
<1>4. PointerInv'
  BY <1>3 DEF ChainInv, PointerInv
<1>5. HeadsCurrent'
  <2>1. /\ closed' = closed \cup {writer[p].old}
        /\ bypassed' = bypassed \cup {writer[p].old}
    BY DEF ClaimEdge
  <2> QED
    BY <1>3, <2>1 DEF ChainInv, HeadsCurrent, Resolve, Or
<1> QED
  BY <1>2, <1>4, <1>5 DEF ChainInv

\* The pointers after the edge: the new node takes over the tail.
LEMMA PointersWritten ==
  ASSUME ChainInv, NEW p \in Writer, WriteEdge(p)
  PROVE  PointerInv' /\ HeadsCurrent'
<1> USE Numbers
<1> DEFINE new == writer[p].new
           old == writer[p].old
           t == Or(tail[old], old)
<1>1. /\ new \in Nodes /\ old \in Nodes /\ old # new /\ tail[new] = NoNode
      /\ Nodes \subseteq Node
  <2>1. WriterOK(writer[p]) /\ writer[p].pc = "write"
    BY DEF WriteEdge, Written, At, ChainInv, WriterInv
  <2>2. Nodes \subseteq Nat
    BY DEF Nodes, ChainInv, ChainTypeOK
  <2>3. new \in Nodes /\ old \in Nodes /\ old < new /\ tail[new] = NoNode
    BY <2>1 DEF WriterOK, LinkingPCs
  <2>4. old # new
    <3>1. \A m, n \in Nat : m < n => m # n
      OBVIOUS
    <3> QED
      BY <2>2, <2>3, <3>1
  <2>5. Nodes \subseteq Node
    BY DEF ChainInv
  <2> QED
    BY <2>3, <2>4, <2>5
<1>2. /\ tail' = [tail EXCEPT ![new] = t] /\ head' = [head EXCEPT ![t] = new]
      /\ closed' = closed \cup {old} /\ bypassed \subseteq bypassed'
      /\ old \in Unlinked => old \in bypassed'
      /\ UNCHANGED count
  <2>1. Or(tail[new], Or(tail[old], old)) = t
    BY <1>1 DEF Or
  <2> QED
    BY <2>1 DEF WriteEdge, Written
<1>3. t \in Nodes /\ tail[old] \in Nodes \cup {NoNode}
  BY <1>1 DEF ChainInv, PointerInv, Or
<1>4. /\ tail'[new] = t /\ \A n \in Node \ {new} : tail'[n] = tail[n]
      /\ head'[t] = new /\ \A n \in Node \ {t} : head'[n] = head[n]
      /\ Nodes' = Nodes
  BY <1>1, <1>2, <1>3 DEF ChainInv, ChainTypeOK, Nodes
<1>5. new \in Unlinked
  BY <1>1 DEF Unlinked, WriteEdge, Written, At
<1>6. \A n \in Node : head[n] # new
  BY <1>1 DEF ChainInv, PointerInv
<1> HIDE DEF new, old
<1>7. PointerInv'
  <2>1. \A n \in Node : /\ tail'[n] \in Nodes \cup {NoNode}
                        /\ head'[n] \in Nodes \cup {NoNode}
                        /\ n \notin Nodes =>
                             tail'[n] = NoNode /\ head'[n] = NoNode
    BY <1>1, <1>3, <1>4 DEF ChainInv, PointerInv
  <2>2. ASSUME NEW n \in Node, head'[n] # NoNode PROVE tail'[head'[n]] = n
    <3>1. CASE n = t
      BY <3>1, <1>4
    <3>2. CASE n # t
      <4>1. head'[n] = head[n] /\ head[n] # new /\ head[n] \in Node
        BY <3>2, <2>2, <1>1, <1>4, <1>6 DEF ChainInv, PointerInv
      <4>2. tail[head[n]] = n
        BY <4>1, <2>2 DEF ChainInv, PointerInv
      <4> QED
        BY <4>1, <4>2, <1>4
    <3> QED
      BY <3>1, <3>2
  <2> QED
    BY <2>1, <2>2, <1>4 DEF PointerInv
<1>8. ASSUME NEW n \in Nodes,
             Or(head'[Or(tail'[n], n)], n) \in closed'
      PROVE  Or(head'[Or(tail'[n], n)], n) \in bypassed'
  <2> DEFINE at == Or(tail[n], n)
             pointer == Or(head[at], n)
  <2>0. at \in Node /\ pointer \in Node
    BY <1>1 DEF ChainInv, PointerInv, Or
  <2>1. CASE Or(tail'[n], n) = t
    <3>1. Or(head'[Or(tail'[n], n)], n) = new
      BY <2>1, <1>1, <1>4 DEF Or
    <3>2. new \in closed
      BY <3>1, <1>1, <1>2, <1>8
    <3> QED
      BY <3>1, <3>2, <1>2, <1>5 DEF ChainInv, BypassInv
  <2>2. CASE Or(tail'[n], n) # t
    <3>1. n # new
      BY <2>2, <1>1, <1>3, <1>4 DEF Or
    <3>2. Or(tail'[n], n) = at
      BY <3>1, <1>1, <1>4
    <3>3. Or(head'[at], n) = pointer
      BY <3>2, <2>0, <2>2, <1>4
    <3>4. CASE pointer \in closed
      <4>1. Resolve(n) = NoNode
        BY <3>4 DEF Resolve
      <4> QED
        BY <4>1, <3>2, <3>3, <1>2 DEF ChainInv, HeadsCurrent
    <3>5. CASE pointer = old
      <4>1. CASE head[at] = NoNode
        <5>1. n = old
          BY <4>1, <3>5 DEF Or
        <5> QED
          BY <5>1, <3>2, <2>2
      <4>2. CASE head[at] # NoNode
        <5>1. head[at] = old
          BY <4>2, <3>5 DEF Or
        <5>2. tail[old] = at
          BY <4>2, <5>1, <2>0 DEF ChainInv, PointerInv
        <5>3. t = at
          BY <5>2, <2>0 DEF Or
        <5> QED
          BY <5>3, <3>2, <2>2
      <4> QED
        BY <4>1, <4>2
    <3> QED
      BY <3>2, <3>3, <3>4, <3>5, <1>2, <1>8
  <2> QED
    BY <2>1, <2>2
<1>9. HeadsCurrent'
  <2>1. ASSUME NEW n \in Nodes', Resolve(n)' = NoNode
        PROVE  Or(head'[Or(tail'[n], n)], n) \in bypassed'
    <3>1. Or(head'[Or(tail'[n], n)], n) # NoNode
      BY <1>4, <2>1 DEF Or
    <3>2. Or(head'[Or(tail'[n], n)], n) \in closed'
      BY <3>1, <2>1 DEF Resolve, Or
    <3> QED
      BY <3>2, <1>4, <1>8, <2>1
  <2> QED
    BY <2>1 DEF HeadsCurrent, Or
<1> QED
  BY <1>7, <1>9

LEMMA PointerWrites ==
  ASSUME ChainInv, NEW p \in Writer, WriteEdge(p)
  PROVE  ChainInv'
<1> USE Numbers
<1> DEFINE w == [writer[p] EXCEPT !.pc = "release"]
           t == Or(tail[writer[p].new], Or(tail[writer[p].old], writer[p].old))
<1>1. /\ writer[p] \in WriterRec /\ WriterOK(writer[p])
      /\ writer[p].pc = "write"
      /\ Nodes \subseteq Node
  BY WriterType DEF WriteEdge, Written, At, ChainInv, WriterInv
<1>2. writer[p].old \in Nodes /\ writer[p].new \in Nodes
  BY <1>1 DEF WriterOK, LinkingPCs
<1>3. w \in WriterRec /\ w.pc = "release" /\ w.old = writer[p].old
  BY <1>1 DEF WriterRec
<1>4. writer' = [writer EXCEPT ![p] = w]
  BY DEF WriteEdge, Written, Goes
<1>5. t \in Ref
  BY <1>1, <1>2 DEF ChainInv, ChainTypeOK, Or, Ref
<1> HIDE DEF w, t
<1>6. tail' \in [Node -> Ref] /\ head' \in [Node -> Ref]
      /\ \A n \in Node \ {writer[p].new} : tail'[n] = tail[n]
  BY <1>1, <1>5 DEF WriteEdge, Written, ChainInv, ChainTypeOK, WriterRec, t
<1>7. /\ bypassed \subseteq bypassed' /\ bypassed' \subseteq Nodes
      /\ writer[p].old \in Unlinked => writer[p].old \in bypassed'
  BY <1>2 DEF WriteEdge, Written, ChainInv, ChainTypeOK
<1>8. ChainTypeOK' /\ WriterInv' /\ EdgeInv' /\ BypassInv' /\ PruneInv'
  BY <1>1, <1>2, <1>3, <1>4, <1>6, <1>7, EdgeWritten DEF WriteEdge, Written
<1> QED
  BY <1>8, PointersWritten DEF ChainInv

-----------------------------------------------------------------------------
(* The lock's end and the pruning.                                         *)

LEMMA NoEdgeNow ==
  ASSUME ChainInv, UNCHANGED <<graphVars, writer>>,
         lock' \subseteq Nodes, prune' \subseteq Nodes, stub' \subseteq Nodes,
         \A n \in prune' \cup stub' : Replaced(n)
  PROVE  ChainInv'
<1> USE DEF graphVars
<1>1. Nodes' = Nodes /\ Unlinked' = Unlinked
  BY DEF Nodes, Unlinked
<1>2. ChainTypeOK' /\ EdgeInv' /\ BypassInv'
  BY <1>1 DEF ChainInv, ChainTypeOK, EdgeInv, BypassInv
<1>3. WriterInv' /\ PointerInv'
  BY <1>1 DEF ChainInv, WriterInv, WriterOK, PointerInv
<1>4. HeadsCurrent' /\ PruneInv'
  BY <1>1 DEF ChainInv, HeadsCurrent, Resolve, PruneInv, Replaced
<1> QED
  BY <1>2, <1>3, <1>4 DEF ChainInv

\* The last edge of a path longer than the limit leads to the node.
LEMMA InteriorSuperseded ==
  ASSUME NEW n \in Interior
  PROVE  n \in Nodes /\ Replaced(n)
<1>1. n \in Nodes /\ DeepBelow(n)
  BY DEF Interior
<1>2. PICK k \in MaxLength + 1 .. MaxNodes :
        \E f \in [0 .. k -> Nodes] :
          /\ f[k] = n
          /\ \A i \in 0 .. k - 1 : <<f[i], f[i + 1]>> \in sup
  BY <1>1 DEF DeepBelow
<1>3. PICK f \in [0 .. k -> Nodes] :
        /\ f[k] = n
        /\ \A i \in 0 .. k - 1 : <<f[i], f[i + 1]>> \in sup
  BY <1>2
<1>4. k \in Nat /\ k - 1 \in 0 .. k - 1 /\ k - 1 \in 0 .. k
      /\ (k - 1) + 1 = k
  BY ChainAssumption
<1>5. <<f[k - 1], n>> \in sup /\ f[k - 1] \in Nodes
  BY <1>3, <1>4
<1> QED
  BY <1>1, <1>5 DEF Replaced

LEMMA Prunes ==
  ASSUME ChainInv,
         \/ \E n \in Node : LockExpires(n) \/ PruneNode(n)
         \/ PruneRead
  PROVE  ChainInv'
<1>0. /\ lock \subseteq Nodes /\ prune \subseteq Nodes /\ stub \subseteq Nodes
      /\ \A n \in prune \cup stub : Replaced(n)
  BY DEF ChainInv, ChainTypeOK, PruneInv
<1>1. ASSUME NEW n \in Node, LockExpires(n) PROVE ChainInv'
  BY <1>0, <1>1, NoEdgeNow DEF LockExpires
<1>2. ASSUME NEW n \in Node, PruneNode(n) PROVE ChainInv'
  BY <1>0, <1>2, NoEdgeNow DEF PruneNode
<1>3. CASE PruneRead
  BY <1>0, <1>3, NoEdgeNow, InteriorSuperseded DEF PruneRead
<1> QED
  BY <1>1, <1>2, <1>3

-----------------------------------------------------------------------------

LEMMA ChainStart == ChainInit => ChainInv
<1> SUFFICES ASSUME ChainInit PROVE ChainInv
  OBVIOUS
<1> USE ChainAssumption, Numbers DEF ChainInit
<1>1. Nodes = {} /\ count = 0 /\ 0 \in 0 .. MaxNodes
  BY DEF Nodes
<1>2. ChainTypeOK
  BY <1>1 DEF ChainTypeOK, NoRequest, Ref
<1>3. WriterInv /\ BypassInv
  BY DEF WriterInv, WriterOK, BypassInv, NoRequest, LinkingPCs
<1>4. EdgeInv /\ PointerInv /\ PruneInv
  BY DEF EdgeInv, PointerInv, PruneInv
<1>5. HeadsCurrent
  BY <1>1 DEF HeadsCurrent
<1> QED
  BY <1>2, <1>3, <1>4, <1>5 DEF ChainInv

LEMMA ChainStep == ChainInv /\ [ChainNext]_chainVars => ChainInv'
<1> SUFFICES ASSUME ChainInv, [ChainNext]_chainVars PROVE ChainInv'
  OBVIOUS
<1>0. lock \subseteq Nodes /\ prune \subseteq Nodes /\ stub \subseteq Nodes
      /\ \A n \in prune \cup stub : Replaced(n)
  BY DEF ChainInv, ChainTypeOK, PruneInv
<1>1. ASSUME NEW p \in Writer, CheckCycle(p) \/ Lock(p) PROVE ChainInv'
  <2>1. CASE Ends(p)
    <3>1. Lock(p) => writer[p].old \in Nodes
      BY DEF Lock, At, ChainInv, WriterInv, WriterOK, LinkingPCs
    <3>2. lock' \subseteq Nodes /\ UNCHANGED <<graphVars, stub, prune>>
      BY <3>1, <1>0, <1>1 DEF CheckCycle, Lock
    <3> QED
      BY <2>1, <3>2, Ended
  <2>2. CASE Goes(p, "lock") /\ CheckCycle(p)
    BY <2>2, <1>0, GoesOn DEF CheckCycle, At, LinkingPCs
  <2>3. CASE Goes(p, "write") /\ Lock(p)
    <3>1. writer[p].old \in Nodes
      BY <2>3 DEF Lock, At, ChainInv, WriterInv, WriterOK, LinkingPCs
    <3> QED
      BY <2>3, <3>1, <1>0, GoesOn DEF Lock, At, LinkingPCs
  <2> QED
    BY <1>1, <2>1, <2>2, <2>3 DEF CheckCycle, Lock
<1>2. ASSUME NEW p \in Writer, WriteFails(p) PROVE ChainInv'
  BY <1>0, <1>2, GoesOn DEF WriteFails, At, LinkingPCs
<1>3. ASSUME NEW p \in Writer, Release(p) \/ WriterDies(p) PROVE ChainInv'
  BY <1>0, <1>3, Ended DEF Release, WriterDies
<1>4. CASE UNCHANGED chainVars
  BY <1>0, <1>4, NoEdgeNow DEF chainVars
<1> QED
  BY <1>1, <1>2, <1>3, <1>4, Starts, Stores, ClaimWrites, PointerWrites, Prunes
  DEF ChainNext

LEMMA ChainInvariance == ChainSpec => []ChainInv
  BY ChainStart, ChainStep, PTL DEF ChainSpec

\* Every variable keeps its type, and a lock is held on stored nodes only.
THEOREM ChainTypeCorrect == ChainSpec => []ChainTypeOK
<1>1. ChainInv => ChainTypeOK
  BY DEF ChainInv
<1> QED
  BY <1>1, ChainInvariance, PTL

\* Chains have no cycles, however the requests overtake each other.
THEOREM NoCycles == ChainSpec => []NewerSupersedesOlder
<1>1. ChainInv => NewerSupersedesOlder
  BY DEF ChainInv, EdgeInv, NewerSupersedesOlder
<1> QED
  BY <1>1, ChainInvariance, PTL

\* The current head of a chain is found unless a claim, or a request before its
\* own edge, is at its place.
THEOREM HeadsFound == ChainSpec => []HeadsCurrent
<1>1. ChainInv => HeadsCurrent
  BY DEF ChainInv
<1> QED
  BY <1>1, ChainInvariance, PTL

\* No stub is told to be a current head: it has a successor.
THEOREM StubsSuperseded == ChainSpec => []StubsAreHistory
<1>1. ChainInv => StubsAreHistory
  <2> SUFFICES ASSUME ChainInv, NEW n \in stub
               PROVE  \E m \in Nodes : <<m, n>> \in sup /\ Resolve(m) # n
    BY DEF StubsAreHistory
  <2>1. PICK m \in Nodes : <<m, n>> \in sup
    BY DEF ChainInv, PruneInv, Replaced
  <2>2. n \in closed /\ n # NoNode
    BY <2>1, Numbers DEF ChainInv, EdgeInv, ChainTypeOK
  <2>3. Resolve(m) # n
    BY <2>2 DEF Resolve
  <2> QED
    BY <2>1, <2>3
<1> QED
  BY <1>1, ChainInvariance, PTL

-----------------------------------------------------------------------------
(* The edges under the pointers.                                           *)

\* The edges lead from a node down to its tail.
TailInv == \A n \in Node : tail[n] # NoNode => Above(n, tail[n])

\* An edge more hides no path.
LEMMA StaysAbove ==
  ASSUME sup \subseteq sup', NEW a, NEW b, Above(a, b)
  PROVE  Above(a, b)'
BY DEF Above

LEMMA TailStep == ChainInv /\ TailInv /\ [ChainNext]_chainVars => TailInv'
<1> SUFFICES ASSUME ChainInv, TailInv, [ChainNext]_chainVars PROVE TailInv'
  OBVIOUS
<1>1. ASSUME sup \subseteq sup', UNCHANGED tail PROVE TailInv'
  BY <1>1, StaysAbove DEF TailInv
<1>2. ASSUME NEW p \in Writer, WriteEdge(p) PROVE TailInv'
  <2>1. PICK new, old : new = writer[p].new /\ old = writer[p].old
    OBVIOUS
  <2>2. /\ new \in Node /\ old \in Node /\ tail[new] = NoNode
        /\ tail \in [Node -> Ref]
    BY <1>2, <2>1, Numbers
    DEF WriteEdge, Written, At, ChainInv, WriterInv, WriterOK, LinkingPCs,
        ChainTypeOK
  <2>3. PICK t : t = Or(tail[old], old)
    OBVIOUS
  <2>4. /\ sup' = sup \cup {<<new, old>>}
        /\ tail' = [tail EXCEPT ![new] = t]
    BY <1>2, <2>1, <2>2, <2>3 DEF WriteEdge, Written, Or
  <2>5. Above(new, t)'
    <3>1. <<new, old>> \in sup'
      BY <2>4
    <3>2. CASE tail[old] = NoNode
      BY <2>3, <3>1, <3>2 DEF Above, Or
    <3>3. CASE tail[old] # NoNode
      <4>1. Above(old, t)
        BY <2>2, <2>3, <3>3 DEF TailInv, Or
      <4> QED
        BY <2>4, <3>1, <4>1 DEF Above
    <3> QED
      BY <3>2, <3>3
  <2>6. ASSUME NEW n \in Node, tail'[n] # NoNode PROVE Above(n, tail[n])'
    <3>1. CASE n = new
      BY <2>2, <2>4, <2>5, <3>1
    <3>2. CASE n # new
      <4>1. tail'[n] = tail[n] /\ Above(n, tail[n])
        BY <2>2, <2>4, <2>6, <3>2 DEF TailInv
      <4> QED
        BY <2>4, <4>1 DEF Above
    <3> QED
      BY <3>1, <3>2
  <2> QED
    BY <2>6 DEF TailInv
<1>3. ASSUME NEW p \in Writer, ~WriteEdge(p),
             \/ Plain(p) \/ Store(p) \/ ClaimEdge(p) \/ CheckCycle(p) \/ Lock(p)
             \/ WriteFails(p) \/ Release(p) \/ WriterDies(p)
             \/ \E o \in Node, kind \in {"pointer", "claim"} :
                  Validate(p, kind, o)
      PROVE  sup \subseteq sup' /\ UNCHANGED tail
  BY <1>3 DEF Plain, Store, ClaimEdge, CheckCycle, Lock, WriteFails, Release,
     WriterDies, Validate, graphVars
<1>4. ASSUME \/ \E n \in Node : LockExpires(n) \/ PruneNode(n)
             \/ PruneRead \/ UNCHANGED chainVars
      PROVE  sup \subseteq sup' /\ UNCHANGED tail
  BY <1>4 DEF LockExpires, PruneNode, PruneRead, chainVars, graphVars
<1> QED
  BY <1>1, <1>2, <1>3, <1>4 DEF ChainNext

\* The pointers of a chain agree, and are borne out by its edges, however many
\* writers overtake each other.
THEOREM PointersHold == ChainSpec => []PointersAgree
<1>1. ChainInit => TailInv
  BY DEF ChainInit, TailInv
<1>2. ChainInv /\ TailInv => PointersAgree
  BY Numbers DEF ChainInv, PointerInv, TailInv, PointersAgree
<1> QED
  BY <1>1, <1>2, TailStep, ChainInvariance, PTL DEF ChainSpec

-----------------------------------------------------------------------------
(* Beliefs: what a step leaves underway.                                   *)

\* What a content stands for hangs together: from any part of it an edge leads
\* to the rest, or the part has one of the facts.
Grounded(G, facts) ==
  \A S \in SUBSET G :
    S # {} =>
      \E m \in S : m \in facts \/ \E f \in G \ S : <<f, m>> \in Derives

GroundInv ==
  /\ \A b \in Belief : Grounded(basis[b], belief[b].src)
  /\ \A r \in Reviser :
       revision[r].pc # "idle" =>
         /\ belief[revision[r].of].state # "ABSENT"
         /\ revision[r].pc = "decide" =>
              /\ revision[r].facts \subseteq belief[revision[r].of].src
              /\ Grounded(revision[r].stands, revision[r].facts)

\* A worker that has not read yet knows nothing, and writes to beliefs only.
CascadeInv ==
  \A w \in Worker :
    /\ Idle(w) \/ cascade[w].pc = "read" => cascade[w] = NoCascade
    /\ cascade[w].pc = "write" =>
         cascade[w].todo # <<>> /\ Next1(w).node \in Belief

\* The nodes of the messages in the queue, and of the dependents of a worker.
NodesOf(s) == {s[i].node : i \in DOMAIN s}
Queued == NodesOf(queue)
Listed(w) == NodesOf(cascade[w].todo)

\* An event for n is lost, or some worker will read the dependents of n.
Spread(n) ==
  \/ n \in lost \cup owed \cup Queued
  \/ \E w \in Busy : job[w].node = n /\ cascade[w].pc = "read"

\* From n one comes to the facts, from dependent to dependent through G and A:
\* every set with n that these steps do not leave has one of the facts.
Leads(n, G, facts, A) ==
  /\ n \in G
  /\ \A S \in SUBSET G :
       /\ n \in S
       /\ \A d \in Derives : d[2] \in S /\ d[1] \in A \cap G => d[1] \in S
       => S \cap facts # {}

Towards(n, b, A) == Leads(n, basis[b], belief[b].src, A)

\* The list of w has the belief, or a node from which w will come to it
\* through nodes that are live and that it has not visited.
Carries(w, k, b) ==
  \/ b \in Listed(w)
  \/ \E n \in (Listed(w) \cap Relay(k, b)) \ cascade[w].visited :
       Towards(n, b, active \ cascade[w].visited)

\* The news about k are on their way to b, with somebody who was asked about k
\* or about something that derives from k and leads to b, so that a retry
\* starts there again.
Heard(k, b) ==
  \E n \in Relay(k, b) :
    /\ Towards(n, b, active)
    /\ \/ Spread(n)
       \/ \E w \in Busy : job[w].node = n /\ Carries(w, k, b)

Owing(b) ==
  /\ belief[b].state = "ACTIVE" /\ belief[b].syn = "FRESH"
  /\ b \notin raced \cup dropped

NewsInv ==
  \A b \in Belief :
    Owing(b) => \A k \in basis[b] : ~Usable(k) => Heard(k, b)

FlowInv ==
  /\ TypeOK /\ MessagesConserved /\ CascadeInv /\ GroundInv /\ NewsInv

-----------------------------------------------------------------------------
(* Derivation.                                                             *)

LEMMA Kinds ==
  /\ Knowledge \subseteq Target /\ Belief \subseteq Target
  /\ Belief \cap Knowledge = {} /\ Target = Knowledge \cup Belief
  /\ Fact \subseteq Knowledge /\ Derives \subseteq Fact \X Knowledge
  /\ IsFiniteSet(Target) /\ IsFiniteSet(Worker)
  /\ MaxRetries \in Nat \ {0} /\ MaxDepth \in Nat \ {0}
BY BeliefAssumption, QueueAssumption DEF Knowledge

LEMMA DerivesByEdge ==
  ASSUME NEW n, NEW k, <<n, k>> \in Derives
  PROVE  DerivesFrom(n, k)
BY DEF DerivesFrom

LEMMA DerivesTrans ==
  ASSUME NEW n, NEW m, NEW k, DerivesFrom(n, m), DerivesFrom(m, k)
  PROVE  DerivesFrom(n, k)
<1> SUFFICES ASSUME NEW S \in SUBSET Knowledge,
                    \A d \in Derives : d[1] \in S \cup {n} => d[2] \in S
             PROVE  k \in S
  BY DEF DerivesFrom
<1>1. m \in S
  BY DEF DerivesFrom
<1>2. \A d \in Derives : d[1] \in S \cup {m} => d[2] \in S
  BY <1>1
<1> QED
  BY <1>2 DEF DerivesFrom

LEMMA GroundsGrounded ==
  ASSUME NEW facts, facts \subseteq active, active \subseteq Knowledge
  PROVE  Grounds(facts) \subseteq Knowledge /\ Grounded(Grounds(facts), facts)
<1> DEFINE G == Grounds(facts)
<1>1. G \subseteq active /\ facts \subseteq G
  BY DEF Grounds
<1>2. \A d \in Derives : d[1] \in G /\ d[2] \in active => d[2] \in G
  BY DEF Grounds
<1>3. ASSUME NEW S \in SUBSET G, NEW m \in S,
             \A x \in S :
               x \notin facts /\ \A f \in G \ S : <<f, x>> \notin Derives
      PROVE  FALSE
  <2>1. PICK T : T = G \ S
    OBVIOUS
  <2>2. T \in SUBSET active /\ facts \subseteq T
    BY <1>1, <1>3, <2>1
  <2>3. ASSUME NEW d \in Derives, d[1] \in T, d[2] \in active PROVE d[2] \in T
    <3>1. d[1] \in G \ S /\ d = <<d[1], d[2]>>
      BY <2>1, <2>3, Kinds
    <3>2. d[2] \notin S
      BY <1>3, <3>1
    <3> QED
      BY <1>2, <2>1, <2>3, <3>1, <3>2
  <2>4. m \in T
    BY <1>3, <2>2, <2>3 DEF Grounds
  <2> QED
    BY <1>3, <2>1, <2>4
<1> QED
  BY <1>1, <1>3 DEF Grounded

LEMMA GroundedMore ==
  ASSUME NEW G, NEW facts, NEW more, Grounded(G, facts), facts \subseteq more
  PROVE  Grounded(G, more)
BY DEF Grounded

-----------------------------------------------------------------------------
(* Ways to a belief.                                                       *)

LEMMA LeadsMore ==
  ASSUME NEW n, NEW G, NEW facts, NEW A, NEW B, A \subseteq B,
         Leads(n, G, facts, A)
  PROVE  Leads(n, G, facts, B)
BY DEF Leads

LEMMA LeadsOwn ==
  ASSUME NEW n, NEW G, NEW facts, NEW A, Leads(n, G, facts, A)
  PROVE  Leads(n, G, facts, A \ {n})
BY DEF Leads

\* Without f there is still a way, or there was one over f.
LEMMA Detour ==
  ASSUME NEW m, NEW f, NEW G, NEW facts, NEW A, f # m, Leads(m, G, facts, A)
  PROVE  \/ Leads(m, G, facts, A \ {f})
         \/ /\ f \in A /\ DerivesFrom(f, m)
            /\ Leads(f, G, facts, A \ {f})
<1>1. SUFFICES ASSUME ~Leads(m, G, facts, A \ {f})
               PROVE  /\ f \in A /\ DerivesFrom(f, m)
                      /\ Leads(f, G, facts, A \ {f})
  OBVIOUS
<1>2. m \in G
  BY DEF Leads
<1>3. PICK S \in SUBSET G :
        /\ m \in S /\ S \cap facts = {}
        /\ \A d \in Derives :
             d[2] \in S /\ d[1] \in (A \ {f}) \cap G => d[1] \in S
  BY <1>1, <1>2 DEF Leads
<1>4. f \in A /\ f \in G
  BY <1>3 DEF Leads
<1>5. DerivesFrom(f, m)
  <2>1. SUFFICES ASSUME ~DerivesFrom(f, m) PROVE FALSE
    OBVIOUS
  <2>2. PICK T : T = {x \in S : x = m \/ DerivesFrom(x, m)}
    OBVIOUS
  <2>3. T \in SUBSET G /\ m \in T /\ T \cap facts = {}
    BY <1>3, <2>2
  <2>4. ASSUME NEW d \in Derives, d[2] \in T, d[1] \in A \cap G
        PROVE  d[1] \in T
    <3>1. <<d[1], d[2]>> \in Derives
      BY Kinds
    <3>2. DerivesFrom(d[1], m)
      BY <2>2, <2>4, <3>1, DerivesByEdge, DerivesTrans
    <3>3. d[1] # f
      BY <2>1, <3>2
    <3> QED
      BY <1>3, <2>2, <2>4, <3>2, <3>3
  <2> QED
    BY <2>3, <2>4 DEF Leads
<1>6. ASSUME NEW T \in SUBSET G, f \in T,
             \A d \in Derives :
               d[2] \in T /\ d[1] \in (A \ {f}) \cap G => d[1] \in T
      PROVE  T \cap facts # {}
  <2>1. PICK U : U = S \cup T
    OBVIOUS
  <2>2. U \in SUBSET G /\ m \in U
    BY <1>3, <2>1
  <2>3. \A d \in Derives : d[2] \in U /\ d[1] \in A \cap G => d[1] \in U
    BY <1>3, <1>6, <2>1
  <2>4. U \cap facts # {}
    BY <2>2, <2>3 DEF Leads
  <2> QED
    BY <1>3, <2>1, <2>4
<1>7. Leads(f, G, facts, A \ {f})
  BY <1>4, <1>6 DEF Leads
<1> QED
  BY <1>4, <1>5, <1>7

\* The first step of the way.
LEMMA Onwards ==
  ASSUME NEW n, NEW G, NEW facts, NEW A, Leads(n, G, facts, A), n \notin facts
  PROVE  \E f \in (A \cap G) \ {n} :
           <<f, n>> \in Derives /\ Leads(f, G, facts, A \ {n})
<1>1. SUFFICES ASSUME \A f \in (A \cap G) \ {n} :
                        <<f, n>> \in Derives => ~Leads(f, G, facts, A \ {n})
               PROVE  FALSE
  OBVIOUS
<1>2. PICK cuts : cuts = {T \in SUBSET G :
        /\ T \cap facts = {}
        /\ \A d \in Derives :
             d[2] \in T /\ d[1] \in (A \ {n}) \cap G => d[1] \in T}
  OBVIOUS
<1>3. PICK S : S = {n} \cup UNION cuts
  OBVIOUS
<1>4. S \in SUBSET G /\ n \in S /\ S \cap facts = {}
  BY <1>2, <1>3 DEF Leads
<1>5. ASSUME NEW d \in Derives, d[2] \in S, d[1] \in A \cap G PROVE d[1] \in S
  <2>1. CASE d[1] = n
    BY <1>4, <2>1
  <2>2. CASE d[1] # n /\ d[2] = n
    <3>1. d = <<d[1], d[2]>>
      BY Kinds
    <3>2. <<d[1], n>> \in Derives
      BY <2>2, <3>1
    <3>3. ~Leads(d[1], G, facts, A \ {n})
      BY <1>1, <1>5, <2>2, <3>2
    <3>4. PICK T \in SUBSET G :
            /\ d[1] \in T /\ T \cap facts = {}
            /\ \A e \in Derives :
                 e[2] \in T /\ e[1] \in (A \ {n}) \cap G => e[1] \in T
      BY <1>5, <3>3 DEF Leads
    <3>5. T \in cuts
      BY <1>2, <3>4
    <3> QED
      BY <1>3, <3>4, <3>5
  <2>3. CASE d[1] # n /\ d[2] # n
    <3>1. PICK T \in cuts : d[2] \in T
      BY <1>3, <1>5, <2>3
    <3>2. d[1] \in T
      BY <1>2, <1>5, <2>3, <3>1
    <3> QED
      BY <1>3, <3>1, <3>2
  <2> QED
    BY <2>1, <2>2, <2>3
<1> QED
  BY <1>4, <1>5 DEF Leads

\* Something a content stands for leads to its facts, unless another thing
\* between them is missing.
LEMMA Gaps ==
  ASSUME NEW k, NEW G, NEW facts, NEW A, Grounded(G, facts), k \in G
  PROVE  \/ Leads(k, G, facts, A)
         \/ \E f \in G \ {k} : f \notin A /\ DerivesFrom(f, k)
<1>1. SUFFICES ASSUME ~Leads(k, G, facts, A)
               PROVE  \E f \in G \ {k} : f \notin A /\ DerivesFrom(f, k)
  OBVIOUS
<1>2. PICK S \in SUBSET G :
        /\ k \in S /\ S \cap facts = {}
        /\ \A d \in Derives : d[2] \in S /\ d[1] \in A \cap G => d[1] \in S
  BY <1>1 DEF Leads
<1>3. PICK T : T = {x \in S : x = k \/ DerivesFrom(x, k)}
  OBVIOUS
<1>4. T \in SUBSET G /\ k \in T /\ T \cap facts = {}
  BY <1>2, <1>3
<1>5. PICK m \in T : m \in facts \/ \E f \in G \ T : <<f, m>> \in Derives
  BY <1>4 DEF Grounded
<1>6. PICK f \in G \ T : <<f, m>> \in Derives
  BY <1>4, <1>5
<1>7. DerivesFrom(f, k)
  BY <1>3, <1>6, DerivesByEdge, DerivesTrans
<1>8. f \notin A
  <2>1. ASSUME f \in A PROVE f \in S
    BY <1>2, <1>3, <1>6, <2>1
  <2> QED
    BY <1>3, <1>6, <1>7, <2>1
<1> QED
  BY <1>4, <1>6, <1>7, <1>8

-----------------------------------------------------------------------------
(* News that stays on its way.                                             *)

\* Busy workers carry on, or pass on what they carry.
LEMMA StillHeard ==
  ASSUME NEW b, NEW k, Heard(k, b), basis'[b] = basis[b],
         belief'[b].src = belief[b].src, active' = active,
         \A n : Spread(n) => Spread(n)',
         \A w \in Busy :
           /\ job[w].node \in Relay(k, b) /\ Towards(job[w].node, b, active)
           /\ Carries(w, k, b)
           => \/ w \in Busy' /\ job'[w] = job[w] /\ Carries(w, k, b)'
              \/ \E m \in Relay(k, b) : Towards(m, b, active) /\ Spread(m)'
  PROVE  Heard(k, b)'
<1>1. /\ Relay(k, b)' = Relay(k, b)
      /\ \A n : Towards(n, b, active)' <=> Towards(n, b, active)
  BY DEF Relay, Towards
<1>2. PICK n \in Relay(k, b) :
        /\ Towards(n, b, active)
        /\ \/ Spread(n)
           \/ \E w \in Busy : job[w].node = n /\ Carries(w, k, b)
  BY DEF Heard
<1>3. CASE Spread(n)
  BY <1>1, <1>2, <1>3 DEF Heard
<1>4. ASSUME NEW w \in Busy, job[w].node = n, Carries(w, k, b)
      PROVE  Heard(k, b)'
  <2>1. CASE w \in Busy' /\ job'[w] = job[w] /\ Carries(w, k, b)'
    BY <1>1, <1>2, <1>4, <2>1 DEF Heard
  <2>2. CASE \E m \in Relay(k, b) : Towards(m, b, active) /\ Spread(m)'
    BY <1>1, <2>2 DEF Heard
  <2> QED
    BY <1>2, <1>4, <2>1, <2>2
<1> QED
  BY <1>2, <1>3, <1>4

\* The worker goes on from n: whatever it carried it carries on, and if the
\* news wait at n for it, it carries them to what depends on n.
LEMMA Expands ==
  ASSUME FlowInv, NEW w \in Busy, NEW n \in Target,
         UNCHANGED <<queue, job, lost, owed, basis, belief, active>>,
         \A u \in Worker \ {w} : cascade'[u] = cascade[u],
         cascade'[w].pc = "each",
         cascade'[w].visited = cascade[w].visited \cup {n},
         Dependents(n) \subseteq Listed(w)',
         Listed(w) \ {n} \subseteq Listed(w)',
         cascade[w].pc = "read" => job[w].node = n,
         n \in Belief => Listed(w) = {},
         NEW b \in Belief, Owing(b), NEW k \in basis[b], ~Usable(k)
  PROVE  Heard(k, b)'
<1>1. /\ Busy' = Busy /\ Queued' = Queued
      /\ \A x, y : Relay(x, y)' = Relay(x, y)
      /\ \A x : Towards(x, b, active)' <=> Towards(x, b, active)
  BY DEF Busy, Idle, Queued, Relay, Towards
<1>2. /\ basis[b] \subseteq Knowledge
      /\ \A x \in basis[b] : Relay(x, b) \subseteq basis[b]
  BY DEF FlowInv, TypeOK, Relay
<1>3. PICK A : A = active \ cascade[w].visited
  OBVIOUS
<1>4. A \ {n} = active \ cascade'[w].visited
  BY <1>3
<1>5. ASSUME NEW x \in Listed(w)' \cap Relay(k, b), x # n,
             x \notin cascade[w].visited, Towards(x, b, A \ {n})
      PROVE  Carries(w, k, b)'
  <2>1. Leads(x, basis[b], belief[b].src, active \ cascade'[w].visited)
    BY <1>4, <1>5 DEF Towards
  <2>2. Towards(x, b, active \ cascade[w].visited)'
    BY <2>1 DEF Towards
  <2> QED
    BY <1>1, <1>5, <2>2 DEF Carries
<1>6. ASSUME n \in Relay(k, b), Towards(n, b, A)
      PROVE  Carries(w, k, b)'
  <2>1. CASE n \in belief[b].src
    <3>1. b \in Dependents(n)
      BY <2>1 DEF Dependents, Owing
    <3> QED
      BY <3>1 DEF Carries
  <2>2. CASE n \notin belief[b].src
    <3>1. PICK f \in (A \cap basis[b]) \ {n} :
            /\ <<f, n>> \in Derives
            /\ Leads(f, basis[b], belief[b].src, A \ {n})
      BY <1>6, <2>2, Onwards DEF Towards
    <3>2. f \in Relay(k, b)
      BY <1>6, <3>1, DerivesByEdge, DerivesTrans DEF Relay
    <3>3. f \in Dependents(n)
      BY <1>3, <3>1 DEF Dependents
    <3> QED
      BY <1>3, <1>5, <3>1, <3>2, <3>3 DEF Towards
  <2> QED
    BY <2>1, <2>2
<1>7. ASSUME Carries(w, k, b) PROVE Carries(w, k, b)'
  <2>1. CASE b \in Listed(w)
    <3>1. b # n
      BY <2>1
    <3> QED
      BY <2>1, <3>1 DEF Carries
  <2>2. ASSUME NEW m \in (Listed(w) \cap Relay(k, b)) \ cascade[w].visited,
               Towards(m, b, A)
        PROVE  Carries(w, k, b)'
    <3>1. CASE m = n
      BY <1>6, <2>2, <3>1
    <3>2. CASE m # n
      <4>1. CASE Towards(m, b, A \ {n})
        BY <1>5, <2>2, <3>2, <4>1
      <4>2. CASE ~Towards(m, b, A \ {n})
        <5>1. DerivesFrom(n, m) /\ Leads(n, basis[b], belief[b].src, A \ {n})
          BY <2>2, <3>2, <4>2, Detour DEF Towards
        <5>2. Leads(n, basis[b], belief[b].src, A)
          BY <5>1, LeadsMore
        <5>3. n \in Relay(k, b)
          BY <2>2, <5>1, DerivesTrans DEF Relay, Leads
        <5> QED
          BY <1>6, <5>2, <5>3 DEF Towards
      <4> QED
        BY <4>1, <4>2
    <3> QED
      BY <3>1, <3>2
  <2> QED
    BY <1>3, <1>7, <2>1, <2>2 DEF Carries
<1>8. PICK r \in Relay(k, b) :
        /\ Towards(r, b, active)
        /\ \/ Spread(r)
           \/ \E u \in Busy : job[u].node = r /\ Carries(u, k, b)
  BY DEF FlowInv, NewsInv, Heard
<1>9. CASE r \in lost \cup owed \cup Queued
  <2>1. Spread(r)'
    BY <1>1, <1>9 DEF Spread
  <2> QED
    BY <1>1, <1>8, <2>1 DEF Heard
<1>10. ASSUME NEW u \in Busy, job[u].node = r, u # w,
              cascade[u].pc = "read" \/ Carries(u, k, b)
       PROVE  Heard(k, b)'
  <2>1. cascade'[u] = cascade[u]
    BY <1>10 DEF Busy
  <2>2. CASE cascade[u].pc = "read"
    <3>1. Spread(r)'
      BY <1>1, <1>10, <2>1, <2>2 DEF Spread
    <3> QED
      BY <1>1, <1>8, <3>1 DEF Heard
  <2>3. CASE Carries(u, k, b)
    <3>1. Carries(u, k, b)'
      BY <1>1, <2>1, <2>3 DEF Carries, Listed, Towards
    <3> QED
      BY <1>1, <1>8, <1>10, <3>1 DEF Heard
  <2> QED
    BY <1>10, <2>2, <2>3
<1>11. ASSUME job[w].node = r, cascade[w].pc = "read" \/ Carries(w, k, b)
       PROVE  Heard(k, b)'
  <2>1. CASE cascade[w].pc = "read"
    <3>1. cascade[w].visited = {} /\ r = n
      BY <1>11, <2>1 DEF FlowInv, CascadeInv, NoCascade, Busy
    <3>2. A = active
      BY <1>3, <3>1
    <3> QED
      BY <1>1, <1>6, <1>8, <1>11, <3>1, <3>2 DEF Heard
  <2>2. CASE Carries(w, k, b)
    BY <1>1, <1>7, <1>8, <1>11, <2>2 DEF Heard
  <2> QED
    BY <1>11, <2>1, <2>2
<1> QED
  BY <1>8, <1>9, <1>10, <1>11 DEF Spread

-----------------------------------------------------------------------------
(* Messages and lists.                                                     *)

LEMMA ListTypes ==
  ASSUME NEW S, NEW s \in Seq(S)
  PROVE  /\ \A m \in S : /\ Append(s, m) \in Seq(S)
                         /\ Len(Append(s, m)) = Len(s) + 1
                         /\ NodesOf(Append(s, m)) = NodesOf(s) \cup {m.node}
         /\ \A t \in Seq(S) : /\ s \o t \in Seq(S)
                              /\ NodesOf(s) \cup NodesOf(t)
                                   \subseteq NodesOf(s \o t)
         /\ s # <<>> => /\ Head(s) \in S /\ Tail(s) \in Seq(S)
                        /\ Len(Tail(s)) = Len(s) - 1
                        /\ Head(s).node \in NodesOf(s)
                        /\ NodesOf(Tail(s)) \subseteq NodesOf(s)
                        /\ NodesOf(s)
                             \subseteq NodesOf(Tail(s)) \cup {Head(s).node}
<1>1. ASSUME NEW m \in S
      PROVE  /\ Append(s, m) \in Seq(S) /\ Len(Append(s, m)) = Len(s) + 1
             /\ NodesOf(Append(s, m)) = NodesOf(s) \cup {m.node}
  <2>1. PICK t : t = Append(s, m)
    OBVIOUS
  <2>2. /\ t \in Seq(S) /\ Len(t) = Len(s) + 1 /\ t[Len(s) + 1] = m
        /\ \A i \in 1 .. Len(s) : t[i] = s[i]
    BY <2>1
  <2>3. /\ DOMAIN t = 1 .. Len(s) + 1 /\ DOMAIN s = 1 .. Len(s)
        /\ Len(s) \in Nat
    BY <2>2
  <2>4. NodesOf(t) = NodesOf(s) \cup {m.node}
    BY <2>2, <2>3 DEF NodesOf
  <2> QED
    BY <2>1, <2>2, <2>4
<1>2. ASSUME NEW t \in Seq(S)
      PROVE  /\ s \o t \in Seq(S)
             /\ NodesOf(s) \cup NodesOf(t) \subseteq NodesOf(s \o t)
  <2>1. PICK u : u = s \o t
    OBVIOUS
  <2>2. /\ u \in Seq(S) /\ Len(u) = Len(s) + Len(t)
        /\ \A i \in 1 .. Len(s) : u[i] = s[i]
        /\ \A i \in 1 .. Len(t) : u[Len(s) + i] = t[i]
    BY <2>1
  <2>3. /\ DOMAIN u = 1 .. Len(s) + Len(t) /\ DOMAIN s = 1 .. Len(s)
        /\ DOMAIN t = 1 .. Len(t) /\ Len(s) \in Nat /\ Len(t) \in Nat
    BY <2>2
  <2>4. NodesOf(s) \subseteq NodesOf(u)
    BY <2>2, <2>3 DEF NodesOf
  <2>5. ASSUME NEW i \in 1 .. Len(t) PROVE t[i].node \in NodesOf(u)
    <3>1. Len(s) + i \in DOMAIN u /\ u[Len(s) + i] = t[i]
      BY <2>2, <2>3
    <3> QED
      BY <3>1 DEF NodesOf
  <2>6. NodesOf(t) \subseteq NodesOf(u)
    BY <2>3, <2>5 DEF NodesOf
  <2> QED
    BY <2>1, <2>2, <2>4, <2>6
<1>3. ASSUME s # <<>>
      PROVE  /\ Head(s) \in S /\ Tail(s) \in Seq(S)
             /\ Len(Tail(s)) = Len(s) - 1 /\ Head(s).node \in NodesOf(s)
             /\ NodesOf(Tail(s)) \subseteq NodesOf(s)
             /\ NodesOf(s) \subseteq NodesOf(Tail(s)) \cup {Head(s).node}
  <2>1. PICK t : t = Tail(s)
    OBVIOUS
  <2>2. /\ t \in Seq(S) /\ Len(t) = Len(s) - 1 /\ Head(s) = s[1]
        /\ \A i \in 1 .. Len(s) - 1 : t[i] = s[i + 1]
        /\ Len(s) \in Nat \ {0}
    BY <1>3, <2>1
  <2>3. /\ DOMAIN t = 1 .. Len(s) - 1 /\ DOMAIN s = 1 .. Len(s)
        /\ 1 \in DOMAIN s
    BY <2>2
  <2>4. s[1].node \in NodesOf(s)
    BY <2>3 DEF NodesOf
  <2>5. ASSUME NEW i \in DOMAIN t PROVE t[i].node \in NodesOf(s)
    <3>1. i + 1 \in DOMAIN s /\ t[i] = s[i + 1]
      BY <2>2, <2>3
    <3> QED
      BY <3>1 DEF NodesOf
  <2>6. ASSUME NEW i \in DOMAIN s, i # 1 PROVE s[i].node \in NodesOf(t)
    <3>1. i - 1 \in DOMAIN t /\ t[i - 1] = s[i]
      BY <2>2, <2>3, <2>6
    <3> QED
      BY <3>1 DEF NodesOf
  <2>7. /\ NodesOf(t) \subseteq NodesOf(s)
        /\ NodesOf(s) \subseteq NodesOf(t) \cup {s[1].node}
    BY <2>5, <2>6 DEF NodesOf
  <2> QED
    BY <2>1, <2>2, <2>4, <2>7
<1> QED
  BY <1>1, <1>2, <1>3

\* A listing of a set has each of its members.
LEMMA ListsAll ==
  ASSUME NEW S, IsFiniteSet(S), S \subseteq Target, NEW d \in 1 .. MaxDepth,
         NEW t \in Listings(S, d)
  PROVE  t \in Seq(Dependent) /\ NodesOf(t) = S
<1>1. PICK s \in SetToSeqs(S) :
        t = [i \in DOMAIN s |-> [node |-> s[i], depth |-> d]]
  BY DEF Listings
<1>2. PICK N : N = Cardinality(S)
  OBVIOUS
<1>3. N \in Nat /\ IsFiniteSet(1 .. N) /\ Cardinality(1 .. N) = N
  BY <1>2, FS_CardinalityType, FS_Interval
<1>4. s \in [1 .. N -> S] /\ \A i, j \in 1 .. N : i # j => s[i] # s[j]
  BY <1>1, <1>2 DEF SetToSeqs
<1>5. s \in Injection(1 .. N, S)
  BY <1>4 DEF Injection, IsInjective
<1>6. s \in Surjection(1 .. N, S)
  BY <1>2, <1>3, <1>5, FS_Injection
<1>7. \A x \in S : \E i \in 1 .. N : s[i] = x
  BY <1>6 DEF Surjection
<1>8. t \in [1 .. N -> Dependent] /\ \A i \in 1 .. N : t[i].node = s[i]
  BY <1>1, <1>4 DEF Dependent
<1>9. NodesOf(t) = S
  BY <1>4, <1>7, <1>8 DEF NodesOf
<1> QED
  BY <1>3, <1>8, <1>9

-----------------------------------------------------------------------------
(* Operations of the queue.                                                *)

QueueInv == QueueTypeOK /\ MessagesConserved

LEMMA MessageFields ==
  \A m \in Message :
    m # NoJob /\ m.node \in Target /\ m.tries \in 0 .. MaxRetries - 1
<1> SUFFICES ASSUME NEW m \in Message
             PROVE  /\ m # NoJob /\ m.node \in Target
                    /\ m.tries \in 0 .. MaxRetries - 1
  OBVIOUS
<1>1. m.node \in Target /\ m.tries \in 0 .. MaxRetries - 1
  BY DEF Message
<1>2. NoJob.tries = MaxRetries
  BY DEF NoJob
<1> QED
  BY <1>1, <1>2, Kinds

LEMMA BusyFinite ==
  ASSUME QueueTypeOK
  PROVE  /\ IsFiniteSet(Busy) /\ Cardinality(Busy) \in Nat
         /\ \A w \in Busy : /\ job[w] \in Message /\ job[w].node \in Target
                           /\ Cardinality(Busy \ {w}) = Cardinality(Busy) - 1
<1>1. Busy \subseteq Worker
  BY DEF Busy
<1>2. IsFiniteSet(Busy) /\ Cardinality(Busy) \in Nat
  BY <1>1, Kinds, FS_Subset, FS_CardinalityType
<1>3. ASSUME NEW w \in Busy PROVE job[w] \in Message
  BY <1>3 DEF Busy, Idle, QueueTypeOK
<1> QED
  BY <1>2, <1>3, MessageFields, FS_RemoveElement

\* The event for n is in the queue, or known to be lost.
LEMMA Announced ==
  ASSUME QueueInv, NEW n \in Target, Pushed(n) \/ Missed(n),
         UNCHANGED <<job, dlq>>, faults' \in 0 .. MaxFaults
  PROVE  /\ QueueInv' /\ Busy' = Busy
         /\ lost \cup Queued \cup {n} \subseteq (lost \cup Queued)'
<1>1. Busy' = Busy /\ Cardinality(Busy) \in Nat
  BY BusyFinite DEF QueueInv, Busy, Idle
<1>2. /\ queue \in Seq(Message) /\ Len(queue) \in Nat
      /\ live \in Nat /\ dlq \in Nat
      /\ live = Len(queue) + Cardinality(Busy) + dlq
  BY DEF QueueInv, QueueTypeOK, MessagesConserved
<1>3. CASE Pushed(n)
  <2>1. PICK m : m = [node |-> n, tries |-> 0]
    OBVIOUS
  <2>2. m \in Message /\ m.node = n
    BY <2>1, Kinds DEF Message
  <2>3. queue' = Append(queue, m) /\ live' = live + 1 /\ lost' = lost
    BY <1>3, <2>1 DEF Pushed
  <2>4. /\ queue' \in Seq(Message) /\ Len(queue') = Len(queue) + 1
        /\ Queued' = Queued \cup {n}
    BY <1>2, <2>2, <2>3, ListTypes DEF Queued
  <2>5. live' \in Nat /\ live' = Len(queue') + Cardinality(Busy) + dlq
    BY <1>1, <1>2, <2>3, <2>4
  <2> QED
    BY <1>1, <2>3, <2>4, <2>5 DEF QueueInv, QueueTypeOK, MessagesConserved
<1>4. CASE Missed(n)
  BY <1>1, <1>2, <1>4
  DEF Missed, QueueInv, QueueTypeOK, MessagesConserved, Queued
<1> QED
  BY <1>3, <1>4

LEMMA Emitted ==
  ASSUME QueueInv, NEW n \in Target, Emit(n), UNCHANGED <<job, dlq>>
  PROVE  /\ QueueInv' /\ Busy' = Busy
         /\ lost \cup Queued \cup {n} \subseteq (lost \cup Queued)'
<1>1. Pushed(n) \/ Missed(n)
  BY DEF Emit
<1>2. faults' \in 0 .. MaxFaults
  BY QueueAssumption DEF Emit, Fault, QueueInv, QueueTypeOK
<1> QED
  BY <1>1, <1>2, Announced

LEMMA Taken ==
  ASSUME QueueInv, NEW w \in Worker, Take(w)
  PROVE  /\ QueueInv' /\ Busy' = Busy \cup {w} /\ w \notin Busy
         /\ \A u \in Worker \ {w} : job'[u] = job[u]
         /\ lost' = lost /\ Queued \subseteq Queued' \cup {job'[w].node}
<1>1. PICK m : m = Head(queue)
  OBVIOUS
<1>2. /\ queue \in Seq(Message) /\ Len(queue) \in Nat /\ live \in Nat
      /\ dlq \in Nat /\ job \in [Worker -> Message \cup {NoJob}]
      /\ live = Len(queue) + Cardinality(Busy) + dlq
  BY DEF QueueInv, QueueTypeOK, MessagesConserved
<1>3. /\ m \in Message /\ queue' \in Seq(Message)
      /\ Len(queue') = Len(queue) - 1
      /\ Queued \subseteq Queued' \cup {m.node}
  BY <1>1, <1>2, ListTypes DEF Take, Queued
<1>4. /\ job' \in [Worker -> Message \cup {NoJob}] /\ job'[w] = m
      /\ \A u \in Worker \ {w} : job'[u] = job[u]
  BY <1>1, <1>2, <1>3 DEF Take
<1>5. Busy' = Busy \cup {w} /\ w \notin Busy
  BY <1>3, <1>4, MessageFields DEF Busy, Idle, Take
<1>6. Cardinality(Busy') = Cardinality(Busy) + 1 /\ Cardinality(Busy) \in Nat
  BY <1>5, BusyFinite, FS_AddElement DEF QueueInv
<1>7. live' = Len(queue') + Cardinality(Busy') + dlq'
  BY <1>2, <1>3, <1>6 DEF Take
<1> QED
  BY <1>3, <1>4, <1>5, <1>7 DEF QueueInv, QueueTypeOK, MessagesConserved, Take

\* What all ends of an execution have in common.
LEMMA Freed ==
  ASSUME QueueInv, NEW w \in Busy, job' = [job EXCEPT ![w] = NoJob]
  PROVE  /\ job' \in [Worker -> Message \cup {NoJob}]
         /\ \A u \in Worker \ {w} : job'[u] = job[u]
         /\ Busy' = Busy \ {w} /\ Idle(w)'
         /\ Cardinality(Busy') = Cardinality(Busy) - 1
         /\ Cardinality(Busy) \in Nat /\ Cardinality(Busy') \in Nat
         /\ live >= Cardinality(Busy)
<1>1. /\ queue \in Seq(Message) /\ Len(queue) \in Nat /\ live \in Nat
      /\ dlq \in Nat /\ job \in [Worker -> Message \cup {NoJob}]
      /\ live = Len(queue) + Cardinality(Busy) + dlq
  BY DEF QueueInv, QueueTypeOK, MessagesConserved
<1>2. w \in Worker
  BY DEF Busy
<1>3. /\ job' \in [Worker -> Message \cup {NoJob}] /\ job'[w] = NoJob
      /\ \A u \in Worker \ {w} : job'[u] = job[u]
  BY <1>1, <1>2
<1>4. Busy' = Busy \ {w} /\ Idle(w)'
  BY <1>3 DEF Busy, Idle
<1>5. Cardinality(Busy') = Cardinality(Busy) - 1 /\ Cardinality(Busy) \in Nat
  BY <1>4, BusyFinite DEF QueueInv
<1>6. IsFiniteSet(Busy') /\ Cardinality(Busy') \in Nat
  BY <1>4, BusyFinite, FS_RemoveElement, FS_CardinalityType DEF QueueInv
<1> QED
  BY <1>1, <1>3, <1>4, <1>5, <1>6

LEMMA Finished ==
  ASSUME QueueInv, NEW w \in Busy, Finish(w),
         UNCHANGED <<queue, dlq, lost, faults>>
  PROVE  QueueInv'
<1>1. /\ Cardinality(Busy') = Cardinality(Busy) - 1
      /\ Cardinality(Busy) \in Nat /\ Cardinality(Busy') \in Nat
      /\ job' \in [Worker -> Message \cup {NoJob}]
  BY Freed DEF Finish
<1>2. /\ Len(queue) \in Nat /\ dlq \in Nat /\ live \in Nat /\ live' = live - 1
      /\ live = Len(queue) + Cardinality(Busy) + dlq
  BY DEF QueueInv, QueueTypeOK, MessagesConserved, Finish
<1>3. live' \in Nat /\ live' = Len(queue) + Cardinality(Busy') + dlq
  BY <1>1, <1>2
<1> QED
  BY <1>1, <1>3 DEF QueueInv, QueueTypeOK, MessagesConserved

\* An execution that fails starts again, or its target is known to be lost;
\* the two middlewares never both keep the message.
LEMMA Failed ==
  ASSUME QueueInv, NEW w \in Busy, OnError(w) \/ WorkerDies(w)
  PROVE  /\ QueueInv' /\ Busy' = Busy \ {w} /\ Idle(w)'
         /\ \A u \in Worker \ {w} : job'[u] = job[u]
         /\ lost \cup Queued \cup {job[w].node} \subseteq (lost \cup Queued)'
<1>1. job' = [job EXCEPT ![w] = NoJob] /\ faults' \in 0 .. MaxFaults
  BY QueueAssumption DEF OnError, WorkerDies, Fault, QueueInv, QueueTypeOK
<1>2. /\ Cardinality(Busy') = Cardinality(Busy) - 1
      /\ Cardinality(Busy) \in Nat /\ Cardinality(Busy') \in Nat
      /\ job' \in [Worker -> Message \cup {NoJob}]
      /\ Busy' = Busy \ {w} /\ Idle(w)'
      /\ \A u \in Worker \ {w} : job'[u] = job[u]
  BY <1>1, Freed
<1>3. /\ queue \in Seq(Message) /\ Len(queue) \in Nat /\ dlq \in Nat
      /\ live \in Nat /\ live = Len(queue) + Cardinality(Busy) + dlq
      /\ lost \subseteq Target
  BY DEF QueueInv, QueueTypeOK, MessagesConserved
<1>4. PICK m \in Message : m = job[w] /\ m.node \in Target
  BY BusyFinite DEF QueueInv
<1>5. CASE WorkerDies(w)
  <2>1. /\ live' = live - 1 /\ lost' = lost \cup {m.node}
        /\ queue' = queue /\ dlq' = dlq
    BY <1>4, <1>5 DEF WorkerDies
  <2>2. live' \in Nat /\ live' = Len(queue') + Cardinality(Busy') + dlq'
    BY <1>2, <1>3, <2>1
  <2> QED
    BY <1>1, <1>2, <1>3, <1>4, <2>1, <2>2
    DEF QueueInv, QueueTypeOK, MessagesConserved, Queued
<1>6. CASE OnError(w)
  <2>1. PICK again : again = [m EXCEPT !.tries = @ + 1]
    OBVIOUS
  <2>2. PICK retried \in BOOLEAN, buried \in BOOLEAN :
          /\ retried => ~Exhausted(m)
          /\ buried => DeadLettered(m)
          /\ queue' = IF retried THEN Append(queue, again) ELSE queue
          /\ dlq' = IF buried THEN dlq + 1 ELSE dlq
          /\ live' = IF retried \/ buried THEN live ELSE live - 1
          /\ lost' = IF retried THEN lost ELSE lost \cup {m.node}
    BY <1>4, <1>6, <2>1 DEF OnError
  <2>3. CASE retried
    <3>1. ~buried /\ m.tries + 1 < MaxRetries
      BY <2>2, <2>3 DEF Exhausted, DeadLettered
    <3>2. again \in Message /\ again.node = m.node
      BY <1>4, <2>1, <3>1, MessageFields, Kinds DEF Message
    <3>3. /\ queue' = Append(queue, again) /\ dlq' = dlq /\ live' = live
          /\ lost' = lost
      BY <2>2, <2>3, <3>1
    <3>4. /\ queue' \in Seq(Message) /\ Len(queue') = Len(queue) + 1
          /\ Queued' = Queued \cup {m.node}
      BY <1>3, <3>2, <3>3, ListTypes DEF Queued
    <3>5. live' = Len(queue') + Cardinality(Busy') + dlq'
      BY <1>2, <1>3, <3>3, <3>4
    <3> QED
      BY <1>1, <1>2, <1>3, <1>4, <3>3, <3>4, <3>5
      DEF QueueInv, QueueTypeOK, MessagesConserved
  <2>4. CASE ~retried
    <3>1. queue' = queue /\ lost' = lost \cup {m.node}
      BY <2>2, <2>4
    <3>2. /\ dlq' \in Nat /\ live' \in Nat
          /\ live' = Len(queue') + Cardinality(Busy') + dlq'
      BY <1>2, <1>3, <2>2, <2>4, <3>1
    <3> QED
      BY <1>1, <1>2, <1>3, <1>4, <3>1, <3>2
      DEF QueueInv, QueueTypeOK, MessagesConserved, Queued
  <2> QED
    BY <2>3, <2>4
<1> QED
  BY <1>5, <1>6

-----------------------------------------------------------------------------
(* Steps of a worker.                                                      *)

\* A worker changes its own run of cascade_staleness, and perhaps beliefs.
LEMMA WorkerFrame ==
  ASSUME FlowInv, QueueInv', NEW w \in Worker, cascade'[w] \in CascadeRec,
         cascade' = [cascade EXCEPT ![w] = cascade'[w]],
         \A u \in Worker \ {w} : job'[u] = job[u],
         Idle(w)' \/ cascade'[w].pc = "read" => cascade'[w] = NoCascade,
         cascade'[w].pc = "write" =>
           cascade'[w].todo # <<>> /\ Next1(w)'.node \in Belief,
         UNCHANGED <<active, promoted, revision, owed, leaves, basis, raced>>,
         belief' \in [Belief -> BeliefRec],
         \A b \in Belief :
           /\ belief'[b].src = belief[b].src
           /\ belief[b].state # "ABSENT" => belief'[b].state # "ABSENT",
         dropped' \subseteq Belief
  PROVE  TypeOK' /\ MessagesConserved' /\ CascadeInv' /\ GroundInv'
<1>1. cascade \in [Worker -> CascadeRec]
  BY DEF FlowInv, TypeOK
<1>2. PICK c : c = cascade'[w]
  OBVIOUS
<1>3. cascade' = [cascade EXCEPT ![w] = c] /\ c \in CascadeRec
  BY <1>2
<1>4. /\ cascade' \in [Worker -> CascadeRec]
      /\ \A u \in Worker \ {w} : cascade'[u] = cascade[u]
  BY <1>1, <1>3
<1>5. TypeOK' /\ MessagesConserved'
  BY <1>4 DEF FlowInv, TypeOK, QueueInv
<1>6. CascadeInv'
  <2>1. ASSUME NEW u \in Worker
        PROVE  /\ Idle(u)' \/ cascade'[u].pc = "read" =>
                    cascade'[u] = NoCascade
               /\ cascade'[u].pc = "write" =>
                    cascade'[u].todo # <<>> /\ Next1(u)'.node \in Belief
    <3>1. CASE u = w
      BY <3>1
    <3>2. CASE u # w
      BY <1>4, <3>2 DEF FlowInv, CascadeInv, Idle, Next1
    <3> QED
      BY <3>1, <3>2
  <2> QED
    BY <2>1 DEF CascadeInv
<1>7. GroundInv'
  <2>1. \A r \in Reviser : revision[r].pc # "idle" => revision[r].of \in Belief
    BY DEF FlowInv, TypeOK, RevisionRec, NoRevision
  <2> QED
    BY <2>1 DEF FlowInv, GroundInv
<1> QED
  BY <1>5, <1>6, <1>7

\* No news arise where nothing leaves and no belief becomes fresh.
LEMMA NewsFrame ==
  ASSUME FlowInv, UNCHANGED <<active, promoted, basis, raced>>,
         dropped \subseteq dropped',
         \A b \in Belief : Owing(b)' => Owing(b),
         \A b \in Belief, k \in Knowledge :
           Owing(b)' /\ Owing(b) /\ k \in basis[b] /\ ~Usable(k) /\ Heard(k, b)
             => Heard(k, b)'
  PROVE  NewsInv'
<1>1. \A b \in Belief : basis[b] \subseteq Knowledge
  BY DEF FlowInv, TypeOK
<1>2. \A k : Usable(k)' = Usable(k)
  BY DEF Usable
<1>3. ASSUME NEW b \in Belief, Owing(b)', NEW k \in basis'[b], ~Usable(k)'
      PROVE  Heard(k, b)'
  <2>1. Owing(b) /\ ~Usable(k) /\ k \in basis[b] /\ k \in Knowledge
    BY <1>1, <1>2, <1>3
  <2>2. Heard(k, b)
    BY <2>1 DEF FlowInv, NewsInv
  <2> QED
    BY <1>3, <2>1, <2>2
<1> QED
  BY <1>3 DEF NewsInv

LEMMA FlowFrame ==
  ASSUME FlowInv
  PROVE  /\ QueueInv /\ cascade \in [Worker -> CascadeRec]
         /\ \A w \in Worker : /\ cascade[w] \in CascadeRec
                             /\ cascade[w].pc \in {"read", "each", "write"}
                             /\ cascade[w].todo \in Seq(Dependent)
                             /\ cascade[w].visited \subseteq Target
                             /\ cascade[w].count \in Nat
         /\ \A d \in Dependent : d.node \in Target /\ d.depth \in 1 .. MaxDepth
         /\ belief \in [Belief -> BeliefRec] /\ dropped \subseteq Belief
         /\ \A b \in Belief : belief[b].src \subseteq Fact
         /\ active \subseteq Knowledge
<1>1. /\ QueueInv /\ cascade \in [Worker -> CascadeRec]
      /\ active \subseteq Knowledge
      /\ belief \in [Belief -> BeliefRec] /\ dropped \subseteq Belief
  BY DEF FlowInv, TypeOK, QueueInv
<1>2. ASSUME NEW w \in Worker
      PROVE  /\ cascade[w] \in CascadeRec
             /\ cascade[w].pc \in {"read", "each", "write"}
             /\ cascade[w].todo \in Seq(Dependent)
             /\ cascade[w].visited \subseteq Target
             /\ cascade[w].count \in Nat
  BY <1>1 DEF CascadeRec
<1>3. \A d \in Dependent : d.node \in Target /\ d.depth \in 1 .. MaxDepth
  BY DEF Dependent
<1>4. \A b \in Belief : belief[b].src \subseteq Fact
  BY <1>1 DEF BeliefRec
<1> QED
  BY <1>1, <1>2, <1>3, <1>4

LEMMA TakeStep ==
  ASSUME FlowInv, NEW w \in Worker, TakeEvent(w)
  PROVE  FlowInv'
<1>1. /\ QueueInv' /\ Busy' = Busy \cup {w} /\ w \notin Busy
      /\ \A u \in Worker \ {w} : job'[u] = job[u]
      /\ lost' = lost /\ Queued \subseteq Queued' \cup {job'[w].node}
  BY FlowFrame, Taken DEF TakeEvent
<1>2. UNCHANGED beliefVars
  BY DEF TakeEvent
<1>3. Idle(w) /\ cascade[w] = NoCascade /\ cascade[w].pc = "read"
  BY DEF TakeEvent, Take, FlowInv, CascadeInv, NoCascade
<1>4. /\ cascade'[w] \in CascadeRec /\ cascade'[w] = NoCascade
      /\ cascade'[w].pc # "write"
      /\ cascade' = [cascade EXCEPT ![w] = cascade'[w]]
  BY <1>2, <1>3, FlowFrame DEF beliefVars
<1>5. TypeOK' /\ MessagesConserved' /\ CascadeInv' /\ GroundInv'
  BY <1>1, <1>2, <1>4, FlowFrame, WorkerFrame DEF beliefVars
<1>6. \A n : Spread(n) => Spread(n)'
  <2>1. ASSUME NEW n, n \in lost \cup owed \cup Queued PROVE Spread(n)'
    BY <1>1, <1>2, <1>3, <2>1 DEF Spread, beliefVars
  <2>2. ASSUME NEW n, NEW u \in Busy, job[u].node = n, cascade[u].pc = "read"
        PROVE  Spread(n)'
    <3>1. u \in Busy' /\ job'[u] = job[u] /\ cascade'[u].pc = "read"
      BY <1>1, <1>2, <2>2 DEF Busy, beliefVars
    <3> QED
      BY <2>2, <3>1 DEF Spread
  <2> QED
    BY <2>1, <2>2 DEF Spread
<1>7. ASSUME NEW b, NEW k, Heard(k, b) PROVE Heard(k, b)'
  <2>1. ASSUME NEW u \in Busy, Carries(u, k, b)
        PROVE  u \in Busy' /\ job'[u] = job[u] /\ Carries(u, k, b)'
    BY <1>1, <1>2, <2>1 DEF Busy, Carries, Listed, Towards, Relay, beliefVars
  <2> QED
    BY <1>2, <1>6, <1>7, <2>1, StillHeard DEF beliefVars
<1>8. NewsInv'
  BY <1>2, <1>7, NewsFrame DEF beliefVars, Owing
<1> QED
  BY <1>5, <1>8 DEF FlowInv

LEMMA DependentsFinite ==
  ASSUME FlowInv, NEW n
  PROVE  Dependents(n) \subseteq Target /\ IsFiniteSet(Dependents(n))
<1>1. Dependents(n) \subseteq Target
  BY FlowFrame, Kinds DEF Dependents
<1> QED
  BY <1>1, Kinds, FS_Subset

LEMMA ReadStep ==
  ASSUME FlowInv, NEW w \in Worker, ReadDependents(w)
  PROVE  FlowInv'
<1>1. PICK n : n = job[w].node
  OBVIOUS
<1>2. w \in Busy /\ n \in Target
  BY <1>1, FlowFrame, BusyFinite DEF ReadDependents, Busy, QueueInv
<1>3. PICK s \in Listings(Dependents(n), 1) :
        cascade' = [cascade EXCEPT ![w].pc = "each", ![w].todo = s,
                                   ![w].visited = {n}]
  BY <1>1 DEF ReadDependents
<1>4. s \in Seq(Dependent) /\ NodesOf(s) = Dependents(n)
  BY Kinds, DependentsFinite, ListsAll
<1>5. /\ cascade'[w].pc = "each" /\ cascade'[w].todo = s
      /\ cascade'[w].visited = {n}
      /\ cascade'[w] \in CascadeRec
      /\ cascade' = [cascade EXCEPT ![w] = cascade'[w]]
      /\ \A u \in Worker \ {w} : cascade'[u] = cascade[u]
  BY <1>2, <1>3, <1>4, FlowFrame DEF CascadeRec
<1>6. cascade[w].pc = "read" /\ cascade[w].visited = {} /\ Listed(w) = {}
  BY DEF ReadDependents, FlowInv, CascadeInv, NoCascade, Listed, NodesOf
<1>7. UNCHANGED <<queueVars, active, promoted, belief, revision, owed, leaves,
                  basis, raced, dropped>>
  BY DEF ReadDependents
<1>8. QueueInv' /\ ~Idle(w)'
  BY <1>2, <1>7, FlowFrame
  DEF QueueInv, QueueTypeOK, MessagesConserved, Busy, Idle, queueVars
<1>9. TypeOK' /\ MessagesConserved' /\ CascadeInv' /\ GroundInv'
  BY <1>5, <1>7, <1>8, FlowFrame, WorkerFrame DEF queueVars
<1>10. ASSUME NEW b \in Belief, Owing(b), NEW k \in basis[b], ~Usable(k)
       PROVE  Heard(k, b)'
  BY <1>1, <1>2, <1>4, <1>5, <1>6, <1>7, <1>10, Expands DEF queueVars, Listed
<1>11. NewsInv'
  BY <1>7, <1>10, NewsFrame DEF Owing
<1> QED
  BY <1>9, <1>11 DEF FlowInv

\* What a worker that pops its first dependent, and perhaps marks n as
\* visited, has left.
LEMMA Pops ==
  ASSUME FlowInv, NEW w \in Worker, cascade[w].todo # <<>>,
         NEW V \in SUBSET Target,
         cascade' = [cascade EXCEPT ![w] = [Popped(w) EXCEPT !.visited = V]]
  PROVE  /\ cascade'[w] \in CascadeRec /\ cascade'[w].pc = "each"
         /\ cascade'[w].visited = V
         /\ cascade' = [cascade EXCEPT ![w] = cascade'[w]]
         /\ \A u \in Worker \ {w} : cascade'[u] = cascade[u]
         /\ Next1(w).node \in Listed(w)
         /\ Next1(w).node \in Target /\ Next1(w).depth \in 1 .. MaxDepth
         /\ Listed(w)' \subseteq Listed(w)
         /\ Listed(w) \subseteq Listed(w)' \cup {Next1(w).node}
<1>1. PICK t : t = Tail(cascade[w].todo)
  OBVIOUS
<1>2. /\ t \in Seq(Dependent) /\ Next1(w) \in Dependent
      /\ Next1(w).node \in Listed(w) /\ NodesOf(t) \subseteq Listed(w)
      /\ Listed(w) \subseteq NodesOf(t) \cup {Next1(w).node}
  BY <1>1, FlowFrame, ListTypes DEF Next1, Listed
<1>3. Popped(w) = [cascade[w] EXCEPT !.pc = "each", !.todo = t, !.count = 0]
  BY <1>1 DEF Popped
<1>4. PICK c : c = [Popped(w) EXCEPT !.visited = V]
  OBVIOUS
<1>5. /\ c \in CascadeRec /\ c.pc = "each" /\ c.todo = t /\ c.visited = V
  <2>1. PICK p : p = Popped(w)
    OBVIOUS
  <2>2. PICK q \in CascadeRec : q = cascade[w]
    BY FlowFrame
  <2>3. p \in CascadeRec /\ p.pc = "each" /\ p.todo = t
    <3>1. p = [q EXCEPT !.pc = "each", !.todo = t, !.count = 0]
      BY <1>3, <2>1, <2>2
    <3>2. t \in Seq(Dependent)
      BY <1>2
    <3> QED
      BY <3>1, <3>2 DEF CascadeRec
  <2>4. c = [p EXCEPT !.visited = V]
    BY <1>4, <2>1
  <2> QED
    BY <2>3, <2>4 DEF CascadeRec
<1>6. cascade' = [cascade EXCEPT ![w] = c]
  BY <1>4
<1>7. /\ cascade'[w] = c
      /\ \A u \in Worker \ {w} : cascade'[u] = cascade[u]
  BY <1>6, FlowFrame
<1>8. cascade' = [cascade EXCEPT ![w] = cascade'[w]]
  BY <1>6, <1>7
<1>9. NodesOf(t) = Listed(w)'
  BY <1>5, <1>7 DEF Listed
<1>10. Next1(w).node \in Target /\ Next1(w).depth \in 1 .. MaxDepth
  BY <1>2, FlowFrame
<1> QED
  BY <1>2, <1>5, <1>7, <1>8, <1>9, <1>10

LEMMA PopsPlain ==
  ASSUME FlowInv, NEW w \in Worker, cascade' = [cascade EXCEPT ![w] = Popped(w)]
  PROVE  cascade' = [cascade EXCEPT ![w] =
                       [Popped(w) EXCEPT !.visited = cascade[w].visited]]
<1>1. Popped(w) = [Popped(w) EXCEPT !.visited = cascade[w].visited]
  BY FlowFrame DEF Popped, CascadeRec
<1> QED
  BY <1>1

\* A worker that drops n from its list, be it that n is another belief, that
\* it has visited n before, or that there is an event for n now.
LEMMA Drops ==
  ASSUME FlowInv, NEW w \in Busy, NEW n,
         \A u \in Worker : job'[u] = job[u],
         \A u \in Worker \ {w} : cascade'[u] = cascade[u],
         UNCHANGED <<basis, owed, active>>,
         lost \cup Queued \subseteq (lost \cup Queued)',
         cascade[w].pc # "read",
         Listed(w) \subseteq Listed(w)' \cup {n},
         cascade'[w].visited \subseteq cascade[w].visited \cup {n},
         \/ n \in (lost \cup Queued)'
         \/ /\ n \in Belief \cup cascade[w].visited
            /\ cascade'[w].visited = cascade[w].visited,
         NEW b \in Belief, b # n, belief'[b].src = belief[b].src,
         NEW k \in basis[b], Heard(k, b)
  PROVE  Heard(k, b)'
<1>1. Busy' = Busy /\ \A x : Relay(x, b)' = Relay(x, b)
  BY DEF Busy, Idle, Relay
<1>2. Relay(k, b) \cap Belief = {}
  BY Kinds DEF FlowInv, TypeOK, Relay
<1>3. \A m : Spread(m) => Spread(m)'
  <2>1. ASSUME NEW m, m \in lost \cup owed \cup Queued PROVE Spread(m)'
    BY <2>1 DEF Spread
  <2>2. ASSUME NEW m, NEW u \in Busy, job[u].node = m, cascade[u].pc = "read"
        PROVE  Spread(m)'
    <3>1. u \in Worker \ {w}
      BY <2>2 DEF Busy
    <3>2. u \in Busy' /\ job'[u].node = m /\ cascade'[u].pc = "read"
      BY <1>1, <2>2, <3>1
    <3> QED
      BY <3>2 DEF Spread
  <2> QED
    BY <2>1, <2>2 DEF Spread
<1>4. PICK A, V : /\ A = active \ cascade[w].visited
                  /\ V = active \ cascade'[w].visited
  OBVIOUS
<1>5. ASSUME NEW m \in (Listed(w) \cap Relay(k, b)) \ cascade[w].visited,
             Towards(m, b, A)
      PROVE  \/ Carries(w, k, b)'
             \/ \E x \in Relay(k, b) : Towards(x, b, active) /\ Spread(x)'
  <2>1. CASE n \in Relay(k, b) /\ Towards(n, b, A) /\ n \in (lost \cup Queued)'
    <3>1. Towards(n, b, active)
      BY <1>4, <2>1, LeadsMore DEF Towards
    <3>2. Spread(n)'
      BY <2>1 DEF Spread
    <3> QED
      BY <2>1, <3>1, <3>2
  <2>2. CASE m = n
    BY <1>2, <1>5, <2>1, <2>2
  <2>3. ASSUME m # n, Towards(m, b, V)
        PROVE  Carries(w, k, b)'
    <3>1. Leads(m, basis[b], belief[b].src, active \ cascade'[w].visited)
      BY <1>4, <2>3 DEF Towards
    <3>2. Towards(m, b, active \ cascade[w].visited)'
      BY <3>1 DEF Towards
    <3>3. m \in (Listed(w) \cap Relay(k, b))' /\ m \notin cascade'[w].visited
      BY <1>1, <1>5, <2>3
    <3> QED
      BY <3>2, <3>3 DEF Carries
  <2>4. CASE m # n /\ ~Towards(m, b, V)
    <3>1. V # A /\ A \ {n} \subseteq V
      BY <1>4, <1>5, <2>4
    <3>2. n \in (lost \cup Queued)'
      BY <1>4, <3>1
    <3>3. ~Leads(m, basis[b], belief[b].src, A \ {n})
      BY <2>4, <3>1, LeadsMore DEF Towards
    <3>4. DerivesFrom(n, m) /\ Leads(n, basis[b], belief[b].src, A \ {n})
      BY <1>5, <2>4, <3>3, Detour DEF Towards
    <3>5. Leads(n, basis[b], belief[b].src, A)
      BY <3>4, LeadsMore
    <3>6. n \in Relay(k, b)
      BY <1>5, <3>4, DerivesTrans DEF Relay, Leads
    <3> QED
      BY <2>1, <3>2, <3>5, <3>6 DEF Towards
  <2> QED
    BY <2>2, <2>3, <2>4
<1>6. ASSUME NEW u \in Busy, Carries(u, k, b)
      PROVE  \/ Carries(u, k, b)'
             \/ \E m \in Relay(k, b) : Towards(m, b, active) /\ Spread(m)'
  <2>1. CASE u # w
    <3>1. cascade'[u] = cascade[u]
      BY <2>1 DEF Busy
    <3> QED
      BY <1>1, <1>6, <3>1 DEF Carries, Listed, Towards
  <2>2. CASE u = w /\ b \in Listed(w)
    BY <2>2 DEF Carries
  <2>3. CASE u = w /\ b \notin Listed(w)
    BY <1>4, <1>5, <1>6, <2>3 DEF Carries
  <2> QED
    BY <2>1, <2>2, <2>3
<1>7. ASSUME NEW u \in Busy
      PROVE  u \in Busy' /\ job'[u] = job[u]
  BY <1>1 DEF Busy
<1> QED
  BY <1>3, <1>6, <1>7, StillHeard

LEMMA CountStep ==
  ASSUME FlowInv, NEW w \in Worker, CountSources(w)
  PROVE  FlowInv'
<1>1. PICK b0 \in Belief : b0 = Next1(w).node
  BY DEF CountSources
<1>2. ActiveSources(b0) \in Nat
  <2>1. {f \in belief[b0].src : Usable(f)} \subseteq Target
    BY FlowFrame, Kinds
  <2> QED
    BY <2>1, Kinds, FS_Subset, FS_CardinalityType DEF ActiveSources
<1>3. PICK c : c = ActiveSources(b0)
  OBVIOUS
<1>4. cascade' = [cascade EXCEPT ![w].pc = "write", ![w].count = c]
  BY <1>1, <1>3 DEF CountSources
<1>5. /\ cascade'[w] \in CascadeRec /\ cascade'[w].pc = "write"
      /\ cascade'[w].todo = cascade[w].todo
      /\ cascade'[w].visited = cascade[w].visited
      /\ cascade' = [cascade EXCEPT ![w] = cascade'[w]]
      /\ \A u \in Worker \ {w} : cascade'[u] = cascade[u]
  BY <1>2, <1>3, <1>4, FlowFrame DEF CascadeRec
<1>6. /\ w \in Busy /\ cascade[w].pc = "each" /\ cascade[w].todo # <<>>
      /\ UNCHANGED <<queueVars, active, promoted, belief, revision, owed,
                     leaves, basis, raced, dropped>>
  BY DEF CountSources, InLoop, Busy
<1>7. QueueInv' /\ ~Idle(w)' /\ Busy' = Busy
  BY <1>6, FlowFrame
  DEF QueueInv, QueueTypeOK, MessagesConserved, Busy, Idle, queueVars
<1>8. TypeOK' /\ MessagesConserved' /\ CascadeInv' /\ GroundInv'
  <2>1. Next1(w)'.node = b0
    BY <1>1, <1>5 DEF Next1
  <2> QED
    BY <1>1, <1>5, <1>6, <1>7, <2>1, FlowFrame, WorkerFrame DEF queueVars
<1>9. ASSUME NEW b, NEW k, Heard(k, b) PROVE Heard(k, b)'
  <2>1. ASSUME NEW u \in Busy, Carries(u, k, b) PROVE Carries(u, k, b)'
    <3>1. /\ cascade'[u].todo = cascade[u].todo
          /\ cascade'[u].visited = cascade[u].visited
      BY <1>5, <2>1 DEF Busy
    <3> QED
      BY <1>6, <2>1, <3>1 DEF Carries, Listed, Towards, Relay
  <2>2. ASSUME NEW n, Spread(n) PROVE Spread(n)'
    <3>1. ASSUME NEW u \in Busy, job[u].node = n, cascade[u].pc = "read"
          PROVE  cascade'[u] = cascade[u]
      BY <1>5, <1>6, <3>1 DEF Busy
    <3> QED
      BY <1>6, <1>7, <2>2, <3>1 DEF Spread, Queued, queueVars
  <2>3. \A u \in Busy : u \in Busy' /\ job'[u] = job[u]
    BY <1>6, <1>7 DEF queueVars
  <2> QED
    BY <1>6, <1>9, <2>1, <2>2, <2>3, StillHeard
<1>10. NewsInv'
  BY <1>6, <1>9, NewsFrame DEF Owing
<1> QED
  BY <1>8, <1>10 DEF FlowInv

\* The belief at the head of the list is marked, and owes nothing any more.
LEMMA MarkStep ==
  ASSUME FlowInv, NEW w \in Worker, MarkBelief(w)
  PROVE  FlowInv'
<1>1. /\ w \in Busy /\ cascade[w].pc = "write" /\ cascade[w].todo # <<>>
      /\ UNCHANGED <<queueVars, active, promoted, revision, owed, leaves,
                     basis, raced, dropped>>
  BY DEF MarkBelief, Busy, FlowInv, CascadeInv
<1>2. PICK x \in Belief : x = Next1(w).node
  BY <1>1 DEF FlowInv, CascadeInv
<1>3. PICK V \in SUBSET Target : V = cascade[w].visited
  BY FlowFrame
<1>4. cascade' = [cascade EXCEPT ![w] = [Popped(w) EXCEPT !.visited = V]]
  BY <1>3, PopsPlain DEF MarkBelief
<1>5. /\ cascade'[w] \in CascadeRec /\ cascade'[w].pc = "each"
      /\ cascade'[w].visited = V
      /\ cascade' = [cascade EXCEPT ![w] = cascade'[w]]
      /\ \A u \in Worker \ {w} : cascade'[u] = cascade[u]
      /\ Listed(w) \subseteq Listed(w)' \cup {x}
  BY <1>1, <1>2, <1>4, Pops
<1>6. QueueInv' /\ ~Idle(w)'
  BY <1>1, FlowFrame
  DEF QueueInv, QueueTypeOK, MessagesConserved, Busy, Idle, queueVars
<1>7. /\ belief' \in [Belief -> BeliefRec]
      /\ \A b \in Belief \ {x} : belief'[b] = belief[b]
      /\ belief'[x].src = belief[x].src
      /\ belief[x].state # "ABSENT" => belief'[x].state # "ABSENT"
      /\ belief'[x].state = "TOMBSTONED" \/ belief'[x].syn = "STALE"
  <2>1. \/ belief' = [belief EXCEPT ![x].state = "TOMBSTONED"]
        \/ belief' = [belief EXCEPT ![x].syn = "STALE"]
    BY <1>2 DEF MarkBelief, Marked
  <2>2. PICK r \in BeliefRec : r = belief[x]
    BY FlowFrame
  <2>3. PICK q : /\ q = [r EXCEPT !.state = "TOMBSTONED"]
                    \/ q = [r EXCEPT !.syn = "STALE"]
                 /\ belief' = [belief EXCEPT ![x] = q]
    BY <2>1, <2>2
  <2>4. /\ q \in BeliefRec /\ q.src = r.src
        /\ r.state # "ABSENT" => q.state # "ABSENT"
        /\ q.state = "TOMBSTONED" \/ q.syn = "STALE"
    BY <2>2, <2>3 DEF BeliefRec
  <2> QED
    BY <2>2, <2>3, <2>4, FlowFrame
<1>8. TypeOK' /\ MessagesConserved' /\ CascadeInv' /\ GroundInv'
  BY <1>1, <1>5, <1>6, <1>7, FlowFrame, WorkerFrame DEF queueVars
<1>9. \A b \in Belief : Owing(b)' => Owing(b) /\ b # x
  BY <1>1, <1>7 DEF Owing
<1>10. ASSUME NEW b \in Belief, b # x, NEW k \in basis[b], Heard(k, b)
       PROVE  Heard(k, b)'
  <2>1. /\ \A u \in Worker : job'[u] = job[u]
        /\ UNCHANGED <<basis, owed>>
        /\ lost \cup Queued \subseteq (lost \cup Queued)'
        /\ cascade[w].pc # "read"
    BY <1>1 DEF queueVars, Queued
  <2> QED
    BY <1>1, <1>3, <1>5, <1>7, <1>10, <2>1, Drops
<1>11. NewsInv'
  BY <1>1, <1>9, <1>10, NewsFrame
<1> QED
  BY <1>8, <1>11 DEF FlowInv

\* The belief at the head of the list is left as it is, and known as dropped.
LEMMA MarkFailsStep ==
  ASSUME FlowInv, NEW w \in Worker, MarkFails(w)
  PROVE  FlowInv'
<1>1. /\ w \in Busy /\ cascade[w].pc # "read" /\ cascade[w].todo # <<>>
      /\ Next1(w).node \in Belief
      /\ UNCHANGED <<job, dlq, active, promoted, belief, revision, owed,
                     leaves, basis, raced>>
  BY DEF MarkFails, InLoop, Busy, FlowInv, CascadeInv
<1>2. PICK x \in Belief : x = Next1(w).node
  BY <1>1
<1>3. PICK V \in SUBSET Target : V = cascade[w].visited
  BY FlowFrame
<1>4. cascade' = [cascade EXCEPT ![w] = [Popped(w) EXCEPT !.visited = V]]
  BY <1>3, PopsPlain DEF MarkFails
<1>5. /\ cascade'[w] \in CascadeRec /\ cascade'[w].pc = "each"
      /\ cascade'[w].visited = V
      /\ cascade' = [cascade EXCEPT ![w] = cascade'[w]]
      /\ \A u \in Worker \ {w} : cascade'[u] = cascade[u]
      /\ Listed(w) \subseteq Listed(w)' \cup {x}
  BY <1>1, <1>2, <1>4, Pops
<1>6. /\ QueueInv' /\ Busy' = Busy
      /\ lost \cup Queued \cup {x} \subseteq (lost \cup Queued)'
  <2>1. (Pushed(x) \/ Missed(x)) /\ faults' \in 0 .. MaxFaults
    BY <1>2, QueueAssumption DEF MarkFails, Fault, FlowInv, TypeOK, QueueTypeOK
  <2> QED
    BY <1>1, <1>2, <2>1, FlowFrame, Kinds, Announced
<1>7. ~Idle(w)' /\ dropped' = dropped \cup {x}
  BY <1>1, <1>2 DEF Idle, Busy, MarkFails
<1>8. TypeOK' /\ MessagesConserved' /\ CascadeInv' /\ GroundInv'
  BY <1>1, <1>5, <1>6, <1>7, FlowFrame, WorkerFrame
<1>9. \A b \in Belief : Owing(b)' => Owing(b) /\ b # x
  BY <1>1, <1>7 DEF Owing
<1>10. ASSUME NEW b \in Belief, b # x, NEW k \in basis[b], Heard(k, b)
       PROVE  Heard(k, b)'
  BY <1>1, <1>3, <1>5, <1>6, <1>10, Drops
<1>11. NewsInv'
  BY <1>1, <1>7, <1>9, <1>10, NewsFrame
<1> QED
  BY <1>8, <1>11 DEF FlowInv

LEMMA RecurseStep ==
  ASSUME FlowInv, NEW w \in Worker, Recurse(w)
  PROVE  FlowInv'
<1>1. PICK n, d : n = Next1(w).node /\ d = Next1(w).depth + 1
  OBVIOUS
<1>2. /\ w \in Busy /\ cascade[w].pc = "each" /\ cascade[w].todo # <<>>
      /\ n \notin Belief /\ d <= MaxDepth
      /\ UNCHANGED <<queueVars, active, promoted, belief, revision, owed,
                     leaves, basis, raced, dropped>>
  BY <1>1 DEF Recurse, InLoop, Busy
<1>3. /\ n \in Target /\ d \in 1 .. MaxDepth
      /\ Next1(w) = Head(cascade[w].todo)
  <2>1. Next1(w) \in Dependent
    BY <1>2, FlowFrame, ListTypes DEF Next1
  <2> QED
    BY <1>1, <1>2, <2>1, FlowFrame, Kinds DEF Next1
<1>4. QueueInv' /\ ~Idle(w)'
  BY <1>2, FlowFrame
  DEF QueueInv, QueueTypeOK, MessagesConserved, Busy, Idle, queueVars
<1>5. CASE n \in cascade[w].visited
           /\ cascade' = [cascade EXCEPT ![w] = Popped(w)]
  <2>1. PICK V \in SUBSET Target : V = cascade[w].visited
    BY FlowFrame
  <2>2. cascade' = [cascade EXCEPT ![w] = [Popped(w) EXCEPT !.visited = V]]
    BY <1>5, <2>1, PopsPlain
  <2>3. /\ cascade'[w] \in CascadeRec /\ cascade'[w].pc = "each"
        /\ cascade'[w].visited = V
        /\ cascade' = [cascade EXCEPT ![w] = cascade'[w]]
        /\ \A u \in Worker \ {w} : cascade'[u] = cascade[u]
        /\ Listed(w) \subseteq Listed(w)' \cup {n}
    BY <1>1, <1>2, <2>2, Pops
  <2>4. TypeOK' /\ MessagesConserved' /\ CascadeInv' /\ GroundInv'
    BY <1>2, <1>4, <2>3, FlowFrame, WorkerFrame DEF queueVars
  <2>5. ASSUME NEW b \in Belief, NEW k \in basis[b], Heard(k, b)
        PROVE  Heard(k, b)'
    <3>1. /\ \A u \in Worker : job'[u] = job[u]
          /\ UNCHANGED <<basis, owed>>
          /\ lost \cup Queued \subseteq (lost \cup Queued)'
          /\ cascade[w].pc # "read" /\ b # n
      BY <1>2 DEF queueVars, Queued
    <3> QED
      BY <1>2, <1>5, <2>1, <2>3, <2>5, <3>1, Drops
  <2>6. NewsInv'
    BY <1>2, <2>5, NewsFrame DEF Owing
  <2> QED
    BY <2>4, <2>6 DEF FlowInv
<1>6. ASSUME n \notin cascade[w].visited,
             NEW s \in Listings(Dependents(n), d),
             cascade' = [cascade EXCEPT ![w].todo = s \o Tail(@),
                                        ![w].visited = @ \cup {n}]
      PROVE  FlowInv'
  <2>1. s \in Seq(Dependent) /\ NodesOf(s) = Dependents(n)
    BY <1>3, DependentsFinite, ListsAll
  <2>2. PICK t : t = Tail(cascade[w].todo)
    OBVIOUS
  <2>3. t \in Seq(Dependent) /\ Listed(w) \subseteq NodesOf(t) \cup {n}
    BY <1>1, <1>2, <1>3, <2>2, FlowFrame, ListTypes DEF Listed
  <2>4. PICK l : l = s \o t
    OBVIOUS
  <2>5. l \in Seq(Dependent) /\ NodesOf(s) \cup NodesOf(t) \subseteq NodesOf(l)
    BY <2>1, <2>3, <2>4, ListTypes
  <2>6. PICK V : V = cascade[w].visited \cup {n}
    OBVIOUS
  <2>7. cascade' = [cascade EXCEPT ![w].todo = l, ![w].visited = V]
    BY <1>6, <2>2, <2>4, <2>6
  <2>8. /\ cascade'[w] \in CascadeRec /\ cascade'[w].pc = "each"
        /\ cascade'[w].todo = l /\ cascade'[w].visited = V
        /\ cascade' = [cascade EXCEPT ![w] = cascade'[w]]
        /\ \A u \in Worker \ {w} : cascade'[u] = cascade[u]
    BY <1>2, <1>3, <2>5, <2>6, <2>7, FlowFrame DEF CascadeRec
  <2>9. TypeOK' /\ MessagesConserved' /\ CascadeInv' /\ GroundInv'
    BY <1>2, <1>4, <2>8, FlowFrame, WorkerFrame DEF queueVars
  <2>10. Dependents(n) \cup (Listed(w) \ {n}) \subseteq Listed(w)'
    BY <2>1, <2>3, <2>5, <2>8 DEF Listed
  <2>11. ASSUME NEW b \in Belief, Owing(b), NEW k \in basis[b], ~Usable(k)
         PROVE  Heard(k, b)'
    BY <1>2, <1>3, <2>6, <2>8, <2>10, <2>11, Expands DEF queueVars
  <2>12. NewsInv'
    BY <1>2, <2>11, NewsFrame DEF Owing
  <2> QED
    BY <2>9, <2>12 DEF FlowInv
<1> QED
  BY <1>1, <1>5, <1>6 DEF Recurse, Visit

LEMMA RecurseFailsStep ==
  ASSUME FlowInv, NEW w \in Worker, RecurseFails(w)
  PROVE  FlowInv'
<1>1. PICK n : n = Next1(w).node
  OBVIOUS
<1>2. /\ w \in Busy /\ cascade[w].pc = "each" /\ cascade[w].todo # <<>>
      /\ n \notin Belief
      /\ UNCHANGED <<job, dlq, active, promoted, belief, revision, owed,
                     leaves, basis, raced, dropped>>
  BY <1>1 DEF RecurseFails, InLoop, Busy
<1>3. n \in Target
  <2>1. Next1(w) \in Dependent
    BY <1>2, FlowFrame, ListTypes DEF Next1
  <2> QED
    BY <1>1, <2>1, FlowFrame
<1>4. PICK V \in SUBSET Target : V = cascade[w].visited \cup {n}
  BY <1>3, FlowFrame
<1>5. cascade' = [cascade EXCEPT ![w] = [Popped(w) EXCEPT !.visited = V]]
  <2>1. Popped(w).visited = cascade[w].visited
    BY FlowFrame DEF Popped, CascadeRec
  <2>2. cascade' = [cascade EXCEPT ![w] =
                      [Popped(w) EXCEPT !.visited = @ \cup {n}]]
    BY <1>1 DEF RecurseFails
  <2> QED
    BY <1>4, <2>1, <2>2
<1>6. /\ cascade'[w] \in CascadeRec /\ cascade'[w].pc = "each"
      /\ cascade'[w].visited = V
      /\ cascade' = [cascade EXCEPT ![w] = cascade'[w]]
      /\ \A u \in Worker \ {w} : cascade'[u] = cascade[u]
      /\ Listed(w) \subseteq Listed(w)' \cup {n}
  BY <1>1, <1>2, <1>5, Pops
<1>7. /\ QueueInv' /\ Busy' = Busy
      /\ lost \cup Queued \cup {n} \subseteq (lost \cup Queued)'
  <2>1. (Pushed(n) \/ Missed(n)) /\ faults' \in 0 .. MaxFaults
    BY <1>1, QueueAssumption
    DEF RecurseFails, Fault, FlowInv, TypeOK, QueueTypeOK
  <2> QED
    BY <1>2, <1>3, <2>1, FlowFrame, Announced
<1>8. ~Idle(w)'
  BY <1>2 DEF Idle, Busy
<1>9. TypeOK' /\ MessagesConserved' /\ CascadeInv' /\ GroundInv'
  BY <1>2, <1>6, <1>7, <1>8, FlowFrame, WorkerFrame
<1>10. ASSUME NEW b \in Belief, NEW k \in basis[b], Heard(k, b)
       PROVE  Heard(k, b)'
  <2>1. b # n
    BY <1>2
  <2> QED
    BY <1>2, <1>4, <1>6, <1>7, <1>10, <2>1, Drops
<1>11. NewsInv'
  BY <1>2, <1>10, NewsFrame DEF Owing
<1> QED
  BY <1>9, <1>11 DEF FlowInv

\* The event for a node that is too deep takes over from the list.
LEMMA DeferStep ==
  ASSUME FlowInv, NEW w \in Worker, Defer(w)
  PROVE  FlowInv'
<1>1. PICK n : n = Next1(w).node
  OBVIOUS
<1>2. /\ w \in Busy /\ cascade[w].pc = "each" /\ cascade[w].todo # <<>>
      /\ n \notin Belief
      /\ UNCHANGED <<job, dlq, active, promoted, belief, revision, owed,
                     leaves, basis, raced, dropped>>
  BY <1>1 DEF Defer, TooDeep, InLoop, Busy
<1>3. n \in Target
  <2>1. Next1(w) \in Dependent
    BY <1>2, FlowFrame, ListTypes DEF Next1
  <2> QED
    BY <1>1, <2>1, FlowFrame
<1>4. PICK V \in SUBSET Target : V = cascade[w].visited
  BY FlowFrame
<1>5. cascade' = [cascade EXCEPT ![w] = [Popped(w) EXCEPT !.visited = V]]
  BY <1>4, PopsPlain DEF Defer
<1>6. /\ cascade'[w] \in CascadeRec /\ cascade'[w].pc = "each"
      /\ cascade'[w].visited = V
      /\ cascade' = [cascade EXCEPT ![w] = cascade'[w]]
      /\ \A u \in Worker \ {w} : cascade'[u] = cascade[u]
      /\ Listed(w) \subseteq Listed(w)' \cup {n}
  BY <1>1, <1>2, <1>5, Pops
<1>7. /\ QueueInv' /\ Busy' = Busy
      /\ lost \cup Queued \cup {n} \subseteq (lost \cup Queued)'
  BY <1>1, <1>2, <1>3, FlowFrame, Emitted DEF Defer
<1>8. ~Idle(w)'
  BY <1>2 DEF Idle, Busy
<1>9. TypeOK' /\ MessagesConserved' /\ CascadeInv' /\ GroundInv'
  BY <1>2, <1>6, <1>7, <1>8, FlowFrame, WorkerFrame
<1>10. ASSUME NEW b \in Belief, NEW k \in basis[b], Heard(k, b)
       PROVE  Heard(k, b)'
  <2>1. b # n
    BY <1>2
  <2> QED
    BY <1>2, <1>4, <1>6, <1>7, <1>10, <2>1, Drops
<1>11. NewsInv'
  BY <1>2, <1>10, NewsFrame DEF Owing
<1> QED
  BY <1>9, <1>11 DEF FlowInv

\* The execution ends: with nothing left to do, or with an event that starts
\* it again, or with its target known to be lost.
LEMMA EndStep ==
  ASSUME FlowInv, NEW w \in Worker,
         CascadeDone(w) \/ TaskFails(w) \/ WorkerCrash(w)
  PROVE  FlowInv'
<1>1. /\ w \in Busy /\ cascade' = [cascade EXCEPT ![w] = NoCascade]
      /\ UNCHANGED <<active, promoted, belief, revision, owed, leaves, basis,
                     raced, dropped>>
  BY DEF CascadeDone, TaskFails, WorkerCrash, WorkerDies, Busy
<1>2. /\ QueueInv' /\ Busy' = Busy \ {w} /\ Idle(w)'
      /\ \A u \in Worker \ {w} : job'[u] = job[u]
      /\ lost \cup Queued \subseteq (lost \cup Queued)'
      /\ \/ job[w].node \in (lost \cup Queued)'
         \/ cascade[w].pc = "each" /\ cascade[w].todo = <<>>
  <2>1. CASE CascadeDone(w)
    <3>1. QueueInv'
      BY <1>1, <2>1, FlowFrame, Finished DEF CascadeDone
    <3>2. /\ Busy' = Busy \ {w} /\ Idle(w)'
          /\ \A u \in Worker \ {w} : job'[u] = job[u]
      BY <1>1, <2>1, FlowFrame, Freed DEF CascadeDone, Finish
    <3> QED
      BY <2>1, <3>1, <3>2 DEF CascadeDone, Queued
  <2>2. CASE TaskFails(w) \/ WorkerCrash(w)
    <3>1. OnError(w) \/ WorkerDies(w)
      BY <2>2 DEF TaskFails, WorkerCrash
    <3> QED
      BY <1>1, <3>1, FlowFrame, Failed
  <2> QED
    BY <2>1, <2>2
<1>3. PICK c : c = NoCascade
  OBVIOUS
<1>4. /\ c \in CascadeRec /\ c.pc = "read"
  <2>1. <<>> \in Seq(Dependent)
    OBVIOUS
  <2> QED
    BY <1>3, <2>1 DEF NoCascade, CascadeRec
<1>5. /\ cascade'[w] = c
      /\ \A u \in Worker \ {w} : cascade'[u] = cascade[u]
  BY <1>1, <1>3, FlowFrame
<1>6. TypeOK' /\ MessagesConserved' /\ CascadeInv' /\ GroundInv'
  BY <1>1, <1>2, <1>3, <1>4, <1>5, FlowFrame, WorkerFrame
<1>7. ASSUME NEW n, Spread(n) PROVE Spread(n)'
  <2>1. ASSUME NEW u \in Busy, job[u].node = n, cascade[u].pc = "read", u # w
        PROVE  u \in Busy' /\ job'[u] = job[u] /\ cascade'[u] = cascade[u]
    BY <1>2, <1>5, <2>1 DEF Busy
  <2>2. ASSUME job[w].node = n, cascade[w].pc = "read"
        PROVE  n \in (lost \cup Queued)'
    BY <1>2, <2>2
  <2> QED
    BY <1>1, <1>2, <1>7, <2>1, <2>2 DEF Spread
<1>8. ASSUME NEW b \in Belief, NEW k \in basis[b], NEW u \in Busy,
             job[u].node \in Relay(k, b), Towards(job[u].node, b, active),
             Carries(u, k, b)
      PROVE  \/ u \in Busy' /\ job'[u] = job[u] /\ Carries(u, k, b)'
             \/ \E m \in Relay(k, b) : Towards(m, b, active) /\ Spread(m)'
  <2>1. CASE u # w
    <3>1. u \in Busy' /\ job'[u] = job[u] /\ cascade'[u] = cascade[u]
      BY <1>2, <1>5, <2>1 DEF Busy
    <3> QED
      BY <1>1, <1>8, <3>1 DEF Carries, Listed, Towards, Relay
  <2>2. CASE u = w
    <3>1. cascade[w].todo # <<>>
      BY <1>8, <2>2 DEF Carries, Listed, NodesOf
    <3>2. PICK m : m = job[w].node
      OBVIOUS
    <3>3. Spread(m)'
      BY <1>2, <3>1, <3>2 DEF Spread
    <3> QED
      BY <1>8, <2>2, <3>2, <3>3
  <2> QED
    BY <2>1, <2>2
<1>9. ASSUME NEW b \in Belief, NEW k \in basis[b], Heard(k, b)
      PROVE  Heard(k, b)'
  BY <1>1, <1>7, <1>8, <1>9, StillHeard
<1>10. NewsInv'
  BY <1>1, <1>9, NewsFrame DEF Owing
<1> QED
  BY <1>6, <1>10 DEF FlowInv

-----------------------------------------------------------------------------
(* Steps outside the workers.                                              *)

\* A node l leaves, and owes an event: the ways over it begin again at it.
LEMMA HeardOn ==
  ASSUME NEW b, NEW k, Heard(k, b), NEW l,
         UNCHANGED <<job, belief, cascade, basis>>,
         active' = active \/ (active' = active \ {l} /\ l \in owed'),
         lost \cup owed \cup Queued \subseteq (lost \cup owed \cup Queued)'
  PROVE  Heard(k, b)'
<1>1. Busy' = Busy /\ Relay(k, b)' = Relay(k, b)
  BY DEF Busy, Idle, Relay
<1>2. \A n : Spread(n) => Spread(n)'
  BY <1>1 DEF Spread
<1>3. PICK live1 : live1 = active'
  OBVIOUS
<1>4. \A n : Leads(n, basis[b], belief[b].src, live1) => Towards(n, b, active)'
  BY <1>3 DEF Towards
<1>5. PICK n \in Relay(k, b) :
        /\ Towards(n, b, active)
        /\ \/ Spread(n)
           \/ \E w \in Busy : job[w].node = n /\ Carries(w, k, b)
  BY DEF Heard
<1>6. CASE active' = active
  <2>1. \A w : Carries(w, k, b) => Carries(w, k, b)'
    BY <1>1, <1>6 DEF Carries, Listed, Towards
  <2>2. Towards(n, b, active)'
    BY <1>5, <1>6 DEF Towards
  <2> QED
    BY <1>1, <1>2, <1>5, <2>1, <2>2 DEF Heard
<1>7. CASE active' = active \ {l} /\ l \in owed'
  <2>1. ASSUME l \in Relay(k, b),
               Leads(l, basis[b], belief[b].src, active \ {l})
        PROVE  Heard(k, b)'
    <3>1. Spread(l)'
      BY <1>7 DEF Spread
    <3> QED
      BY <1>1, <1>3, <1>4, <1>7, <2>1, <3>1 DEF Heard
  \* What leads from m through A goes round l, or starts at l.
  <2>2. ASSUME NEW m \in Relay(k, b), NEW A, A \subseteq active,
               Leads(m, basis[b], belief[b].src, A)
        PROVE  \/ m # l /\ Leads(m, basis[b], belief[b].src, A \ {l})
               \/ Heard(k, b)'
    <3>1. CASE m = l
      <4>1. Leads(l, basis[b], belief[b].src, A \ {l})
        BY <2>2, <3>1, LeadsOwn
      <4>2. Leads(l, basis[b], belief[b].src, active \ {l})
        BY <2>2, <4>1, LeadsMore
      <4> QED
        BY <2>1, <2>2, <3>1, <4>2
    <3>2. CASE m # l /\ ~Leads(m, basis[b], belief[b].src, A \ {l})
      <4>1. DerivesFrom(l, m) /\ Leads(l, basis[b], belief[b].src, A \ {l})
        BY <2>2, <3>2, Detour
      <4>2. Leads(l, basis[b], belief[b].src, active \ {l})
        BY <2>2, <4>1, LeadsMore
      <4>3. l \in Relay(k, b)
        BY <2>2, <4>1, DerivesTrans DEF Relay, Leads
      <4> QED
        BY <2>1, <4>2, <4>3
    <3> QED
      BY <3>1, <3>2
  <2>3. CASE ~Heard(k, b)'
    <3>1. Leads(n, basis[b], belief[b].src, active \ {l})
      BY <1>5, <2>2, <2>3 DEF Towards
    <3>2. Towards(n, b, active)'
      BY <1>3, <1>4, <1>7, <3>1
    <3>3. PICK w \in Busy : job[w].node = n /\ Carries(w, k, b)
      BY <1>1, <1>2, <1>5, <2>3, <3>2 DEF Heard
    <3>4. Carries(w, k, b)'
      <4>1. CASE b \in Listed(w)
        BY <4>1 DEF Carries, Listed
      <4>2. ASSUME NEW m \in (Listed(w) \cap Relay(k, b)) \ cascade[w].visited,
                   Towards(m, b, active \ cascade[w].visited)
            PROVE  Carries(w, k, b)'
        <5>1. PICK A : A = active \ cascade[w].visited
          OBVIOUS
        <5>2. Leads(m, basis[b], belief[b].src, A \ {l})
          BY <2>2, <2>3, <4>2, <5>1 DEF Towards
        <5>3. A \ {l} = active' \ cascade'[w].visited
          BY <1>7, <5>1
        <5>4. Towards(m, b, active \ cascade[w].visited)'
          BY <5>2, <5>3 DEF Towards
        <5> QED
          BY <1>1, <4>2, <5>4 DEF Carries, Listed
      <4> QED
        BY <3>3, <4>1, <4>2 DEF Carries
    <3> QED
      BY <1>1, <1>5, <3>2, <3>3, <3>4 DEF Heard
  <2> QED
    BY <2>3
<1> QED
  BY <1>6, <1>7

\* Nodes leave and come back, and events are emitted: what is in the queue,
\* owed or lost stays so, and what leaves is owed an event.
LEMMA KnowledgeFrame ==
  ASSUME FlowInv, QueueInv', NEW l,
         UNCHANGED <<job, belief, cascade, revision, basis, raced, dropped>>,
         active' = active \/ (active' = active \ {l} /\ l \in owed'),
         promoted' \subseteq Fact,
         owed' \subseteq Knowledge, leaves' \in 0 .. MaxLeaves,
         lost \cup owed \cup Queued \subseteq (lost \cup owed \cup Queued)',
         \A k \in Knowledge :
           ~Usable(k)' =>
             ~Usable(k) \/ (k \in owed' /\ active \subseteq active' \cup {k})
  PROVE  FlowInv'
<1>1. TypeOK' /\ MessagesConserved' /\ CascadeInv' /\ GroundInv'
  BY DEF FlowInv, TypeOK, QueueInv, CascadeInv, GroundInv, Idle, Next1
<1>2. ASSUME NEW b \in Belief, Owing(b), NEW k \in basis[b], ~Usable(k)
      PROVE  Heard(k, b)'
  <2>1. Heard(k, b)
    BY <1>2 DEF FlowInv, NewsInv
  <2> QED
    BY <2>1, HeardOn
<1>3. ASSUME NEW b \in Belief, Owing(b), NEW k \in basis[b], k \in owed',
             active \subseteq active' \cup {k}
      PROVE  Heard(k, b)'
  <2>1. PICK live1 : live1 = active'
    OBVIOUS
  <2>2. CASE Leads(k, basis[b], belief[b].src, live1)
    <3>1. Towards(k, b, active)' /\ Spread(k)' /\ k \in Relay(k, b)'
      BY <1>3, <2>1, <2>2 DEF Towards, Spread, Relay
    <3> QED
      BY <3>1 DEF Heard
  <2>3. ASSUME NEW f \in basis[b] \ {k}, f \notin live1, DerivesFrom(f, k)
        PROVE  Heard(k, b)'
    <3>1. ~Usable(f)
      BY <1>3, <2>1, <2>3 DEF Usable
    <3>2. Heard(f, b)'
      BY <1>2, <1>3, <2>3, <3>1
    <3>3. Relay(f, b)' \subseteq Relay(k, b)'
      BY <2>3, DerivesTrans DEF Relay
    <3>4. \A w : Carries(w, f, b)' => Carries(w, k, b)'
      BY <3>3 DEF Carries
    <3> QED
      BY <3>2, <3>3, <3>4 DEF Heard
  <2>4. Grounded(basis[b], belief[b].src)
    BY DEF FlowInv, GroundInv
  <2> QED
    BY <1>3, <2>2, <2>3, <2>4, Gaps
<1>4. ASSUME NEW b \in Belief, Owing(b)', NEW k \in basis'[b], ~Usable(k)'
      PROVE  Heard(k, b)'
  <2>1. k \in basis[b] /\ k \in Knowledge /\ Owing(b)
    BY <1>4 DEF FlowInv, TypeOK, Owing
  <2> QED
    BY <1>2, <1>3, <1>4, <2>1
<1>5. NewsInv'
  BY <1>4 DEF NewsInv
<1> QED
  BY <1>1, <1>5 DEF FlowInv

LEMMA KnowledgeStep ==
  ASSUME FlowInv,
         \/ \E k \in Knowledge : Superseded(k) \/ EmitOwed(k)
         \/ \E f \in Fact : Demoted(f) \/ Promoted(f)
  PROVE  FlowInv'
<1>0. /\ QueueInv /\ active \subseteq Knowledge /\ promoted \subseteq Fact
      /\ owed \subseteq Knowledge /\ leaves \in 0 .. MaxLeaves
      /\ MaxLeaves \in Nat
  BY BeliefAssumption DEF FlowInv, TypeOK, QueueInv
<1>1. ASSUME queueVars' = queueVars PROVE QueueInv' /\ Queued' = Queued
  BY <1>0, <1>1
  DEF queueVars, QueueInv, QueueTypeOK, MessagesConserved, Queued, Busy, Idle
<1>2. ASSUME NEW k \in Knowledge, Superseded(k) PROVE FlowInv'
  <2>1. \A x \in Knowledge : ~Usable(x)' =>
         ~Usable(x) \/ (x \in owed' /\ active \subseteq active' \cup {x})
    BY <1>2 DEF Superseded, Usable
  <2> QED
    BY <1>0, <1>1, <1>2, <2>1, KnowledgeFrame DEF Superseded, queueVars
<1>3. ASSUME NEW f \in Fact, Demoted(f) PROVE FlowInv'
  <2>1. \A x \in Knowledge : ~Usable(x)' =>
         ~Usable(x) \/ (x \in owed' /\ active \subseteq active' \cup {x})
    BY <1>3 DEF Demoted, Usable
  <2> QED
    BY <1>0, <1>1, <1>3, <2>1, Kinds, KnowledgeFrame DEF Demoted, queueVars
<1>4. ASSUME NEW f \in Fact, Promoted(f) PROVE FlowInv'
  <2>1. \A x \in Knowledge : ~Usable(x)' =>
         ~Usable(x) \/ (x \in owed' /\ active \subseteq active' \cup {x})
    BY <1>4 DEF Promoted, Usable
  <2> QED
    BY <1>0, <1>1, <1>4, <2>1, KnowledgeFrame DEF Promoted, queueVars
<1>5. ASSUME NEW k \in Knowledge, EmitCascade(k) PROVE FlowInv'
  <2>1. /\ QueueInv'
        /\ lost \cup Queued \cup {k} \subseteq (lost \cup Queued)'
    BY <1>0, <1>5, Kinds, Emitted DEF EmitCascade
  <2>2. \A x \in Knowledge : ~Usable(x)' =>
         ~Usable(x) \/ (x \in owed' /\ active \subseteq active' \cup {x})
    BY <1>5 DEF EmitCascade, Usable
  <2> QED
    BY <1>0, <1>5, <2>1, <2>2, KnowledgeFrame DEF EmitCascade
<1>6. ASSUME NEW k \in Knowledge, DiesBeforeEmit(k) PROVE FlowInv'
  <2>1. QueueInv' /\ Queued' = Queued
    BY <1>0, <1>6, Kinds, QueueAssumption
    DEF DiesBeforeEmit, Fault, QueueInv, QueueTypeOK, MessagesConserved,
        Queued, Busy, Idle
  <2>2. \A x \in Knowledge : ~Usable(x)' =>
         ~Usable(x) \/ (x \in owed' /\ active \subseteq active' \cup {x})
    BY <1>6 DEF DiesBeforeEmit, Usable
  <2> QED
    BY <1>0, <1>6, <2>1, <2>2, KnowledgeFrame DEF DiesBeforeEmit
<1> QED
  BY <1>2, <1>3, <1>4, <1>5, <1>6 DEF EmitOwed

\* revise_belief: beliefs keep their facts, and a belief becomes fresh only
\* with a content that stands for what is usable, or as one of the raced.
LEMMA ReviserFrame ==
  ASSUME FlowInv, NEW r \in Reviser, RevisionStays, faults' \in 0 .. MaxFaults,
         NEW v \in RevisionRec \cup {NoRevision},
         revision' = [revision EXCEPT ![r] = v],
         belief' \in [Belief -> BeliefRec],
         basis' \in [Belief -> SUBSET Knowledge],
         raced \subseteq raced', raced' \subseteq Belief,
         \A b \in Belief :
           /\ belief[b].state # "ABSENT" =>
                belief'[b].state # "ABSENT" /\ belief'[b].src = belief[b].src
           /\ Grounded(basis'[b], belief'[b].src)
           /\ Owing(b)' => \/ Owing(b) /\ basis'[b] = basis[b]
                           \/ \A k \in basis'[b] : Usable(k),
         v.pc # "idle" => belief'[v.of].state # "ABSENT",
         v.pc = "decide" => /\ v.facts \subseteq belief'[v.of].src
                            /\ Grounded(v.stands, v.facts)
  PROVE  FlowInv'
<1>1. /\ revision' \in [Reviser -> RevisionRec \cup {NoRevision}]
      /\ revision'[r] = v
      /\ \A u \in Reviser \ {r} : revision'[u] = revision[u]
  BY DEF FlowInv, TypeOK
<1>2. TypeOK' /\ MessagesConserved' /\ CascadeInv'
  BY <1>1
  DEF FlowInv, TypeOK, QueueTypeOK, MessagesConserved, CascadeInv, Busy, Idle,
      Next1, RevisionStays
<1>3. GroundInv'
  <2>1. ASSUME NEW u \in Reviser, revision'[u].pc # "idle"
        PROVE  /\ belief'[revision'[u].of].state # "ABSENT"
               /\ revision'[u].pc = "decide" =>
                    /\ revision'[u].facts \subseteq belief'[revision'[u].of].src
                    /\ Grounded(revision'[u].stands, revision'[u].facts)
    <3>1. CASE u = r
      BY <1>1, <2>1, <3>1
    <3>2. CASE u # r
      <4>1. revision'[u] = revision[u] /\ revision[u].of \in Belief
        BY <1>1, <2>1, <3>2 DEF FlowInv, TypeOK, RevisionRec, NoRevision
      <4> QED
        BY <2>1, <4>1 DEF FlowInv, GroundInv
    <3> QED
      BY <3>1, <3>2
  <2> QED
    BY <2>1 DEF GroundInv
<1>4. Busy' = Busy
  BY DEF Busy, Idle, RevisionStays
<1>5. \A n : Spread(n) => Spread(n)'
  BY <1>4 DEF Spread, Queued, RevisionStays
<1>6. \A k : Usable(k)' = Usable(k)
  BY DEF Usable, RevisionStays
<1>7. ASSUME NEW b \in Belief, Owing(b)', NEW k \in basis'[b], ~Usable(k)'
      PROVE  Heard(k, b)'
  <2>1. Owing(b) /\ basis'[b] = basis[b] /\ ~Usable(k)
    BY <1>6, <1>7
  <2>2. Heard(k, b)
    BY <1>7, <2>1 DEF FlowInv, NewsInv
  <2>3. belief'[b].src = belief[b].src /\ active' = active
    BY <2>1 DEF Owing, RevisionStays
  <2>4. \A w : Carries(w, k, b) => Carries(w, k, b)'
    BY <2>1, <2>3 DEF Carries, Listed, Towards, Relay, RevisionStays
  <2>5. \A w \in Busy : w \in Busy' /\ job'[w] = job[w]
    BY <1>4 DEF RevisionStays
  <2> QED
    BY <1>5, <2>1, <2>2, <2>3, <2>4, <2>5, StillHeard
<1>8. NewsInv'
  BY <1>7 DEF NewsInv
<1> QED
  BY <1>2, <1>3, <1>8 DEF FlowInv

LEMMA RevisionFields ==
  ASSUME FlowInv, NEW r \in Reviser, revision[r].pc # "idle"
  PROVE  /\ revision[r] \in RevisionRec /\ revision[r].of \in Belief
         /\ belief[revision[r].of] \in BeliefRec
         /\ belief[revision[r].of].state # "ABSENT"
         /\ revision[r].facts \subseteq Fact
         /\ revision[r].stands \subseteq Knowledge
<1>1. revision[r] \in RevisionRec
  BY DEF FlowInv, TypeOK, NoRevision
<1>2. /\ revision[r].of \in Belief /\ revision[r].facts \subseteq Fact
      /\ revision[r].stands \subseteq Knowledge
  BY <1>1 DEF RevisionRec
<1> QED
  BY <1>1, <1>2 DEF FlowInv, TypeOK, GroundInv

LEMMA BeliefFrame ==
  ASSUME FlowInv
  PROVE  /\ belief \in [Belief -> BeliefRec]
         /\ basis \in [Belief -> SUBSET Knowledge]
         /\ raced \subseteq Belief /\ faults \in 0 .. MaxFaults
         /\ active \subseteq Knowledge /\ NoRevision.pc = "idle"
         /\ Fault => faults' \in 0 .. MaxFaults
         /\ \A b \in Belief : Grounded(basis[b], belief[b].src)
BY QueueAssumption
DEF FlowInv, TypeOK, QueueTypeOK, GroundInv, NoRevision, Fault

LEMMA ReadBeliefStep ==
  ASSUME FlowInv, NEW r \in Reviser, NEW b \in Belief, ReadBelief(r, b)
  PROVE  FlowInv'
<1>1. PICK v : v = [pc |-> "mark", of |-> b, facts |-> {}, stands |-> {}]
  OBVIOUS
<1>2. /\ v \in RevisionRec /\ v.pc = "mark" /\ v.of = b
      /\ revision' = [revision EXCEPT ![r] = v] /\ RevisionStays
      /\ UNCHANGED <<faults, belief, basis, raced>>
      /\ belief[b].state = "ACTIVE"
  BY <1>1 DEF ReadBelief, RevisionRec, Revisable
<1>3. \A x \in Belief : Owing(x)' => Owing(x)
  BY <1>2 DEF Owing, RevisionStays
<1> QED
  BY <1>2, <1>3, BeliefFrame, ReviserFrame

LEMMA MarkInProgressStep ==
  ASSUME FlowInv, NEW r \in Reviser, MarkInProgress(r)
  PROVE  FlowInv'
<1>1. revision[r].pc = "mark"
  BY DEF MarkInProgress, Step
<1>2. PICK q \in RevisionRec : q = revision[r]
  BY <1>1, RevisionFields
<1>3. PICK v : v = [q EXCEPT !.pc = "facts"]
  OBVIOUS
<1>4. /\ v \in RevisionRec /\ v.pc = "facts" /\ v.of = q.of /\ q.of \in Belief
      /\ revision' = [revision EXCEPT ![r] = v] /\ RevisionStays
      /\ UNCHANGED <<faults, basis, raced>>
  BY <1>2, <1>3 DEF MarkInProgress, RevisionRec
<1>5. PICK p \in BeliefRec : p = [belief[q.of] EXCEPT !.busy = TRUE]
  BY <1>4, BeliefFrame DEF BeliefRec
<1>6. belief' = [belief EXCEPT ![q.of] = p]
  BY <1>2, <1>5 DEF MarkInProgress
<1>7. /\ p.src = belief[q.of].src /\ p.state = belief[q.of].state
      /\ p.syn = belief[q.of].syn
  BY <1>4, <1>5, BeliefFrame DEF BeliefRec
<1>8. /\ belief' \in [Belief -> BeliefRec]
      /\ \A x \in Belief : /\ belief'[x].src = belief[x].src
                           /\ belief'[x].state = belief[x].state
                           /\ belief'[x].syn = belief[x].syn
  BY <1>4, <1>6, <1>7, BeliefFrame
<1>9. \A x \in Belief : Owing(x)' => Owing(x)
  BY <1>4, <1>8 DEF Owing, RevisionStays
<1>10. belief'[q.of].state # "ABSENT"
  BY <1>1, <1>2, <1>4, <1>8, RevisionFields
<1> QED
  BY <1>4, <1>8, <1>9, <1>10, BeliefFrame, ReviserFrame

LEMMA ReadFactsStep ==
  ASSUME FlowInv, NEW r \in Reviser, ReadFacts(r)
  PROVE  FlowInv'
<1>1. revision[r].pc = "facts"
  BY DEF ReadFacts, Step
<1>2. PICK q \in RevisionRec : q = revision[r]
  BY <1>1, RevisionFields
<1>3. PICK facts : facts = {f \in belief[q.of].src : Usable(f)}
  OBVIOUS
<1>4. PICK stands : stands = Grounds(facts)
  OBVIOUS
<1>5. PICK v : v = [q EXCEPT !.pc = "decide", !.facts = facts,
                             !.stands = stands]
  OBVIOUS
<1>6. /\ q.of \in Belief /\ belief[q.of].src \subseteq Fact
      /\ belief[q.of].state # "ABSENT"
  BY <1>1, <1>2, RevisionFields, FlowFrame
<1>7. /\ facts \subseteq belief[q.of].src
      /\ facts \subseteq Fact /\ facts \subseteq active
  BY <1>3, <1>6 DEF Usable
<1>8. stands \subseteq Knowledge /\ Grounded(stands, facts)
  BY <1>4, <1>7, BeliefFrame, GroundsGrounded
<1>9. /\ v \in RevisionRec /\ v.pc = "decide" /\ v.of = q.of
      /\ v.facts = facts /\ v.stands = stands
  BY <1>5, <1>6, <1>7, <1>8 DEF RevisionRec
<1>10. /\ revision' = [revision EXCEPT ![r] = v] /\ RevisionStays
       /\ UNCHANGED <<faults, belief, basis, raced>>
  BY <1>2, <1>3, <1>4, <1>5 DEF ReadFacts
<1>11. \A x \in Belief : Owing(x)' => Owing(x)
  BY <1>10 DEF Owing, RevisionStays
<1>12. \A x \in Belief :
         /\ belief[x].state # "ABSENT" =>
              belief'[x].state # "ABSENT" /\ belief'[x].src = belief[x].src
         /\ Grounded(basis'[x], belief'[x].src)
         /\ Owing(x)' => Owing(x) /\ basis'[x] = basis[x]
  BY <1>10, <1>11, BeliefFrame
<1>13. /\ belief'[v.of].state # "ABSENT" /\ v.facts \subseteq belief'[v.of].src
       /\ Grounded(v.stands, v.facts)
  BY <1>6, <1>7, <1>8, <1>9, <1>10
<1> QED
  BY <1>9, <1>10, <1>12, <1>13, BeliefFrame, ReviserFrame

\* A settled belief keeps its facts; as FRESH it stands for what the revision
\* read, and that is usable or the belief is one of the raced.
LEMMA SettleStep ==
  ASSUME FlowInv, NEW r \in Reviser,
         NEW outcome \in {"FRESH", "STALE", "INVALIDATED"}, Settle(r, outcome)
  PROVE  FlowInv'
<1>1. revision[r].pc = "decide"
  BY DEF Settle, Step
<1>2. PICK q \in RevisionRec : q = revision[r]
  BY <1>1, RevisionFields
<1>3. PICK b \in Belief : b = q.of
  BY <1>1, <1>2, RevisionFields
<1>4. /\ q.stands \subseteq Knowledge /\ Grounded(q.stands, belief[b].src)
  BY <1>1, <1>2, <1>3, RevisionFields DEF FlowInv, GroundInv, Grounded
<1>5. PICK p \in BeliefRec :
        p = [belief[b] EXCEPT !.syn = outcome, !.busy = FALSE]
  <2>1. PICK o \in BeliefRec : o = belief[b]
    BY BeliefFrame
  <2>2. [o EXCEPT !.syn = outcome, !.busy = FALSE] \in BeliefRec
    BY DEF BeliefRec
  <2> QED
    BY <2>1, <2>2
<1>6. /\ belief' = [belief EXCEPT ![b] = p] /\ RevisionStays
      /\ revision' = [revision EXCEPT ![r] = NoRevision] /\ faults' = faults
      /\ basis' = IF outcome = "FRESH"
                  THEN [basis EXCEPT ![b] = q.stands] ELSE basis
      /\ raced' = IF outcome = "FRESH" /\ \E k \in q.stands : ~Usable(k)
                  THEN raced \cup {b} ELSE raced
  BY <1>2, <1>3, <1>5 DEF Settle, OutOfDate
<1>7. /\ p.src = belief[b].src /\ p.state = belief[b].state /\ p.syn = outcome
  BY <1>3, <1>5, BeliefFrame DEF BeliefRec
<1>8. /\ belief' \in [Belief -> BeliefRec]
      /\ \A x \in Belief : /\ belief'[x].src = belief[x].src
                           /\ belief'[x].state = belief[x].state
      /\ \A x \in Belief \ {b} : belief'[x] = belief[x]
      /\ belief'[b].syn = outcome
  BY <1>3, <1>6, <1>7, BeliefFrame
<1>9. /\ basis' \in [Belief -> SUBSET Knowledge]
      /\ \A x \in Belief \ {b} : basis'[x] = basis[x]
      /\ outcome = "FRESH" => basis'[b] = q.stands
      /\ outcome # "FRESH" => basis'[b] = basis[b]
  BY <1>4, <1>6, BeliefFrame
<1>10. raced \subseteq raced' /\ raced' \subseteq Belief
  BY <1>6, BeliefFrame
<1>11. ASSUME NEW x \in Belief, Owing(x)'
       PROVE  \/ Owing(x) /\ basis'[x] = basis[x]
              \/ \A k \in basis'[x] : Usable(k)
  <2>1. CASE x # b
    BY <1>6, <1>8, <1>9, <1>10, <1>11, <2>1 DEF Owing, RevisionStays
  <2>2. CASE x = b
    <3>1. outcome = "FRESH" /\ b \notin raced'
      BY <1>8, <1>11, <2>2 DEF Owing
    <3> QED
      BY <1>6, <1>9, <2>2, <3>1
  <2> QED
    BY <2>1, <2>2
<1>12. \A x \in Belief :
         /\ belief[x].state # "ABSENT" =>
              belief'[x].state # "ABSENT" /\ belief'[x].src = belief[x].src
         /\ Grounded(basis'[x], belief'[x].src)
  BY <1>4, <1>8, <1>9, BeliefFrame
<1> QED
  BY <1>6, <1>8, <1>9, <1>10, <1>11, <1>12, BeliefFrame, ReviserFrame

LEMMA CreateBeliefStep ==
  ASSUME FlowInv, NEW r \in Reviser, NEW n \in Belief, CreateBelief(r, n)
  PROVE  FlowInv'
<1>1. revision[r].pc = "decide" /\ belief[n].state = "ABSENT"
  BY DEF CreateBelief, Step
<1>2. PICK q \in RevisionRec : q = revision[r]
  BY <1>1, RevisionFields
<1>3. /\ q.of \in Belief \ {n} /\ belief[q.of].state # "ABSENT"
      /\ q.stands \subseteq Knowledge /\ q.facts \subseteq Fact
      /\ Grounded(q.stands, q.facts)
  BY <1>1, <1>2, RevisionFields DEF FlowInv, GroundInv
<1>4. PICK p : p = [state |-> "ACTIVE", syn |-> "FRESH", busy |-> FALSE,
                    src |-> q.facts]
  OBVIOUS
<1>5. p \in BeliefRec /\ p.src = q.facts /\ p.state = "ACTIVE"
  BY <1>3, <1>4 DEF BeliefRec
<1>6. PICK v : v = [q EXCEPT !.pc = "replace", !.facts = {}, !.stands = {}]
  OBVIOUS
<1>7. v \in RevisionRec /\ v.pc = "replace" /\ v.of = q.of
  BY <1>3, <1>6 DEF RevisionRec
<1>8. /\ belief' = [belief EXCEPT ![n] = p] /\ RevisionStays
      /\ revision' = [revision EXCEPT ![r] = v] /\ faults' = faults
      /\ basis' = [basis EXCEPT ![n] = q.stands]
      /\ raced' = IF \E k \in q.stands : ~Usable(k)
                  THEN raced \cup {n} ELSE raced
  BY <1>2, <1>4, <1>6 DEF CreateBelief, OutOfDate
<1>9. /\ belief' \in [Belief -> BeliefRec] /\ belief'[n] = p
      /\ \A x \in Belief \ {n} : belief'[x] = belief[x]
      /\ basis' \in [Belief -> SUBSET Knowledge] /\ basis'[n] = q.stands
      /\ \A x \in Belief \ {n} : basis'[x] = basis[x]
      /\ raced \subseteq raced' /\ raced' \subseteq Belief
  BY <1>3, <1>5, <1>8, BeliefFrame
<1>10. ASSUME NEW x \in Belief, Owing(x)'
       PROVE  \/ Owing(x) /\ basis'[x] = basis[x]
              \/ \A k \in basis'[x] : Usable(k)
  <2>1. CASE x # n
    BY <1>8, <1>9, <1>10, <2>1 DEF Owing, RevisionStays
  <2>2. CASE x = n
    BY <1>8, <1>9, <1>10, <2>2 DEF Owing
  <2> QED
    BY <2>1, <2>2
<1>11. \A x \in Belief :
         /\ belief[x].state # "ABSENT" =>
              belief'[x].state # "ABSENT" /\ belief'[x].src = belief[x].src
         /\ Grounded(basis'[x], belief'[x].src)
  BY <1>1, <1>3, <1>5, <1>9, BeliefFrame
<1>12. belief'[v.of].state # "ABSENT"
  BY <1>3, <1>7, <1>9
<1> QED
  BY <1>7, <1>8, <1>9, <1>10, <1>11, <1>12, BeliefFrame, ReviserFrame

\* The last writes of a revision: SUPERSEDED, or STALE again.
LEMMA ClosingStep ==
  ASSUME FlowInv, NEW r \in Reviser,
         ReplaceBelief(r) \/ ReviseFails(r) \/ ReviserDies(r)
  PROVE  FlowInv'
<1>1. /\ revision[r].pc # "idle" /\ RevisionStays
      /\ revision' = [revision EXCEPT ![r] = NoRevision]
      /\ UNCHANGED <<basis, raced>> /\ faults' \in 0 .. MaxFaults
  BY BeliefFrame DEF ReplaceBelief, ReviseFails, ReviserDies, Step
<1>2. PICK b \in Belief : b = revision[r].of /\ belief[b].state # "ABSENT"
  BY <1>1, RevisionFields
<1>3. PICK o \in BeliefRec : o = belief[b]
  BY BeliefFrame
<1>4. PICK p : /\ belief' = [belief EXCEPT ![b] = p]
               /\ \/ p = [o EXCEPT !.state = "SUPERSEDED"]
                  \/ p = [o EXCEPT !.syn = "STALE", !.busy = FALSE]
                  \/ p = o
  <2>1. CASE ReplaceBelief(r)
    BY <1>2, <1>3, <2>1 DEF ReplaceBelief
  <2>2. CASE ReviseFails(r)
    <3>1. belief' = [belief EXCEPT ![b].syn = "STALE", ![b].busy = FALSE]
      BY <1>2, <2>2 DEF ReviseFails
    <3>2. belief' = [belief EXCEPT ![b] =
                       [o EXCEPT !.syn = "STALE", !.busy = FALSE]]
      BY <1>3, <3>1, BeliefFrame
    <3> QED
      BY <3>2
  <2>3. CASE ReviserDies(r)
    BY <1>3, <2>3, BeliefFrame DEF ReviserDies
  <2> QED
    BY <2>1, <2>2, <2>3
<1>5. /\ p \in BeliefRec /\ p.src = o.src
      /\ p.state # "ABSENT"
      /\ p.state = "ACTIVE" /\ p.syn = "FRESH" =>
           o.state = "ACTIVE" /\ o.syn = "FRESH"
  BY <1>2, <1>3, <1>4 DEF BeliefRec
<1>6. /\ belief' \in [Belief -> BeliefRec]
      /\ \A x \in Belief \ {b} : belief'[x] = belief[x]
      /\ belief'[b] = p
  BY <1>4, <1>5, BeliefFrame
<1>7. \A x \in Belief :
        /\ belief[x].state # "ABSENT" =>
             belief'[x].state # "ABSENT" /\ belief'[x].src = belief[x].src
        /\ Grounded(basis'[x], belief'[x].src)
  BY <1>1, <1>3, <1>5, <1>6, BeliefFrame
<1>8. \A x \in Belief : Owing(x)' => Owing(x)
  BY <1>1, <1>3, <1>5, <1>6 DEF Owing, RevisionStays
<1> QED
  BY <1>1, <1>6, <1>7, <1>8, BeliefFrame, ReviserFrame

-----------------------------------------------------------------------------

LEMMA FlowStart == Init => FlowInv
<1> SUFFICES ASSUME Init PROVE FlowInv
  OBVIOUS
<1>1. /\ active = Knowledge /\ promoted = Fact /\ owed = {} /\ leaves = 0
      /\ raced = {} /\ dropped = {}
      /\ cascade = [w \in Worker |-> NoCascade]
      /\ revision = [r \in Reviser |-> NoRevision]
  BY DEF Init
<1>2. PICK waiting \in Seq(Message) : QueueInit(waiting)
  <2>1. CASE OneBelief
    <3>1. <<>> \in Seq(Message)
      OBVIOUS
    <3> QED
      BY <2>1, <3>1 DEF OneBelief
  <2>2. CASE RetryWaits
    <3>1. PICK f \in Fact :
            QueueInit(<<[node |-> f, tries |-> MaxRetries - 1]>>)
      BY <2>2 DEF RetryWaits
    <3>2. [node |-> f, tries |-> MaxRetries - 1] \in Message
      BY Kinds DEF Message
    <3>3. PICK m \in Message : m = [node |-> f, tries |-> MaxRetries - 1]
      BY <3>2
    <3>4. <<m>> \in Seq(Message) /\ QueueInit(<<m>>)
      BY <3>1, <3>3
    <3> QED
      BY <3>4
  <2> QED
    BY <2>1, <2>2 DEF Init
<1>3. /\ belief \in [Belief -> BeliefRec]
      /\ basis \in [Belief -> SUBSET Knowledge]
      /\ \A b \in Belief : Grounded(basis[b], belief[b].src)
  <2>1. NoBelief \in BeliefRec /\ Grounded({}, NoBelief.src)
    BY DEF NoBelief, BeliefRec, Grounded
  <2>2. CASE RetryWaits
    BY <2>1, <2>2 DEF RetryWaits
  <2>3. CASE OneBelief
    <3>1. PICK syn \in {"FRESH", "STALE"}, facts \in SUBSET Fact :
            /\ belief = [b \in Belief |->
                           IF b = First
                           THEN [NoBelief EXCEPT !.state = "ACTIVE",
                                                 !.syn = syn, !.src = facts]
                           ELSE NoBelief]
            /\ basis = [b \in Belief |->
                          IF b = First THEN Grounds(facts) ELSE {}]
      BY <2>3 DEF OneBelief
    <3>2. PICK q : q = [NoBelief EXCEPT !.state = "ACTIVE", !.syn = syn,
                                        !.src = facts]
      OBVIOUS
    <3>3. q \in BeliefRec /\ q.src = facts
      BY <3>2 DEF NoBelief, BeliefRec
    <3>4. Grounds(facts) \subseteq Knowledge /\ Grounded(Grounds(facts), facts)
      BY <1>1, Kinds, GroundsGrounded
    <3>5. PICK G \in SUBSET Knowledge : G = Grounds(facts)
      BY <3>4
    <3>6. /\ belief = [b \in Belief |-> IF b = First THEN q ELSE NoBelief]
          /\ basis = [b \in Belief |-> IF b = First THEN G ELSE {}]
      BY <3>1, <3>2, <3>5
    <3> QED
      BY <2>1, <3>3, <3>4, <3>5, <3>6
  <2> QED
    BY <2>2, <2>3 DEF Init
<1>4. Busy = {} /\ \A w \in Worker : job[w] = NoJob
  BY <1>2 DEF QueueInit, Busy, Idle
<1>5. QueueTypeOK /\ MessagesConserved
  <2>1. Len(waiting) \in Nat /\ Cardinality(Busy) = 0
    BY <1>4, FS_EmptySet
  <2>2. live = Len(queue) + Cardinality(Busy) + dlq
    BY <1>2, <2>1 DEF QueueInit
  <2>3. faults \in 0 .. MaxFaults
    BY <1>2, QueueAssumption DEF QueueInit
  <2> QED
    BY <1>2, <2>1, <2>2, <2>3 DEF QueueInit, QueueTypeOK, MessagesConserved
<1>6. TypeOK
  <2>1. NoCascade \in CascadeRec
    <3>1. <<>> \in Seq(Dependent)
      OBVIOUS
    <3> QED
      BY <3>1 DEF NoCascade, CascadeRec
  <2> QED
    BY <1>1, <1>3, <1>5, <2>1, BeliefAssumption DEF TypeOK
<1>7. CascadeInv /\ GroundInv
  BY <1>1, <1>3 DEF CascadeInv, GroundInv, NoCascade, NoRevision
<1>8. NewsInv
  BY <1>1, <1>3, Kinds DEF NewsInv, Usable
<1> QED
  BY <1>5, <1>6, <1>7, <1>8 DEF FlowInv

LEMMA FlowStep == FlowInv /\ [Next]_vars => FlowInv'
<1> SUFFICES ASSUME FlowInv, [Next]_vars PROVE FlowInv'
  OBVIOUS
<1>1. CASE \/ \E k \in Knowledge : Superseded(k) \/ EmitOwed(k)
           \/ \E f \in Fact : Demoted(f) \/ Promoted(f)
  BY <1>1, KnowledgeStep
<1>2. ASSUME NEW w \in Worker, WorkerStep(w) PROVE FlowInv'
  BY <1>2, TakeStep, ReadStep, CountStep, MarkStep, MarkFailsStep,
     RecurseStep, RecurseFailsStep, DeferStep, EndStep
  DEF WorkerStep
<1>3. ASSUME NEW r \in Reviser, ReviserStep(r) PROVE FlowInv'
  BY <1>3, ReadBeliefStep, CreateBeliefStep, MarkInProgressStep,
     ReadFactsStep, SettleStep, ClosingStep
  DEF ReviserStep
<1>4. CASE UNCHANGED vars
  <2>1. UNCHANGED queueVars /\ UNCHANGED beliefVars
    BY <1>4 DEF vars
  <2>2. QueueInv' /\ Queued' = Queued
    BY <2>1, FlowFrame
    DEF queueVars, QueueInv, QueueTypeOK, MessagesConserved, Queued, Busy, Idle
  <2>3. \A x \in Knowledge : ~Usable(x)' => ~Usable(x)
    BY <2>1 DEF beliefVars, Usable
  <2>4. /\ active \subseteq Knowledge /\ promoted \subseteq Fact
        /\ owed \subseteq Knowledge /\ leaves \in 0 .. MaxLeaves
    BY DEF FlowInv, TypeOK
  <2> QED
    BY <2>1, <2>2, <2>3, <2>4, KnowledgeFrame DEF queueVars, beliefVars
<1> QED
  BY <1>1, <1>2, <1>3, <1>4 DEF Next

THEOREM FlowInvariance == Spec => []FlowInv
  BY FlowStart, FlowStep, PTL DEF Spec

\* Whatever the interleaving of callers, cascades and revisions and whatever
\* fails, every variable keeps its type: in particular a cascade's depth
\* never exceeds MAX_CASCADE_DEPTH, and a message is executed at most
\* _MAX_RETRIES times.
THEOREM FlowTypeCorrect == Spec => []TypeOK
<1>1. FlowInv => TypeOK
  BY DEF FlowInv
<1> QED
  BY <1>1, FlowInvariance, PTL

\* No message of the reaction queue is in two places or in none: it waits,
\* is executed, is dead-lettered, or is counted as gone, although the two
\* middlewares decide about a failed message independently of each other.
THEOREM MessagesKept == Spec => []MessagesConserved
<1>1. FlowInv => MessagesConserved
  BY DEF FlowInv
<1> QED
  BY <1>1, FlowInvariance, PTL

\* A live belief that counts as fresh although what its content stands for
\* has left is on somebody's list, for every graph of derivations, any number
\* of workers and revisers, and every limit of depth: the chain of cascades,
\* deferred cascades and retries between supersede and the belief never
\* breaks silently.
THEOREM StalenessKnown == Spec => []StalenessAccounted
<1>1. FlowInv => StalenessAccounted
  <2> SUFFICES ASSUME FlowInv, NEW b \in Belief, belief[b].state = "ACTIVE",
                      belief[b].syn = "FRESH", NEW k \in basis[b], ~Usable(k),
                      b \notin raced \cup dropped
               PROVE  \E n \in Relay(k, b) : n \in lost \/ Underway(n, b)
    BY DEF StalenessAccounted
  <2>1. PICK n \in Relay(k, b) :
          \/ Spread(n)
          \/ \E w \in Busy : job[w].node = n /\ Carries(w, k, b)
    BY DEF FlowInv, NewsInv, Owing, Heard
  <2>2. CASE Spread(n)
    BY <2>1, <2>2 DEF Spread, Underway, Queued, NodesOf
  <2>3. ASSUME NEW w \in Busy, Carries(w, k, b)
        PROVE  \E m \in Relay(k, b) : Underway(m, b)
    <3>1. CASE b \in Listed(w)
      <4>1. Underway(n, b)
        BY <3>1 DEF Underway, Listed, NodesOf
      <4> QED
        BY <2>1, <4>1
    <3>2. ASSUME NEW m \in Listed(w) \cap Relay(k, b)
          PROVE  Underway(m, b)
      BY <3>2 DEF Underway, Listed, NodesOf
    <3> QED
      BY <2>3, <3>1, <3>2 DEF Carries
  <2> QED
    BY <2>1, <2>2, <2>3
<1> QED
  BY <1>1, FlowInvariance, PTL

=============================================================================
