------------------------ MODULE SageLifecycleProofs ------------------------
(***************************************************************************)
(* Proofs about SageLifecycle for every number of nodes, agents, objects   *)
(* and every bound: type correctness, ConflictsFlagged, LiveProvenance,    *)
(* ReplacedStaysReplaced and LiveEdgesKept.                                *)
(***************************************************************************)
EXTENDS SageLifecycle, TLAPS

\* store_claim frames whose claim is in the graph already ...
CreatedPCs == {"sc_derive", "sc_supersede", "sc_shadow", "sc_detect",
               "sc_flag", "sc_status"}
\* ... has its DERIVED_FROM edges ...
DerivedPCs == {"sc_supersede", "sc_shadow", "sc_detect", "sc_flag", "sc_status"}
\* ... and has read its conflicts.
DetectedPCs == {"sc_flag", "sc_status"}

\* The claim has its DERIVED_FROM edges, as far as both ends are ACTIVE.
HasProvenance(c) ==
  \A e \in evidence[c] :
    /\ state[e] # "absent"
    /\ Active(c) /\ Active(e) => <<"DERIVED_FROM", c, e>> \in edges

\* What the locals of a frame are worth at each point of its operation.
FrameOK(f) ==
  /\ f.pc \in StoreClaimPCs =>
       /\ f.node \in Claim /\ f.node \notin done
       /\ \A e \in f.refs : state[e] # "absent"
  /\ f.pc \in {"sc_check", "sc_create"} => state[f.node] = "absent"
  /\ f.pc \in CreatedPCs => /\ state[f.node] # "absent"
                            /\ object[f.node] = f.obj
                            /\ evidence[f.node] = f.refs
  /\ f.pc \in DerivedPCs => HasProvenance(f.node)
  /\ f.pc \in DetectedPCs => \A d \in f.todo : d \in Claim /\ state[d] # "absent"
  /\ f.pc \in {"sc_status", "hd_node"} => f.other \in f.todo
  \* between the two writes of one conflict the edges are there already
  /\ f.pc = "sc_status" /\ Active(f.node) /\ Active(f.other)
       => /\ <<"CONTRADICTS", f.node, f.other>> \in edges
          /\ <<"CONTRADICTS", f.other, f.node>> \in edges
  \* what the garbage collector holds was a tombstone and is not ACTIVE now
  /\ f.pc \in {"hd_edges", "hd_node"} =>
       \A n \in f.todo : state[n] \notin {"absent", "ACTIVE"}
  /\ f.pc \in {"ln_check", "ln_cycle", "ln_write"} => f.type \in LinkTypes

FrameInv == \A a \in Agent : FrameOK(op[a])

\* No two calls draw the same id.
UniqueInv ==
  \A a, b \in Agent :
    /\ op[a].pc \in StoreClaimPCs
    /\ op[b].pc \in StoreClaimPCs
    /\ op[a].node = op[b].node
    => a = b

\* A tombstone records nothing but itself as the state to return to.
TombstoneInv ==
  \A n \in Node : state[n] = "TOMBSTONED" => prev[n] = "TOMBSTONED"

ReplacedInv == \A n \in replaced : state[n] \notin {"absent", "ACTIVE"}

DoneInv == \A c \in done : state[c] # "absent" /\ HasProvenance(c)

\* The call that stores c still has d on its list of conflicts to flag.
Pending(c, d) ==
  \E a \in Agent : /\ op[a].pc \in DetectedPCs
                   /\ op[a].node = c
                   /\ d \in op[a].todo

Detected(c) ==
  c \in done \/ \E a \in Agent : op[a].pc \in DetectedPCs /\ op[a].node = c

\* Of two contradicting claims that have both looked for conflicts, the one
\* that looked later has seen the other: the pair is flagged or about to be.
ConflictInv ==
  \A c, d \in Claim :
    /\ Detected(c) /\ Detected(d)
    /\ Active(c) /\ Active(d)
    /\ Contradict(c, d)
    => FlaggedPair(c, d) \/ Pending(c, d) \/ Pending(d, c)

IInv ==
  /\ TypeOK
  /\ FrameInv
  /\ UniqueInv
  /\ TombstoneInv
  /\ ReplacedInv
  /\ DoneInv
  /\ ConflictInv

-----------------------------------------------------------------------------
(* Type correctness.                                                       *)

\* The frame of an agent that starts or ends an operation is well typed.
LEMMA IdleFrameType == IdleFrame \in Frame
  BY ConstantsAssumption DEF IdleFrame, Frame, PCs

\* Moving a frame on, and replacing the locals that loops replace, keeps it so.
LEMMA FrameUpdate ==
  ASSUME NEW f \in Frame, NEW pc \in PCs, NEW n \in Node \cup {NoNode},
         NEW S \in SUBSET Node
  PROVE  /\ [f EXCEPT !.pc = pc] \in Frame
         /\ [f EXCEPT !.pc = pc, !.other = n] \in Frame
         /\ [f EXCEPT !.pc = pc, !.todo = S] \in Frame
  BY DEF Frame

\* Giving one agent a well-typed frame leaves every frame well typed.
LEMMA NextFrame ==
  ASSUME TypeOK, NEW a \in Agent, NEW f \in Frame, op' = [op EXCEPT ![a] = f]
  PROVE  op' \in [Agent -> Frame]
  BY DEF TypeOK

\* Moving one agent on within its operation leaves every frame well typed.
LEMMA GotoType ==
  ASSUME TypeOK, NEW a \in Agent, NEW pc \in PCs, Goto(a, pc)
  PROVE  op' \in [Agent -> Frame]
<1>1. [op[a] EXCEPT !.pc = pc] \in Frame
  BY DEF TypeOK, Frame
<1> QED
  BY <1>1, NextFrame DEF Goto

\* The first step of every operation keeps all state well typed.
LEMMA TypeStart ==
  ASSUME TypeOK, NEW a \in Agent, Start(a), calls' \in Nat
  PROVE  TypeOK'
<1> USE IdleFrameType, ConstantsAssumption
<1>1. ASSUME NEW m \in Memory, StoreMemory(a, m) PROVE TypeOK'
  BY <1>1 DEF TypeOK, StoreMemory, Frame, PCs, IdleFrame, Node, States
<1>2. ASSUME NEW c \in Claim, NEW o \in Object \cup {NoObject},
             NEW refs \in SUBSET Node, NEW sup \in Node \cup {NoNode},
             StoreClaim(a, c, o, refs, sup)
      PROVE  TypeOK'
  BY <1>2 DEF TypeOK, StoreClaim, graph, Frame, PCs, StoreClaimPCs, IdleFrame, Node
<1>3. ASSUME NEW w \in Node, NEW l \in Node, Supersede(a, w, l) PROVE TypeOK'
  BY <1>3 DEF TypeOK, Supersede, graph, Frame, PCs, IdleFrame
<1>4. ASSUME NEW s \in Node, NEW t \in Node, NEW type \in LinkTypes,
             Link(a, s, t, type)
      PROVE  TypeOK'
  BY <1>4 DEF TypeOK, Link, graph, Frame, PCs, IdleFrame
<1>5. ASSUME NEW n \in Node, Forget(a, n) PROVE TypeOK'
  BY <1>5 DEF TypeOK, Forget, graph, Frame, PCs, IdleFrame
<1>6. ASSUME NEW n \in Node, CancelForget(a, n) PROVE TypeOK'
  BY <1>6 DEF TypeOK, CancelForget, graph, Frame, PCs, IdleFrame
<1>7. CASE HardDelete(a)
  BY <1>7 DEF TypeOK, HardDelete, GetTombstonedForGC, graph, Frame, PCs, IdleFrame
<1> QED
  BY <1>1, <1>2, <1>3, <1>4, <1>5, <1>6, <1>7, Start(a) DEF Start

\* Every later step of every operation keeps all state well typed.
LEMMA TypeContinue ==
  ASSUME TypeOK, FrameInv, NEW a \in Agent, Continue(a), UNCHANGED calls
  PROVE  TypeOK'
<1> USE IdleFrameType, ConstantsAssumption
<1>f. op[a] \in Frame
  BY DEF TypeOK
<1>g. op[a].pc \in StoreClaimPCs => op[a].node \in Claim
  BY DEF FrameInv, FrameOK
<1>h. op[a].pc = "ln_write" => op[a].type \in LinkTypes
  BY DEF FrameInv, FrameOK
<1>1. CASE SyncToPostgres(a)
  BY <1>1, <1>f DEF TypeOK, SyncToPostgres, Return, graph
<1>2. CASE CheckContradictionBeforeWrite(a)
  <2>1. op' \in [Agent -> Frame]
    BY <1>2, GotoType, NextFrame DEF CheckContradictionBeforeWrite, Return, PCs, StoreClaimPCs
  <2> QED
    BY <1>2, <2>1 DEF TypeOK, CheckContradictionBeforeWrite, graph
<1>3. CASE StoreClaimCreate(a)
  <2>1. op' \in [Agent -> Frame]
    BY <1>3, GotoType DEF StoreClaimCreate, PCs, StoreClaimPCs
  <2>2. /\ state' \in [Node -> States]
        /\ object' \in [Claim -> Object \cup {NoObject}]
        /\ evidence' \in [Claim -> SUBSET Node]
    BY <1>3, <1>f DEF StoreClaimCreate, TypeOK, States, Frame
  <2> QED
    BY <1>3, <2>1, <2>2 DEF TypeOK, StoreClaimCreate, Goto, Return, graph
<1>4. CASE CreateDerivedFromEdges(a)
  <2>1. op' \in [Agent -> Frame]
    BY <1>4, GotoType DEF CreateDerivedFromEdges, PCs, StoreClaimPCs
  <2>2. edges' \subseteq {"SUPERSEDES", "DERIVED_FROM", "CONTRADICTS"} \X Node \X Node
    BY <1>4, <1>f DEF CreateDerivedFromEdges, TypeOK, Exists
  <2> QED
    BY <1>4, <2>1, <2>2 DEF TypeOK, CreateDerivedFromEdges, Goto, Return, graph
<1>5. CASE StoreClaimSupersede(a)
  <2>1. op' \in [Agent -> Frame]
    BY <1>5, GotoType DEF StoreClaimSupersede, PCs, StoreClaimPCs
  <2>2. /\ state' \in [Node -> States]
        /\ edges' \subseteq {"SUPERSEDES", "DERIVED_FROM", "CONTRADICTS"} \X Node \X Node
        /\ replaced' \subseteq Node
    BY <1>5, <1>f DEF StoreClaimSupersede, CreateSupersedesEdge, TypeOK, States, Exists
  <2> QED
    BY <1>5, <2>1, <2>2 DEF TypeOK, StoreClaimSupersede, Goto, Return, graph
<1>6. CASE StoreClaimShadow(a)
  <2>1. op' \in [Agent -> Frame]
    BY <1>6, GotoType DEF StoreClaimShadow, PCs, StoreClaimPCs
  <2> QED
    BY <1>6, <2>1 DEF TypeOK, StoreClaimShadow, SyncPostgresState, graph
<1>7. CASE DetectSpoConflict(a)
  <2>1. op' \in [Agent -> Frame]
    <3> DEFINE found == Conflicting(op[a].node, op[a].obj)
               pc == IF found = {} THEN "sync" ELSE "sc_flag"
    <3>1. found \in SUBSET Node /\ pc \in PCs
      BY DEF Conflicting, Node, PCs, StoreClaimPCs
    <3>2. [op[a] EXCEPT !.pc = pc, !.todo = found] \in Frame
      BY <3>1, <1>f, FrameUpdate
    <3> QED
      BY <1>7, <3>2, NextFrame DEF DetectSpoConflict
  <2>2. done' \subseteq Claim
    BY <1>7, <1>g DEF DetectSpoConflict, TypeOK, StoreClaimPCs, Node
  <2> QED
    BY <1>7, <2>1, <2>2 DEF TypeOK, DetectSpoConflict, Goto, Return, graph
<1>8. CASE CreateBidirectionalContradicts(a)
  <2>1. op' \in [Agent -> Frame]
    <3>1. PICK d \in op[a].todo :
            op' = [op EXCEPT ![a] = [@ EXCEPT !.pc = "sc_status", !.other = d]]
      BY <1>8 DEF CreateBidirectionalContradicts
    <3>2. [op[a] EXCEPT !.pc = "sc_status", !.other = d] \in Frame
      BY <1>f DEF Frame, PCs, StoreClaimPCs
    <3> QED
      BY <3>1, <3>2, NextFrame
  <2>2. edges' \subseteq {"SUPERSEDES", "DERIVED_FROM", "CONTRADICTS"} \X Node \X Node
    BY <1>8, <1>f DEF CreateBidirectionalContradicts, TypeOK, Exists
  <2> QED
    BY <1>8, <2>1, <2>2 DEF TypeOK, CreateBidirectionalContradicts, Goto, Return, graph
<1>9. CASE SetConflictStatus(a)
  <2>1. op' \in [Agent -> Frame]
    <3> DEFINE rest == op[a].todo \ {op[a].other}
               pc == IF rest = {} THEN "sync" ELSE "sc_flag"
    <3>1. rest \in SUBSET Node /\ pc \in PCs
      BY <1>f DEF Frame, PCs, StoreClaimPCs
    <3>2. [op[a] EXCEPT !.pc = pc, !.todo = rest] \in Frame
      BY <3>1, <1>f, FrameUpdate
    <3> QED
      BY <1>9, <3>2, NextFrame DEF SetConflictStatus
  <2>2. done' \subseteq Claim /\ flagged' \subseteq Node
    BY <1>9, <1>g DEF SetConflictStatus, TypeOK, Exists, StoreClaimPCs, Node
  <2> QED
    BY <1>9, <2>1, <2>2 DEF TypeOK, SetConflictStatus, Goto, Return, graph
<1>10. CASE SupersedeCycleCheck(a)
  <2>1. op' \in [Agent -> Frame]
    BY <1>10, GotoType, NextFrame DEF SupersedeCycleCheck, Return, PCs
  <2> QED
    BY <1>10, <2>1 DEF TypeOK, SupersedeCycleCheck, graph
<1>11. CASE SupersedeWrite(a)
  <2>1. op' \in [Agent -> Frame]
    BY <1>11, GotoType DEF SupersedeWrite, PCs
  <2>2. /\ state' \in [Node -> States]
        /\ edges' \subseteq {"SUPERSEDES", "DERIVED_FROM", "CONTRADICTS"} \X Node \X Node
        /\ replaced' \subseteq Node
    BY <1>11, <1>f DEF SupersedeWrite, CreateSupersedesEdge, TypeOK, States, Exists
  <2> QED
    BY <1>11, <2>1, <2>2 DEF TypeOK, SupersedeWrite, Goto, Return, graph
<1>12. CASE SupersedeShadow(a)
  <2>1. op' \in [Agent -> Frame]
    BY <1>12, NextFrame DEF SupersedeShadow, Return
  <2> QED
    BY <1>12, <2>1 DEF TypeOK, SupersedeShadow, SyncPostgresState, graph
<1>13. CASE LinkDuplicateCheck(a)
  <2>1. op' \in [Agent -> Frame]
    BY <1>13, GotoType, NextFrame DEF LinkDuplicateCheck, Return, PCs
  <2> QED
    BY <1>13, <2>1 DEF TypeOK, LinkDuplicateCheck, graph
<1>19. CASE LinkCycleCheck(a)
  <2>1. op' \in [Agent -> Frame]
    BY <1>19, GotoType, NextFrame DEF LinkCycleCheck, Return, PCs
  <2> QED
    BY <1>19, <2>1 DEF TypeOK, LinkCycleCheck, graph
<1>14. CASE LinkWrite(a)
  <2>1. op' \in [Agent -> Frame]
    BY <1>14, <1>f DEF LinkWrite, TypeOK, Goto, Return, Frame, PCs, StoreClaimPCs
  <2>2. edges' \subseteq {"SUPERSEDES", "DERIVED_FROM", "CONTRADICTS"} \X Node \X Node
    <3>1. op[a].type \in {"SUPERSEDES", "DERIVED_FROM", "CONTRADICTS"}
      BY <1>14, <1>h DEF LinkWrite
    <3> QED
      BY <1>14, <3>1 DEF LinkWrite, TypeOK, Exists
  <2> QED
    BY <1>14, <2>1, <2>2 DEF TypeOK, LinkWrite, Goto, Return, graph
<1>15. CASE TombstoneNode(a)
  <2>1. op' \in [Agent -> Frame]
    BY <1>15, NextFrame DEF TombstoneNode, Return
  <2>2. op[a].now + Window \in Int
    BY <1>f DEF Frame
  <2>3. /\ state' \in [Node -> States]
        /\ prev' \in [Node -> States]
        /\ window' \in [Node -> Int]
    BY <1>15, <2>2 DEF TypeOK, TombstoneNode, States
  <2> QED
    BY <1>15, <2>1, <2>3 DEF TypeOK, TombstoneNode
<1>16. CASE RestoreTombstonedNode(a)
  <2>1. op' \in [Agent -> Frame]
    BY <1>16, <1>f DEF RestoreTombstonedNode, TypeOK, Goto, Return, Frame, PCs, StoreClaimPCs
  <2>2. state' \in [Node -> States] /\ window' \in [Node -> Int]
    BY <1>16, <1>f DEF RestoreTombstonedNode, TypeOK, NoTime
  <2> QED
    BY <1>16, <2>1, <2>2 DEF TypeOK, RestoreTombstonedNode, Goto, Return, graph
<1>17. CASE DeleteEdgesForNode(a)
  <2>1. op' \in [Agent -> Frame]
    <3>1. PICK n \in op[a].todo :
            op' = [op EXCEPT ![a] = [@ EXCEPT !.pc = "hd_node", !.other = n]]
      BY <1>17 DEF DeleteEdgesForNode
    <3>2. [op[a] EXCEPT !.pc = "hd_node", !.other = n] \in Frame
      BY <1>f DEF Frame, PCs
    <3> QED
      BY <3>1, <3>2, NextFrame
  <2>2. edges' \subseteq edges
    BY <1>17, <1>f DEF DeleteEdgesForNode, Touching
  <2> QED
    BY <1>17, <2>1, <2>2 DEF TypeOK, DeleteEdgesForNode, Goto, Return, graph
<1>n. ASSUME NEW n, NextCandidate(a, n) PROVE op' \in [Agent -> Frame]
  <2> DEFINE rest == op[a].todo \ {n}
             f == IF rest = {} THEN IdleFrame
                  ELSE [op[a] EXCEPT !.pc = "hd_edges", !.todo = rest]
  <2>1. rest \in SUBSET Node /\ "hd_edges" \in PCs
    BY <1>f DEF Frame, PCs
  <2>2. f \in Frame
    BY <2>1, <1>f, FrameUpdate
  <2> QED
    BY <1>n, <2>2, NextFrame DEF NextCandidate
<1>18. CASE HardDeleteNode(a)
  <2>1. op' \in [Agent -> Frame]
    BY <1>18, <1>n DEF HardDeleteNode
  <2> QED
    BY <1>18, <2>1 DEF TypeOK, HardDeleteNode, States
<1>20. CASE HardDeleteSkip(a)
  <2>1. op' \in [Agent -> Frame]
    BY <1>20, <1>n DEF HardDeleteSkip
  <2> QED
    BY <1>20, <2>1 DEF TypeOK, HardDeleteSkip, graph
<1> QED
  BY <1>1, <1>2, <1>3, <1>4, <1>5, <1>6, <1>7, <1>8, <1>9, <1>10, <1>11, <1>12, <1>13, <1>14, <1>15, <1>16, <1>17, <1>18, <1>19, <1>20,
     Continue(a)
  DEF Continue

\* Every step of the write path, failures and the clock included, does.
LEMMA TypeStep ==
  ASSUME TypeOK, FrameInv, [Next]_vars
  PROVE  TypeOK'
<1>1. CASE UNCHANGED vars
  BY <1>1 DEF TypeOK, vars, graph
<1>2. CASE Tick
  BY <1>2 DEF TypeOK, Tick, graph
<1>3. ASSUME NEW a \in Agent, Call(a) PROVE TypeOK'
  BY <1>3, TypeStart DEF Call, TypeOK
<1>4. ASSUME NEW a \in Agent, Continue(a), UNCHANGED calls PROVE TypeOK'
  BY <1>4, TypeContinue
<1>5. ASSUME NEW a \in Agent, Fail(a), UNCHANGED calls PROVE TypeOK'
  BY <1>5, IdleFrameType DEF TypeOK, Fail, Return, graph
<1> QED
  BY <1>1, <1>2, <1>3, <1>4, <1>5, [Next]_vars DEF Next, Resume
-----------------------------------------------------------------------------
(* What no step undoes.                                                    *)

\* No node becomes ACTIVE except by being created, nothing existing becomes
\* absent, and what ACTIVE nodes have is kept.
Monotone ==
  /\ \A n \in Node : state'[n] = "ACTIVE" => state[n] \in {"ACTIVE", "absent"}
  /\ \A n \in Node : state[n] # "absent" => state'[n] # "absent"
  /\ \A c \in Claim : state[c] # "absent" =>
       object'[c] = object[c] /\ evidence'[c] = evidence[c]
  /\ \A type, x, y : /\ <<type, x, y>> \in edges
                     /\ x \in Node /\ y \in Node
                     /\ Active(x) /\ Active(y)
                     => <<type, x, y>> \in edges'
  /\ flagged \subseteq flagged'

\* Nothing but m is created.
UnbornBut(m) ==
  \A n \in Node \ {m} : state[n] = "absent" => state'[n] = "absent"

\* The frames of the agents that do not move stay sound.
LEMMA OtherFrames ==
  ASSUME IInv, Monotone, NEW a \in Agent, NEW f, NEW m, UnbornBut(m),
         \A b \in Agent \ {a} : op[b].pc \in StoreClaimPCs => op[b].node # m,
         op' = [op EXCEPT ![a] = f],
         \/ done' = done
         \/ op[a].pc \in StoreClaimPCs /\ done' = done \cup {op[a].node}
  PROVE  \A b \in Agent \ {a} : FrameOK(op[b])'
<1> SUFFICES ASSUME NEW b \in Agent \ {a} PROVE FrameOK(op[b])'
  OBVIOUS
<1>1. op'[b] = op[b] /\ op[b] \in Frame
  BY DEF IInv, TypeOK
<1>2. FrameOK(op[b])
  BY DEF IInv, FrameInv
<1>n. op[b].pc \in StoreClaimPCs => op[b].node \in Claim /\ op[b].node \in Node
  BY <1>2 DEF FrameOK, Node
<1>3. op[b].pc \in StoreClaimPCs => op[b].node \notin done'
  BY <1>1, <1>2 DEF FrameOK, IInv, UniqueInv
<1>4. op[b].pc \in StoreClaimPCs => \A e \in op[b].refs : state'[e] # "absent"
  BY <1>1, <1>2 DEF FrameOK, Monotone, Frame
<1>5. op[b].pc \in {"sc_check", "sc_create"} => state'[op[b].node] = "absent"
  BY <1>2, <1>n DEF FrameOK, UnbornBut, StoreClaimPCs
<1>6. op[b].pc \in CreatedPCs => /\ state'[op[b].node] # "absent"
                                /\ object'[op[b].node] = op[b].obj
                                /\ evidence'[op[b].node] = op[b].refs
  BY <1>2, <1>n DEF FrameOK, Monotone, CreatedPCs, StoreClaimPCs
<1>7. op[b].pc \in DerivedPCs => HasProvenance(op[b].node)'
  <2> SUFFICES ASSUME op[b].pc \in DerivedPCs, NEW e \in op[b].refs
               PROVE  /\ state'[e] # "absent"
                      /\ state'[op[b].node] = "ACTIVE" /\ state'[e] = "ACTIVE"
                           => <<"DERIVED_FROM", op[b].node, e>> \in edges'
    BY <1>1, <1>6 DEF HasProvenance, Active, DerivedPCs, CreatedPCs
  <2>1. /\ e \in Node /\ op[b].node \in Node
        /\ e \in evidence[op[b].node]
        /\ state[op[b].node] # "absent"
    BY <1>1, <1>2, <1>n DEF Frame, FrameOK, DerivedPCs, CreatedPCs, StoreClaimPCs
  <2>2. /\ state[e] # "absent"
        /\ Active(op[b].node) /\ Active(e)
             => <<"DERIVED_FROM", op[b].node, e>> \in edges
    BY <1>2, <2>1 DEF FrameOK, HasProvenance
  <2> QED
    BY <2>1, <2>2 DEF Monotone, Active
<1>8. op[b].pc \in {"hd_edges", "hd_node"} =>
        \A n \in op[b].todo : state'[n] \notin {"absent", "ACTIVE"}
  BY <1>1, <1>2 DEF FrameOK, Monotone, Frame
<1>9. op[b].pc = "sc_status" /\ Active(op[b].node)' /\ Active(op[b].other)'
        => /\ <<"CONTRADICTS", op[b].node, op[b].other>> \in edges'
           /\ <<"CONTRADICTS", op[b].other, op[b].node>> \in edges'
  <2> SUFFICES ASSUME op[b].pc = "sc_status",
                      state'[op[b].node] = "ACTIVE", state'[op[b].other] = "ACTIVE"
               PROVE  /\ <<"CONTRADICTS", op[b].node, op[b].other>> \in edges'
                      /\ <<"CONTRADICTS", op[b].other, op[b].node>> \in edges'
    BY <1>1 DEF Active
  <2>1. /\ op[b].node \in Node /\ state[op[b].node] # "absent"
        /\ op[b].other \in Node /\ state[op[b].other] # "absent"
    BY <1>2, <1>n DEF FrameOK, DetectedPCs, CreatedPCs, StoreClaimPCs, Node
  <2> QED
    BY <1>2, <2>1 DEF FrameOK, Monotone, Active
<1>10. op[b].pc \in DetectedPCs =>
         \A d \in op[b].todo : d \in Claim /\ state'[d] # "absent"
  BY <1>2 DEF FrameOK, Monotone, Node
<1> QED
  BY <1>1, <1>2, <1>3, <1>4, <1>5, <1>6, <1>7, <1>8, <1>9, <1>10 DEF FrameOK

\* Claims that were done stay sound, and so does one that becomes done.
LEMMA DoneStep ==
  ASSUME IInv, Monotone, NEW a \in Agent,
         \/ done' = done
         \/ op[a].pc \in DerivedPCs /\ done' = done \cup {op[a].node}
  PROVE  DoneInv'
<1> SUFFICES ASSUME NEW c \in done' PROVE state'[c] # "absent" /\ HasProvenance(c)'
  BY DEF DoneInv
<1>1. FrameOK(op[a]) /\ DoneInv /\ TypeOK
  BY DEF IInv, FrameInv
<1>2. c \in Claim /\ c \in Node /\ state[c] # "absent" /\ HasProvenance(c)
  BY <1>1 DEF FrameOK, DoneInv, TypeOK, DerivedPCs, CreatedPCs, StoreClaimPCs, Node
<1>3. evidence'[c] = evidence[c] /\ evidence[c] \subseteq Node
  BY <1>1, <1>2 DEF Monotone, TypeOK
<1> QED
  BY <1>2, <1>3 DEF HasProvenance, Monotone, Active

\* A step in which no call reads or works through its conflicts keeps the
\* conflict invariant.
LEMMA ConflictQuiet ==
  ASSUME IInv, Monotone, NEW a \in Agent, NEW f,
         op' = [op EXCEPT ![a] = f],
         op[a].pc \notin DetectedPCs, f.pc \notin DetectedPCs, done' = done
  PROVE  ConflictInv'
<1> SUFFICES ASSUME NEW c \in Claim, NEW d \in Claim,
                    Detected(c)', Detected(d)', Active(c)', Active(d)',
                    Contradict(c, d)'
             PROVE  (FlaggedPair(c, d) \/ Pending(c, d) \/ Pending(d, c))'
  BY DEF ConflictInv
<1>0. /\ TypeOK /\ FrameInv /\ DoneInv /\ ConflictInv
      /\ op'[a] = f
      /\ \A b \in Agent \ {a} : op'[b] = op[b]
  BY DEF IInv, TypeOK
<1>1. \A x : Detected(x)' => Detected(x)
  BY <1>0 DEF Detected
<1>2. \A x : Detected(x) => state[x] # "absent"
  BY <1>0 DEF Detected, DoneInv, FrameInv, FrameOK, DetectedPCs, CreatedPCs
<1>3. Active(c) /\ Active(d) /\ c \in Node /\ d \in Node
  BY <1>1, <1>2 DEF Monotone, Active, Node
<1>4. Contradict(c, d)
  BY <1>1, <1>2 DEF Monotone, Contradict
<1>5. FlaggedPair(c, d) \/ Pending(c, d) \/ Pending(d, c)
  BY <1>0, <1>1, <1>3, <1>4 DEF ConflictInv
<1>6. FlaggedPair(c, d) => FlaggedPair(c, d)'
  BY <1>3 DEF FlaggedPair, Monotone
<1>7. \A x, y : Pending(x, y) => Pending(x, y)'
  BY <1>0 DEF Pending
<1> QED
  BY <1>5, <1>6, <1>7

\* Putting it together for a step of agent a that leaves a with frame f.
LEMMA QuietStep ==
  ASSUME IInv, TypeOK', Monotone, NEW a \in Agent, NEW f, NEW m, UnbornBut(m),
         \A b \in Agent \ {a} : op[b].pc \in StoreClaimPCs => op[b].node # m,
         op' = [op EXCEPT ![a] = f],
         op[a].pc \notin DetectedPCs, f.pc \notin DetectedPCs, done' = done,
         f.pc \in StoreClaimPCs =>
           \/ op[a].pc \in StoreClaimPCs /\ op[a].node = f.node
           \/ \A b \in Agent : op[b].node # f.node,
         FrameOK(f)', TombstoneInv', ReplacedInv'
  PROVE  IInv'
<1>1. op'[a] = f /\ \A b \in Agent \ {a} : op'[b] = op[b]
  BY DEF IInv, TypeOK
<1>2. FrameInv'
  BY <1>1, OtherFrames DEF FrameInv
<1>3. UniqueInv'
  BY <1>1 DEF IInv, UniqueInv
<1>4. DoneInv'
  BY DoneStep
<1>5. ConflictInv'
  BY ConflictQuiet
<1> QED
  BY <1>2, <1>3, <1>4, <1>5 DEF IInv
-----------------------------------------------------------------------------
(* Steps that read, or write only the frame and the shadow.                *)

\* A step of agent a that reads, or writes the shadow only, keeps the
\* invariant as soon as the frame it leaves a with is sound.
LEMMA ReadStep ==
  ASSUME IInv, TypeOK', NEW a \in Agent, NEW f,
         op' = [op EXCEPT ![a] = f], UNCHANGED <<graph, replaced, done>>,
         op[a].pc \notin DetectedPCs, f.pc \notin DetectedPCs,
         f.pc \in StoreClaimPCs =>
           \/ op[a].pc \in StoreClaimPCs /\ op[a].node = f.node
           \/ \A b \in Agent : op[b].node # f.node,
         FrameOK(f)
  PROVE  IInv'
<1>1. Monotone /\ UnbornBut(NoNode)
  BY DEF Monotone, UnbornBut, graph
<1>2. \A b \in Agent \ {a} : op[b].pc \in StoreClaimPCs => op[b].node # NoNode
  BY ConstantsAssumption DEF IInv, FrameInv, FrameOK, Node
<1>3. FrameOK(f)'
  BY DEF FrameOK, HasProvenance, Active, graph
<1>4. TombstoneInv' /\ ReplacedInv'
  BY DEF IInv, TombstoneInv, ReplacedInv, graph
<1> QED
  BY <1>1, <1>2, <1>3, <1>4, QuietStep

\* An operation that ends, normally or not, outside the flagging loop.
LEMMA ReturnStep ==
  ASSUME IInv, TypeOK', NEW a \in Agent, Return(a),
         UNCHANGED <<graph, replaced, done>>, op[a].pc \notin DetectedPCs
  PROVE  IInv'
<1>1. PICK f : f = IdleFrame
  OBVIOUS
<1>2. f.pc = "idle"
  BY <1>1 DEF IdleFrame
<1>3. FrameOK(f)
  BY <1>2 DEF FrameOK, StoreClaimPCs, CreatedPCs, DerivedPCs, DetectedPCs
<1> QED
  BY <1>1, <1>2, <1>3, ReadStep DEF Return, StoreClaimPCs, DetectedPCs

\* The first step of every operation keeps the invariant: it draws a fresh id
\* or only reads.
LEMMA StartStep ==
  ASSUME IInv, TypeOK', NEW a \in Agent, Start(a)
  PROVE  IInv'
<1>1. ASSUME NEW n \in Memory, StoreMemory(a, n) PROVE IInv'
  <2>1. PICK f : f = [IdleFrame EXCEPT !.pc = "sync", !.node = n]
    OBVIOUS
  <2>2. f.pc = "sync"
    BY <2>1 DEF IdleFrame
  <2>3. n \in Node /\ n \notin Claim /\ state[n] = "absent"
    BY <1>1, ConstantsAssumption DEF StoreMemory, Fresh, Node
  <2>4. Monotone /\ UnbornBut(n)
    BY <1>1, <2>3 DEF StoreMemory, Monotone, UnbornBut, IInv, TypeOK
  <2>5. \A b \in Agent \ {a} : op[b].pc \in StoreClaimPCs => op[b].node # n
    BY <2>3 DEF IInv, FrameInv, FrameOK
  <2>6. FrameOK(f)'
    BY <2>2 DEF FrameOK, StoreClaimPCs, CreatedPCs, DerivedPCs, DetectedPCs
  <2>7. TombstoneInv' /\ ReplacedInv'
    BY <1>1, <2>3 DEF StoreMemory, IInv, TombstoneInv, ReplacedInv, TypeOK
  <2> QED
    BY <1>1, <2>1, <2>2, <2>4, <2>5, <2>6, <2>7, QuietStep
    DEF StoreMemory, Idle, StoreClaimPCs, DetectedPCs
<1>2. ASSUME NEW c \in Claim, NEW o \in Object \cup {NoObject},
             NEW refs \in SUBSET Node, NEW sup \in Node \cup {NoNode},
             StoreClaim(a, c, o, refs, sup)
      PROVE  IInv'
  <2>1. PICK f : f = [IdleFrame EXCEPT
                        !.pc = IF Enforce THEN "sc_check" ELSE "sc_create",
                        !.node = c, !.other = sup, !.obj = o, !.refs = refs]
    OBVIOUS
  <2>2. f.pc \in {"sc_check", "sc_create"} /\ f.node = c /\ f.refs = refs
    BY <2>1 DEF IdleFrame
  <2>3. /\ state[c] = "absent" /\ \A b \in Agent : op[b].node # c
        /\ \A e \in refs : state[e] # "absent"
    BY <1>2 DEF StoreClaim, Fresh, EvidenceValid, Exists
  <2>4. c \notin done
    BY <2>3 DEF IInv, DoneInv
  <2>5. FrameOK(f)
    BY <2>2, <2>3, <2>4 DEF FrameOK, StoreClaimPCs, CreatedPCs, DerivedPCs, DetectedPCs
  <2> QED
    BY <1>2, <2>1, <2>2, <2>3, <2>5, ReadStep
    DEF StoreClaim, Idle, DetectedPCs, graph
<1>3. ASSUME NEW w \in Node, NEW l \in Node, Supersede(a, w, l) PROVE IInv'
  <2>1. PICK f : f = [IdleFrame EXCEPT !.pc = "su_cycle", !.node = w, !.other = l]
    OBVIOUS
  <2>2. f.pc = "su_cycle"
    BY <2>1 DEF IdleFrame
  <2>3. FrameOK(f)
    BY <2>2 DEF FrameOK, StoreClaimPCs, CreatedPCs, DerivedPCs, DetectedPCs
  <2> QED
    BY <1>3, <2>1, <2>2, <2>3, ReadStep
    DEF Supersede, Idle, StoreClaimPCs, DetectedPCs, graph
<1>4. ASSUME NEW s \in Node, NEW t \in Node, NEW type \in LinkTypes,
             Link(a, s, t, type)
      PROVE  IInv'
  <2>1. PICK f : f = [IdleFrame EXCEPT !.pc = "ln_check", !.node = s,
                                       !.other = t, !.type = type]
    OBVIOUS
  <2>2. f.pc = "ln_check" /\ f.type = type
    BY <2>1 DEF IdleFrame
  <2>3. FrameOK(f)
    BY <2>2 DEF FrameOK, StoreClaimPCs, CreatedPCs, DerivedPCs, DetectedPCs
  <2> QED
    BY <1>4, <2>1, <2>2, <2>3, ReadStep
    DEF Link, Idle, StoreClaimPCs, DetectedPCs, graph
<1>5. ASSUME NEW n \in Node, Forget(a, n) PROVE IInv'
  <2>1. PICK f : f = [IdleFrame EXCEPT !.pc = "fo_write", !.node = n, !.now = clock]
    OBVIOUS
  <2>2. f.pc = "fo_write"
    BY <2>1 DEF IdleFrame
  <2>3. FrameOK(f)
    BY <2>2 DEF FrameOK, StoreClaimPCs, CreatedPCs, DerivedPCs, DetectedPCs
  <2> QED
    BY <1>5, <2>1, <2>2, <2>3, ReadStep
    DEF Forget, Idle, StoreClaimPCs, DetectedPCs, graph
<1>6. ASSUME NEW n \in Node, CancelForget(a, n) PROVE IInv'
  <2>1. PICK f : f = [IdleFrame EXCEPT !.pc = "ca_write", !.node = n, !.now = clock]
    OBVIOUS
  <2>2. f.pc = "ca_write"
    BY <2>1 DEF IdleFrame
  <2>3. FrameOK(f)
    BY <2>2 DEF FrameOK, StoreClaimPCs, CreatedPCs, DerivedPCs, DetectedPCs
  <2> QED
    BY <1>6, <2>1, <2>2, <2>3, ReadStep
    DEF CancelForget, Idle, StoreClaimPCs, DetectedPCs, graph
<1>7. CASE HardDelete(a)
  <2>1. PICK f : f = [IdleFrame EXCEPT !.pc = "hd_edges", !.todo = GetTombstonedForGC]
    OBVIOUS
  <2>2. f.pc = "hd_edges" /\ f.todo = GetTombstonedForGC
    BY <2>1 DEF IdleFrame
  <2>3. FrameOK(f)
    BY <2>2 DEF GetTombstonedForGC, FrameOK, StoreClaimPCs, CreatedPCs, DerivedPCs, DetectedPCs
  <2> QED
    BY <1>7, <2>1, <2>2, <2>3, ReadStep
    DEF HardDelete, Idle, StoreClaimPCs, DetectedPCs, graph
<1> QED
  BY <1>1, <1>2, <1>3, <1>4, <1>5, <1>6, <1>7, Start(a) DEF Start

-----------------------------------------------------------------------------
(* The steps of an operation under way.                                    *)

\* Moving on to another read or write outside the flagging loop.
LEMMA GotoStep ==
  ASSUME IInv, TypeOK', NEW a \in Agent, NEW pc \in PCs, Goto(a, pc),
         UNCHANGED <<graph, replaced, done>>,
         \/ op[a].pc = "sc_check" /\ pc = "sc_create"
         \/ op[a].pc = "sc_shadow" /\ pc = "sc_detect"
         \/ op[a].pc = "su_cycle" /\ pc = "su_write"
         \/ op[a].pc = "ln_check" /\ pc \in {"ln_cycle", "ln_write"}
         \/ op[a].pc = "ln_cycle" /\ pc = "ln_write"
  PROVE  IInv'
<1>1. PICK f : f = [op[a] EXCEPT !.pc = pc]
  OBVIOUS
<1>2. op[a] \in Frame /\ FrameOK(op[a])
  BY DEF IInv, TypeOK, FrameInv
<1>3. /\ f.pc = pc /\ f.node = op[a].node /\ f.refs = op[a].refs
      /\ f.obj = op[a].obj /\ f.type = op[a].type
  BY <1>1, <1>2 DEF Frame
<1>4. FrameOK(f)
  BY <1>2, <1>3 DEF FrameOK, StoreClaimPCs, CreatedPCs, DerivedPCs, DetectedPCs
<1>5. op' = [op EXCEPT ![a] = f]
  BY <1>1 DEF Goto
<1> QED
  BY <1>3, <1>4, <1>5, ReadStep DEF StoreClaimPCs, DetectedPCs

\* The steps that only read the graph or write the shadow.
LEMMA ReadingStep ==
  ASSUME IInv, TypeOK', NEW a \in Agent,
         \/ SyncToPostgres(a) \/ CheckContradictionBeforeWrite(a)
         \/ StoreClaimShadow(a) \/ SupersedeCycleCheck(a)
         \/ SupersedeShadow(a) \/ LinkDuplicateCheck(a) \/ LinkCycleCheck(a)
  PROVE  IInv'
<1>1. CASE SyncToPostgres(a)
  BY <1>1, ReturnStep DEF SyncToPostgres, DetectedPCs
<1>2. CASE CheckContradictionBeforeWrite(a)
  BY <1>2, ReturnStep, GotoStep
  DEF CheckContradictionBeforeWrite, DetectedPCs, PCs, StoreClaimPCs
<1>3. CASE StoreClaimShadow(a)
  BY <1>3, GotoStep DEF StoreClaimShadow, PCs, StoreClaimPCs
<1>4. CASE SupersedeCycleCheck(a)
  BY <1>4, ReturnStep, GotoStep DEF SupersedeCycleCheck, DetectedPCs, PCs
<1>5. CASE SupersedeShadow(a)
  BY <1>5, ReturnStep DEF SupersedeShadow, DetectedPCs
<1>6. CASE LinkDuplicateCheck(a)
  BY <1>6, ReturnStep, GotoStep DEF LinkDuplicateCheck, DetectedPCs, PCs
<1>7. CASE LinkCycleCheck(a)
  BY <1>7, ReturnStep, GotoStep DEF LinkCycleCheck, DetectedPCs, PCs
<1> QED
  BY <1>1, <1>2, <1>3, <1>4, <1>5, <1>6, <1>7

\* The CREATE of store_claim keeps the invariant: nobody knew the id before.
LEMMA CreateStep ==
  ASSUME IInv, TypeOK', NEW a \in Agent, StoreClaimCreate(a)
  PROVE  IInv'
<1>1. PICK f : f = [op[a] EXCEPT !.pc = "sc_derive"]
  OBVIOUS
<1>2. PICK c : c = op[a].node
  OBVIOUS
<1>3. op[a] \in Frame /\ FrameOK(op[a]) /\ TypeOK
  BY DEF IInv, TypeOK, FrameInv
<1>4. /\ f.pc = "sc_derive" /\ f.node = c /\ f.refs = op[a].refs /\ f.obj = op[a].obj
  BY <1>1, <1>2, <1>3 DEF Frame
<1>5. /\ op[a].pc = "sc_create" /\ c \in Claim /\ c \in Node /\ c \notin done
      /\ state[c] = "absent"
  BY <1>2, <1>3 DEF StoreClaimCreate, FrameOK, StoreClaimPCs, Node
<1>6. /\ state' = [state EXCEPT ![c] = "ACTIVE"]
      /\ object' = [object EXCEPT ![c] = f.obj]
      /\ evidence' = [evidence EXCEPT ![c] = f.refs]
      /\ op' = [op EXCEPT ![a] = f]
      /\ UNCHANGED <<edges, prev, flagged, replaced, done>>
  BY <1>1, <1>2, <1>4 DEF StoreClaimCreate, Goto
<1>7. Monotone /\ UnbornBut(c)
  BY <1>3, <1>5, <1>6 DEF Monotone, UnbornBut, TypeOK
<1>8. \A b \in Agent \ {a} : op[b].pc \in StoreClaimPCs => op[b].node # c
  BY <1>2, <1>5 DEF IInv, UniqueInv, StoreClaimPCs
<1>9. \A e \in f.refs : e \in Node /\ state[e] # "absent"
  BY <1>3, <1>4, <1>5 DEF Frame, FrameOK, StoreClaimPCs
<1>10. FrameOK(f)'
  BY <1>3, <1>4, <1>5, <1>6, <1>7, <1>9
  DEF FrameOK, TypeOK, Monotone, StoreClaimPCs, CreatedPCs, DerivedPCs, DetectedPCs
<1>11. TombstoneInv' /\ ReplacedInv'
  BY <1>3, <1>5, <1>6 DEF IInv, TombstoneInv, ReplacedInv, TypeOK
<1> QED
  BY <1>2, <1>4, <1>5, <1>6, <1>7, <1>8, <1>10, <1>11, QuietStep
  DEF StoreClaimPCs, DetectedPCs

\* A frame inside store_claim is about a claim.
LEMMA ClaimFrames ==
  ASSUME IInv, NEW a \in Agent
  PROVE  \A b \in Agent \ {a} : op[b].pc \in StoreClaimPCs => op[b].node # NoNode
  BY ConstantsAssumption DEF IInv, FrameInv, FrameOK, Node

\* Provenance survives a write that adds edges and makes nothing ACTIVE.
LEMMA ProvenanceKept ==
  ASSUME TypeOK, Monotone, NEW c \in Claim, state[c] # "absent", HasProvenance(c)
  PROVE  HasProvenance(c)'
<1>1. c \in Node /\ evidence'[c] = evidence[c] /\ evidence[c] \subseteq Node
  BY DEF TypeOK, Monotone, Node
<1> QED
  BY <1>1 DEF HasProvenance, Monotone, Active

\* A write that only adds edges.
LEMMA EdgesGrow ==
  ASSUME IInv, edges \subseteq edges', flagged \subseteq flagged',
         UNCHANGED <<state, object, evidence, prev, replaced>>
  PROVE  Monotone /\ UnbornBut(NoNode) /\ TombstoneInv' /\ ReplacedInv'
  BY DEF IInv, Monotone, UnbornBut, TombstoneInv, ReplacedInv

\* create_derived_from_edges keeps the invariant: it gives the claim an edge
\* to every evidence node that is still there.
LEMMA DeriveStep ==
  ASSUME IInv, TypeOK', NEW a \in Agent, CreateDerivedFromEdges(a)
  PROVE  IInv'
<1>1. PICK f : f = [op[a] EXCEPT !.pc = IF op[a].other = NoNode THEN "sc_detect"
                                        ELSE "sc_supersede"]
  OBVIOUS
<1>2. PICK c : c = op[a].node
  OBVIOUS
<1>3. op[a] \in Frame /\ FrameOK(op[a]) /\ TypeOK /\ op[a].pc = "sc_derive"
  BY DEF IInv, TypeOK, FrameInv, CreateDerivedFromEdges
<1>4. /\ f.pc \in {"sc_detect", "sc_supersede"} /\ f.node = c
      /\ f.refs = op[a].refs /\ f.obj = op[a].obj
  BY <1>1, <1>2, <1>3 DEF Frame
<1>5. /\ c \in Claim /\ c \in Node /\ c \notin done /\ state[c] # "absent"
      /\ object[c] = f.obj /\ evidence[c] = f.refs
      /\ \A e \in f.refs : e \in Node /\ state[e] # "absent"
  BY <1>2, <1>3, <1>4 DEF FrameOK, Frame, StoreClaimPCs, CreatedPCs, Node
<1>6. /\ edges \subseteq edges'
      /\ \A e \in f.refs : Active(c) /\ Active(e) => <<"DERIVED_FROM", c, e>> \in edges'
      /\ UNCHANGED <<state, object, evidence, prev, flagged, replaced, done>>
  BY <1>2, <1>4, <1>5 DEF CreateDerivedFromEdges, Exists, Active
<1>7. op' = [op EXCEPT ![a] = f]
  BY <1>1 DEF CreateDerivedFromEdges, Goto
<1>8. FrameOK(f)'
  BY <1>4, <1>5, <1>6
  DEF FrameOK, HasProvenance, Active, StoreClaimPCs, CreatedPCs, DerivedPCs, DetectedPCs
<1>9. Monotone /\ UnbornBut(NoNode) /\ TombstoneInv' /\ ReplacedInv'
  BY <1>6, EdgesGrow
<1> QED
  BY <1>2, <1>3, <1>4, <1>6, <1>7, <1>8, <1>9, ClaimFrames, QuietStep
  DEF StoreClaimPCs, DetectedPCs

\* create_supersedes_edge makes no node ACTIVE and removes no edge.
LEMMA SupersedesEdge ==
  ASSUME IInv, NEW w \in Node \cup {NoNode}, NEW l \in Node \cup {NoNode},
         CreateSupersedesEdge(w, l), UNCHANGED <<object, evidence, prev, flagged>>
  PROVE  Monotone /\ UnbornBut(NoNode) /\ TombstoneInv' /\ ReplacedInv'
<1>1. CASE Exists(w) /\ Exists(l)
  <2>1. /\ l \in Node /\ state[l] \notin {"absent", "gone"}
        /\ state' = [state EXCEPT ![l] = "SUPERSEDED"]
        /\ edges \subseteq edges' /\ replaced' = replaced \cup {l}
    BY <1>1 DEF CreateSupersedesEdge, Exists
  <2> QED
    BY <2>1 DEF IInv, TypeOK, Monotone, UnbornBut, TombstoneInv, ReplacedInv
<1>2. CASE ~(Exists(w) /\ Exists(l))
  BY <1>2, EdgesGrow DEF CreateSupersedesEdge
<1> QED
  BY <1>1, <1>2

\* The superseding writes of store_claim and supersede keep the invariant.
LEMMA SupersedeSteps ==
  ASSUME IInv, TypeOK', NEW a \in Agent, StoreClaimSupersede(a) \/ SupersedeWrite(a)
  PROVE  IInv'
<1>1. op[a] \in Frame /\ FrameOK(op[a]) /\ TypeOK
  BY DEF IInv, TypeOK, FrameInv
<1>2. Monotone /\ UnbornBut(NoNode) /\ TombstoneInv' /\ ReplacedInv' /\ done' = done
  <2>1. op[a].node \in Node \cup {NoNode} /\ op[a].other \in Node \cup {NoNode}
    BY <1>1 DEF Frame
  <2> QED
    BY <2>1, SupersedesEdge DEF StoreClaimSupersede, SupersedeWrite
<1>3. CASE StoreClaimSupersede(a)
  <2>1. PICK f : f = [op[a] EXCEPT !.pc = "sc_shadow"]
    OBVIOUS
  <2>2. /\ f.pc = "sc_shadow" /\ f.node = op[a].node /\ f.refs = op[a].refs
        /\ f.obj = op[a].obj /\ op[a].pc = "sc_supersede"
    BY <1>1, <1>3, <2>1 DEF Frame, StoreClaimSupersede
  <2>3. op' = [op EXCEPT ![a] = f]
    BY <1>3, <2>1 DEF StoreClaimSupersede, Goto
  <2>4. /\ f.node \in Claim /\ f.node \in Node /\ f.node \notin done
        /\ state[f.node] # "absent" /\ HasProvenance(f.node)
        /\ object[f.node] = f.obj /\ evidence[f.node] = f.refs
        /\ \A e \in f.refs : e \in Node /\ state[e] # "absent"
    BY <1>1, <2>2 DEF FrameOK, Frame, StoreClaimPCs, CreatedPCs, DerivedPCs, Node
  <2>5. HasProvenance(f.node)'
    BY <1>1, <1>2, <2>4, ProvenanceKept
  <2>6. FrameOK(f)'
    BY <1>2, <2>2, <2>4, <2>5
    DEF FrameOK, Monotone, StoreClaimPCs, CreatedPCs, DerivedPCs, DetectedPCs
  <2> QED
    BY <1>2, <2>2, <2>3, <2>6, ClaimFrames, QuietStep DEF StoreClaimPCs, DetectedPCs
<1>4. CASE SupersedeWrite(a)
  <2>1. PICK f : f = [op[a] EXCEPT !.pc = "su_shadow"]
    OBVIOUS
  <2>2. f.pc = "su_shadow" /\ op[a].pc = "su_write"
    BY <1>1, <1>4, <2>1 DEF Frame, SupersedeWrite
  <2>3. op' = [op EXCEPT ![a] = f]
    BY <1>4, <2>1 DEF SupersedeWrite, Goto
  <2>4. FrameOK(f)'
    BY <2>2 DEF FrameOK, StoreClaimPCs, CreatedPCs, DerivedPCs, DetectedPCs
  <2> QED
    BY <1>2, <2>2, <2>3, <2>4, ClaimFrames, QuietStep DEF StoreClaimPCs, DetectedPCs
<1> QED
  BY <1>3, <1>4

\* A write that ends its operation.
LEMMA LastWrite ==
  ASSUME IInv, TypeOK', NEW a \in Agent, Return(a), done' = done,
         op[a].pc \notin DetectedPCs,
         Monotone, UnbornBut(NoNode), TombstoneInv', ReplacedInv'
  PROVE  IInv'
<1>1. PICK f : f = IdleFrame
  OBVIOUS
<1>2. f.pc = "idle" /\ op' = [op EXCEPT ![a] = f]
  BY <1>1 DEF IdleFrame, Return
<1>3. FrameOK(f)'
  BY <1>2 DEF FrameOK, StoreClaimPCs, CreatedPCs, DerivedPCs, DetectedPCs
<1> QED
  BY <1>2, <1>3, ClaimFrames, QuietStep DEF StoreClaimPCs, DetectedPCs

\* The writes of link, forget and cancel_forget keep the invariant.
LEMMA WritingStep ==
  ASSUME IInv, TypeOK', NEW a \in Agent,
         LinkWrite(a) \/ TombstoneNode(a) \/ RestoreTombstonedNode(a)
  PROVE  IInv'
<1>0. TypeOK /\ TombstoneInv /\ ReplacedInv
  BY DEF IInv
<1>1. CASE LinkWrite(a)
  <2>1. edges \subseteq edges'
    BY <1>1 DEF LinkWrite
  <2> QED
    BY <1>1, <2>1, EdgesGrow, LastWrite DEF LinkWrite, DetectedPCs
<1>2. CASE TombstoneNode(a)
  <2>1. PICK n : n = op[a].node
    OBVIOUS
  <2>2. CASE state[n] \in {"ACTIVE", "SUPERSEDED"}
    <3>1. /\ state' = [state EXCEPT ![n] = "TOMBSTONED"]
          /\ prev' = [prev EXCEPT ![n] = state'[n]]
          /\ UNCHANGED <<object, evidence, edges, flagged, replaced, done>>
      BY <1>2, <2>1, <2>2 DEF TombstoneNode
    <3>2. Monotone /\ UnbornBut(NoNode) /\ TombstoneInv' /\ ReplacedInv'
      BY <1>0, <2>2, <3>1 DEF TypeOK, Monotone, UnbornBut, TombstoneInv, ReplacedInv
    <3> QED
      BY <1>2, <3>2, LastWrite DEF TombstoneNode, DetectedPCs
  <2>3. CASE state[n] \notin {"ACTIVE", "SUPERSEDED"}
    BY <1>2, <2>1, <2>3, EdgesGrow, LastWrite DEF TombstoneNode, DetectedPCs
  <2> QED
    BY <2>2, <2>3
<1>3. CASE RestoreTombstonedNode(a)
  <2>0. op[a].node \in Node \cup {NoNode}
    BY <1>0 DEF TypeOK, Frame
  <2>1. \/ state' = state
        \/ \E n : /\ state[n] = "TOMBSTONED"
                  /\ state' = [state EXCEPT ![n] = prev[n]]
    BY <1>3 DEF RestoreTombstonedNode
  <2>2. \A n \in Node : state'[n] = state[n]
    BY <1>0, <2>1 DEF TombstoneInv, TypeOK
  <2>3. UNCHANGED <<object, evidence, edges, prev, flagged, replaced, done>>
    BY <1>3 DEF RestoreTombstonedNode
  <2>4. Monotone /\ UnbornBut(NoNode) /\ TombstoneInv' /\ ReplacedInv'
    BY <1>0, <2>2, <2>3 DEF TypeOK, Monotone, UnbornBut, TombstoneInv, ReplacedInv
  <2> QED
    BY <1>3, <2>3, <2>4, LastWrite DEF RestoreTombstonedNode, DetectedPCs
<1> QED
  BY <1>1, <1>2, <1>3

\* The deletes of hard_delete keep the invariant: what it holds is not ACTIVE
\* and, a tombstone recording only itself, never becomes so.
LEMMA CollectStep ==
  ASSUME IInv, TypeOK', NEW a \in Agent,
         DeleteEdgesForNode(a) \/ HardDeleteNode(a) \/ HardDeleteSkip(a)
  PROVE  IInv'
<1>0. op[a] \in Frame /\ FrameOK(op[a]) /\ TypeOK /\ TombstoneInv /\ ReplacedInv
  BY DEF IInv, TypeOK, FrameInv
<1>1. CASE DeleteEdgesForNode(a)
  <2>1. PICK n \in op[a].todo :
          /\ edges' = edges \ Touching(n)
          /\ op' = [op EXCEPT ![a] = [@ EXCEPT !.pc = "hd_node", !.other = n]]
    BY <1>1 DEF DeleteEdgesForNode
  <2>2. PICK f : f = [op[a] EXCEPT !.pc = "hd_node", !.other = n]
    OBVIOUS
  <2>3. f.pc = "hd_node" /\ f.other = n /\ f.todo = op[a].todo
    BY <1>0, <2>2 DEF Frame
  <2>4. /\ op[a].pc = "hd_edges" /\ n \in Node
        /\ \A x \in f.todo : x \in Node /\ state[x] \notin {"absent", "ACTIVE"}
    BY <1>0, <1>1, <2>3 DEF DeleteEdgesForNode, FrameOK, Frame
  <2>5. UNCHANGED <<state, object, evidence, prev, flagged, replaced, done>>
    BY <1>1 DEF DeleteEdgesForNode
  <2>6. Monotone
    BY <2>1, <2>3, <2>4, <2>5 DEF Monotone, Touching, Active
  <2>7. UnbornBut(NoNode) /\ TombstoneInv' /\ ReplacedInv'
    BY <1>0, <2>5 DEF UnbornBut, TombstoneInv, ReplacedInv
  <2>8. FrameOK(f)'
    BY <2>1, <2>3, <2>4, <2>5
    DEF FrameOK, StoreClaimPCs, CreatedPCs, DerivedPCs, DetectedPCs
  <2> QED
    BY <2>1, <2>2, <2>3, <2>4, <2>5, <2>6, <2>7, <2>8, ClaimFrames, QuietStep
    DEF StoreClaimPCs, DetectedPCs
<1>2. ASSUME NEW n \in op[a].todo, NextCandidate(a, n), op[a].pc \in {"hd_edges", "hd_node"},
             \/ state' = state
             \/ /\ state[n] = "TOMBSTONED"
                /\ state' = [state EXCEPT ![n] = "gone"],
             UNCHANGED <<object, evidence, edges, prev, flagged, replaced, done>>
      PROVE  IInv'
  <2>1. PICK rest : rest = op[a].todo \ {n}
    OBVIOUS
  <2>2. PICK f : f = IF rest = {} THEN IdleFrame
                     ELSE [op[a] EXCEPT !.pc = "hd_edges", !.todo = rest]
    OBVIOUS
  <2>3. \/ f.pc = "idle"
        \/ f.pc = "hd_edges" /\ f.todo = rest
    BY <1>0, <2>2 DEF Frame, IdleFrame
  <2>4. /\ n \in Node
        /\ \A x \in rest : x \in Node /\ state[x] \notin {"absent", "ACTIVE"}
    BY <1>0, <1>2, <2>1 DEF FrameOK, Frame
  <2>5. op' = [op EXCEPT ![a] = f]
    BY <1>2, <2>1, <2>2 DEF NextCandidate
  <2>6. Monotone /\ UnbornBut(NoNode)
    BY <1>0, <1>2, <2>4 DEF TypeOK, Monotone, UnbornBut
  <2>7. TombstoneInv' /\ ReplacedInv'
    BY <1>0, <1>2, <2>4 DEF TypeOK, TombstoneInv, ReplacedInv
  <2>8. FrameOK(f)'
    BY <2>3, <2>4, <2>6
    DEF Monotone, FrameOK, StoreClaimPCs, CreatedPCs, DerivedPCs, DetectedPCs
  <2> QED
    BY <1>2, <2>3, <2>5, <2>6, <2>7, <2>8, ClaimFrames, QuietStep
    DEF StoreClaimPCs, DetectedPCs
<1>3. CASE HardDeleteNode(a)
  <2>1. op[a].other \in op[a].todo
    BY <1>0, <1>3 DEF HardDeleteNode, FrameOK
  <2> QED
    BY <1>2, <1>3, <2>1 DEF HardDeleteNode
<1>4. CASE HardDeleteSkip(a)
  <2>1. op[a].pc = "hd_node" => op[a].other \in op[a].todo
    BY <1>0 DEF FrameOK
  <2> QED
    BY <1>2, <1>4, <2>1 DEF HardDeleteSkip, graph
<1> QED
  BY <1>1, <1>3, <1>4

-----------------------------------------------------------------------------
(* The steps that find and flag conflicts.                                 *)

\* What is left to show of such a step is the conflict invariant.
LEMMA FlagStep ==
  ASSUME IInv, TypeOK', Monotone, UnbornBut(NoNode), NEW a \in Agent, NEW f,
         op' = [op EXCEPT ![a] = f], op[a].pc \in DerivedPCs,
         f.pc \in StoreClaimPCs => f.node = op[a].node,
         done' = done \/ done' = done \cup {op[a].node},
         FrameOK(f)', TombstoneInv', ReplacedInv', ConflictInv'
  PROVE  IInv'
<1>1. op'[a] = f /\ \A b \in Agent \ {a} : op'[b] = op[b]
  BY DEF IInv, TypeOK
<1>2. op[a].pc \in StoreClaimPCs
  BY DEF DerivedPCs, StoreClaimPCs
<1>3. FrameInv'
  BY <1>1, <1>2, ClaimFrames, OtherFrames DEF FrameInv
<1>4. UniqueInv'
  BY <1>1, <1>2 DEF IInv, UniqueInv
<1>5. DoneInv'
  BY DoneStep
<1> QED
  BY <1>3, <1>4, <1>5 DEF IInv

\* What a frame of the later part of store_claim is known to hold.
LEMMA FlagFrame ==
  ASSUME IInv, NEW a \in Agent, op[a].pc \in DerivedPCs
  PROVE  /\ op[a] \in Frame /\ op[a].node \in Claim /\ op[a].node \in Node
         /\ op[a].node \notin done /\ state[op[a].node] # "absent"
         /\ object[op[a].node] = op[a].obj /\ evidence[op[a].node] = op[a].refs
         /\ HasProvenance(op[a].node)
         /\ \A e \in op[a].refs : state[e] # "absent"
  BY DEF IInv, TypeOK, FrameInv, FrameOK, StoreClaimPCs, CreatedPCs, DerivedPCs, Node

\* detect_spo_conflict keeps the invariant: whatever contradicts the claim and
\* was stored before is put on the list of conflicts to flag.
LEMMA DetectStep ==
  ASSUME IInv, TypeOK', NEW a \in Agent, DetectSpoConflict(a)
  PROVE  IInv'
<1>1. PICK c : c = op[a].node
  OBVIOUS
<1>2. PICK found : found = Conflicting(c, op[a].obj)
  OBVIOUS
<1>3. PICK f : f = [op[a] EXCEPT !.pc = IF found = {} THEN "sync" ELSE "sc_flag",
                                 !.todo = found]
  OBVIOUS
<1>4. /\ op[a].pc = "sc_detect" /\ op[a].pc \in DerivedPCs
      /\ op' = [op EXCEPT ![a] = f]
      /\ done' = IF found = {} THEN done \cup {c} ELSE done
      /\ UNCHANGED <<state, object, evidence, edges, prev, flagged, replaced>>
  BY <1>1, <1>2, <1>3 DEF DetectSpoConflict, DerivedPCs, graph
<1>5. /\ op[a] \in Frame /\ c \in Claim /\ c \in Node /\ c \notin done
      /\ state[c] # "absent" /\ object[c] = op[a].obj /\ evidence[c] = op[a].refs
      /\ HasProvenance(c) /\ \A e \in op[a].refs : state[e] # "absent"
  BY <1>1, <1>4, FlagFrame
<1>6. /\ f.pc = IF found = {} THEN "sync" ELSE "sc_flag"
      /\ f.todo = found /\ f.node = c /\ f.obj = op[a].obj /\ f.refs = op[a].refs
  BY <1>1, <1>3, <1>5 DEF Frame
<1>7. \A d \in found : d \in Claim /\ state[d] = "ACTIVE"
  BY <1>2 DEF Conflicting
<1>8. HasProvenance(c)'
  BY <1>4, <1>5 DEF HasProvenance, Active
<1>9. FrameOK(f)'
  BY <1>4, <1>5, <1>6, <1>7, <1>8
  DEF FrameOK, StoreClaimPCs, CreatedPCs, DerivedPCs, DetectedPCs
<1>10. Monotone /\ UnbornBut(NoNode) /\ TombstoneInv' /\ ReplacedInv'
  BY <1>4, EdgesGrow
<1>11. ConflictInv'
  <2> SUFFICES ASSUME NEW x \in Claim, NEW y \in Claim,
                      Detected(x)', Detected(y)', Active(x)', Active(y)',
                      Contradict(x, y)'
               PROVE  (FlaggedPair(x, y) \/ Pending(x, y) \/ Pending(y, x))'
    BY DEF ConflictInv
  <2>1. op'[a] = f /\ \A b \in Agent \ {a} : op'[b] = op[b]
    BY <1>4 DEF IInv, TypeOK
  <2>2. Active(x) /\ Active(y) /\ Contradict(x, y)
    BY <1>4 DEF Active, Contradict
  <2>3. \A z : Detected(z)' => Detected(z) \/ z = c
    BY <1>4, <1>6, <2>1 DEF Detected
  <2>4. \A z \in Claim : z # c /\ Active(z) /\ Contradict(c, z) => Pending(c, z)'
    <3> SUFFICES ASSUME NEW z \in Claim, z # c, Active(z), Contradict(c, z)
                 PROVE  Pending(c, z)'
      OBVIOUS
    <3>1. z \in found
      BY <1>2, <1>5 DEF Conflicting, Active, Contradict
    <3>2. f.pc \in DetectedPCs /\ f.node = c /\ z \in f.todo
      BY <1>6, <3>1 DEF DetectedPCs
    <3> QED
      BY <2>1, <3>2 DEF Pending
  <2>5. CASE Detected(x) /\ Detected(y)
    <3>1. FlaggedPair(x, y) \/ Pending(x, y) \/ Pending(y, x)
      BY <2>2, <2>5 DEF IInv, ConflictInv
    <3>2. FlaggedPair(x, y) => FlaggedPair(x, y)'
      BY <1>4 DEF FlaggedPair
    <3>3. \A u, v : Pending(u, v) => Pending(u, v)'
      BY <1>4, <2>1 DEF Pending, DetectedPCs
    <3> QED
      BY <3>1, <3>2, <3>3
  <2>6. CASE x = c
    BY <2>2, <2>4, <2>6 DEF Contradict
  <2>7. CASE y = c
    BY <2>2, <2>4, <2>7 DEF Contradict
  <2> QED
    BY <2>3, <2>5, <2>6, <2>7
<1> QED
  BY <1>1, <1>4, <1>6, <1>9, <1>10, <1>11, FlagStep

\* The CONTRADICTS edges of one conflict keep the invariant.
LEMMA ContradictsStep ==
  ASSUME IInv, TypeOK', NEW a \in Agent, CreateBidirectionalContradicts(a)
  PROVE  IInv'
<1>1. PICK c : c = op[a].node
  OBVIOUS
<1>2. PICK d \in op[a].todo :
        /\ edges' = IF Exists(c) /\ Exists(d)
                      THEN edges \cup {<<"CONTRADICTS", c, d>>, <<"CONTRADICTS", d, c>>}
                      ELSE edges
        /\ op' = [op EXCEPT ![a] = [@ EXCEPT !.pc = "sc_status", !.other = d]]
  BY <1>1 DEF CreateBidirectionalContradicts
<1>3. PICK f : f = [op[a] EXCEPT !.pc = "sc_status", !.other = d]
  OBVIOUS
<1>4. /\ op[a].pc = "sc_flag" /\ op[a].pc \in DerivedPCs
      /\ op' = [op EXCEPT ![a] = f]
      /\ UNCHANGED <<state, object, evidence, prev, flagged, replaced, done>>
  BY <1>2, <1>3 DEF CreateBidirectionalContradicts, DerivedPCs
<1>5. /\ op[a] \in Frame /\ c \in Claim /\ c \in Node /\ c \notin done
      /\ state[c] # "absent" /\ object[c] = op[a].obj /\ evidence[c] = op[a].refs
      /\ HasProvenance(c) /\ \A e \in op[a].refs : state[e] # "absent"
  BY <1>1, <1>4, FlagFrame
<1>6. /\ f.pc = "sc_status" /\ f.todo = op[a].todo /\ f.node = c /\ f.other = d
      /\ f.obj = op[a].obj /\ f.refs = op[a].refs
  BY <1>1, <1>3, <1>5 DEF Frame
<1>7. edges \subseteq edges'
  BY <1>2
<1>8. \A x \in op[a].todo : x \in Claim /\ state[x] # "absent"
  BY <1>4 DEF IInv, FrameInv, FrameOK, DetectedPCs
<1>9. HasProvenance(c)'
  BY <1>4, <1>5, <1>7 DEF HasProvenance, Active
<1>10. Active(c)' /\ Active(d)' => /\ <<"CONTRADICTS", c, d>> \in edges'
                                   /\ <<"CONTRADICTS", d, c>> \in edges'
  BY <1>2, <1>4, <1>5, <1>8 DEF Active, Exists, Node
<1>11. FrameOK(f)'
  BY <1>2, <1>4, <1>5, <1>6, <1>8, <1>9, <1>10
  DEF FrameOK, StoreClaimPCs, CreatedPCs, DerivedPCs, DetectedPCs
<1>12. Monotone /\ UnbornBut(NoNode) /\ TombstoneInv' /\ ReplacedInv'
  BY <1>4, <1>7, EdgesGrow
<1>13. ConflictInv'
  <2>1. op'[a] = f /\ \A b \in Agent \ {a} : op'[b] = op[b]
    BY <1>4 DEF IInv, TypeOK
  <2>2. \A z : Detected(z)' => Detected(z)
    BY <1>1, <1>4, <1>6, <2>1 DEF Detected, DetectedPCs
  <2>3. \A u, v : Pending(u, v) => Pending(u, v)'
    BY <1>1, <1>4, <1>6, <2>1 DEF Pending, DetectedPCs
  <2>4. \A u, v : FlaggedPair(u, v) => FlaggedPair(u, v)'
    BY <1>4, <1>7 DEF FlaggedPair
  <2>5. \A u, v : /\ Active(u)' => Active(u)
                  /\ Contradict(u, v)' => Contradict(u, v)
    BY <1>4 DEF Active, Contradict
  <2> QED
    BY <2>2, <2>3, <2>4, <2>5 DEF IInv, ConflictInv
<1> QED
  BY <1>1, <1>4, <1>6, <1>11, <1>12, <1>13, FlagStep

\* Marking a conflict unresolved keeps the invariant: the pair leaves the list
\* exactly when both its edges and both its flags are written.
LEMMA StatusStep ==
  ASSUME IInv, TypeOK', NEW a \in Agent, SetConflictStatus(a)
  PROVE  IInv'
<1>1. PICK c, d : c = op[a].node /\ d = op[a].other
  OBVIOUS
<1>2. PICK rest : rest = op[a].todo \ {d}
  OBVIOUS
<1>3. PICK f : f = [op[a] EXCEPT !.pc = IF rest = {} THEN "sync" ELSE "sc_flag",
                                 !.todo = rest]
  OBVIOUS
<1>4. /\ op[a].pc = "sc_status" /\ op[a].pc \in DerivedPCs
      /\ op' = [op EXCEPT ![a] = f]
      /\ flagged' = flagged \cup {n \in {c, d} : Exists(n)}
      /\ done' = IF rest = {} THEN done \cup {c} ELSE done
      /\ UNCHANGED <<state, object, evidence, edges, prev, replaced>>
  BY <1>1, <1>2, <1>3 DEF SetConflictStatus, DerivedPCs
<1>5. /\ op[a] \in Frame /\ c \in Claim /\ c \in Node /\ c \notin done
      /\ state[c] # "absent" /\ object[c] = op[a].obj /\ evidence[c] = op[a].refs
      /\ HasProvenance(c) /\ \A e \in op[a].refs : state[e] # "absent"
  BY <1>1, <1>4, FlagFrame
<1>6. /\ f.pc = IF rest = {} THEN "sync" ELSE "sc_flag"
      /\ f.todo = rest /\ f.node = c /\ f.obj = op[a].obj /\ f.refs = op[a].refs
  BY <1>1, <1>3, <1>5 DEF Frame
<1>7. /\ \A x \in op[a].todo : x \in Claim /\ state[x] # "absent"
      /\ d \in op[a].todo
      /\ Active(c) /\ Active(d) => /\ <<"CONTRADICTS", c, d>> \in edges
                                   /\ <<"CONTRADICTS", d, c>> \in edges
  BY <1>1, <1>4 DEF IInv, FrameInv, FrameOK, DetectedPCs
<1>8. HasProvenance(c)'
  BY <1>4, <1>5 DEF HasProvenance, Active
<1>9. FrameOK(f)'
  BY <1>2, <1>4, <1>5, <1>6, <1>7, <1>8
  DEF FrameOK, StoreClaimPCs, CreatedPCs, DerivedPCs, DetectedPCs
<1>10. Monotone /\ UnbornBut(NoNode) /\ TombstoneInv' /\ ReplacedInv'
  BY <1>4, EdgesGrow
<1>11. ConflictInv'
  <2> SUFFICES ASSUME NEW x \in Claim, NEW y \in Claim,
                      Detected(x)', Detected(y)', Active(x)', Active(y)',
                      Contradict(x, y)'
               PROVE  (FlaggedPair(x, y) \/ Pending(x, y) \/ Pending(y, x))'
    BY DEF ConflictInv
  <2>1. op'[a] = f /\ \A b \in Agent \ {a} : op'[b] = op[b]
    BY <1>4 DEF IInv, TypeOK
  <2>2. Active(x) /\ Active(y) /\ Contradict(x, y)
    BY <1>4 DEF Active, Contradict
  <2>3. \A z : Detected(z)' => Detected(z)
    BY <1>1, <1>4, <1>6, <2>1 DEF Detected, DetectedPCs
  <2>4. FlaggedPair(x, y) \/ Pending(x, y) \/ Pending(y, x)
    BY <2>2, <2>3 DEF IInv, ConflictInv
  <2>5. FlaggedPair(x, y) => FlaggedPair(x, y)'
    BY <1>4 DEF FlaggedPair
  <2>6. Active(c) /\ Active(d) => FlaggedPair(c, d)' /\ FlaggedPair(d, c)'
    <3>1. Active(c) /\ Active(d) => Exists(c) /\ Exists(d)
      BY <1>5, <1>7 DEF Active, Exists, Node
    <3> QED
      BY <1>4, <1>7, <3>1 DEF FlaggedPair
  <2>7. ASSUME NEW u, NEW v, Pending(u, v), ~(u = c /\ v = d)
        PROVE  Pending(u, v)'
    <3>0. PICK b \in Agent :
            op[b].pc \in DetectedPCs /\ op[b].node = u /\ v \in op[b].todo
      BY <2>7 DEF Pending
    <3>1. CASE b # a
      BY <2>1, <3>0, <3>1 DEF Pending
    <3>2. CASE b = a
      <4>1. u = c /\ v \in rest
        BY <1>1, <1>2, <2>7, <3>0, <3>2
      <4>2. f.pc \in DetectedPCs /\ f.node = u /\ v \in f.todo
        BY <1>6, <4>1 DEF DetectedPCs
      <4> QED
        BY <2>1, <4>2 DEF Pending
    <3> QED
      BY <3>1, <3>2
  <2> QED
    BY <2>2, <2>4, <2>5, <2>6, <2>7
<1> QED
  BY <1>1, <1>4, <1>6, <1>9, <1>10, <1>11, FlagStep

\* A call that dies while flagging is not done, so its claim is not one of
\* those the invariant speaks of any more.
LEMMA FailStep ==
  ASSUME IInv, TypeOK', NEW a \in Agent, Fail(a)
  PROVE  IInv'
<1>1. CASE op[a].pc \notin DetectedPCs
  BY <1>1, ReturnStep DEF Fail
<1>2. CASE op[a].pc \in DetectedPCs
  <2>1. PICK f : f = IdleFrame
    OBVIOUS
  <2>2. f.pc = "idle" /\ op' = [op EXCEPT ![a] = f] /\ op[a].pc \in DerivedPCs
    BY <1>2, <2>1 DEF IdleFrame, Fail, Return, DetectedPCs, DerivedPCs
  <2>3. UNCHANGED <<state, object, evidence, edges, prev, flagged, replaced, done>>
    BY DEF Fail, graph
  <2>4. FrameOK(f)'
    BY <2>2 DEF FrameOK, StoreClaimPCs, CreatedPCs, DerivedPCs, DetectedPCs
  <2>5. Monotone /\ UnbornBut(NoNode) /\ TombstoneInv' /\ ReplacedInv'
    BY <2>3, EdgesGrow
  <2>6. ConflictInv'
    <3> SUFFICES ASSUME NEW x \in Claim, NEW y \in Claim,
                        Detected(x)', Detected(y)', Active(x)', Active(y)',
                        Contradict(x, y)'
                 PROVE  (FlaggedPair(x, y) \/ Pending(x, y) \/ Pending(y, x))'
      BY DEF ConflictInv
    <3>1. op'[a] = f /\ \A b \in Agent \ {a} : op'[b] = op[b]
      BY <2>2 DEF IInv, TypeOK
    <3>2. op[a].node \notin done
      BY <2>2, FlagFrame
    <3>3. \A z : Detected(z)' => Detected(z) /\ z # op[a].node
      BY <1>2, <2>2, <2>3, <3>1, <3>2
      DEF Detected, IInv, UniqueInv, DetectedPCs, StoreClaimPCs
    <3>4. Active(x) /\ Active(y) /\ Contradict(x, y)
      BY <2>3 DEF Active, Contradict
    <3>5. FlaggedPair(x, y) \/ Pending(x, y) \/ Pending(y, x)
      BY <3>3, <3>4 DEF IInv, ConflictInv
    <3>6. \A u, v : Pending(u, v) /\ u # op[a].node => Pending(u, v)'
      BY <3>1 DEF Pending
    <3>7. FlaggedPair(x, y) => FlaggedPair(x, y)'
      BY <2>3 DEF FlaggedPair
    <3> QED
      BY <3>3, <3>5, <3>6, <3>7
  <2> QED
    BY <2>2, <2>3, <2>4, <2>5, <2>6, FlagStep DEF StoreClaimPCs
<1> QED
  BY <1>1, <1>2

-----------------------------------------------------------------------------
(* The theorems.                                                           *)

\* The empty silo satisfies the invariant.
LEMMA InitIInv == Init => IInv
<1> SUFFICES ASSUME Init PROVE IInv
  OBVIOUS
<1>1. TypeOK
  BY IdleFrameType, ConstantsAssumption DEF Init, TypeOK, States, NoTime
<1>2. \A a \in Agent : op[a].pc = "idle"
  BY DEF Init, IdleFrame
<1>3. FrameInv /\ UniqueInv
  BY <1>2
  DEF FrameInv, FrameOK, UniqueInv, StoreClaimPCs, CreatedPCs, DerivedPCs, DetectedPCs
<1>4. TombstoneInv /\ ReplacedInv /\ DoneInv
  BY DEF Init, TombstoneInv, ReplacedInv, DoneInv
<1>5. ConflictInv
  BY <1>2 DEF Init, ConflictInv, Detected, DetectedPCs
<1> QED
  BY <1>1, <1>3, <1>4, <1>5 DEF IInv

\* Every step of every agent keeps the invariant.
LEMMA NextIInv == IInv /\ [Next]_vars => IInv'
<1> SUFFICES ASSUME IInv, [Next]_vars PROVE IInv'
  OBVIOUS
<1>1. TypeOK'
  BY TypeStep DEF IInv
<1>2. CASE UNCHANGED <<graph, op, replaced, done>>
  <2>1. FrameInv' /\ UniqueInv' /\ TombstoneInv' /\ ReplacedInv' /\ DoneInv'
    BY <1>2 DEF IInv, graph, FrameInv, FrameOK, UniqueInv, TombstoneInv, ReplacedInv,
                DoneInv, HasProvenance, Active
  <2>2. ConflictInv'
    BY <1>2 DEF IInv, graph, ConflictInv, Detected, Active, Contradict, FlaggedPair, Pending
  <2> QED
    BY <1>1, <2>1, <2>2 DEF IInv
<1>3. ASSUME NEW a \in Agent, Start(a) PROVE IInv'
  BY <1>1, <1>3, StartStep
<1>4. ASSUME NEW a \in Agent, Continue(a) PROVE IInv'
  BY <1>1, <1>4, ReadingStep, CreateStep, DeriveStep, SupersedeSteps, WritingStep,
     CollectStep, DetectStep, ContradictsStep, StatusStep
  DEF Continue
<1>5. ASSUME NEW a \in Agent, Fail(a) PROVE IInv'
  BY <1>1, <1>5, FailStep
<1> QED
  BY <1>2, <1>3, <1>4, <1>5, [Next]_vars DEF Next, Call, Resume, Tick, vars

\* The inductive invariant holds in every reachable state of the write path.
THEOREM Invariance == Spec => []IInv
<1> QED
  BY InitIInv, NextIInv, PTL DEF Spec

\* Every operation of transactions.py keeps node states, edges, shadow rows
\* and the locals of the running coroutines well typed.
THEOREM TypeCorrect == Spec => []TypeOK
<1>1. IInv => TypeOK
  BY DEF IInv
<1> QED
  BY <1>1, Invariance, PTL

\* detect_spo_conflict misses no conflict: for any number of concurrent
\* store_claim calls, two ACTIVE contradicting claims that have both been
\* stored are flagged in both directions (INV8).
THEOREM ConflictsAreFlagged == Spec => []ConflictsFlagged
<1>1. ASSUME IInv PROVE ConflictsFlagged
  <2> SUFFICES ASSUME NEW c \in done, NEW d \in done,
                      Active(c), Active(d), Contradict(c, d)
               PROVE  FlaggedPair(c, d)
    BY DEF ConflictsFlagged
  <2>1. c \in Claim /\ d \in Claim /\ Detected(c) /\ Detected(d)
    BY <1>1 DEF IInv, TypeOK, Detected
  <2>2. \A x \in done : \A y : ~Pending(x, y)
    BY <1>1 DEF IInv, FrameInv, FrameOK, Pending, DetectedPCs, StoreClaimPCs
  <2> QED
    BY <1>1, <2>1, <2>2 DEF IInv, ConflictInv
<1> QED
  BY <1>1, Invariance, PTL

\* hard_delete, which deletes edges from an old candidate list and without a
\* guard, never takes the DERIVED_FROM edge from a live claim to live evidence.
THEOREM ProvenanceIsKept == Spec => []LiveProvenance
<1>1. ASSUME IInv PROVE LiveProvenance
  BY <1>1 DEF IInv, DoneInv, HasProvenance, LiveProvenance
<1> QED
  BY <1>1, Invariance, PTL

\* A node some supersession has replaced is never ACTIVE again.
THEOREM ReplacedForGood == Spec => []ReplacedStaysReplaced
<1>1. ASSUME IInv PROVE ReplacedStaysReplaced
  BY <1>1 DEF IInv, ReplacedInv, ReplacedStaysReplaced, Active
<1> QED
  BY <1>1, Invariance, PTL

\* Only hard_delete removes edges, and the ones it removes touch a node that
\* is not ACTIVE.
THEOREM EdgesAreKept == Spec => LiveEdgesKept
<1> DEFINE Kept == \A e \in edges \ edges' : ~(Active(e[2]) /\ Active(e[3]))
<1>1. ASSUME IInv, [Next]_vars PROVE [Kept]_vars
  <2>1. CASE edges \subseteq edges'
    BY <2>1
  <2>2. ASSUME NEW a \in Agent, DeleteEdgesForNode(a) PROVE Kept
    <3>1. PICK n \in op[a].todo : edges' = edges \ Touching(n)
      BY <2>2 DEF DeleteEdgesForNode
    <3>2. ~Active(n)
      BY <1>1, <2>2 DEF IInv, FrameInv, FrameOK, DeleteEdgesForNode, Active
    <3> QED
      BY <3>1, <3>2 DEF Touching
  <2>3. ASSUME NEW a \in Agent, Start(a) PROVE edges \subseteq edges'
    BY <2>3
    DEF Start, StoreMemory, StoreClaim, Supersede, Link, Forget, CancelForget, HardDelete, graph
  <2>4. ASSUME NEW a \in Agent, Continue(a), ~DeleteEdgesForNode(a)
        PROVE  edges \subseteq edges'
    BY <2>4
    DEF Continue, SyncToPostgres, CheckContradictionBeforeWrite, StoreClaimCreate,
        CreateDerivedFromEdges, StoreClaimSupersede, StoreClaimShadow,
        DetectSpoConflict, CreateBidirectionalContradicts, SetConflictStatus,
        SupersedeCycleCheck, SupersedeWrite, SupersedeShadow, LinkDuplicateCheck,
        LinkCycleCheck, LinkWrite, HardDeleteSkip,
        TombstoneNode, RestoreTombstonedNode, HardDeleteNode, CreateSupersedesEdge,
        graph
  <2>5. ASSUME NEW a \in Agent, Fail(a) PROVE edges \subseteq edges'
    BY <2>5 DEF Fail, graph
  <2> QED
    BY <1>1, <2>1, <2>2, <2>3, <2>4, <2>5 DEF Next, Call, Resume, Tick, vars, graph
<1> QED
  BY <1>1, Invariance, PTL DEF Spec, LiveEdgesKept
=============================================================================
