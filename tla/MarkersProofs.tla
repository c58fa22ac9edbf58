--------------------------- MODULE MarkersProofs ---------------------------
(***************************************************************************)
(* Proofs about Markers for every number of claims, commitments, sessions  *)
(* and markers: type correctness, EvidenceAccounted, IndexAccounted and    *)
(* BlockedByPending.                                                       *)
(***************************************************************************)
EXTENDS Markers, TLAPS, FiniteSetTheorems

\* A detector holds a marker exactly while it has to index it, and knows the
\* claim it is working on; dismiss knows its marker.
FrameInv ==
  /\ contra.pc = "index" <=> contra.marker # NoMarker
  /\ contra.pc \in {"peer", "index"} => contra.node \in Claim
  /\ stale.pc = "index" <=> stale.marker # NoMarker
  /\ \A s \in Session :
       call[s].pc \in {"update", "deindex", "clear"} => call[s].marker \in Marker

\* While detect_stale_commitment runs, evidence it has not judged is on its
\* list, or counts as lost when the watermark moves.
StaleInv ==
  /\ stale.pc # "idle" =>
       \A p \in linked :
         p \in examined \cup missed \cup stale.lost
                \cup {q \in stale.evidence : q[2] \in stale.rows}
  /\ stale.pc \in {"idle", "watermark"} => stale.rows = {}

-----------------------------------------------------------------------------
(* Types.                                                                  *)

LEMMA FaultType ==
  ASSUME faults \in 0 .. MaxFaults, Fault
  PROVE  faults' \in 0 .. MaxFaults
  BY MarkersAssumption DEF Fault

\* The frames of idle processes are well typed.
LEMMA Idles ==
  IdleContra \in ContraRec /\ IdleStale \in StaleRec /\ NoCall \in CallRec
  BY DEF IdleContra, IdleStale, NoCall, ContraRec, StaleRec, CallRec

LEMMA NoMarkerOut == NoMarker \notin Marker
  BY DEF NoMarker, Marker

\* The types of the fields of the frames.
LEMMA FrameTypes ==
  ASSUME TypeOK
  PROVE  /\ contra.marker \in Marker \cup {NoMarker}
         /\ contra.rows \subseteq Claim /\ contra.peers \subseteq Claim
         /\ stale.marker \in Marker \cup {NoMarker}
         /\ stale.rows \subseteq Commitment
         /\ stale.evidence \subseteq Pair /\ stale.lost \subseteq Pair
         /\ \A s \in Session :
              /\ call[s] \in CallRec
              /\ call[s].marker \in Marker \cup {NoMarker}
              /\ call[s].found \subseteq Marker
<1>1. contra \in ContraRec /\ stale \in StaleRec
  BY DEF TypeOK
<1>2. \A s \in Session : call[s] \in CallRec
  BY DEF TypeOK
<1> QED
  BY <1>1, <1>2 DEF ContraRec, StaleRec, CallRec

\* A row limit leaves some of the rows, and none only if there are none.
LEMMA LimitedRows ==
  ASSUME NEW rows, IsFiniteSet(rows), NEW r \in Limited(rows)
  PROVE  r \subseteq rows /\ (r = {} => rows = {})
<1>1. r \subseteq rows
  BY DEF Limited
<1>2. Cardinality(rows) \in Nat
  BY FS_CardinalityType
<1>3. ASSUME r = {} PROVE rows = {}
  <2>1. Cardinality(r) = 0
    BY <1>3, FS_EmptySet
  <2>2. Cardinality(rows) = 0
    BY <2>1, <1>2, MarkersAssumption DEF Limited
  <2> QED
    BY <2>2, FS_EmptySet
<1> QED
  BY <1>1, <1>3

\* One session takes a step of its call.
LEMMA CallUpdate ==
  ASSUME TypeOK, NEW s \in Session, NEW r \in CallRec,
         call' = [call EXCEPT ![s] = r]
  PROVE  call' \in [Session -> CallRec] /\ call'[s] = r
         /\ \A t \in Session \ {s} : call'[t] = call[t]
  BY DEF TypeOK

\* What a touch does to the call of recall.
LEMMA TouchedCall ==
  ASSUME TypeOK, NEW s \in Session, NEW m \in Marker, RecallTouch(s, m)
  PROVE  \E r \in CallRec :
           /\ call' = [call EXCEPT ![s] = r]
           /\ r.pc \in {"touch", "done"} /\ r.open = call[s].open
           /\ r.found = call[s].found \ {m}
           /\ \/ r.hard = call[s].hard /\ r.marker = call[s].marker
              \/ r.hard = TRUE /\ r.marker = m
<1> DEFINE rest == [call[s] EXCEPT !.found = @ \ {m},
                      !.pc = IF call[s].found = {m} THEN "done" ELSE "touch"]
           hard == [rest EXCEPT !.hard = TRUE, !.marker = m]
<1>0. call[s] \in CallRec
  BY DEF TypeOK
<1>1. /\ rest \in CallRec /\ rest.pc \in {"touch", "done"}
      /\ rest.open = call[s].open /\ rest.found = call[s].found \ {m}
      /\ rest.hard = call[s].hard /\ rest.marker = call[s].marker
  BY <1>0 DEF CallRec
<1>2. /\ hard \in CallRec /\ hard.pc = rest.pc /\ hard.open = rest.open
      /\ hard.found = rest.found /\ hard.hard = TRUE /\ hard.marker = m
  BY <1>0 DEF CallRec
<1>3. call' = [call EXCEPT ![s] = rest] \/ call' = [call EXCEPT ![s] = hard]
  BY DEF RecallTouch
<1> HIDE DEF rest, hard
<1> QED
  BY <1>1, <1>2, <1>3

\* Types and frames are kept by every step.
LEMMA TypeStep == TypeOK /\ FrameInv /\ Next => TypeOK' /\ FrameInv'
<1> SUFFICES ASSUME TypeOK, FrameInv PROVE Next => TypeOK' /\ FrameInv'
  OBVIOUS
<1> USE MarkersAssumption, FaultType, Idles, FrameTypes, NoMarkerOut
<1>1. ASSUME NEW c \in Claim, Learn(c)
      PROVE  TypeOK' /\ FrameInv'
  <2>2. TypeOK'
    BY <1>1 DEF TypeOK, FrameInv, Learn, graphVars, waterVars, markerVars,
       redisVars
  <2>3. FrameInv'
    BY <1>1 DEF FrameInv, Learn, TypeOK, graphVars, waterVars, markerVars,
       redisVars
  <2> QED
    BY <2>2, <2>3
<1>2. ASSUME NEW c \in Claim, HourPasses(c)
      PROVE  TypeOK' /\ FrameInv'
  <2>2. TypeOK'
    BY <1>2 DEF Pair, TypeOK, FrameInv, HourPasses, graphVars, waterVars,
       markerVars, redisVars
  <2>3. FrameInv'
    BY <1>2 DEF FrameInv, HourPasses, Pair, TypeOK, graphVars, waterVars,
       markerVars, redisVars
  <2> QED
    BY <2>2, <2>3
<1>3. ASSUME NEW c \in Claim, NEW k \in Commitment, Link(c, k)
      PROVE  TypeOK' /\ FrameInv'
  <2>1. stale' \in StaleRec
    <3>1. [stale EXCEPT !.lost = @ \cup {<<c, k>>}] \in StaleRec
      BY DEF TypeOK, StaleRec, Pair
    <3> QED
      BY <3>1, <1>3 DEF TypeOK, Link
  <2>2. TypeOK'
    BY <2>1, <1>3 DEF Pair, TypeOK, Link, graphVars, waterVars, markerVars,
       redisVars
  <2>3. FrameInv'
    BY <2>1, <1>3 DEF FrameInv, Link, TypeOK, StaleRec, graphVars, waterVars,
       markerVars, redisVars
  <2> QED
    BY <2>2, <2>3
<1>4. ASSUME ContraFind
      PROVE  TypeOK' /\ FrameInv'
  <2> DEFINE rows == {c \in Claim : flag[c] # {} /\ c \notin aged}
  <2>1. PICK r \in Limited(rows) : contra' = [contra EXCEPT !.pc = "row", !.rows = r]
    BY <1>4 DEF ContraFind
  <2>2. r \subseteq Claim
    BY <2>1 DEF Limited
  <2>3. contra' \in ContraRec
    BY <2>1, <2>2 DEF TypeOK, ContraRec
  <2>4. TypeOK'
    BY <2>3, <1>4 DEF TypeOK, ContraFind, graphVars, waterVars, markerVars,
       redisVars
  <2>5. FrameInv'
    BY <2>1, <1>4 DEF FrameInv, ContraFind, TypeOK, ContraRec, graphVars,
       waterVars, markerVars, redisVars
  <2> QED
    BY <2>4, <2>5
<1>5. ASSUME ContraIndex
      PROVE  TypeOK' /\ FrameInv'
  <2>1. contra' \in ContraRec
    BY <1>5 DEF IndexMarker, Pending, Node, TypeOK, FrameInv, ContraIndex,
       ContraRec, Pair
  <2>2. TypeOK'
    BY <2>1, <1>5 DEF IndexMarker, Pending, Node, TypeOK, FrameInv,
       ContraIndex, graphVars, waterVars, markerVars, redisVars
  <2>3. FrameInv'
    BY <2>1, <1>5 DEF FrameInv, ContraIndex, IndexMarker, Pending, Node,
       TypeOK, ContraRec, graphVars, waterVars, markerVars, redisVars
  <2> QED
    BY <2>2, <2>3
<1>6. ASSUME ContraClear
      PROVE  TypeOK' /\ FrameInv'
  <2>1. contra' \in ContraRec
    BY <1>6 DEF TypeOK, FrameInv, ContraClear, ContraRec, Pair
  <2>2. TypeOK'
    BY <2>1, <1>6 DEF TypeOK, FrameInv, ContraClear, graphVars, waterVars,
       markerVars, redisVars
  <2>3. FrameInv'
    BY <2>1, <1>6 DEF FrameInv, ContraClear, IdleContra, TypeOK, ContraRec,
       graphVars, waterVars, markerVars, redisVars
  <2> QED
    BY <2>2, <2>3
<1>7. ASSUME ContraDies
      PROVE  TypeOK' /\ FrameInv'
  <2>1. contra' \in ContraRec
    BY <1>7 DEF TypeOK, FrameInv, ContraDies, ContraRec, Pair
  <2>2. TypeOK'
    BY <2>1, <1>7 DEF TypeOK, FrameInv, ContraDies, graphVars, waterVars,
       markerVars, redisVars
  <2>3. FrameInv'
    BY <2>1, <1>7 DEF FrameInv, ContraDies, IdleContra, TypeOK, ContraRec,
       graphVars, waterVars, markerVars, redisVars
  <2> QED
    BY <2>2, <2>3
<1>8. ASSUME NEW c \in Claim, ContraRow(c)
      PROVE  TypeOK' /\ FrameInv'
  <2>1. contra' \in ContraRec
    BY <1>8 DEF TypeOK, FrameInv, ContraRow, ContraRec, Pair
  <2>2. TypeOK'
    BY <2>1, <1>8 DEF TypeOK, FrameInv, ContraRow, graphVars, waterVars,
       markerVars, redisVars
  <2>3. FrameInv'
    BY <2>1, <1>8 DEF FrameInv, ContraRow, TypeOK, ContraRec, graphVars,
       waterVars, markerVars, redisVars
  <2> QED
    BY <2>2, <2>3
<1>9. ASSUME NEW c \in Claim, ContraReject(c)
      PROVE  TypeOK' /\ FrameInv'
  <2>1. contra' \in ContraRec
    BY <1>9 DEF TypeOK, FrameInv, ContraReject, ContraRec, Pair
  <2>2. TypeOK'
    BY <2>1, <1>9 DEF TypeOK, FrameInv, ContraReject, graphVars, waterVars,
       markerVars, redisVars
  <2>3. FrameInv'
    BY <2>1, <1>9 DEF FrameInv, ContraReject, TypeOK, ContraRec, graphVars,
       waterVars, markerVars, redisVars
  <2> QED
    BY <2>2, <2>3
<1>10. ASSUME NEW c \in Claim, NEW m \in Marker, ContraConfirm(c, m)
      PROVE  TypeOK' /\ FrameInv'
  <2>1. contra' \in ContraRec
    BY <1>10 DEF Create, Node, TypeOK, FrameInv, ContraConfirm, ContraRec, Pair
  <2>2. TypeOK'
    BY <2>1, <1>10 DEF Create, Node, TypeOK, FrameInv, ContraConfirm,
       graphVars, waterVars, markerVars, redisVars
  <2>3. FrameInv'
    BY <2>1, <1>10 DEF FrameInv, ContraConfirm, Create, Node, TypeOK,
       ContraRec, graphVars, waterVars, markerVars, redisVars
  <2> QED
    BY <2>2, <2>3
<1>11. ASSUME StaleFind
      PROVE  TypeOK' /\ FrameInv'
  <2> DEFINE rows == {p[2] : p \in NewEvidence}
             run(r) == [stale EXCEPT !.pc = "row", !.rows = r,
                          !.evidence = {p \in NewEvidence : p[2] \in r},
                          !.lost = {p \in NewEvidence : p[2] \notin r}]
  <2>1. PICK r \in Limited(rows) :
          stale' = IF r = {} THEN [stale EXCEPT !.pc = "watermark"] ELSE run(r)
    BY <1>11 DEF StaleFind
  <2>2. NewEvidence \subseteq Pair
    BY DEF TypeOK, NewEvidence, Pair
  <2>3. r \subseteq Commitment
    BY <2>1, <2>2 DEF Limited, Pair
  <2>4. run(r) \in StaleRec /\ run(r).marker = stale.marker /\ run(r).pc = "row"
    BY <2>2, <2>3 DEF TypeOK, StaleRec
  <2>5. [stale EXCEPT !.pc = "watermark"] \in StaleRec
    BY DEF TypeOK, StaleRec
  <2>6. stale' \in StaleRec /\ stale'.marker = stale.marker /\ stale'.pc # "index"
    <3>1. CASE r = {}
      BY <3>1, <2>1, <2>5 DEF TypeOK, StaleRec
    <3>2. CASE r # {}
      BY <3>2, <2>1, <2>4
    <3> QED
      BY <3>1, <3>2
  <2>7. TypeOK'
    BY <2>6, <1>11 DEF TypeOK, StaleFind, graphVars, waterVars, markerVars,
       redisVars
  <2>8. FrameInv'
    BY <2>6, <1>11 DEF FrameInv, StaleFind, TypeOK
  <2> QED
    BY <2>7, <2>8
<1>12. ASSUME StaleIndex
      PROVE  TypeOK' /\ FrameInv'
  <2>1. stale' \in StaleRec
    BY <1>12 DEF IndexMarker, Pending, Node, TypeOK, FrameInv, StaleIndex,
       StaleRec, Pair
  <2>2. TypeOK'
    BY <2>1, <1>12 DEF IndexMarker, Pending, Node, TypeOK, FrameInv,
       StaleIndex, graphVars, waterVars, markerVars, redisVars
  <2>3. FrameInv'
    BY <2>1, <1>12 DEF FrameInv, StaleIndex, IndexMarker, Pending, Node,
       TypeOK, StaleRec, graphVars, waterVars, markerVars, redisVars
  <2> QED
    BY <2>2, <2>3
<1>13. ASSUME StaleWatermark
      PROVE  TypeOK' /\ FrameInv'
  <2>1. stale' \in StaleRec
    BY <1>13 DEF TypeOK, FrameInv, StaleWatermark, StaleRec, Pair
  <2>2. TypeOK'
    BY <2>1, <1>13 DEF TypeOK, FrameInv, StaleWatermark, graphVars, waterVars,
       markerVars, redisVars
  <2>3. FrameInv'
    BY <2>1, <1>13 DEF FrameInv, StaleWatermark, IdleStale, TypeOK, StaleRec,
       graphVars, waterVars, markerVars, redisVars
  <2> QED
    BY <2>2, <2>3
<1>14. ASSUME StaleDies
      PROVE  TypeOK' /\ FrameInv'
  <2>1. stale' \in StaleRec
    BY <1>14 DEF TypeOK, FrameInv, StaleDies, StaleRec, Pair
  <2>2. TypeOK'
    BY <2>1, <1>14 DEF TypeOK, FrameInv, StaleDies, graphVars, waterVars,
       markerVars, redisVars
  <2>3. FrameInv'
    BY <2>1, <1>14 DEF FrameInv, StaleDies, IdleStale, TypeOK, StaleRec,
       graphVars, waterVars, markerVars, redisVars
  <2> QED
    BY <2>2, <2>3
<1>15. ASSUME NEW k \in Commitment, StaleReject(k)
      PROVE  TypeOK' /\ FrameInv'
  <2>1. stale' \in StaleRec
    BY <1>15 DEF StaleNext, EvidenceOf, Pair, TypeOK, FrameInv, StaleReject,
       StaleRec, Pair
  <2>2. TypeOK'
    BY <2>1, <1>15 DEF EvidenceOf, Pair, TypeOK, FrameInv, StaleReject,
       graphVars, waterVars, markerVars, redisVars
  <2>3. FrameInv'
    BY <2>1, <1>15 DEF FrameInv, StaleReject, StaleNext, EvidenceOf, Pair,
       TypeOK, StaleRec, graphVars, waterVars, markerVars, redisVars
  <2> QED
    BY <2>2, <2>3
<1>16. ASSUME NEW k \in Commitment, StaleError(k)
      PROVE  TypeOK' /\ FrameInv'
  <2>1. stale' \in StaleRec
    BY <1>16 DEF StaleNext, EvidenceOf, Pair, TypeOK, FrameInv, StaleError,
       StaleRec, Pair
  <2>2. TypeOK'
    BY <2>1, <1>16 DEF EvidenceOf, Pair, TypeOK, FrameInv, StaleError,
       graphVars, waterVars, markerVars, redisVars
  <2>3. FrameInv'
    BY <2>1, <1>16 DEF FrameInv, StaleError, StaleNext, EvidenceOf, Pair,
       TypeOK, StaleRec, graphVars, waterVars, markerVars, redisVars
  <2> QED
    BY <2>2, <2>3
<1>17. ASSUME NEW k \in Commitment, NEW m \in Marker, StaleConfirm(k, m)
      PROVE  TypeOK' /\ FrameInv'
  <2>1. stale' \in StaleRec
    BY <1>17 DEF Create, EvidenceOf, Pair, Node, TypeOK, FrameInv,
       StaleConfirm, StaleRec, Pair
  <2>2. TypeOK'
    BY <2>1, <1>17 DEF Create, EvidenceOf, Pair, Node, TypeOK, FrameInv,
       StaleConfirm, graphVars, waterVars, markerVars, redisVars
  <2>3. FrameInv'
    BY <2>1, <1>17 DEF FrameInv, StaleConfirm, Create, EvidenceOf, Pair, Node,
       TypeOK, StaleRec, graphVars, waterVars, markerVars, redisVars
  <2> QED
    BY <2>2, <2>3
<1>18. ASSUME CleanupDelete
      PROVE  TypeOK' /\ FrameInv'
  <2>2. TypeOK'
    BY <1>18 DEF Existing, TypeOK, FrameInv, CleanupDelete, graphVars,
       waterVars, markerVars, redisVars
  <2>3. FrameInv'
    BY <1>18 DEF FrameInv, CleanupDelete, Existing, TypeOK, graphVars,
       waterVars, markerVars, redisVars
  <2> QED
    BY <2>2, <2>3
<1>19. ASSUME CleanupRedis
      PROVE  TypeOK' /\ FrameInv'
  <2>2. TypeOK'
    BY <1>19 DEF TypeOK, FrameInv, CleanupRedis, graphVars, waterVars,
       markerVars, redisVars
  <2>3. FrameInv'
    BY <1>19 DEF FrameInv, CleanupRedis, TypeOK, graphVars, waterVars,
       markerVars, redisVars
  <2> QED
    BY <2>2, <2>3
<1>20. ASSUME NEW m \in Marker, Expire(m)
      PROVE  TypeOK' /\ FrameInv'
  <2>2. TypeOK'
    BY <1>20 DEF Existing, Unwritten, TypeOK, FrameInv, Expire, graphVars,
       waterVars, markerVars, redisVars
  <2>3. FrameInv'
    BY <1>20 DEF FrameInv, Expire, Existing, Unwritten, TypeOK, graphVars,
       waterVars, markerVars, redisVars
  <2> QED
    BY <2>2, <2>3
<1>21. ASSUME NEW s \in Session, NEW m \in Marker, DismissCheck(s, m)
      PROVE  TypeOK' /\ FrameInv'
  <2> DEFINE r == [call[s] EXCEPT !.pc = "update", !.marker = m]
  <2>1. r \in CallRec /\ r.pc = "update" /\ r.marker = m
    BY DEF CallRec
  <2>2. call' = [call EXCEPT ![s] = r]
    BY <1>21 DEF DismissCheck, TypeOK
  <2> HIDE DEF r
  <2>3. TypeOK'
    BY <2>1, <2>2, CallUpdate, <1>21 DEF TypeOK, DismissCheck, graphVars,
       waterVars, markerVars, redisVars
  <2>4. FrameInv'
    BY <2>1, <2>2, CallUpdate, <1>21 DEF FrameInv, DismissCheck
  <2> QED
    BY <2>3, <2>4
<1>22. ASSUME NEW s \in Session, DismissUpdate(s)
      PROVE  TypeOK' /\ FrameInv'
  <2>1. PICK r \in {NoCall, [call[s] EXCEPT !.pc = "deindex"]} :
          call' = [call EXCEPT ![s] = r]
    BY <1>22 DEF DismissUpdate, Step, TypeOK
  <2>2. r \in CallRec /\ (r.pc = "deindex" => r.marker \in Marker)
        /\ r.pc \in {"idle", "deindex"}
    BY <2>1, <1>22 DEF CallRec, DismissUpdate, FrameInv, NoCall
  <2>3. TypeOK'
    BY <2>1, <2>2, CallUpdate, <1>22 DEF TypeOK, DismissUpdate, Existing,
       graphVars, waterVars, markerVars, redisVars
  <2>4. FrameInv'
    BY <2>1, <2>2, CallUpdate, <1>22 DEF FrameInv, DismissUpdate
  <2> QED
    BY <2>3, <2>4
<1>23. ASSUME NEW s \in Session, DismissDeindex(s)
      PROVE  TypeOK' /\ FrameInv'
  <2>1. call' \in [Session -> CallRec]
    BY <1>23 DEF Step, TypeOK, FrameInv, DismissDeindex, CallRec, Pair
  <2>2. TypeOK'
    BY <2>1, <1>23 DEF TypeOK, FrameInv, DismissDeindex, graphVars, waterVars,
       markerVars, redisVars
  <2>3. FrameInv'
    BY <2>1, <1>23 DEF FrameInv, DismissDeindex, Step, TypeOK, CallRec,
       graphVars, waterVars, markerVars, redisVars
  <2> QED
    BY <2>2, <2>3
<1>24. ASSUME NEW s \in Session, DismissClear(s)
      PROVE  TypeOK' /\ FrameInv'
  <2>1. call' \in [Session -> CallRec]
    BY <1>24 DEF TypeOK, FrameInv, DismissClear, CallRec, Pair
  <2>2. TypeOK'
    BY <2>1, <1>24 DEF TypeOK, FrameInv, DismissClear, graphVars, waterVars,
       markerVars, redisVars
  <2>3. FrameInv'
    BY <2>1, <1>24 DEF FrameInv, DismissClear, NoCall, TypeOK, CallRec,
       graphVars, waterVars, markerVars, redisVars
  <2> QED
    BY <2>2, <2>3
<1>25. ASSUME NEW s \in Session, NEW nodes \in SUBSET Node, RecallLookup(s,
   nodes)
      PROVE  TypeOK' /\ FrameInv'
  <2>1. PICK found \in SUBSET Marker :
          call' = [call EXCEPT ![s].pc = "details", ![s].found = found,
                               ![s].open = Pending]
    BY <1>25 DEF RecallLookup
  <2> DEFINE r == [call[s] EXCEPT !.pc = "details", !.found = found,
                                  !.open = Pending]
  <2>2. r \in CallRec /\ r.pc = "details"
    BY DEF CallRec, Pending
  <2>3. call' = [call EXCEPT ![s] = r]
    BY <2>1 DEF TypeOK
  <2> HIDE DEF r
  <2>4. TypeOK'
    BY <2>2, <2>3, CallUpdate, <1>25 DEF TypeOK, RecallLookup, graphVars,
       waterVars, markerVars, redisVars
  <2>5. FrameInv'
    BY <2>2, <2>3, CallUpdate, <1>25 DEF FrameInv, RecallLookup
  <2> QED
    BY <2>4, <2>5
<1>26. ASSUME NEW s \in Session, RecallDetails(s)
      PROVE  TypeOK' /\ FrameInv'
  <2>1. call' \in [Session -> CallRec]
    BY <1>26 DEF Pending, TypeOK, FrameInv, RecallDetails, CallRec, Pair
  <2>2. TypeOK'
    BY <2>1, <1>26 DEF Pending, TypeOK, FrameInv, RecallDetails, graphVars,
       waterVars, markerVars, redisVars
  <2>3. FrameInv'
    BY <2>1, <1>26 DEF FrameInv, RecallDetails, Pending, NoCall, TypeOK,
       CallRec, graphVars, waterVars, markerVars, redisVars
  <2> QED
    BY <2>2, <2>3
<1>27. ASSUME NEW s \in Session, RecallReturn(s)
      PROVE  TypeOK' /\ FrameInv'
  <2>1. call' \in [Session -> CallRec]
    BY <1>27 DEF TypeOK, FrameInv, RecallReturn, CallRec, Pair
  <2>2. TypeOK'
    BY <2>1, <1>27 DEF TypeOK, FrameInv, RecallReturn, graphVars, waterVars,
       markerVars, redisVars
  <2>3. FrameInv'
    BY <2>1, <1>27 DEF FrameInv, RecallReturn, NoCall, TypeOK, CallRec,
       graphVars, waterVars, markerVars, redisVars
  <2> QED
    BY <2>2, <2>3
<1>28. ASSUME NEW s \in Session, NEW m \in Marker, RecallTouch(s, m)
      PROVE  TypeOK' /\ FrameInv'
  <2>1. PICK r \in CallRec :
          call' = [call EXCEPT ![s] = r] /\ r.pc \in {"touch", "done"}
    BY <1>28, TouchedCall
  <2>2. touches' \in [Session \X Marker -> 0 .. Threshold]
    <3>1. touches[<<s, m>>] \in 0 .. Threshold
      BY DEF TypeOK
    <3> DEFINE count == touches[<<s, m>>] + 1
               capped == IF count > Threshold THEN Threshold ELSE count
    <3>2. capped \in 0 .. Threshold
      BY <3>1
    <3>3. touches' = touches \/ touches' = [touches EXCEPT ![<<s, m>>] = capped]
      BY <1>28 DEF RecallTouch
    <3> HIDE DEF capped
    <3> QED
      BY <3>2, <3>3 DEF TypeOK
  <2>3. TypeOK'
    BY <2>1, <2>2, CallUpdate, <1>28 DEF TypeOK, RecallTouch, graphVars,
       waterVars, markerVars, redisVars
  <2>4. FrameInv'
    BY <2>1, CallUpdate, <1>28 DEF FrameInv, RecallTouch
  <2> QED
    BY <2>3, <2>4
<1>29. ASSUME NEW s \in Session, NEW m \in Marker, Decay(s, m)
      PROVE  TypeOK' /\ FrameInv'
  <2>2. TypeOK'
    BY <1>29 DEF TypeOK, FrameInv, Decay, graphVars, waterVars, markerVars,
       redisVars
  <2>3. FrameInv'
    BY <1>29 DEF FrameInv, Decay, TypeOK, graphVars, waterVars, markerVars,
       redisVars
  <2> QED
    BY <2>2, <2>3
<1>30. ASSUME NEW s \in Session, CallDies(s)
      PROVE  TypeOK' /\ FrameInv'
  <2>1. call' = [call EXCEPT ![s] = NoCall]
    BY <1>30 DEF CallDies
  <2>2. TypeOK'
    BY <2>1, CallUpdate, <1>30 DEF FrameInv, TypeOK, CallDies, graphVars,
       waterVars, markerVars, redisVars
  <2>3. FrameInv'
    BY <2>1, CallUpdate, <1>30 DEF FrameInv, CallDies, NoCall
  <2> QED
    BY <2>2, <2>3
<1> QED
  BY <1>1, <1>2, <1>3, <1>4, <1>5, <1>6, <1>7, <1>8, <1>9, <1>10, <1>11, <1>12,
     <1>13, <1>14, <1>15, <1>16, <1>17, <1>18, <1>19, <1>20, <1>21, <1>22,
     <1>23, <1>24, <1>25, <1>26, <1>27, <1>28, <1>29, <1>30
  DEF Next, DetectContradicts, DetectStaleCommitment, Dismiss, Recall

LEMMA TypeInit == Init => TypeOK /\ FrameInv
<1> SUFFICES ASSUME Init PROVE TypeOK /\ FrameInv
  OBVIOUS
<1>1. 0 \in 0 .. MaxFaults /\ 0 \in 0 .. Threshold
  BY MarkersAssumption
<1>2. TypeOK
  BY <1>1, Idles DEF Init, TypeOK
<1>3. FrameInv
  BY DEF Init, FrameInv, IdleContra, IdleStale, NoCall
<1> QED
  BY <1>2, <1>3

LEMMA TypeStutter ==
  TypeOK /\ FrameInv /\ UNCHANGED vars => TypeOK' /\ FrameInv'
  BY DEF TypeOK, FrameInv, vars, graphVars, waterVars, markerVars, redisVars

LEMMA Typed == Spec => [](TypeOK /\ FrameInv)
  BY TypeInit, TypeStep, TypeStutter, PTL DEF Spec

\* Every variable keeps its type, and the frames of the detectors, of dismiss
\* and of recall keep theirs.
THEOREM TypeCorrect == Spec => []TypeOK
  BY Typed, PTL

-----------------------------------------------------------------------------
(* EvidenceAccounted: no evidence is passed over by the watermark unseen.  *)

evidenceVars == <<linked, newer, stale, examined, missed>>

\* The detector of contradictions, cleanup, dismiss and recall do not touch
\* the evidence.
LEMMA EvidenceUntouched ==
  /\ DetectContradicts \/ CleanupDelete \/ CleanupRedis => UNCHANGED evidenceVars
  /\ \A m \in Marker : Expire(m) => UNCHANGED evidenceVars
  /\ \A s \in Session :
       /\ Dismiss(s) \/ Recall(s) \/ CallDies(s) => UNCHANGED evidenceVars
       /\ \A m \in Marker : Decay(s, m) => UNCHANGED evidenceVars
<1> USE DEF evidenceVars, graphVars, waterVars
<1>1. DetectContradicts => UNCHANGED evidenceVars
  BY DEF DetectContradicts, ContraFind, ContraIndex, ContraClear, ContraDies,
         ContraRow, ContraReject, ContraConfirm
<1>2. CleanupDelete \/ CleanupRedis => UNCHANGED evidenceVars
  BY DEF CleanupDelete, CleanupRedis
<1>3. \A m \in Marker : /\ Expire(m) => UNCHANGED evidenceVars
                       /\ \A s \in Session : Decay(s, m) => UNCHANGED evidenceVars
  BY DEF Expire, Decay
<1>4. \A s \in Session : Dismiss(s) => UNCHANGED evidenceVars
  BY DEF Dismiss, DismissCheck, DismissUpdate, DismissDeindex, DismissClear
<1>5. \A s \in Session : Recall(s) \/ CallDies(s) => UNCHANGED evidenceVars
  BY DEF Recall, RecallLookup, RecallDetails, RecallTouch, RecallReturn,
     CallDies
<1> QED
  BY <1>1, <1>2, <1>3, <1>4, <1>5


LEMMA EvidenceStep ==
  ASSUME TypeOK, FrameInv, StaleInv, EvidenceAccounted, Next
  PROVE  StaleInv' /\ EvidenceAccounted'
<1>0. /\ stale \in StaleRec /\ linked \subseteq Pair /\ newer \subseteq Claim
      /\ IsFiniteSet(Commitment)
  BY MarkersAssumption DEF TypeOK, Pair
<1>1. ASSUME NEW c \in Claim, Learn(c)
      PROVE  StaleInv' /\ EvidenceAccounted'
  BY <1>1 DEF StaleInv, EvidenceAccounted, Learn
<1>2. ASSUME NEW c \in Claim, HourPasses(c)
      PROVE  StaleInv' /\ EvidenceAccounted'
  BY <1>2 DEF StaleInv, EvidenceAccounted, HourPasses
<1>3. ASSUME NEW c \in Claim, NEW k \in Commitment, Link(c, k)
      PROVE  StaleInv' /\ EvidenceAccounted'
  <2>1. EvidenceAccounted'
    BY <1>3 DEF EvidenceAccounted, Link
  <2>2. StaleInv'
    <3>1. CASE stale.pc = "idle"
      BY <3>1, <1>3 DEF StaleInv, Link
    <3>2. CASE stale.pc # "idle"
      <4>1. /\ stale'.pc = stale.pc /\ stale'.rows = stale.rows
            /\ stale'.evidence = stale.evidence
            /\ stale'.lost = stale.lost \cup {<<c, k>>}
        BY <3>2, <1>3, <1>0 DEF Link, StaleRec
      <4> QED
        BY <4>1, <3>2, <1>3 DEF StaleInv, Link
    <3> QED
      BY <3>1, <3>2
  <2> QED
    BY <2>1, <2>2
<1>4. CASE StaleFind
  <2> DEFINE rows == {p[2] : p \in NewEvidence}
             run(r) == [stale EXCEPT !.pc = "row", !.rows = r,
                          !.evidence = {p \in NewEvidence : p[2] \in r},
                          !.lost = {p \in NewEvidence : p[2] \notin r}]
  <2>1. PICK r \in Limited(rows) :
          stale' = IF r = {} THEN [stale EXCEPT !.pc = "watermark"] ELSE run(r)
    BY <1>4 DEF StaleFind
  <2>2. rows \subseteq Commitment
    BY <1>0 DEF NewEvidence, Pair
  <2>3. r \subseteq rows /\ (r = {} => rows = {})
    BY <2>2, <1>0, LimitedRows, FS_Subset
  <2>4. \A p \in linked : p \notin NewEvidence => p \in examined \cup missed
    BY DEF EvidenceAccounted, NewEvidence
  <2>5. UNCHANGED <<linked, newer, examined, missed>>
    BY <1>4 DEF StaleFind, graphVars, waterVars
  <2>6. StaleInv'
    <3>1. CASE r = {}
      <4>1. NewEvidence = {} /\ stale'.pc = "watermark" /\ stale'.rows = stale.rows
        BY <3>1, <2>1, <2>3, <1>0 DEF StaleRec
      <4>2. stale.rows = {}
        BY <1>4 DEF StaleInv, StaleFind
      <4> QED
        BY <4>1, <4>2, <2>4, <2>5 DEF StaleInv
    <3>2. CASE r # {}
      <4>1. /\ stale'.pc = "row" /\ stale'.rows = r
            /\ stale'.evidence = {p \in NewEvidence : p[2] \in r}
            /\ stale'.lost = {p \in NewEvidence : p[2] \notin r}
        BY <3>2, <2>1, <1>0 DEF StaleRec
      <4> QED
        BY <4>1, <2>4, <2>5 DEF StaleInv
    <3> QED
      BY <3>1, <3>2
  <2> QED
    BY <2>5, <2>6 DEF EvidenceAccounted
<1>5. ASSUME NEW k \in Commitment, k \in stale.rows, stale.pc = "row",
             stale'.rows = stale.rows \ {k}, stale'.evidence = stale.evidence,
             stale'.pc \in {"row", "index", "watermark"},
             stale'.pc = "watermark" => stale.rows = {k},
             stale.lost \subseteq stale'.lost,
             examined \subseteq examined',
             EvidenceOf(k) \subseteq examined' \cup stale'.lost,
             UNCHANGED <<linked, newer, missed>>
      PROVE  StaleInv' /\ EvidenceAccounted'
  <2>1. StaleInv'
    BY <1>5 DEF StaleInv, EvidenceOf
  <2> QED
    BY <2>1, <1>5 DEF EvidenceAccounted
<1>6. ASSUME NEW k \in Commitment, StaleReject(k)
      PROVE  StaleInv' /\ EvidenceAccounted'
  <2>1. /\ stale'.rows = stale.rows \ {k} /\ stale'.evidence = stale.evidence
        /\ stale'.lost = stale.lost
        /\ stale'.pc = IF stale.rows = {k} THEN "watermark" ELSE "row"
    BY <1>0, <1>6 DEF StaleReject, StaleNext, StaleRec
  <2> QED
    BY <2>1, <1>5, <1>6 DEF StaleReject, graphVars
<1>7. ASSUME NEW k \in Commitment, StaleError(k)
      PROVE  StaleInv' /\ EvidenceAccounted'
  <2>1. /\ stale'.rows = stale.rows \ {k} /\ stale'.evidence = stale.evidence
        /\ stale'.lost = stale.lost \cup EvidenceOf(k)
        /\ stale'.pc = IF stale.rows = {k} THEN "watermark" ELSE "row"
    BY <1>0, <1>7 DEF StaleError, StaleNext, StaleRec
  <2> QED
    BY <2>1, <1>5, <1>7 DEF StaleError, graphVars, waterVars
<1>8. ASSUME NEW k \in Commitment, NEW m \in Marker, StaleConfirm(k, m)
      PROVE  StaleInv' /\ EvidenceAccounted'
  <2>1. /\ stale'.rows = stale.rows \ {k} /\ stale'.evidence = stale.evidence
        /\ stale'.lost = stale.lost /\ stale'.pc = "index"
    BY <1>0, <1>8 DEF StaleConfirm, StaleRec
  <2> QED
    BY <2>1, <1>5, <1>8 DEF StaleConfirm, graphVars
<1>9. CASE StaleIndex
  <2>1. /\ stale'.rows = stale.rows /\ stale'.evidence = stale.evidence
        /\ stale'.lost = stale.lost
        /\ stale'.pc = IF stale.rows = {} THEN "watermark" ELSE "row"
    BY <1>0, <1>9 DEF StaleIndex, StaleRec
  <2> QED
    BY <2>1, <1>9 DEF StaleIndex, StaleInv, EvidenceAccounted, graphVars,
       waterVars
<1>10. CASE StaleWatermark
  <2>1. \A p \in linked : p \in examined \cup missed \cup stale.lost
    BY <1>10 DEF StaleWatermark, StaleInv
  <2>2. stale'.pc = "idle" /\ stale'.rows = {}
    BY <1>10 DEF StaleWatermark, IdleStale
  <2> QED
    BY <2>1, <2>2, <1>10 DEF StaleWatermark, StaleInv, EvidenceAccounted,
       graphVars
<1>11. CASE StaleDies
  <2>1. stale'.pc = "idle" /\ stale'.rows = {}
    BY <1>11 DEF StaleDies, IdleStale
  <2> QED
    BY <2>1, <1>11 DEF StaleDies, StaleInv, EvidenceAccounted, graphVars,
       waterVars
<1>12. ASSUME UNCHANGED evidenceVars
       PROVE  StaleInv' /\ EvidenceAccounted'
  BY <1>12 DEF evidenceVars, StaleInv, EvidenceAccounted
<1>13. CASE \E c \in Claim :
              Learn(c) \/ HourPasses(c) \/ \E k \in Commitment : Link(c, k)
  BY <1>1, <1>2, <1>3, <1>13
<1>14. CASE DetectStaleCommitment
  BY <1>4, <1>6, <1>7, <1>8, <1>9, <1>10, <1>11, <1>14 DEF
     DetectStaleCommitment
<1>15. DetectContradicts \/ CleanupDelete \/ CleanupRedis
         \/ (\E m \in Marker : Expire(m)) => UNCHANGED evidenceVars
  BY EvidenceUntouched
<1>16. ASSUME NEW s \in Session
       PROVE  Dismiss(s) \/ Recall(s) \/ CallDies(s)
                \/ (\E m \in Marker : Decay(s, m)) => UNCHANGED evidenceVars
  BY EvidenceUntouched
<1> QED
  BY <1>12, <1>13, <1>14, <1>15, <1>16 DEF Next

\* Evidence newer than the watermark is a row of the next run, or has been
\* judged, or was missed on a path the model names; detect_stale_commitment
\* loses nothing by dying.
THEOREM EvidenceSafe == Spec => []EvidenceAccounted
<1> DEFINE Inv == StaleInv /\ EvidenceAccounted
<1>1. Init => Inv
  BY DEF Init, StaleInv, EvidenceAccounted, IdleStale
<1>2. TypeOK /\ FrameInv /\ Inv /\ [Next]_vars => Inv'
  <2>1. CASE UNCHANGED vars
    BY <2>1 DEF StaleInv, EvidenceAccounted, vars, graphVars, waterVars
  <2> QED
    BY <2>1, EvidenceStep
<1> QED
  BY <1>1, <1>2, Typed, PTL DEF Spec

-----------------------------------------------------------------------------
(* IndexAccounted: graph and index agree.                                  *)

\* A marker that exists has existed ever since, and one that is dismissed or
\* deleted is never pending again.
LEMMA StatusStep ==
  ASSUME TypeOK, Next, NEW m \in Marker
  PROVE  /\ status[m] # "none" => status'[m] # "none"
         /\ status[m] \notin {"none", "pending"} =>
              status'[m] \notin {"none", "pending"}
<1> DEFINE Kept == /\ status[m] # "none" => status'[m] # "none"
                   /\ status[m] \notin {"none", "pending"} =>
                        status'[m] \notin {"none", "pending"}
<1> USE DEF markerVars
<1>1. ASSUME NEW c \in Claim, Learn(c) \/ HourPasses(c) PROVE Kept
  BY <1>1 DEF Learn, HourPasses
<1>2. ASSUME NEW c \in Claim, NEW k \in Commitment, Link(c, k) PROVE Kept
  BY <1>2 DEF Link
<1>3. ASSUME NEW n \in Marker, NEW nodes, Create(n, nodes) PROVE Kept
  BY <1>3 DEF Create, TypeOK
<1>4. CASE DetectContradicts
  BY <1>3, <1>4 DEF DetectContradicts, ContraFind, ContraIndex, ContraClear,
     ContraDies, ContraRow, ContraReject, ContraConfirm
<1>5. CASE DetectStaleCommitment
  BY <1>3, <1>5 DEF DetectStaleCommitment, StaleFind, StaleIndex,
     StaleWatermark, StaleDies, StaleReject, StaleError, StaleConfirm
<1>6. CASE CleanupDelete \/ CleanupRedis \/ \E n \in Marker : Expire(n)
  BY <1>6 DEF CleanupDelete, CleanupRedis, Expire, TypeOK
<1>7. ASSUME NEW s \in Session, Dismiss(s) PROVE Kept
  BY <1>7 DEF Dismiss, DismissCheck, DismissUpdate, DismissDeindex,
     DismissClear, Existing, TypeOK
<1>8. ASSUME NEW s \in Session,
             Recall(s) \/ CallDies(s) \/ \E n \in Marker : Decay(s, n)
      PROVE  Kept
  BY <1>8 DEF Recall, RecallLookup, RecallDetails, RecallTouch, RecallReturn,
     CallDies, Decay
<1> QED
  BY <1>1, <1>2, <1>4, <1>5, <1>6, <1>7, <1>8 DEF Next

\* What is held or indexed has been created; what cleanup and dismiss are
\* about to take out of the index is not pending, and never will be again.
MarkerInv ==
  /\ \A m \in Unwritten : status[m] # "none"
  /\ \A e \in index : status[e[2]] # "none"
  /\ \A m \in cleanup : status[m] \notin {"none", "pending"}
  /\ \A s \in Session :
       call[s].pc = "deindex" => status[call[s].marker] \notin {"none", "pending"}

IndexInv == MarkerInv /\ IndexAccounted

\* A step that leaves graph, index and the detectors' markers alone, and only
\* moves calls that do not deindex, keeps the agreement.
LEMMA IndexUntouched ==
  ASSUME IndexInv,
         UNCHANGED <<status, about, index, cleanup, unindexed, stray>>,
         contra'.marker = contra.marker, stale'.marker = stale.marker,
         \A s \in Session :
           call'[s] = call[s] \/ (call[s].pc # "deindex" /\ call'[s].pc # "deindex")
  PROVE  IndexInv'
<1>1. Pending' = Pending /\ Unwritten' = Unwritten
  BY DEF Pending, Unwritten
<1>2. \A s \in Session : /\ (call'[s].pc = "deindex") = (call[s].pc = "deindex")
                         /\ call[s].pc = "deindex" => call'[s] = call[s]
  OBVIOUS
<1>3. \A m : Leaving(m)' <=> Leaving(m)
  BY <1>2 DEF Leaving
<1>4. MarkerInv'
  BY <1>1, <1>2 DEF IndexInv, MarkerInv
<1>5. IndexAccounted'
  BY <1>1, <1>3 DEF IndexInv, IndexAccounted
<1> QED
  BY <1>4, <1>5 DEF IndexInv

\* A detector creates a marker and holds it.
LEMMA IndexCreate ==
  ASSUME TypeOK, FrameInv, IndexInv, NEW m \in Marker, NEW nodes,
         Create(m, nodes),
         Unwritten' = Unwritten \cup {m},
         UNCHANGED <<index, cleanup, call, unindexed, stray>>
  PROVE  IndexInv'
<1>1. /\ status[m] = "none" /\ status' = [status EXCEPT ![m] = "pending"]
      /\ about' = [about EXCEPT ![m] = nodes]
  BY DEF Create
<1>2. Pending' = Pending \cup {m} /\ status'[m] = "pending"
  BY <1>1 DEF Pending, TypeOK
<1>3. \A n \in Marker \ {m} : status'[n] = status[n] /\ about'[n] = about[n]
  BY <1>1 DEF TypeOK
<1>4. \A e \in index : e[2] \in Marker
  BY DEF TypeOK
<1>5. Unwritten \subseteq Marker /\ cleanup \subseteq Marker
  BY FrameTypes DEF Unwritten, TypeOK
<1>6. \A s \in Session : call[s].pc = "deindex" => call[s].marker \in Marker
  BY DEF FrameInv
<1>7. MarkerInv'
  <2>1. \A n \in Unwritten' : status'[n] # "none"
    BY <1>2, <1>3, <1>5 DEF IndexInv, MarkerInv
  <2>2. \A e \in index' : status'[e[2]] # "none"
    BY <1>2, <1>3, <1>4 DEF IndexInv, MarkerInv
  <2>3. \A n \in cleanup' : status'[n] \notin {"none", "pending"}
    BY <1>1, <1>3, <1>5 DEF IndexInv, MarkerInv
  <2>4. \A s \in Session : call'[s].pc = "deindex" =>
          status'[call'[s].marker] \notin {"none", "pending"}
    BY <1>1, <1>3, <1>6 DEF IndexInv, MarkerInv
  <2> QED
    BY <2>1, <2>2, <2>3, <2>4 DEF MarkerInv
<1>8. IndexAccounted'
  <2>1. ASSUME NEW n \in Pending' \ (unindexed' \cup Unwritten')
        PROVE  about'[n] \X {n} \subseteq index'
    BY <1>2, <1>3, <2>1 DEF IndexInv, IndexAccounted, Pending
  <2>2. \A n : Leaving(n)' <=> Leaving(n)
    BY DEF Leaving
  <2> QED
    BY <1>2, <2>1, <2>2 DEF IndexInv, IndexAccounted
<1> QED
  BY <1>7, <1>8 DEF IndexInv

\* A detector lets go of the marker it has indexed, or failed to.
LEMMA IndexWritten ==
  ASSUME TypeOK, IndexInv, NEW m \in Unwritten, m \in Marker, IndexMarker(m),
         Unwritten \ {m} \subseteq Unwritten', Unwritten' \subseteq Unwritten,
         UNCHANGED <<status, about, cleanup, call>>
  PROVE  IndexInv'
<1>1. Pending' = Pending /\ (\A n : Leaving(n)' <=> Leaving(n))
  BY DEF Pending, Leaving
<1>2. \A e \in index' \ index : e[2] = m
  BY DEF IndexMarker
<1>3. index \subseteq index' /\ unindexed \subseteq unindexed'
      /\ stray \subseteq stray' /\ (m \in Pending \/ m \in stray')
      /\ (m \in unindexed' \/ about[m] \X {m} \subseteq index')
  BY DEF IndexMarker
<1>4. MarkerInv'
  BY <1>2 DEF IndexInv, MarkerInv
<1>5. IndexAccounted'
  BY <1>1, <1>2, <1>3 DEF IndexInv, IndexAccounted
<1> QED
  BY <1>4, <1>5 DEF IndexInv

\* A detector dies with the marker it holds.
LEMMA IndexLost ==
  ASSUME IndexInv, Unwritten' \subseteq Unwritten,
         unindexed \cup (Unwritten \ Unwritten') \subseteq unindexed',
         UNCHANGED <<status, about, index, cleanup, call, stray>>
  PROVE  IndexInv'
<1>1. Pending' = Pending /\ (\A n : Leaving(n)' <=> Leaving(n))
  BY DEF Pending, Leaving
<1>2. MarkerInv'
  BY DEF IndexInv, MarkerInv
<1>3. IndexAccounted'
  BY <1>1 DEF IndexInv, IndexAccounted
<1> QED
  BY <1>2, <1>3 DEF IndexInv

\* Claims, and what the detectors do without a marker.
LEMMA IndexDetectors ==
  ASSUME TypeOK, FrameInv, IndexInv,
         \/ \E c \in Claim :
              Learn(c) \/ HourPasses(c) \/ \E k \in Commitment : Link(c, k)
         \/ DetectContradicts
         \/ DetectStaleCommitment
  PROVE  IndexInv'
<1> USE DEF graphVars, waterVars, markerVars, redisVars
<1>0. contra \in ContraRec /\ stale \in StaleRec
  BY DEF TypeOK
<1>1. ASSUME NEW c \in Claim, Learn(c) \/ HourPasses(c) PROVE IndexInv'
  BY <1>1, IndexUntouched DEF Learn, HourPasses
<1>2. ASSUME NEW c \in Claim, NEW k \in Commitment, Link(c, k) PROVE IndexInv'
  <2>1. stale'.marker = stale.marker
    BY <1>0, <1>2 DEF Link, StaleRec
  <2> QED
    BY <2>1, <1>2, IndexUntouched DEF Link
<1>3. ASSUME NEW c \in Claim, ContraRow(c) \/ ContraReject(c)
      PROVE  IndexInv'
  <2>1. contra'.marker = contra.marker
    BY <1>0, <1>3 DEF ContraRow, ContraReject, ContraRec
  <2> QED
    BY <2>1, <1>3, IndexUntouched DEF ContraRow, ContraReject
<1>4. CASE ContraFind
  <2>1. contra'.marker = contra.marker
    BY <1>0, <1>4 DEF ContraFind, ContraRec
  <2> QED
    BY <2>1, <1>4, IndexUntouched DEF ContraFind
<1>5. CASE ContraClear
  <2>1. contra'.marker = contra.marker
    BY <1>0, <1>5 DEF ContraClear, ContraRec, IdleContra, FrameInv
  <2> QED
    BY <2>1, <1>5, IndexUntouched DEF ContraClear
<1>6. ASSUME NEW c \in Claim, NEW m \in Marker, ContraConfirm(c, m)
      PROVE  IndexInv'
  <2>1. contra'.marker = m /\ contra.marker = NoMarker
    BY <1>0, <1>6 DEF ContraConfirm, ContraRec, FrameInv
  <2>2. Unwritten' = Unwritten \cup {m}
    BY <2>1, <1>6, NoMarkerOut DEF ContraConfirm, Unwritten
  <2> QED
    BY <2>2, <1>6, IndexCreate DEF ContraConfirm
<1>7. CASE ContraIndex
  <2>1. contra.marker \in Marker /\ contra'.marker = NoMarker
    BY <1>0, <1>7, FrameTypes DEF ContraIndex, ContraRec, FrameInv
  <2> QED
    BY <2>1, <1>7, IndexWritten, NoMarkerOut DEF ContraIndex, Unwritten
<1>8. CASE ContraDies
  <2>1. contra'.marker = NoMarker
    BY <1>8 DEF ContraDies, IdleContra
  <2> QED
    BY <2>1, <1>8, IndexLost DEF ContraDies, Unwritten
<1>9. CASE StaleFind
  <2>1. PICK r : stale' = IF r = {} THEN [stale EXCEPT !.pc = "watermark"]
                ELSE [stale EXCEPT !.pc = "row", !.rows = r,
                       !.evidence = {p \in NewEvidence : p[2] \in r},
                       !.lost = {p \in NewEvidence : p[2] \notin r}]
    BY <1>9 DEF StaleFind
  <2>2. stale'.marker = stale.marker
    BY <2>1, <1>0 DEF StaleRec
  <2> QED
    BY <2>2, <1>9, IndexUntouched DEF StaleFind
<1>10. ASSUME NEW k \in Commitment, StaleReject(k) \/ StaleError(k)
       PROVE  IndexInv'
  <2>1. stale'.marker = stale.marker
    BY <1>0, <1>10 DEF StaleReject, StaleError, StaleNext, StaleRec
  <2> QED
    BY <2>1, <1>10, IndexUntouched DEF StaleReject, StaleError
<1>11. CASE StaleWatermark
  <2>1. stale'.marker = stale.marker
    BY <1>0, <1>11 DEF StaleWatermark, StaleRec, IdleStale, FrameInv
  <2> QED
    BY <2>1, <1>11, IndexUntouched DEF StaleWatermark
<1>12. ASSUME NEW k \in Commitment, NEW m \in Marker, StaleConfirm(k, m)
       PROVE  IndexInv'
  <2>1. stale'.marker = m /\ stale.marker = NoMarker
    BY <1>0, <1>12 DEF StaleConfirm, StaleRec, FrameInv
  <2>2. Unwritten' = Unwritten \cup {m}
    BY <2>1, <1>12, NoMarkerOut DEF StaleConfirm, Unwritten
  <2> QED
    BY <2>2, <1>12, IndexCreate DEF StaleConfirm
<1>13. CASE StaleIndex
  <2>1. stale.marker \in Marker /\ stale'.marker = NoMarker
    BY <1>0, <1>13, FrameTypes DEF StaleIndex, StaleRec, FrameInv
  <2> QED
    BY <2>1, <1>13, IndexWritten, NoMarkerOut DEF StaleIndex, Unwritten
<1>14. CASE StaleDies
  <2>1. stale'.marker = NoMarker
    BY <1>14 DEF StaleDies, IdleStale
  <2> QED
    BY <2>1, <1>14, IndexLost DEF StaleDies, Unwritten
<1>15. CASE DetectContradicts
  BY <1>3, <1>4, <1>5, <1>6, <1>7, <1>8, <1>15 DEF DetectContradicts
<1>16. CASE DetectStaleCommitment
  BY <1>9, <1>10, <1>11, <1>12, <1>13, <1>14, <1>16 DEF DetectStaleCommitment
<1> QED
  BY <1>1, <1>2, <1>15, <1>16

\* marker_cleanup.
LEMMA IndexCleanup ==
  ASSUME TypeOK, FrameInv, IndexInv,
         CleanupDelete \/ CleanupRedis \/ \E m \in Marker : Expire(m)
  PROVE  IndexInv'
<1> USE DEF graphVars, waterVars, markerVars, redisVars
<1>1. CASE CleanupDelete
  <2>1. /\ status' = [m \in Marker |-> IF m \in expired THEN "deleted" ELSE status[m]]
        /\ cleanup = {} /\ cleanup' = expired \cap Existing
        /\ UNCHANGED <<about, index, unindexed, stray, contra, stale, call>>
    BY <1>1 DEF CleanupDelete
  <2>2. Pending' = Pending \ expired /\ Unwritten' = Unwritten
    BY <2>1 DEF Pending, Unwritten
  <2>3. /\ Unwritten \subseteq Marker /\ \A e \in index : e[2] \in Marker
        /\ \A s \in Session : call[s].pc = "deindex" => call[s].marker \in Marker
    BY FrameTypes DEF Unwritten, TypeOK, FrameInv
  <2>4. MarkerInv'
    BY <2>1, <2>2, <2>3 DEF IndexInv, MarkerInv, Existing
  <2>5. \A m : m \in Pending \cap expired \/ Leaving(m) => Leaving(m)'
    BY <2>1 DEF Leaving, Pending, Existing
  <2>6. IndexAccounted'
    BY <2>1, <2>2, <2>5 DEF IndexInv, IndexAccounted
  <2> QED
    BY <2>4, <2>6 DEF IndexInv
<1>2. CASE CleanupRedis
  <2>1. /\ UNCHANGED <<status, about, unindexed, contra, stale, call>>
        /\ cleanup' = {} /\ index' \subseteq index /\ stray \subseteq stray'
        /\ \A e \in index \ index' : e[2] \in cleanup
        /\ \A e \in index' : e[2] \in cleanup => e[2] \in stray'
    BY <1>2 DEF CleanupRedis
  <2>2. Pending' = Pending /\ Unwritten' = Unwritten
    BY <2>1 DEF Pending, Unwritten
  <2>3. \A m \in cleanup : m \notin Pending
    BY DEF IndexInv, MarkerInv, Pending
  <2>4. MarkerInv'
    BY <2>1, <2>2 DEF IndexInv, MarkerInv
  <2>5. \A m : Leaving(m) => Leaving(m)' \/ m \in cleanup
    BY <2>1 DEF Leaving
  <2>6. IndexAccounted'
    <3>1. ASSUME NEW m \in Pending' \ (unindexed' \cup Unwritten')
          PROVE  about'[m] \X {m} \subseteq index'
      BY <2>1, <2>2, <2>3, <3>1 DEF IndexInv, IndexAccounted
    <3>2. \A e \in index' : e[2] \in (Pending \cup stray)' \/ Leaving(e[2])'
      BY <2>1, <2>2, <2>5 DEF IndexInv, IndexAccounted
    <3> QED
      BY <3>1, <3>2 DEF IndexAccounted
  <2> QED
    BY <2>4, <2>6 DEF IndexInv
<1>3. ASSUME NEW m \in Marker, Expire(m) PROVE IndexInv'
  BY <1>3, IndexUntouched DEF Expire
<1> QED
  BY <1>1, <1>2, <1>3

\* dismiss, recall and the ends of their calls.
LEMMA IndexCalls ==
  ASSUME TypeOK, FrameInv, IndexInv, NEW s \in Session,
         \/ Dismiss(s) \/ Recall(s) \/ CallDies(s)
         \/ \E m \in Marker : Decay(s, m)
  PROVE  IndexInv'
<1> USE DEF graphVars, waterVars, markerVars, redisVars
<1>0. call \in [Session -> CallRec] /\ call[s] \in CallRec
  BY DEF TypeOK
<1>1. ASSUME NEW m \in Marker, DismissCheck(s, m) PROVE IndexInv'
  BY <1>0, <1>1, IndexUntouched DEF DismissCheck, CallRec
<1>2. CASE DismissUpdate(s)
  <2> DEFINE m == call[s].marker
  <2>0. m \in Marker
    BY <1>2 DEF DismissUpdate, FrameInv
  <2>1. CASE m \in Existing
    <3>1. /\ status' = [status EXCEPT ![m] = "dismissed"]
          /\ call' = [call EXCEPT ![s].pc = "deindex"]
          /\ UNCHANGED <<about, index, unindexed, stray, contra, stale, cleanup>>
      BY <1>2, <2>1 DEF DismissUpdate, Step
    <3>2. /\ call'[s].pc = "deindex" /\ call'[s].marker = m
          /\ \A t \in Session \ {s} : call'[t] = call[t]
      BY <1>0, <3>1 DEF CallRec
    <3>3. /\ status'[m] = "dismissed" /\ status[m] # "none"
          /\ \A n \in Marker \ {m} : status'[n] = status[n]
      BY <3>1, <2>0, <2>1 DEF TypeOK, Existing
    <3>4. Pending' = Pending \ {m} /\ Unwritten' = Unwritten
      BY <3>1, <3>3, <2>0 DEF Pending, Unwritten
    <3>5. /\ Unwritten \subseteq Marker /\ cleanup \subseteq Marker
          /\ \A e \in index : e[2] \in Marker
          /\ \A t \in Session : call[t].pc = "deindex" => call[t].marker \in Marker
      BY FrameTypes DEF Unwritten, TypeOK, FrameInv
    <3>6. MarkerInv'
      BY <3>1, <3>2, <3>3, <3>4, <3>5 DEF IndexInv, MarkerInv
    <3>7. call[s].pc # "deindex"
      BY <1>2 DEF DismissUpdate
    <3>8. \A n : Leaving(n) \/ n = m => Leaving(n)'
      BY <3>1, <3>2, <3>7 DEF Leaving
    <3>9. IndexAccounted'
      BY <3>1, <3>4, <3>8 DEF IndexInv, IndexAccounted
    <3> HIDE DEF m
    <3> QED
      BY <3>6, <3>9 DEF IndexInv
  <2>2. CASE m \notin Existing
    <3>1. call' = [call EXCEPT ![s] = NoCall] /\ UNCHANGED status
      BY <1>2, <2>2 DEF DismissUpdate
    <3> QED
      BY <1>0, <3>1, <1>2, IndexUntouched DEF DismissUpdate, NoCall
  <2> QED
    BY <2>1, <2>2
<1>3. CASE DismissDeindex(s)
  <2> DEFINE m == call[s].marker
  <2>1. /\ call[s].pc = "deindex" /\ call' = [call EXCEPT ![s].pc = "clear"]
        /\ UNCHANGED <<status, about, unindexed, contra, stale, cleanup>>
        /\ index' \subseteq index /\ stray \subseteq stray'
        /\ \A e \in index \ index' : e[2] = m
        /\ \A e \in index' : e[2] = m => m \in stray'
    BY <1>3 DEF DismissDeindex, Step
  <2>2. call'[s].pc = "clear" /\ \A t \in Session \ {s} : call'[t] = call[t]
    BY <1>0, <2>1 DEF CallRec
  <2>3. Pending' = Pending /\ Unwritten' = Unwritten
    BY <2>1 DEF Pending, Unwritten
  <2>4. m \notin Pending
    BY <2>1 DEF IndexInv, MarkerInv, Pending
  <2>5. \A n : Leaving(n) => Leaving(n)' \/ n = m
    BY <2>1, <2>2 DEF Leaving
  <2>6. MarkerInv'
    BY <2>1, <2>2, <2>3 DEF IndexInv, MarkerInv
  <2> HIDE DEF m
  <2>7. IndexAccounted'
    <3>1. ASSUME NEW n \in Pending' \ (unindexed' \cup Unwritten')
          PROVE  about'[n] \X {n} \subseteq index'
      BY <2>1, <2>3, <2>4, <3>1 DEF IndexInv, IndexAccounted
    <3>2. \A e \in index' : e[2] \in (Pending \cup stray)' \/ Leaving(e[2])'
      BY <2>1, <2>3, <2>5 DEF IndexInv, IndexAccounted
    <3> QED
      BY <3>1, <3>2 DEF IndexAccounted
  <2> QED
    BY <2>6, <2>7 DEF IndexInv
<1>4. CASE DismissClear(s)
  BY <1>0, <1>4, IndexUntouched DEF DismissClear, NoCall
<1>5. ASSUME NEW nodes \in SUBSET Node, RecallLookup(s, nodes) PROVE IndexInv'
  <2>1. \A t \in Session :
          call'[t] = call[t] \/ (call[t].pc # "deindex" /\ call'[t].pc # "deindex")
    BY <1>0, <1>5 DEF RecallLookup, CallRec
  <2> QED
    BY <2>1, <1>5, IndexUntouched DEF RecallLookup
<1>6. CASE RecallDetails(s)
  BY <1>0, <1>6, IndexUntouched DEF RecallDetails, NoCall, CallRec
<1>7. ASSUME NEW m \in Marker, RecallTouch(s, m) PROVE IndexInv'
  <2>1. \A t \in Session :
          call'[t] = call[t] \/ (call[t].pc # "deindex" /\ call'[t].pc # "deindex")
    BY <1>0, <1>7, TouchedCall DEF RecallTouch
  <2> QED
    BY <2>1, <1>7, IndexUntouched DEF RecallTouch
<1>8. CASE RecallReturn(s)
  BY <1>0, <1>8, IndexUntouched DEF RecallReturn, NoCall
<1>9. ASSUME NEW m \in Marker, Decay(s, m) PROVE IndexInv'
  BY <1>9, IndexUntouched DEF Decay
<1>10. CASE CallDies(s)
  <2>1. /\ call' = [call EXCEPT ![s] = NoCall] /\ stray \subseteq stray'
        /\ call[s].pc = "deindex" => call[s].marker \in stray'
        /\ UNCHANGED <<status, about, index, unindexed, contra, stale, cleanup>>
    BY <1>10 DEF CallDies
  <2>2. call'[s].pc = "idle" /\ \A t \in Session \ {s} : call'[t] = call[t]
    BY <1>0, <2>1 DEF NoCall
  <2>3. Pending' = Pending /\ Unwritten' = Unwritten
    BY <2>1 DEF Pending, Unwritten
  <2>4. MarkerInv'
    BY <2>1, <2>2, <2>3 DEF IndexInv, MarkerInv
  <2>5. \A n : Leaving(n) => Leaving(n)' \/ n \in stray'
    BY <2>1, <2>2 DEF Leaving
  <2>6. IndexAccounted'
    BY <2>1, <2>3, <2>5 DEF IndexInv, IndexAccounted
  <2> QED
    BY <2>4, <2>6 DEF IndexInv
<1> QED
  BY <1>1, <1>2, <1>3, <1>4, <1>5, <1>6, <1>7, <1>8, <1>9, <1>10 DEF Dismiss,
     Recall

LEMMA IndexInit == Init => IndexInv
  BY DEF Init, IndexInv, MarkerInv, IndexAccounted, Unwritten, Pending,
     IdleContra,
         IdleStale, NoCall, NoMarker

LEMMA IndexStep ==
  ASSUME TypeOK, FrameInv, IndexInv, [Next]_vars
  PROVE  IndexInv'
<1>1. CASE UNCHANGED vars
  BY <1>1, IndexUntouched DEF vars, markerVars, redisVars
<1>2. CASE Next
  BY <1>2, IndexDetectors, IndexCleanup, IndexCalls DEF Next
<1> QED
  BY <1>1, <1>2

\* A pending marker is in the sets of all its nodes, and the sets hold nothing
\* else, except on the failures the model names.
THEOREM IndexSafe == Spec => []IndexAccounted
<1>1. TypeOK /\ FrameInv /\ IndexInv /\ [Next]_vars => IndexInv'
  BY IndexStep
<1> QED
  BY <1>1, IndexInit, Typed, PTL DEF Spec, IndexInv

-----------------------------------------------------------------------------
(* BlockedByPending: only a marker that was pending withholds results.     *)

\* A frame of recall, with what it has read, while the markers have status st.
RecallOK(f, st) ==
  /\ f.pc \in {"idle", "details"} => ~f.hard
  /\ f.pc = "details" =>
       \A m \in f.found : /\ m \in Marker /\ st[m] # "none"
                          /\ m \in f.open \/ st[m] # "pending"
  /\ f.pc = "touch" => f.found \subseteq f.open
  /\ f.hard => f.marker \in f.open

RecallInv == \A s \in Session : RecallOK(call[s], status)

\* Other processes change the status of markers only in ways that leave a
\* frame as good as it was.
LEMMA RecallKept ==
  ASSUME TypeOK, Next, NEW f, RecallOK(f, status)
  PROVE  RecallOK(f, status')
<1>1. \A m \in Marker :
        /\ status[m] # "none" => status'[m] # "none"
        /\ status[m] \notin {"none", "pending"} => status'[m] # "pending"
  BY StatusStep
<1> QED
  BY <1>1 DEF RecallOK

\* The call of a session is its own.
LEMMA OwnCall ==
  ASSUME TypeOK, Next, NEW s \in Session, call'[s] # call[s]
  PROVE  Dismiss(s) \/ Recall(s) \/ CallDies(s)
<1>0. call \in [Session -> CallRec]
  BY DEF TypeOK
<1>1. ASSUME NEW c \in Claim,
             Learn(c) \/ HourPasses(c) \/ \E k \in Commitment : Link(c, k)
      PROVE  FALSE
  BY <1>1 DEF Learn, HourPasses, Link
<1>2. ~DetectContradicts
  BY DEF DetectContradicts, ContraFind, ContraIndex, ContraClear, ContraDies,
         ContraRow, ContraReject, ContraConfirm
<1>3. ~DetectStaleCommitment
  BY DEF DetectStaleCommitment, StaleFind, StaleIndex, StaleWatermark,
     StaleDies,
         StaleReject, StaleError, StaleConfirm
<1>4. ~(CleanupDelete \/ CleanupRedis \/ \E m \in Marker : Expire(m))
  BY DEF CleanupDelete, CleanupRedis, Expire
<1>5. \A t \in Session : ~\E m \in Marker : Decay(t, m)
  BY DEF Decay
<1>6. ASSUME NEW t \in Session \ {s}, Dismiss(t) PROVE FALSE
  BY <1>0, <1>6 DEF Dismiss, DismissCheck, DismissUpdate, DismissDeindex,
     DismissClear, Step
<1>7. ASSUME NEW t \in Session \ {s}, Recall(t) PROVE FALSE
  <2>1. ASSUME NEW nodes, RecallLookup(t, nodes) PROVE FALSE
    BY <1>0, <2>1 DEF RecallLookup
  <2>2. ASSUME NEW m \in Marker, RecallTouch(t, m) PROVE FALSE
    BY <1>0, <2>2, TouchedCall
  <2>3. ~RecallDetails(t) /\ ~RecallReturn(t)
    BY <1>0 DEF RecallDetails, RecallReturn
  <2> QED
    BY <1>7, <2>1, <2>2, <2>3 DEF Recall
<1>8. ASSUME NEW t \in Session \ {s}, CallDies(t) PROVE FALSE
  BY <1>0, <1>8 DEF CallDies
<1> QED
  BY <1>1, <1>2, <1>3, <1>4, <1>5, <1>6, <1>7, <1>8 DEF Next

LEMMA RecallStep ==
  ASSUME TypeOK, FrameInv, IndexInv, RecallInv, Next
  PROVE  RecallInv'
<1> SUFFICES ASSUME NEW s \in Session PROVE RecallOK(call'[s], status')
  BY DEF RecallInv
<1> DEFINE f == call[s]
           g == call'[s]
<1>0. call \in [Session -> CallRec] /\ f \in CallRec /\ RecallOK(f, status)
  BY DEF TypeOK, RecallInv
<1>1. ASSUME g = NoCall PROVE RecallOK(g, status')
  BY <1>1 DEF NoCall, RecallOK
<1>2. ASSUME NEW m \in Marker, DismissCheck(s, m) PROVE RecallOK(g, status')
  <2>1. g.pc = "update" /\ g.hard = f.hard
    BY <1>0, <1>2 DEF DismissCheck, CallRec
  <2>2. ~f.hard
    BY <1>0, <1>2 DEF DismissCheck, RecallOK
  <2> QED
    BY <2>1, <2>2 DEF RecallOK
<1>3. ASSUME g.pc \in {"deindex", "clear"}, g.hard = f.hard, g.marker =
   f.marker,
             g.open = f.open
      PROVE  RecallOK(g, status')
  BY <1>0, <1>3 DEF RecallOK
<1>4. CASE DismissUpdate(s)
  <2>1. CASE g = NoCall
    BY <1>1, <2>1
  <2>2. CASE call' = [call EXCEPT ![s].pc = "deindex"]
    BY <1>0, <1>3, <2>2 DEF CallRec
  <2> QED
    BY <1>0, <1>4, <2>1, <2>2 DEF DismissUpdate, Step
<1>5. CASE DismissDeindex(s)
  BY <1>0, <1>3, <1>5 DEF DismissDeindex, Step, CallRec
<1>6. CASE DismissClear(s) \/ RecallReturn(s) \/ CallDies(s)
  BY <1>0, <1>1, <1>6 DEF DismissClear, RecallReturn, CallDies
<1>7. ASSUME NEW nodes \in SUBSET Node, RecallLookup(s, nodes)
      PROVE  RecallOK(g, status')
  <2> DEFINE found == {m \in Marker : \E n \in nodes : <<n, m>> \in index}
  <2>1. g.pc = "details" /\ g.found = found /\ g.open = Pending /\ g.hard = f.hard
    BY <1>0, <1>7 DEF RecallLookup, CallRec
  <2>2. ~f.hard /\ status' = status
    BY <1>0, <1>7 DEF RecallLookup, RecallOK, markerVars
  <2>3. \A m \in found : m \in Marker /\ status[m] # "none"
    BY DEF IndexInv, MarkerInv
  <2> QED
    BY <2>1, <2>2, <2>3 DEF RecallOK, Pending
<1>8. CASE RecallDetails(s)
  <2>1. CASE f.found \cap Pending = {}
    BY <1>0, <1>1, <1>8, <2>1 DEF RecallDetails
  <2>2. CASE f.found \cap Pending # {}
    <3>1. /\ g.pc = "touch" /\ g.found = f.found \cap Pending
          /\ g.open = f.open /\ g.hard = f.hard
      <4>1. call' = [call EXCEPT ![s] =
                       [f EXCEPT !.pc = "touch", !.found = f.found \cap Pending]]
        BY <1>8, <2>2 DEF RecallDetails
      <4> QED
        BY <1>0, <4>1 DEF CallRec
    <3>2. ~f.hard /\ f.found \cap Pending \subseteq f.open
      BY <1>0, <1>8 DEF RecallDetails, RecallOK, Pending
    <3> QED
      BY <3>1, <3>2 DEF RecallOK
  <2> QED
    BY <2>1, <2>2
<1>9. ASSUME NEW m \in Marker, RecallTouch(s, m) PROVE RecallOK(g, status')
  <2>1. /\ g.pc \in {"touch", "done"} /\ g.open = f.open
        /\ g.found = f.found \ {m}
        /\ \/ g.hard = f.hard /\ g.marker = f.marker
           \/ g.hard = TRUE /\ g.marker = m
    <3>1. PICK r \in CallRec :
            /\ call' = [call EXCEPT ![s] = r]
            /\ r.pc \in {"touch", "done"} /\ r.open = call[s].open
            /\ r.found = call[s].found \ {m}
            /\ \/ r.hard = call[s].hard /\ r.marker = call[s].marker
               \/ r.hard = TRUE /\ r.marker = m
      BY <1>9, TouchedCall
    <3>2. g = r
      BY <1>0, <3>1
    <3> QED
      BY <3>1, <3>2
  <2>2. f.found \subseteq f.open /\ m \in f.found
    BY <1>0, <1>9 DEF RecallTouch, RecallOK
  <2> QED
    BY <1>0, <2>1, <2>2 DEF RecallOK
<1>10. CASE g = f
  BY <1>0, <1>10, RecallKept
<1> QED
  BY <1>2, <1>4, <1>5, <1>6, <1>7, <1>8, <1>9, <1>10, OwnCall DEF Dismiss,
     Recall

\* What withholds the results of a recall was pending when the recall looked
\* it up, however stale the index entry that led to it.
THEOREM BlockedSafe == Spec => []BlockedByPending
<1> DEFINE Inv == IndexInv /\ RecallInv
<1>1. Init => Inv
  BY IndexInit DEF Init, RecallInv, RecallOK, NoCall
<1>2. TypeOK /\ FrameInv /\ Inv /\ [Next]_vars => Inv'
  <2>1. CASE UNCHANGED vars
    BY <2>1, IndexStep DEF RecallInv, RecallOK, vars, markerVars
  <2> QED
    BY <2>1, IndexStep, RecallStep
<1>3. RecallInv => BlockedByPending
  BY DEF RecallInv, RecallOK, BlockedByPending
<1> QED
  BY <1>1, <1>2, <1>3, Typed, PTL DEF Spec
=============================================================================
