------------------------------ MODULE Markers ------------------------------
(***************************************************************************)
(* Contradiction and StaleCommitment markers (engine/markers.py,           *)
(* engagement.py, touch_counter.py, contradiction.py; the Dagster assets   *)
(* detect_contradicts, detect_stale_commitment and marker_cleanup; the     *)
(* recall and dismiss tools).  A detector writes a marker to the graph and *)
(* then, for every node the marker is about, to a sorted set in Redis.     *)
(* Recall finds the markers about its results through those sets, counts   *)
(* the touches of its session, and withholds the results once a marker was *)
(* touched too often; dismiss closes a marker.                             *)
(*                                                                         *)
(* Each silo has at most one run of each asset at a time, its concurrency  *)
(* key.  The watermark of detect_stale_commitment is represented by the    *)
(* claims that are newer than it.  Every statement sent to Memgraph or     *)
(* Redis is an action; a pipeline that raises may have been applied to     *)
(* some of its keys.                                                       *)
(***************************************************************************)
EXTENDS Naturals, FiniteSets

CONSTANTS
  Claim,       \* ids of claims
  Commitment,  \* ids of the commitments, valid throughout
  NoNode,      \* no node
  Session,     \* sessions that call recall and dismiss
  MaxMarkers,  \* bound: how many markers are created
  RowLimit,    \* LIMIT of the detectors' queries
  Threshold,   \* engagement_escalation_threshold
  MaxFaults    \* bound: how many statements raise or processes die

ASSUME MarkersAssumption ==
  /\ IsFiniteSet(Claim) /\ IsFiniteSet(Commitment)
  /\ Claim \cap Commitment = {} /\ NoNode \notin Claim \cup Commitment
  /\ MaxMarkers \in Nat /\ RowLimit \in Nat \ {0}
  /\ Threshold \in Nat \ {0} /\ MaxFaults \in Nat

Node == Claim \cup Commitment
Marker == 1 .. MaxMarkers
NoMarker == 0

VARIABLES
  stored,     \* the claims that exist
  linked,     \* <<e, k>>: claim e and commitment k are ABOUT the same node
  flag,       \* contradiction_candidate_with of a claim, {} without a flag
  aged,       \* the claims that are more than an hour old
  newer,      \* the claims created after the watermark
  started,    \* the watermark has been set
  status,     \* of a marker: "none", "pending", "dismissed", "deleted"
  about,      \* about_ids of a marker
  expired,    \* the markers past their expires_at
  index,      \* <<n, m>>: m is in the sorted set of n
  touches,    \* touches of a marker by a session inside the decay window
  contra,     \* the run of detect_contradicts
  stale,      \* the run of detect_stale_commitment
  cleanup,    \* what marker_cleanup has deleted and still has to deindex
  call,       \* the call of recall or dismiss each session waits for
  faults,     \* statements that raised, processes that died
  unindexed,  \* history: markers whose index write failed
  stray,      \* history: markers deindexed too early or not at all
  examined,   \* history: pairs of evidence and commitment the LLM judged
  missed      \* history: pairs the watermark passed, by a known path

graphVars == <<stored, linked, flag, aged>>
waterVars == <<newer, started, examined, missed>>
markerVars == <<status, about, expired>>
redisVars == <<index, touches, unindexed, stray>>
vars == <<graphVars, waterVars, markerVars, redisVars, contra, stale, cleanup,
          call, faults>>

IdleContra == [pc |-> "idle", rows |-> {}, node |-> NoNode, peers |-> {},
               marker |-> NoMarker]
IdleStale == [pc |-> "idle", rows |-> {}, evidence |-> {}, lost |-> {},
              marker |-> NoMarker]
NoCall == [pc |-> "idle", marker |-> NoMarker, found |-> {}, hard |-> FALSE,
           open |-> {}]

Pair == Claim \X Commitment

ContraRec == [pc: {"idle", "row", "peer", "index"}, rows: SUBSET Claim,
              node: Claim \cup {NoNode}, peers: SUBSET Claim,
              marker: Marker \cup {NoMarker}]
StaleRec == [pc: {"idle", "row", "index", "watermark"}, rows: SUBSET Commitment,
             evidence: SUBSET Pair, lost: SUBSET Pair,
             marker: Marker \cup {NoMarker}]
CallRec == [pc: {"idle", "update", "deindex", "clear", "details", "touch",
                 "done"},
            marker: Marker \cup {NoMarker}, found: SUBSET Marker,
            hard: BOOLEAN, open: SUBSET Marker]

TypeOK ==
  /\ stored \subseteq Claim /\ linked \subseteq stored \X Commitment
  /\ flag \in [Claim -> SUBSET Claim] /\ \A c \in Claim : c \notin flag[c]
  /\ aged \subseteq stored /\ newer \subseteq stored /\ started \in BOOLEAN
  /\ status \in [Marker -> {"none", "pending", "dismissed", "deleted"}]
  /\ about \in [Marker -> SUBSET Node]
  /\ expired \subseteq Marker
  /\ index \subseteq Node \X Marker
  /\ touches \in [Session \X Marker -> 0 .. Threshold]
  /\ contra \in ContraRec /\ stale \in StaleRec
  /\ cleanup \subseteq Marker
  /\ call \in [Session -> CallRec]
  /\ faults \in 0 .. MaxFaults
  /\ unindexed \subseteq Marker /\ stray \subseteq Marker
  /\ examined \subseteq Pair /\ missed \subseteq Pair

Init ==
  /\ stored = {} /\ linked = {} /\ flag = [c \in Claim |-> {}] /\ aged = {}
  /\ newer = {} /\ started = FALSE /\ examined = {} /\ missed = {}
  /\ status = [m \in Marker |-> "none"] /\ about = [m \in Marker |-> {}]
  /\ expired = {}
  /\ index = {} /\ touches = [t \in Session \X Marker |-> 0]
  /\ unindexed = {} /\ stray = {}
  /\ contra = IdleContra /\ stale = IdleStale /\ cleanup = {}
  /\ call = [s \in Session |-> NoCall]
  /\ faults = 0

Fault ==
  /\ faults < MaxFaults
  /\ faults' = faults + 1

Existing == {m \in Marker : status[m] \in {"pending", "dismissed"}}
Pending == {m \in Marker : status[m] = "pending"}

\* A marker that a detector has written and not yet indexed.
Unwritten == {contra.marker, stale.marker} \ {NoMarker}

\* _SILOS_WITH_PENDING_VALIDATION: the schedule skips a silo that has neither
\* a flag nor a commitment.
Scheduled == Commitment # {} \/ \E c \in Claim : flag[c] # {}

\* What LIMIT leaves of a result without ORDER BY.
Limited(rows) ==
  {r \in SUBSET rows :
     Cardinality(r) = IF Cardinality(rows) < RowLimit
                      THEN Cardinality(rows) ELSE RowLimit}

-----------------------------------------------------------------------------
(* Claims.                                                                 *)

\* learn, with the flag that maybe_flag_contradiction sets when Qdrant finds
\* similar claims; an error in it is only logged.
Learn(c) ==
  /\ c \notin stored
  /\ stored' = stored \cup {c} /\ newer' = newer \cup {c}
  /\ \E peers \in SUBSET stored : flag' = [flag EXCEPT ![c] = peers]
  /\ UNCHANGED <<linked, aged, started, examined, missed, markerVars,
                 redisVars, contra, stale, cleanup, call, faults>>

\* link gives the claim an ABOUT edge.  A run that has read its rows does not
\* see it, and no run does once the watermark has passed the claim.
Link(c, k) ==
  /\ c \in stored /\ <<c, k>> \notin linked
  /\ linked' = linked \cup {<<c, k>>}
  /\ missed' = IF c \in newer THEN missed ELSE missed \cup {<<c, k>>}
  /\ stale' = IF stale.pc = "idle" THEN stale
              ELSE [stale EXCEPT !.lost = @ \cup {<<c, k>>}]
  /\ UNCHANGED <<stored, flag, aged, newer, started, examined, markerVars,
                 redisVars, contra, cleanup, call, faults>>

\* An hour after its creation a flag is no longer a candidate, and the first
\* run of detect_stale_commitment no longer looks back as far.
HourPasses(c) ==
  /\ c \in stored \ aged
  /\ aged' = aged \cup {c}
  /\ newer' = IF started THEN newer ELSE newer \ {c}
  /\ missed' = IF started THEN missed
               ELSE missed \cup {p \in linked : p[1] = c}
  /\ UNCHANGED <<stored, linked, flag, started, examined, markerVars,
                 redisVars, contra, stale, cleanup, call, faults>>

-----------------------------------------------------------------------------
(* Creating a marker.                                                      *)

\* The marker that CREATE_CONTRADICTION or CREATE_STALE_COMMITMENT writes.
Create(m, nodes) ==
  /\ status[m] = "none" /\ \A i \in 1 .. (m - 1) : status[i] # "none"
  /\ status' = [status EXCEPT ![m] = "pending"]
  /\ about' = [about EXCEPT ![m] = nodes]
  /\ UNCHANGED expired

\* _index_marker, whose failure is only logged.  A create_* call that raises
\* although its marker was committed never comes here; the marker, the indices
\* and the run are then as after the failure that has done no key.
IndexMarker(m) ==
  /\ \/ /\ index' = index \cup (about[m] \X {m})
        /\ UNCHANGED <<unindexed, faults>>
     \/ /\ \E done \in SUBSET about[m] : index' = index \cup (done \X {m})
        /\ unindexed' = unindexed \cup {m}
        /\ Fault
  /\ stray' = IF m \in Pending THEN stray ELSE stray \cup {m}

-----------------------------------------------------------------------------
(* detect_contradicts.                                                     *)

ContraFind ==
  /\ contra.pc = "idle"
  /\ \E rows \in Limited({c \in Claim : flag[c] # {} /\ c \notin aged}) :
       /\ rows # {}
       /\ contra' = [contra EXCEPT !.pc = "row", !.rows = rows]
  /\ UNCHANGED <<graphVars, waterVars, markerVars, redisVars, stale, cleanup,
                 call, faults>>

ContraRow(c) ==
  /\ contra.pc = "row" /\ c \in contra.rows
  /\ contra' = [contra EXCEPT !.pc = "peer", !.node = c, !.peers = flag[c],
                              !.rows = @ \ {c}]
  /\ UNCHANGED <<graphVars, waterVars, markerVars, redisVars, stale, cleanup,
                 call, faults>>

\* The LLM says no, or the pair raises: the next peer.
ContraReject(c) ==
  /\ contra.pc = "peer" /\ c \in contra.peers
  /\ UNCHANGED faults \/ Fault
  /\ contra' = [contra EXCEPT !.peers = @ \ {c}]
  /\ UNCHANGED <<graphVars, waterVars, markerVars, redisVars, stale, cleanup,
                 call>>

ContraConfirm(c, m) ==
  /\ contra.pc = "peer" /\ c \in contra.peers
  /\ Create(m, {contra.node, c})
  /\ contra' = [contra EXCEPT !.pc = "index", !.peers = @ \ {c}, !.marker = m]
  /\ UNCHANGED <<graphVars, waterVars, redisVars, stale, cleanup, call,
                 faults>>

ContraIndex ==
  /\ contra.pc = "index"
  /\ IndexMarker(contra.marker)
  /\ contra' = [contra EXCEPT !.pc = "peer", !.marker = NoMarker]
  /\ UNCHANGED <<graphVars, waterVars, markerVars, touches, stale, cleanup,
                 call>>

\* The flag is cleared whatever came of its pairs; the error of the statement
\* that clears it is suppressed.
ContraClear ==
  /\ contra.pc = "peer" /\ contra.peers = {}
  /\ \/ /\ flag' = [flag EXCEPT ![contra.node] = {}]
        /\ UNCHANGED faults
     \/ UNCHANGED flag /\ Fault
  /\ contra' = IF contra.rows = {} THEN IdleContra
               ELSE [contra EXCEPT !.pc = "row", !.node = NoNode]
  /\ UNCHANGED <<stored, linked, aged, waterVars, markerVars, redisVars, stale,
                 cleanup, call>>

\* The run dies; the flags it has not cleared are found again by the next.
ContraDies ==
  /\ contra.pc # "idle" /\ Fault
  /\ contra' = IdleContra
  /\ unindexed' = unindexed \cup ({contra.marker} \ {NoMarker})
  /\ UNCHANGED <<graphVars, waterVars, markerVars, index, touches, stray, stale,
                 cleanup, call>>

-----------------------------------------------------------------------------
(* detect_stale_commitment.                                                *)

\* _GET_COMMITMENTS_WITH_NEW_EVIDENCE.
NewEvidence == {p \in linked : p[1] \in newer}

\* Mutant: the watermark moves before the evidence has been judged.
StaleFindAdvancing ==
  /\ Scheduled /\ stale.pc = "idle"
  /\ \E rows \in Limited({p[2] : p \in NewEvidence}) :
       stale' = IF rows = {} THEN [stale EXCEPT !.pc = "watermark"]
                ELSE [stale EXCEPT !.pc = "row", !.rows = rows,
                       !.evidence = {p \in NewEvidence : p[2] \in rows},
                       !.lost = {p \in NewEvidence : p[2] \notin rows}]
  /\ newer' = {} /\ started' = TRUE
  /\ UNCHANGED <<graphVars, examined, missed, markerVars, redisVars, contra,
                 cleanup, call, faults>>

StaleFind ==
  /\ Scheduled /\ stale.pc = "idle"
  /\ \E rows \in Limited({p[2] : p \in NewEvidence}) :
       stale' = IF rows = {} THEN [stale EXCEPT !.pc = "watermark"]
                ELSE [stale EXCEPT !.pc = "row", !.rows = rows,
                       !.evidence = {p \in NewEvidence : p[2] \in rows},
                       !.lost = {p \in NewEvidence : p[2] \notin rows}]
  /\ UNCHANGED <<graphVars, waterVars, markerVars, redisVars, contra, cleanup,
                 call, faults>>

EvidenceOf(k) == {p \in stale.evidence : p[2] = k}

StaleNext(k) ==
  [stale EXCEPT !.rows = @ \ {k},
                !.pc = IF stale.rows = {k} THEN "watermark" ELSE "row"]

\* The LLM does not find the commitment undermined.
StaleReject(k) ==
  /\ stale.pc = "row" /\ k \in stale.rows
  /\ stale' = StaleNext(k)
  /\ examined' = examined \cup EvidenceOf(k)
  /\ UNCHANGED <<graphVars, newer, started, missed, markerVars, redisVars,
                 contra, cleanup, call, faults>>

\* The LLM or the write raises; the run goes on.
StaleError(k) ==
  /\ stale.pc = "row" /\ k \in stale.rows
  /\ Fault
  /\ stale' = [StaleNext(k) EXCEPT !.lost = @ \cup EvidenceOf(k)]
  /\ UNCHANGED <<graphVars, waterVars, markerVars, redisVars, contra, cleanup,
                 call>>

StaleConfirm(k, m) ==
  /\ stale.pc = "row" /\ k \in stale.rows
  /\ Create(m, {k} \cup {p[1] : p \in EvidenceOf(k)})
  /\ stale' = [stale EXCEPT !.rows = @ \ {k}, !.pc = "index", !.marker = m]
  /\ examined' = examined \cup EvidenceOf(k)
  /\ UNCHANGED <<graphVars, newer, started, missed, redisVars, contra, cleanup,
                 call, faults>>

StaleIndex ==
  /\ stale.pc = "index"
  /\ IndexMarker(stale.marker)
  /\ stale' = [stale EXCEPT !.marker = NoMarker,
                 !.pc = IF stale.rows = {} THEN "watermark" ELSE "row"]
  /\ UNCHANGED <<graphVars, waterVars, markerVars, touches, contra, cleanup,
                 call>>

\* The watermark becomes the time at the end of the run.
StaleWatermark ==
  /\ stale.pc = "watermark"
  /\ newer' = {} /\ started' = TRUE
  /\ missed' = missed \cup stale.lost
  /\ stale' = IdleStale
  /\ UNCHANGED <<graphVars, examined, markerVars, redisVars, contra, cleanup,
                 call, faults>>

\* The run dies, or the write of the watermark raises: the watermark stays.
StaleDies ==
  /\ stale.pc # "idle" /\ Fault
  /\ stale' = IdleStale
  /\ unindexed' = unindexed \cup ({stale.marker} \ {NoMarker})
  /\ UNCHANGED <<graphVars, waterVars, markerVars, index, touches, stray,
                 contra, cleanup, call>>

-----------------------------------------------------------------------------
(* marker_cleanup.                                                         *)

\* Seven days after it was detected.
Expire(m) ==
  /\ m \in Existing \ (expired \cup Unwritten)
  /\ expired' = expired \cup {m}
  /\ UNCHANGED <<graphVars, waterVars, status, about, redisVars, contra, stale,
                 cleanup, call, faults>>

\* DELETE_EXPIRED_MARKERS_ATOMIC, whatever the status.
CleanupDelete ==
  /\ Scheduled /\ cleanup = {}
  /\ expired \cap Existing # {}
  /\ status' = [m \in Marker |-> IF m \in expired THEN "deleted" ELSE status[m]]
  /\ cleanup' = expired \cap Existing
  /\ UNCHANGED <<graphVars, waterVars, about, expired, redisVars, contra, stale,
                 call, faults>>

\* Mutant: the sorted sets are not cleaned.
CleanupRedisSkipped ==
  /\ cleanup # {} /\ cleanup' = {}
  /\ UNCHANGED <<graphVars, waterVars, markerVars, redisVars, contra, stale,
                 call, faults>>

CleanupRedis ==
  /\ cleanup # {} /\ cleanup' = {}
  /\ \/ /\ index' = {e \in index : e[2] \notin cleanup}
        /\ UNCHANGED <<stray, faults>>
     \/ /\ \E gone \in SUBSET {e \in index : e[2] \in cleanup} :
             index' = index \ gone
        /\ stray' = stray \cup cleanup
        /\ Fault
  /\ UNCHANGED <<graphVars, waterVars, markerVars, touches, unindexed, contra,
                 stale, call>>

-----------------------------------------------------------------------------
(* dismiss.                                                                *)

Step(s, pc) == call' = [call EXCEPT ![s].pc = pc]

\* Only a pending marker passes.  Its id may come from recall, from tick or
\* from the HTTP API.
DismissCheck(s, m) ==
  /\ call[s].pc = "idle" /\ m \in Pending
  /\ call' = [call EXCEPT ![s].pc = "update", ![s].marker = m]
  /\ UNCHANGED <<graphVars, waterVars, markerVars, redisVars, contra, stale,
                 cleanup, faults>>

\* _transition_marker reads about_ids and updates the status unconditionally;
\* it raises when cleanup has deleted the marker.
DismissUpdate(s) ==
  /\ call[s].pc = "update"
  /\ LET m == call[s].marker IN
       IF m \in Existing
       THEN /\ status' = [status EXCEPT ![m] = "dismissed"]
            /\ Step(s, "deindex")
       ELSE /\ call' = [call EXCEPT ![s] = NoCall]
            /\ UNCHANGED status
  /\ UNCHANGED <<graphVars, waterVars, about, expired, redisVars, contra, stale,
                 cleanup, faults>>

\* _deindex_marker, whose failure is only logged.
DismissDeindex(s) ==
  /\ call[s].pc = "deindex"
  /\ LET m == call[s].marker
         own == {e \in index : e[2] = m}
     IN  \/ /\ index' = index \ own
            /\ UNCHANGED <<stray, faults>>
         \/ /\ \E gone \in SUBSET own : index' = index \ gone
            /\ stray' = stray \cup {m}
            /\ Fault
  /\ Step(s, "clear")
  /\ UNCHANGED <<graphVars, waterVars, markerVars, touches, unindexed, contra,
                 stale, cleanup>>

\* clear_touches.
DismissClear(s) ==
  /\ call[s].pc = "clear"
  /\ \/ /\ touches' = [t \in Session \X Marker |->
                         IF t[2] = call[s].marker THEN 0 ELSE touches[t]]
        /\ UNCHANGED faults
     \/ UNCHANGED touches /\ Fault
  /\ call' = [call EXCEPT ![s] = NoCall]
  /\ UNCHANGED <<graphVars, waterVars, markerVars, index, unindexed, stray,
                 contra, stale, cleanup>>

-----------------------------------------------------------------------------
(* recall, after its results are known: get_engagement_for_about_set.      *)

\* get_markers_for_about_set; an error gives no markers.
RecallLookup(s, nodes) ==
  /\ call[s].pc = "idle" /\ nodes # {}
  /\ LET found == {m \in Marker : \E n \in nodes : <<n, m>> \in index} IN
       /\ found # {}
       /\ call' = [call EXCEPT ![s].pc = "details", ![s].found = found,
                               ![s].open = Pending]
  /\ UNCHANGED <<graphVars, waterVars, markerVars, redisVars, contra, stale,
                 cleanup, faults>>

\* Mutant: every marker of the index is taken for pending.
RecallDetailsUnfiltered(s) ==
  /\ call[s].pc = "details"
  /\ call' = [call EXCEPT ![s].pc = "touch"]
  /\ UNCHANGED <<graphVars, waterVars, markerVars, redisVars, contra, stale,
                 cleanup, faults>>

\* get_marker_details: what the index names and the graph holds as pending.
RecallDetails(s) ==
  /\ call[s].pc = "details"
  /\ call' = [call EXCEPT ![s] =
       IF call[s].found \cap Pending = {} THEN NoCall
       ELSE [call[s] EXCEPT !.pc = "touch", !.found = @ \cap Pending]]
  /\ UNCHANGED <<graphVars, waterVars, markerVars, redisVars, contra, stale,
                 cleanup, faults>>

\* record_touch; an error counts as zero touches.
RecallTouch(s, m) ==
  /\ call[s].pc = "touch" /\ m \in call[s].found
  /\ LET rest == [call[s] EXCEPT !.found = @ \ {m},
                    !.pc = IF call[s].found = {m} THEN "done" ELSE "touch"]
         count == touches[<<s, m>>] + 1
     IN  \/ /\ touches' = [touches EXCEPT ![<<s, m>>] =
                             IF count > Threshold THEN Threshold ELSE count]
            /\ call' = [call EXCEPT ![s] =
                 IF count < Threshold THEN rest
                 ELSE [rest EXCEPT !.hard = TRUE, !.marker = m]]
            /\ UNCHANGED faults
         \/ /\ Fault /\ UNCHANGED touches
            /\ call' = [call EXCEPT ![s] = rest]
  /\ UNCHANGED <<graphVars, waterVars, markerVars, index, unindexed, stray,
                 contra, stale, cleanup>>

\* The answer, without its results if the mode is hard.
RecallReturn(s) ==
  /\ call[s].pc = "done"
  /\ call' = [call EXCEPT ![s] = NoCall]
  /\ UNCHANGED <<graphVars, waterVars, markerVars, redisVars, contra, stale,
                 cleanup, faults>>

\* A touch leaves the decay window.
Decay(s, m) ==
  /\ touches[<<s, m>>] > 0
  /\ touches' = [touches EXCEPT ![<<s, m>>] = @ - 1]
  /\ UNCHANGED <<graphVars, waterVars, markerVars, index, unindexed, stray,
                 contra, stale, cleanup, call, faults>>

\* The server dies with the call.
CallDies(s) ==
  /\ call[s].pc # "idle" /\ Fault
  /\ stray' = IF call[s].pc = "deindex" THEN stray \cup {call[s].marker}
              ELSE stray
  /\ call' = [call EXCEPT ![s] = NoCall]
  /\ UNCHANGED <<graphVars, waterVars, markerVars, index, touches, unindexed,
                 contra, stale, cleanup>>

-----------------------------------------------------------------------------
DetectContradicts ==
  \/ ContraFind \/ ContraIndex \/ ContraClear \/ ContraDies
  \/ \E c \in Claim :
       \/ ContraRow(c) \/ ContraReject(c)
       \/ \E m \in Marker : ContraConfirm(c, m)

DetectStaleCommitment ==
  \/ StaleFind \/ StaleIndex \/ StaleWatermark \/ StaleDies
  \/ \E k \in Commitment :
       \/ StaleReject(k) \/ StaleError(k)
       \/ \E m \in Marker : StaleConfirm(k, m)

Dismiss(s) ==
  \/ \E m \in Marker : DismissCheck(s, m)
  \/ DismissUpdate(s) \/ DismissDeindex(s) \/ DismissClear(s)

Recall(s) ==
  \/ \E nodes \in SUBSET Node : RecallLookup(s, nodes)
  \/ RecallDetails(s) \/ RecallReturn(s)
  \/ \E m \in Marker : RecallTouch(s, m)

Next ==
  \/ \E c \in Claim :
       Learn(c) \/ HourPasses(c) \/ \E k \in Commitment : Link(c, k)
  \/ DetectContradicts \/ DetectStaleCommitment
  \/ CleanupDelete \/ CleanupRedis
  \/ \E m \in Marker : Expire(m)
  \/ \E s \in Session :
       \/ Dismiss(s) \/ Recall(s) \/ CallDies(s)
       \/ \E m \in Marker : Decay(s, m)

Spec == Init /\ [][Next]_vars

-----------------------------------------------------------------------------
(* Properties.                                                             *)

\* Who will take marker m out of the index.
Leaving(m) ==
  m \in cleanup \/ \E s \in Session :
                     call[s].pc = "deindex" /\ call[s].marker = m

\* Graph and index agree (markers.py writes one and then the other): a pending
\* marker is in the sorted set of every node it is about, and so recall shows
\* it, unless a detector is about to write it there or that write failed; and
\* a sorted set holds no other marker, unless dismiss or cleanup is about to
\* remove it, or failed to, or the index was written after the dismissal.
IndexAccounted ==
  /\ \A m \in Pending \ (unindexed \cup Unwritten) :
       about[m] \X {m} \subseteq index
  /\ \A e \in index : e[2] \in Pending \cup stray \/ Leaving(e[2])

\* Evidence added to a commitment comes before the LLM
\* (detect_stale_commitment): it is newer than the watermark, and so a row of
\* the next run, or has been judged, or was missed on a known path: the edge
\* came while a run was between its query and its watermark, or after the
\* watermark; LIMIT cut its row off; its judgement raised; it was an hour old
\* before the first run.  A run that dies loses nothing.
EvidenceAccounted ==
  \A p \in linked : p[1] \in newer \/ p \in examined \cup missed

\* Entries left behind in the index are harmless (engagement.py filters on the
\* status in the graph): what withholds the results of a recall is a marker
\* that was still pending when the recall looked it up.
BlockedByPending ==
  \A s \in Session : call[s].hard => call[s].marker \in call[s].open
=============================================================================
