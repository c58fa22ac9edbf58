----------------------------- MODULE MCMarkers -----------------------------
(* Instance of Markers for TLC.                                            *)
EXTENDS Markers, TLC

Symmetry == Permutations(Session) \cup Permutations(Claim)
                \cup Permutations(Commitment)

\* Nothing has been linked to a commitment, and their detector has not run.
ContradictionsOnly == linked = {} /\ stale = IdleStale /\ ~started

\* No session has called, and one fault at most.
EvidenceOnly ==
  /\ \A s \in Session : call[s] = NoCall
  /\ \A m \in Marker : status[m] # "dismissed"
  /\ \A t \in Session \X Marker : touches[t] = 0
  /\ faults <= 1

\* The search is bounded to the states in which one of the two halves has been
\* at work.
OneHalf == ContradictionsOnly \/ EvidenceOnly
=============================================================================
