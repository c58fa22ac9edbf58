-------------------------- MODULE EmbeddingOutbox --------------------------
(***************************************************************************)
(* What the batch embedding accumulator promises its callers: an item that *)
(* add has accepted is handed to the embedding service exactly once, in a  *)
(* batch that is never empty and never larger than BatchSize.              *)
(***************************************************************************)
EXTENDS Integers, Sequences, FiniteSets

CONSTANTS Item, BatchSize

VARIABLES
  accepted,  \* items add has taken over from its callers
  batches    \* the batches handed to _flush, in order

Dispatched == UNION {batches[k] : k \in 1 .. Len(batches)}

Init == accepted = {} /\ batches = <<>>

Accept(i) ==
  /\ i \notin accepted
  /\ accepted' = accepted \cup {i}
  /\ UNCHANGED batches

Dispatch(S) ==
  /\ S # {} /\ S \subseteq accepted \ Dispatched
  /\ Cardinality(S) <= BatchSize
  /\ batches' = Append(batches, S)
  /\ UNCHANGED accepted

Next ==
  \/ \E i \in Item : Accept(i)
  \/ \E S \in SUBSET Item : Dispatch(S)

DispatchWith(i) == \E S \in SUBSET Item : i \in S /\ Dispatch(S)

\* What may happen, and, with fairness, what must.
SafeSpec == Init /\ [][Next]_<<accepted, batches>>

Spec ==
  /\ SafeSpec
  /\ \A i \in Item : WF_<<accepted, batches>>(DispatchWith(i))

=============================================================================
