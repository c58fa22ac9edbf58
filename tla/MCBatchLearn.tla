---------------------------- MODULE MCBatchLearn ----------------------------
(* Instances of BatchLearn for TLC.                                        *)
EXTENDS BatchLearn, TLC

CONSTANTS age, city, x1

\* Three claims of two documents, one document without a timestamp.
OneEach == <<Item(age, 1, 1, 1), Item(age, 2, 2, 2), Item(age, 1, 0, 3)>>

\* The later claim comes first, and one has neither document nor timestamp.
Backwards == <<Item(age, 2, 2, 0), Item(age, 1, 1, 0), Item(age, 3, 0, 0)>>

\* A document that says two things, and one that says what is known.
Shared == <<Item(age, 1, 1, 1), Item(city, 1, 1, 1), Item(age, 2, 0, 2)>>

Symmetry == Permutations(Request)

MCBatch == {OneEach, Backwards, Shared}
MCAbout == [x \in Extracted |-> [topic |-> age, object |-> 2]]

=============================================================================
