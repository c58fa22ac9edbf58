-------------------------- MODULE MCSageLifecycle --------------------------
(* Instances of SageLifecycle for TLC.                                     *)
EXTENDS SageLifecycle, TLC

Symmetry == Permutations(Agent) \cup Permutations(Claim) \cup Permutations(Object)

=============================================================================
