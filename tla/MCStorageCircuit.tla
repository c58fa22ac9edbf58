-------------------------- MODULE MCStorageCircuit --------------------------
(* Instances of StorageCircuit for TLC.                                    *)
EXTENDS StorageCircuit, TLC

CallSymmetry == Permutations(Call)

=============================================================================
