--------------------------- MODULE MCChainStorage ---------------------------
(* Instances of ChainStorage for TLC.                                      *)
EXTENDS ChainStorage

=============================================================================
