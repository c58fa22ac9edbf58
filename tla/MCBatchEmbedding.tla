-------------------------- MODULE MCBatchEmbedding --------------------------
(* Instances of BatchEmbedding for TLC.                                    *)
EXTENDS BatchEmbedding

=============================================================================
