---------------------------- MODULE MCEmbedding ----------------------------
(* Instances of EmbeddingPipeline for TLC: the .cfg files give the values. *)
EXTENDS EmbeddingPipeline
=============================================================================
