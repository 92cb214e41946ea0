------------------------ MODULE MCEmbeddingPipeline -------------------------
(* EmbeddingPipeline for TLC: a note of at most two chunks.                    *)
EXTENDS EmbeddingPipeline
=============================================================================
