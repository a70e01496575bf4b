-------------------------- MODULE MCEmbeddingJobs --------------------------
(***************************************************************************)
(* Small instances of EmbeddingJobs.                                       *)
(***************************************************************************)
EXTENDS EmbeddingJobs

CONSTANTS w1, w2, nobody
=============================================================================
