-------------------------- MODULE MCArtifactPipeline --------------------------
(* Small instances of ArtifactPipeline for TLC. *)
EXTENDS ArtifactPipeline, TLC

Interchangeable == Permutations(Compiles) \cup Permutations(Others)
=============================================================================
