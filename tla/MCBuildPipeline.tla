--------------------------- MODULE MCBuildPipeline --------------------------
(* Small instances of BuildPipeline for TLC. *)
EXTENDS BuildPipeline, TLC

(* Builders are interchangeable, and so are digests. *)
BuilderSymmetry == Permutations(Builders) \cup Permutations(Digests)

=============================================================================
