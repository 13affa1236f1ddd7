---------------------------- MODULE MCJobSystem ----------------------------
(* Instances of JobSystem for model checking. *)
EXTENDS JobSystem, TLC

(* The nodes differ by nothing but their names. *)
NodeSymmetry == Permutations(Nodes)

=============================================================================
