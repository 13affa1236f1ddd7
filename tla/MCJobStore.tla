----------------------------- MODULE MCJobStore -----------------------------
(* Small instances of JobStore for TLC. *)
EXTENDS JobStore, TLC

(* Handlers are interchangeable, and so are nodes: no action and no        *)
(* property of the safety runs tells one from another.                     *)
HandlerSymmetry == Permutations(Handlers)

=============================================================================
