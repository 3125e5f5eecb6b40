---------------------------- MODULE MCTreeBuilder ----------------------------
EXTENDS TreeBuilder, TLC

(* Targets and labels are interchangeable; only safety is checked. *)
Symmetry == Permutations(Target) \cup Permutations(Label)
=============================================================================
