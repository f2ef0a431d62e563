-------------------------- MODULE MCBranchLifecycle --------------------------
(* TLC instances of BranchLifecycle. *)
EXTENDS BranchLifecycle, TLC

(* Branches that may be made are interchangeable. *)
Symmetry == Permutations(Branch \ Primary)
=============================================================================
