----------------------- MODULE MCWorkloadProvisioning -----------------------
(* TLC instances of WorkloadProvisioning. *)
EXTENDS WorkloadProvisioning, TLC

(* Requests of the same kind of config are interchangeable. *)
Symmetry == Permutations(Request \ (Built \cup Bundled \cup Tracked))
=============================================================================
