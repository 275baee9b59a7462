------------------------ MODULE MCWorkloadLifecycle ------------------------
(* Model values for WorkloadLifecycle. *)
EXTENDS WorkloadLifecycle, TLC

Symmetry == Permutations(Ids) \cup Permutations(Stoppers)

=============================================================================
