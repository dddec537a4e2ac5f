--------------------------- MODULE MCEventPipeline ---------------------------
(* Two replicas are interchangeable: the runs that check safety only may    *)
(* permute them.                                                            *)
EXTENDS EventPipeline, TLC

Symmetry == Permutations(Procs) \cup Permutations(Claimers)
=============================================================================
