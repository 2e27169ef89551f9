------------------------- MODULE MCServiceLifecycle -------------------------
(* ServiceLifecycle for TLC: the calling tasks are interchangeable.        *)
EXTENDS ServiceLifecycle, TLC

Symmetry == Permutations(Task)
=============================================================================
