--------------------------- MODULE MCStickyActive ---------------------------
(* Instances of StickyActive for TLC. *)
EXTENDS StickyActive, TLC

Symmetry == Permutations(Instance)
=============================================================================
