-------------------------- MODULE MC_SpiderRefresh --------------------------
(* Small instances of SpiderRefresh for TLC.                               *)
EXTENDS SpiderRefresh, TLC

Symmetry == Permutations(Callers) \cup Permutations(Workers)
=============================================================================
