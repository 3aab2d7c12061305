------------------------------ MODULE MC_Team -------------------------------
(* Requests are interchangeable; users are not, ensureGroupOwner compares    *)
(* their ids.                                                                *)
EXTENDS Team, TLC

Symmetry == Permutations(TeamProcs)
=============================================================================
