---------------------------- MODULE MC_SubmitSync ----------------------------
(* Small instances of SubmitSync for TLC: the first account has two          *)
(* submissions, the second one, so that a rebinding can shrink the count.    *)
EXTENDS SubmitSync, TLC

CONSTANTS a1, a2, s1, s2, s3

MCAccountOf == [s \in Submissions |-> IF s = s3 THEN a2 ELSE a1]

Symmetry == Permutations(SyncUsers) \cup Permutations(Workers) \cup Permutations(Binders)
==============================================================================
