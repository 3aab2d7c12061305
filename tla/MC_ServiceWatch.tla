--------------------------- MODULE MC_ServiceWatch ---------------------------
EXTENDS ServiceWatch
CONSTANTS a1, a2, s1, s2
TargetsDef == {[a \in Appliers |-> s1], [a \in Appliers |-> IF a = a1 THEN s1 ELSE s2]}
WSpec == WatchSpec /\ WatchFairness
==============================================================================
