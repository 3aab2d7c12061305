----------------------------- MODULE MC_Refresh -----------------------------
(* The two views of a refresh in one model: the jobs of every platform, their queue  *)
(* and their workers (SpiderRefresh), and the requests for one platform, spaced by   *)
(* limiters and the cool-down (RefreshDesk).  In each behaviour one of them moves.   *)
EXTENDS MC_SpiderRefresh, RefreshDesk

VARIABLE focus

RefreshInit ==
    /\ focus \in {"jobs", "desk"} /\ Init /\ DeskInit
    /\ focus = "desk" => bound = {CodeForces} /\ recent = {}
RefreshNext ==
    \/ focus = "jobs" /\ Next /\ UNCHANGED <<focus, deskVars>>
    \/ focus = "desk" /\ DeskNext /\ UNCHANGED <<focus, vars>>
RefreshSpec == RefreshInit /\ [][RefreshNext]_<<focus, vars, deskVars>>
=============================================================================
