------------------------------- MODULE MC_User -------------------------------
(* The user service, the racing loads of submissions, and the interfaces between     *)
(* the services, in one model: in each behaviour one of them, the focus, moves, and  *)
(* the others stay at an initial state.                                           *)
(* Requests, goroutines and SetSpider calls are interchangeable; users are not,      *)
(* where their ids are compared.                                                  *)
EXTENDS Inbox, Team, SubmitSync, UserAccounts, HttpApi

CONSTANTS a1, a2, s1, s2, s3

VARIABLES focus,
          acase,   \* the HTTP request under check
          aids     \* the parts of a userIds parameter

apiVars == <<acase, aids>>
allVars == <<focus, msgVars, teamVars, syncVars, accVars, apiVars>>

-----------------------------------------------------------------------------
\* The first account has two submissions, the second one.
MCAccountOf == [s \in Submissions |-> IF s = s3 THEN a2 ELSE a1]

FoundersDef == <<[name |-> "n1", pw |-> "p1", form |-> "hash", role |-> 1], [name |-> "n2", pw |-> "p1", form |-> "plain", role |-> 2]>>

Paths == UNION {{r.path : r \in ServerRoutes[s]} : s \in Servers}
         \cup defaultPublicPaths \cup {<<"user", "unknown">>, <<"other", "path">>}
ApiRequests == [method : {"GET", "POST", "DELETE"}, path : Paths, token : {"valid", "none"}, input : {"good", "bad"}, code : {200, 403, 404}]

\* The three sets are given the same values.
Symmetry == Permutations(MsgProcs \cup TeamProcs \cup Workers)

-----------------------------------------------------------------------------
ApiInit == /\ acase \in IF focus = "api" THEN ApiRequests ELSE {CHOOSE q \in ApiRequests : TRUE}
           /\ aids = <<>>
\* The next part of the parameter: a number or not one.
NextPart(p) == Len(aids) < 3 /\ aids' = Append(aids, p) /\ UNCHANGED acase

MCInit ==
    /\ focus \in {"messages", "team", "sync", "accounts", "api", "ids"}
    /\ MsgInit /\ TeamInit /\ SyncInit /\ AccInit /\ ApiInit

\* Bounds: the first request for messages and the first three for teams, any of which
\* may fail, are over when the next one arrives; those after them overlap.
FirstMailAlone == mrequests = 1 /\ mrequests' = 2 => \A p \in MsgProcs : mpc[p] = "idle"
FirstTeamsAlone == requests \in 1..3 /\ requests' > requests => \A p \in TeamProcs : pc[p] = "idle"

MCNext ==
    /\ UNCHANGED focus
    /\ \/ focus = "messages" /\ MsgNext /\ FirstMailAlone /\ UNCHANGED <<teamVars, syncVars, accVars, apiVars>>
       \/ focus = "team" /\ TeamNext /\ FirstTeamsAlone /\ UNCHANGED <<msgVars, syncVars, accVars, apiVars>>
       \/ focus = "sync" /\ SyncNext /\ UNCHANGED <<msgVars, teamVars, accVars, apiVars>>
       \/ focus = "accounts" /\ AccNext /\ UNCHANGED <<msgVars, teamVars, syncVars, apiVars>>
       \/ focus = "ids" /\ (\E p \in -1..3 : NextPart(p))
          /\ UNCHANGED <<msgVars, teamVars, syncVars, accVars>>

MCSpec == MCInit /\ [][MCNext]_allVars

-----------------------------------------------------------------------------
\* What sending and reading requests answer: a broadcast that is complete, pages that
\* are (service/message.go:171-235, 290-330).  Any request can fail, so every state of
\* the tables is also one with no request in progress.
MailIsWhole ==
    focus = "messages" => BroadcastComplete /\ ((\A p \in MsgProcs : mpc[p] = "idle") => InboxIsWhole)

\* The interfaces: the gateway and the services agree on the requests that need a token
\* (jwt.go:18-40, NewWhiteListMatcher), the status a handler decides on reaches the
\* caller (core_data http.go:81-352), a team's counts run over distinct positive ids
\* only (http.go:107-123), and every remote call finds its method at the server it
\* dials (NewGRPCServer of the services).
InterfacesAgree ==
    /\ focus = "api" => GatewayAgrees(acase) /\ (\A s \in Servers : StatusIsKept(s, acase)) /\ CallsAreServed
    /\ focus = "ids" => TeamIdsAreClean(aids)
=============================================================================
