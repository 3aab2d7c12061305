------------------------------- MODULE HttpApi -------------------------------
(* The interfaces of the services: their HTTP routes (generated from the protos   *)
(* and written in internal/server/http.go), the lists of routes that need no       *)
(* token, the gRPC services, and the calls the services make to each other.        *)
(*                                                                              *)
(* A path is <<first segment behind /v1, rest>>; an operation is <<service,        *)
(* method>>, short for the full name the generated constants hold.                *)
EXTENDS Integers, Sequences, FiniteSets, SequencesExt

\* A route behind the kratos middleware: its input comes from the body and the
\* query, from the query, or there is none.
Route(method, path, op, input) == [method |-> method, path |-> path, op |-> op, input |-> input, plain |-> FALSE]
POST(seg, path, svc, name) == Route("POST", <<seg, path>>, <<svc, name>>, "body")
GET(seg, path, svc, name) == Route("GET", <<seg, path>>, <<svc, name>>, "query")
NoInput(r) == [r EXCEPT !.input = "none"]

AuthHTTPServer == {POST("user", "auth/login", "Auth", "Login"), POST("user", "auth/register", "Auth", "Register")}
ProfileReads ==
    {GET("user", "profile/get-by-id", "Profile", "GetById"), GET("user", "profile/get-by-name", "Profile", "GetByName"),
     GET("user", "profile/list", "Profile", "GetList")}
ProfileHTTPServer ==
    {POST("user", "profile/update", "Profile", "Update"), POST("user", "profile/move-group", "Profile", "MoveGroup"),
     POST("user", "profile/set-email-enabled", "Profile", "SetEmailEnabled"),
     GET("user", "profile/ids-by-group", "Profile", "GetUserIdsByGroup"), POST("user", "profile/get-by-ids", "Profile", "GetByIds")}
GroupHTTPServer ==
    {POST("user", "group/create", "Group", "Create"), POST("user", "group/delete", "Group", "Delete"),
     POST("user", "group/update", "Group", "Update"), GET("user", "group/get", "Group", "Get"), GET("user", "group/list", "Group", "List")}
RoleHTTPServer == {GET("user", "role/list", "Role", "List"), POST("user", "role/set-user-role", "Role", "SetUserRole")}
registerSystemHTTPServer ==
    {NoInput(GET("user", "system/register-invite-code", "System", "RegisterInviteCode")),
     POST("user", "system/register-invite-code", "System", "RegisterInviteCode"),
     GET("user", "system/operation-logs", "System", "OperationLogs")}
registerProfileExtraHTTPServer ==
    {POST("user", "profile/change-password", "Profile", "ChangePassword"), POST("user", "profile/delete", "Profile", "DeleteUser")}
registerTeamHTTPServer ==
    {GET("user", "team/detail", "Team", "Detail"), POST("user", "team/create", "Team", "Create"),
     POST("user", "team/update", "Team", "Update"), POST("user", "team/invite", "Team", "Invite"),
     POST("user", "team/member/remove", "Team", "RemoveMember"), POST("user", "team/owner/transfer", "Team", "TransferOwner"),
     NoInput(POST("user", "team/leave", "Team", "Leave")), NoInput(POST("user", "team/disband", "Team", "Disband")),
     NoInput(GET("user", "team/invites", "Team", "InviteList")), POST("user", "team/invite/respond", "Team", "InviteRespond")}
registerMessageHTTPServer ==
    {GET("user", "message/conversations", "Message", "Conversations"), GET("user", "message/thread", "Message", "Thread"),
     POST("user", "message/send", "Message", "Send"), POST("user", "message/read", "Message", "Read"),
     NoInput(GET("user", "message/unread-count", "Message", "UnreadCount")), POST("user", "message/broadcast", "Message", "Broadcast")}

SubmitHTTPServer == {GET("core", "submit-log/get-by-id", "Submit", "GetSubmitLog")}
SpiderHTTPServer ==
    {POST("core", "spider/set", "Spider", "SetSpider"), POST("core", "spider/update", "Spider", "Update"),
     GET("core", "spider/job", "Spider", "Job"), GET("core", "spider/jobs", "Spider", "Jobs"), GET("core", "spider/status", "Spider", "Status")}
StatisticHTTPServer ==
    {GET("core", "statistic/heatmap", "Statistic", "Heatmap"), GET("core", "statistic/period", "Statistic", "PeriodCount")}
ContestHTTPServer ==
    {GET("core", "contest/list", "Contest", "GetContestList"), GET("core", "contest/history", "Contest", "GetUserContestHistory"),
     GET("core", "contest/ranking", "Contest", "GetContestRanking")}
BulletinHTTPServer ==
    {POST("core", "bulletin/create", "Bulletin", "Create"), POST("core", "bulletin/update", "Bulletin", "Update"),
     Route("DELETE", <<"core", "bulletin/delete">>, <<"Bulletin", "Delete">>, "query"),
     GET("core", "bulletin/get", "Bulletin", "Get"), GET("core", "bulletin/list", "Bulletin", "List")}

\* The handlers core_data mounts with HandleFunc, which no middleware surrounds.
Plain(method, path, input) == [method |-> method, path |-> <<"core", path>>, op |-> <<"core", path>>, input |-> input, plain |-> TRUE]
statisticHandlers ==
    {Plain("GET", "statistic/platform-period", "query"), Plain("GET", "statistic/team-period", "query"),
     Plain("GET", "statistic/explanation", "none"), Plain("GET", "statistic/platform-detail", "query"),
     Plain("GET", "achievement/global-snapshot", "none"), Plain("GET", "spider/audit", "query")}
operationHandlers ==
    {Plain("GET", "statistic/cache-status", "query"), Plain("POST", "statistic/cache-clear", "ignored"),
     Plain("GET", "spider/health", "none"), Plain("POST", "spider/retry", "body"), Plain("POST", "spider/rebuild-all", "none"),
     Plain("GET", "operation-logs", "query"), Plain("GET", "snapshot", "query"), Plain("POST", "snapshot", "body")}

SummaryHTTPServer == {GET("agent", "summary/recent", "Summary", "GetRecentSummary")}

ServerRoutes ==
    [user |-> UNION {AuthHTTPServer, ProfileReads, ProfileHTTPServer, GroupHTTPServer, RoleHTTPServer, registerSystemHTTPServer,
                     registerProfileExtraHTTPServer, registerTeamHTTPServer, registerMessageHTTPServer},
     core |-> UNION {SubmitHTTPServer, SpiderHTTPServer, StatisticHTTPServer, ContestHTTPServer, BulletinHTTPServer,
                     statisticHandlers, operationHandlers},
     agent |-> SummaryHTTPServer]
Servers == DOMAIN ServerRoutes

-----------------------------------------------------------------------------
(* Who may call without a token *)

\* Mutant: an entry is misspelt.
MutMisspelt ==
    {<<"Auth", "Login">>, <<"Auth", "Register">>, <<"Profile", "GetById">>, <<"Profile", "GetByName">>, <<"Profile", "GetList">>,
     <<"Role", "List">>, <<"Group", "Get">>, <<"group", "List">>, <<"Team", "Detail">>}

UserWhiteList ==
    {<<"Auth", "Login">>, <<"Auth", "Register">>, <<"Profile", "GetById">>, <<"Profile", "GetByName">>, <<"Profile", "GetList">>,
     <<"Role", "List">>, <<"Group", "Get">>, <<"Group", "List">>, <<"Team", "Detail">>}
CoreWhiteList ==
    {<<"Submit", "GetSubmitLog">>, <<"Contest", "GetContestList">>, <<"Contest", "GetContestRanking">>, <<"Spider", "GetSpider">>,
     <<"Statistic", "Heatmap">>, <<"Statistic", "PeriodCount">>, <<"core", "statistic/platform-period">>,
     <<"core", "statistic/team-period">>, <<"core", "statistic/explanation">>, <<"core", "statistic/platform-detail">>,
     <<"core", "achievement/global-snapshot">>, <<"Bulletin", "Get">>, <<"Bulletin", "List">>}

\* The matchers select the operations the jwt middleware guards; the agent has none.
Guarded(server, op) ==
    CASE server = "user" -> op \notin UserWhiteList
      [] server = "core" -> op \notin CoreWhiteList
      [] OTHER -> FALSE

defaultPublicPaths ==
    {<<"user", "auth/login">>, <<"user", "auth/register">>, <<"user", "profile/get-by-id">>, <<"user", "profile/get-by-name">>,
     <<"user", "profile/list">>, <<"user", "role/list">>, <<"user", "group/get">>, <<"user", "group/list">>, <<"user", "team/detail">>,
     <<"core", "submit-log/get-by-id">>, <<"core", "contest/list">>, <<"core", "contest/ranking">>, <<"core", "statistic/heatmap">>,
     <<"core", "statistic/period">>, <<"core", "statistic/platform-period">>, <<"core", "statistic/team-period">>,
     <<"core", "statistic/explanation">>, <<"core", "statistic/platform-detail">>, <<"core", "achievement/global-snapshot">>,
     <<"core", "bulletin/get">>, <<"core", "bulletin/list">>}

-----------------------------------------------------------------------------
(* What a request is answered.  It is [method, path, token, input, code]: code is   *)
(* what its handler would answer, 200 or the code of its error.                   *)

\* parseIntCSVQuery and the check of team-period: the numbers, each once.  A part
\* that is no number (0 here) is an error, one below 1 gives the empty list; both
\* are refused.
parseIntCSVQuery(parts) ==
    IF \E k \in 1..Len(parts) : parts[k] <= 0 THEN <<>>
    ELSE FoldLeft(LAMBDA out, p : IF Contains(out, p) THEN out ELSE Append(out, p), <<>>, parts)

\* A route with its two methods is found by the method; another one is 405 on a
\* plain handler and on the router alike, an unknown path 404.
RoutesAt(server, path) == {r \in ServerRoutes[server] : r.path = path}

\* Bind comes before SetOperation and the middleware, and those before the handler.
GeneratedHandler(server, r, q) ==
    CASE r.input # "none" /\ q.input = "bad" -> 400
      [] Guarded(server, r.op) /\ q.token # "valid" -> 401
      [] OTHER -> q.code

writeHTTPJSON(code) == code

\* platform-period answers any error with 500; cache-clear ignores what it cannot read.
PlainHandler(r, q) ==
    CASE r.input \in {"query", "body"} /\ q.input = "bad" -> 400
      [] r.path[2] = "statistic/platform-period" /\ q.code # 200 -> 500
      [] OTHER -> writeHTTPJSON(q.code)

ServerAnswer(server, q) ==
    LET at == RoutesAt(server, q.path)
        fits == {r \in at : r.method = q.method}
    IN  CASE at = {} -> 404
          [] fits = {} -> 405
          [] OTHER -> LET r == CHOOSE x \in fits : TRUE
                      IN  IF r.plain THEN PlainHandler(r, q) ELSE GeneratedHandler(server, r, q)

\* The gateway with the default list: the endpoints /v1/user/*, /v1/core/* and
\* /v1/agent/* of its configuration, behind jwt.
GatewayAnswer(q) ==
    IF q.path \notin defaultPublicPaths /\ q.token # "valid" THEN 401
    ELSE IF q.path[1] \in Servers THEN ServerAnswer(q.path[1], q) ELSE 404

-----------------------------------------------------------------------------
(* gRPC: the names the client stubs invoke and the names the servers register       *)

ProfileClient == {"GetById", "GetByName", "GetList", "Update", "MoveGroup", "SetEmailEnabled", "GetUserIdsByGroup", "GetByIds"}
ProfileServer == {"GetById", "GetByName", "GetList", "Update", "MoveGroup", "SetEmailEnabled", "GetUserIdsByGroup", "GetByIds"}
SpiderClient == {"SetSpider", "GetSpider", "Update", "Job", "Jobs", "Status"}
SpiderServer == {"SetSpider", "GetSpider", "Update", "Job", "Jobs", "Status"}
SubmitClient == {"GetSubmitLog", "LastSubmitTime"}
SubmitServer == {"GetSubmitLog", "LastSubmitTime"}
StatisticClient == {"Heatmap", "PeriodCount"}
StatisticServer == {"Heatmap", "PeriodCount"}
Stubs == [Profile |-> ProfileClient, Spider |-> SpiderClient, Submit |-> SubmitClient, Statistic |-> StatisticClient]

\* NewGRPCServer of the three services.
UserGRPCServer == {<<"Profile", m>> : m \in ProfileServer}
CoreGRPCServer ==
    {<<"Spider", m>> : m \in SpiderServer} \cup {<<"Submit", m>> : m \in SubmitServer} \cup {<<"Statistic", m>> : m \in StatisticServer}
GRPCServer(server) == CASE server = "user" -> UserGRPCServer [] server = "core" -> CoreGRPCServer [] OTHER -> {}

\* The calls: [by, in, to, at], a handler or job of one service, and the method
\* called at the service it dials.
Call(by, in, svc, method, at) == [by |-> by, in |-> in, to |-> <<svc, method>>, at |-> at]
UserCalls ==
    {Call("user", <<"Profile", "GetById">>, "Spider", "GetSpider", "core"),
     Call("user", <<"Profile", "GetList">>, "Submit", "LastSubmitTime", "core"),
     Call("user", <<"Group", "Get">>, "Submit", "LastSubmitTime", "core")}
CoreCalls ==
    {Call("core", <<"cron", "Do">>, "Profile", "GetList", "user"),
     Call("core", <<"Contest", "GetContestRanking">>, "Profile", "GetUserIdsByGroup", "user"),
     Call("core", <<"Contest", "GetContestRanking">>, "Profile", "GetByIds", "user")}
\* The tools of the agent's reports: one lookup each.
AgentCall(svc, method, at) == Call("agent", <<"consumer", "Consume">>, svc, method, at)
GetNameById == AgentCall("Profile", "GetById", "user")
StatisticPeriod == AgentCall("Statistic", "PeriodCount", "core")
SubmitCnt == AgentCall("Statistic", "Heatmap", "core")
SubmitLog == AgentCall("Submit", "GetSubmitLog", "core")
AgentCalls == {GetNameById, StatisticPeriod, SubmitCnt, SubmitLog}
Calls == UserCalls \cup CoreCalls \cup AgentCalls

\* Where a call leads: the calls the called method makes.
Callees(call) == {c \in Calls : c.by = call.at /\ c.in = call.to}

-----------------------------------------------------------------------------
\* On every route behind the kratos middleware the gateway with its default list and
\* the service's own matcher agree on which requests need a token, so that moving
\* a caller behind the gateway changes no answer of a well-formed request; every
\* public path is a route of the server the gateway sends it to, and one that this
\* server opens too (jwt.go:18-40, http.go:20-39 of user, 27-49 of core_data).
GatewayAgrees(q) ==
    /\ \A s \in Servers : \A r \in RoutesAt(s, q.path) :
          s # "agent" /\ ~r.plain /\ r.method = q.method /\ q.input = "good" => GatewayAnswer(q) = ServerAnswer(s, q)
    /\ q.path \in defaultPublicPaths => \E r \in RoutesAt(q.path[1], q.path) : r.plain \/ ~Guarded(q.path[1], r.op)

\* The code of a handler's error is the status of the answer on every route but
\* platform-period, and a request that cannot be read is never run, except by
\* cache-clear, which then clears the caches of user 0 (http.go:81-106, 189-200).
StatusIsKept(server, q) ==
    LET got == ServerAnswer(server, q)
    IN  \A r \in RoutesAt(server, q.path) : r.method = q.method =>
            /\ q.token = "valid" /\ q.input = "good" /\ q.path # <<"core", "statistic/platform-period">> => got = q.code
            /\ q.input = "bad" /\ r.input \in {"query", "body"} => got = 400

\* A team-period request runs only over distinct positive user ids (http.go:112-120).
TeamIdsAreClean(parts) ==
    LET ids == parseIntCSVQuery(parts)
    IN  /\ \A j, k \in 1..Len(ids) : ids[j] > 0 /\ (ids[j] = ids[k] => j = k)
        /\ ids # <<>> => ToSet(ids) = ToSet(parts)

\* A remote call names a method that the server it dials has registered, and no
\* chain of remote calls comes back to a service it has left: a request that waits
\* for a call never waits for itself (group.go:104, profile.go:112 and 256 of user,
\* contest.go:96 and cron.go:74 of core_data, the agent's tools).
CallsAreServed ==
    \A c \in Calls :
        /\ c.to[2] \in Stubs[c.to[1]] /\ c.to \in GRPCServer(c.at)
        /\ \A d \in Callees(c) : d.at # d.by /\ d.to # c.in /\ Callees(d) = {}
=============================================================================
