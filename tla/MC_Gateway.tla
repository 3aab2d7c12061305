------------------------------ MODULE MC_Gateway ------------------------------
(* The gateway's machines in one model: in each behaviour one of them, the       *)
(* focus, moves, and the others stay at an initial state.                        *)
EXTENDS GatewayReload, RouterDrain, ProxyRequest, GatewayChain, GatewayNodes

CONSTANTS k1, k2, n1, n2, b1

VARIABLES focus, hreq, hchain, merge
chainVars == <<hreq, hchain, merge>>

-----------------------------------------------------------------------------
CarriesDef == [r \in Releases |-> IF r = 2 THEN {k2} ELSE {}]

Status(codes) == [kind |-> "status", codes |-> codes]
SettingsDef ==
    [stream : {"yes", "no"}, retry : {"yes", "no"}, attempts : {0, 1, 3}, breaker : {"none", "data", "backup"},
     conditions : {{}, {Status(<<500, 504>>)}, {Status(<<503>>), [kind |-> "header", values |-> {"h"}]}}]

\* Endpoints: whole and prefix paths, of the main file and of priority files.
Ep(m, p, k, t) == [method |-> m, path |-> p, kind |-> k, host |-> "", tag |-> t]
BaseEps == {Ep("GET", <<"a">>, "whole", "m1"), Ep("", <<"a">>, "prefix", "m2"), Ep("POST", <<"a">>, "whole", "m3")}
PrioEps == {Ep("GET", <<"a">>, "whole", "p1"), Ep("POST", <<"a">>, "whole", "p3"), Ep("GET", <<"a", "b">>, "whole", "p4"),
            Ep("PUT", <<"a">>, "whole", "p5")}
Merges == {[base |-> b, prio |-> p] : b \in {s \in SeqOf(BaseEps, 2) : s # <<>>}, p \in SeqOf(PrioEps, 2)}

\* Chains of up to three middlewares.
Pub(p, k) == [path |-> p, kind |-> k]
JwtOpts == [secretLen : {8, 32}, publicPaths : {{}, {Pub(<<"pub">>, "prefix")}}, defaultPaths : {{Pub(<<"login">>, "whole")}}]
RewriteOpts == [path : {{}, {<<"pub">>}}, strip : {{}, {<<"x">>}}, set : {{}, {"X"}}]
CorsOpts == [origins : {{[wild |-> TRUE, labels |-> <<"cn">>], [wild |-> FALSE, labels |-> <<"io">>]}}]
Mw(n, os) == [name : {n}, required : BOOLEAN, opts : os]
Jwts == Mw("jwt", JwtOpts)
Others == {[name |-> n, required |-> FALSE, opts |-> [none |-> 0]] : n \in {"bbr", "transcoder", "logging", "unknown"}}
          \cup {[name |-> "rewrite", required |-> FALSE, opts |-> o] : o \in RewriteOpts}
          \cup {[name |-> "cors", required |-> FALSE, opts |-> o] : o \in CorsOpts}
Chains == {<<j, m>> : j \in Jwts, m \in Others} \cup {<<m, j>> : j \in Jwts, m \in Others}
Requests1 == [path : {<<"login">>, <<"x", "pub">>, <<"pub", "..", ".", "a", "">>, <<"", "pub", "b">>}, method : {"GET", "OPTIONS"},
              token : {"valid", "none"}, alg : {"HS256"}, origin : {<<>>, <<"cn", "edu">>, <<"com">>},
              overload : BOOLEAN, protocol : {"GRPC"}, grpc : {FALSE}, answer : {"status", "short", "bad"}]
Plain == [path |-> <<"login">>, method |-> "GET", token |-> "none", alg |-> "none", origin |-> <<>>,
          overload |-> FALSE, protocol |-> "HTTP", grpc |-> FALSE, answer |-> "ok"]

\* Backends and recordings.
Url(s, h, sec, bad) == [scheme |-> s, host |-> h, secure |-> sec, bad |-> bad]
Inst(us, w) == [urls |-> us, weight |-> w]
InstancesDef ==
    [s \in {"user", "core"} |->
        {{}, {Inst(<<Url("GRPC", s, FALSE, FALSE), Url("HTTP", s, TRUE, FALSE), Url("HTTP", s, FALSE, FALSE)>>, 0)},
         {Inst(<<Url("HTTP", s, FALSE, TRUE), Url("HTTP", s, FALSE, FALSE)>>, 3), Inst(<<Url("HTTP", s, FALSE, FALSE)>>, 3)}}]
Direct(n, tls, c) == [scheme |-> "direct", name |-> n, tls |-> tls, tlsName |-> c, weight |-> 1]
Disc(n) == [scheme |-> "discovery", name |-> n, tls |-> FALSE, tlsName |-> "", weight |-> 1]
BackendListsDef ==
    {[list |-> l, protocol |-> pr] : pr \in {"HTTP", "GRPC"},
        l \in SeqOf({Direct("d1", FALSE, ""), Direct("d2", TRUE, "c1"), Direct("d3", TRUE, "c9"), Disc("user"), Disc("core"),
                     [scheme |-> "unknown", name |-> "u", tls |-> FALSE, tlsName |-> "", weight |-> 1]}, 2)}
ChunksDef == {<<>>, <<<<1>>, <<>>, <<2, 3>>>>, <<<<>>, <<1, 2>>>>}

-----------------------------------------------------------------------------
\* The initial states of a machine, all of them only when it is the focus.
One(S) == CHOOSE x \in S : TRUE
MCInit ==
    /\ focus \in {"reload", "drain", "request", "chain", "merge", "nodes", "reader"}
    /\ ReloadInit /\ DrainInit /\ RequestInit /\ NodesInit /\ ReaderInit
    /\ focus # "reload" => slowBoot = "no"
    /\ focus # "request" => ep = One(SettingsDef)
    /\ focus # "nodes" => backendList = One(BackendListsDef)
    /\ focus # "reader" => chunks = <<>>
    /\ hchain \in IF focus = "chain" THEN Chains ELSE {<<>>}
    /\ hreq = Plain
    /\ merge \in IF focus = "merge" THEN Merges ELSE {[base |-> <<>>, prio |-> <<>>]}

\* A request arrives at the chain.
Arrive == \E r \in Requests1 : hreq' = r /\ hreq = Plain /\ UNCHANGED <<hchain, merge>>

MCNext ==
    \/ focus = "reload" /\ ReloadNext /\ UNCHANGED <<focus, drainVars, requestVars, nodeVars, readVars, chainVars>>
    \/ focus = "drain" /\ DrainNext /\ UNCHANGED <<focus, reloadVars, requestVars, nodeVars, readVars, chainVars>>
    \/ focus = "request" /\ RequestNext /\ UNCHANGED <<focus, reloadVars, drainVars, nodeVars, readVars, chainVars>>
    \/ focus = "nodes" /\ NodesNext /\ UNCHANGED <<focus, reloadVars, drainVars, requestVars, readVars, chainVars>>
    \/ focus = "reader" /\ ReaderNext /\ UNCHANGED <<focus, reloadVars, drainVars, requestVars, nodeVars, chainVars>>
    \/ focus = "chain" /\ Arrive /\ UNCHANGED <<focus, reloadVars, drainVars, requestVars, nodeVars, readVars>>

\* The fairness of each machine, for the behaviours in which it moves.
MCFairness ==
    /\ WF_reloadVars(focus = "reload" /\ CtrlStep) /\ WF_reloadVars(focus = "reload" /\ FileStep)
    /\ WF_reloadVars(focus = "reload" /\ BootStep)
    /\ WF_drainVars(focus = "drain" /\ BuildStep)
    /\ \A r \in Routers : WF_drainVars(focus = "drain" /\ SyncClose(r))
    /\ WF_requestVars(focus = "request" /\ HandlerStep)
MCSpec == MCInit /\ [][MCNext]_<<focus, reloadVars, drainVars, requestVars, nodeVars, readVars, chainVars>> /\ MCFairness

-----------------------------------------------------------------------------
Cleaned == [hreq EXCEPT !.path = cleanPath(@)]

\* What becomes of a request on its way: the merged routes, the cleaned path, the
\* chain of middlewares, the nodes of its endpoint, a recorded body, for the merges,
\* chains and requests above (config.go:180-215, mux.go:62-84, registry.go:58-66,
\* factory.go:150-190, recorder.go:100-175).
RoutesAreRight ==
    /\ PriorityWins(merge.base, merge.prio) /\ PathIsCanonical(hreq.path)
    /\ TokenOrPublic(hchain, Cleaned) /\ RefusalStays(hchain, Cleaned)
    /\ NodesOfAllBackends /\ ReadsFromPosition

\* What the gateway owes in the end: a release reaches the router and its priority
\* files follow, a replaced router is closed, a request is answered (ctrl-loader.go:
\* 100-380, config.go:215-290, mux.go:110-135, proxy.go:207-252).
GatewayProgress ==
    ReleaseReachesRouter /\ PriorityFollows /\ ReplacedIsClosed /\ (focus = "request" => RequestEnds)
=============================================================================
