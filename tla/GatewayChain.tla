---------------------------- MODULE GatewayChain ----------------------------
(* What the gateway decides about one request before and after the backend:     *)
(* the merge of priority endpoints (config/config.go), the routes of             *)
(* router/mux/mux.go, the registry of middlewares and the middlewares jwt, cors, *)
(* rewrite, transcoder, bbr, logging and tracing.                                *)
(*                                                                              *)
(* A path is the sequence of its segments: "/v1/user/" is <<"v1", "user", "">>.  *)
EXTENDS Integers, Sequences, FiniteSets, SequencesExt

-----------------------------------------------------------------------------
(* Priority configuration and routes *)

\* An endpoint is [method, path, kind, host, tag]; its key is method and path.
keyFn(e) == <<e.method, e.path, e.kind>>

\* index holds positions in the main file's list: the last one of a key.
OriginIndex(origin, item) == SelectLastInSeq(origin, LAMBDA e : keyFn(e) = keyFn(item))

\* Mutant: a new endpoint goes to the end of the list.
MutAppendsNew(origin, dst, item) ==
    LET idx == OriginIndex(origin, item) IN IF idx = 0 THEN Append(dst, item) ELSE [dst EXCEPT ![idx] = item]

MakeReplaceOrPrependEndpointFn(origin, dst, item) ==
    LET idx == OriginIndex(origin, item)
    IN  IF idx = 0 THEN <<item>> \o dst ELSE [dst EXCEPT ![idx] = item]

MergeEndpoints(origin, items) ==
    FoldLeft(LAMBDA dst, item : MakeReplaceOrPrependEndpointFn(origin, dst, item), origin, items)

\* cleanPath: "." and empty segments vanish, ".." drops the segment before it; a
\* trailing slash is put back except at the root.
CleanStep(out, seg) ==
    CASE seg \in {"", "."} -> out
      [] seg = ".." -> IF out = <<>> THEN out ELSE Front(out)
      [] OTHER -> Append(out, seg)
cleanPath(p) ==
    LET np == FoldLeft(CleanStep, <<>>, p)
    IN  IF p # <<>> /\ Last(p) = "" /\ np # <<>> THEN Append(np, "") ELSE np

\* Handle: a pattern ending in "*" is a prefix, any other one the whole path; a
\* method other than "" and "*" admits OPTIONS too.
PathMatches(e, p) ==
    IF e.kind = "prefix" THEN Len(p) > Len(e.path) /\ SubSeq(p, 1, Len(e.path)) = e.path
    ELSE p = e.path
MethodMatches(e, m) == e.method \in {"", "*"} \/ m \in {e.method, "OPTIONS"}
HostMatches(e, h) == e.host \in {"", h}

\* The first route that matches serves; 405 when only the method is wrong.
NotFound == [tag |-> "404"]
MethodNotAllowed == [tag |-> "405"]
RouteTo(routes, r) ==
    LET p == cleanPath(r.path)
        fits == SelectInSeq(routes, LAMBDA e : HostMatches(e, r.host) /\ PathMatches(e, p)
                                               /\ MethodMatches(e, r.method))
    IN  IF fits # 0 THEN routes[fits]
        ELSE IF \E k \in 1..Len(routes) : HostMatches(routes[k], r.host) /\ PathMatches(routes[k], p)
             THEN MethodNotAllowed ELSE NotFound

-----------------------------------------------------------------------------
(* Middlewares.  One is [name, required, opts]. *)

Registered == {"jwt", "cors", "rewrite", "transcoder", "bbr", "logging", "tracing"}

\* jwtOptions: the secret is required and long enough.
FactoryFails(m) == m.name = "jwt" /\ m.opts.secretLen < 32

\* Create and buildMiddleware: an unknown middleware is skipped, an optional one
\* that cannot be made is replaced by the empty one, a required one is an error.
BuildFails(ms) == \E k \in 1..Len(ms) : ms[k].name \in Registered /\ ms[k].required /\ FactoryFails(ms[k])
buildMiddleware(ms) == SelectSeq(ms, LAMBDA m : m.name \in Registered /\ ~FactoryFails(m))

\* isPublicPath, with the default list for an empty one.  A "prefix" is a path that
\* ends in "/*": something must follow it.
isPublicPath(path, paths) ==
    \E p \in paths : IF p.kind = "prefix" THEN Len(path) > Len(p.path) /\ SubSeq(path, 1, Len(p.path)) = p.path
                     ELSE path = p.path
PublicPaths(o) == IF o.publicPaths = {} THEN o.defaultPaths ELSE o.publicPaths

\* isOriginAllowed: the host itself, or any host below a "*." pattern ("*" alone has
\* no labels).  A host is the sequence of its labels from the right.
isOriginAllowed(origin, hosts) ==
    \E h \in hosts : IF h.wild THEN Len(origin) > Len(h.labels) /\ SubSeq(origin, 1, Len(h.labels)) = h.labels
                     ELSE origin = h.labels

\* stripPrefix, of a prefix that is a number of whole segments.
stripPrefix(p, prefix) ==
    IF IsPrefix(prefix, p) THEN SubSeq(p, Len(prefix) + 1, Len(p)) ELSE p

\* A response is [status, hdr, kind, from]: hdr the names of its headers, kind
\* "nil" when it has no header map, "panic" and "error" when there is no response.
Reply(status, hdr, kind) == [status |-> status, hdr |-> hdr, kind |-> kind, from |-> "gateway"]
Panic == Reply(502, {}, "panic")
Failed == Reply(502, {}, "error")

AddHeaders(resp, hs) == [resp EXCEPT !.hdr = @ \cup hs, !.kind = "ok"]

\* The request as a middleware passes it on; opts.path and opts.strip are sets of
\* at most one path.
Onward(m, r) ==
    CASE m.name = "rewrite" ->
            LET p == IF m.opts.path = {} THEN r.path ELSE CHOOSE q \in m.opts.path : TRUE
            IN  [r EXCEPT !.path = IF m.opts.strip = {} THEN p
                                   ELSE stripPrefix(p, CHOOSE q \in m.opts.strip : TRUE)]
      [] m.name = "transcoder" /\ r.protocol = "GRPC" -> [r EXCEPT !.grpc = TRUE]
      [] OTHER -> r

\* A middleware answers itself: an unauthenticated call, a foreign origin, a
\* preflight, an overload.
Refuses(m, r) ==
    CASE m.name = "jwt" -> ~isPublicPath(r.path, PublicPaths(m.opts)) /\ ~(r.token = "valid" /\ r.alg = "HS256")
      [] m.name = "cors" -> r.origin # <<>> /\ (~isOriginAllowed(r.origin, m.opts.origins) \/ r.method = "OPTIONS")
      [] m.name = "bbr" -> r.overload
      [] OTHER -> FALSE
Refusal(m, r) ==
    CASE m.name = "jwt" -> Reply(401, {}, "nil")
      [] m.name = "bbr" -> Reply(429, {}, "nil")
      [] m.name = "cors" /\ isOriginAllowed(r.origin, m.opts.origins) ->
            Reply(200, {"Allow-Origin", "Allow-Methods", "Allow-Headers"}, "ok")
      [] OTHER -> Reply(403, {}, "ok")

\* What a middleware makes of the response: cors adds its headers; rewrite sets
\* headers in a map that may be nil; the transcoder turns a gRPC answer into JSON,
\* and needs a gRPC status and, when that is 0, five bytes of frame.
Back(m, r, resp) ==
    CASE resp.kind \in {"panic", "error"} -> resp
      [] m.name = "cors" /\ r.origin # <<>> -> AddHeaders(resp, {"Allow-Origin", "Allow-Methods"})
      [] m.name = "rewrite" /\ m.opts.set # {} ->
            IF resp.kind = "nil" THEN Panic ELSE AddHeaders(resp, m.opts.set)
      [] m.name = "transcoder" /\ r.protocol = "GRPC" /\ ~r.grpc ->
            CASE resp.kind = "nil" \/ (resp.from = "backend" /\ r.answer = "short") -> Panic
              [] resp.from = "gateway" \/ r.answer = "bad" -> Failed
              [] OTHER -> [resp EXCEPT !.status = IF r.answer = "status" THEN 200 ELSE @]
      [] OTHER -> resp

Backend(r) == [status |-> 200, hdr |-> {}, kind |-> "ok", from |-> "backend"]

\* The chain: the first configured is the outermost.
RECURSIVE Serve(_, _)
Serve(ms, r) ==
    IF ms = <<>> THEN Backend(r)
    ELSE IF Refuses(Head(ms), r) THEN Refusal(Head(ms), r)
    ELSE Back(Head(ms), r, Serve(Tail(ms), Onward(Head(ms), r)))

-----------------------------------------------------------------------------
(* Properties, stated over a request hreq, a chain hchain and a configuration   *)
(* [base, prio] of endpoint lists.                                              *)

\* The merged list holds every endpoint of the priority files (the last one of a
\* key), every endpoint of the main file whose key they leave alone, and a new
\* endpoint is served before those of the main file.  This needs the replacing
\* endpoints to come before the new ones: index is taken before anything is
\* prepended (config.go:190-200), and a replacement made after a prepend lands on
\* the wrong position.
Replacing(base, e) == OriginIndex(base, e) # 0
PriorityWins(base, prio) ==
    LET merged == MergeEndpoints(base, prio)
    IN  (\A k, n \in 1..Len(prio) : k < n /\ Replacing(base, prio[n]) => Replacing(base, prio[k])) =>
        /\ \A k \in 1..Len(prio) :
              (\A n \in (k + 1)..Len(prio) : keyFn(prio[n]) # keyFn(prio[k])) => Contains(merged, prio[k])
        /\ \A e \in ToSet(base) :
              (\A n \in 1..Len(prio) : keyFn(prio[n]) # keyFn(e)) => Contains(merged, e)
        /\ \A e \in ToSet(prio) : ~Replacing(base, e) /\ e.kind = "whole" =>
              RouteTo(merged, [path |-> e.path, method |-> e.method, host |-> e.host]) \in ToSet(prio)

\* cleanPath is idempotent and leaves no ".", ".." or inner empty segment, so that
\* the router and the middlewares behind it judge one spelling of a path
\* (mux.go:62-84).
PathIsCanonical(p) ==
    LET c == cleanPath(p)
    IN  cleanPath(c) = c /\ \A k \in 1..Len(c) : c[k] \notin {".", ".."} /\ (c[k] = "" => k = Len(c))

\* Through any chain that was built from a configuration with a required jwt in
\* front (the deployed one), a request without a valid token reaches the backend
\* on public paths only, and is answered 401 otherwise: a bad secret fails the
\* build instead of dropping the check (registry.go:58-66).
TokenOrPublic(ms, r) ==
    ms # <<>> /\ Head(ms).name = "jwt" /\ Head(ms).required /\ ~BuildFails(ms) =>
        LET resp == Serve(buildMiddleware(ms), r)
        IN  \/ r.token = "valid" /\ r.alg = "HS256"
            \/ isPublicPath(r.path, PublicPaths(Head(ms).opts))
            \/ resp.from = "gateway" /\ resp.status = 401

\* A refusal of an inner middleware survives the ones around it: its status only
\* changes to the 502 of a panic or an error (rewrite.go:67-74 and
\* transcoder.go:74 write to the nil headers of jwt.go:121 and bbr.go:26), never to
\* a success.
RefusalStays(ms, r) ==
    LET resp == Serve(buildMiddleware(ms), r)
    IN  resp.from = "gateway" =>
            \/ resp.status \in {401, 403, 429} /\ resp.kind \in {"nil", "ok"}
            \/ resp.status = 502 /\ resp.kind \in {"panic", "error"}
            \/ resp.status = 200 /\ r.method = "OPTIONS"
=============================================================================
