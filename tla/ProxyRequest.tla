---------------------------- MODULE ProxyRequest ----------------------------
(* One request through the handler of buildEndpoint (proxy/proxy.go) and the     *)
(* trippers under it: the circuit breaker (middleware/circuitbreaker), the       *)
(* client (client/client.go) and its node filter (middleware/request.go).        *)
(*                                                                              *)
(* What other requests do to the breakers, the nodes and the backends is a free  *)
(* choice at each use.  A response is [status, hdr]; an attempt is numbered from *)
(* 1, and attempt 0 stands for "no node picked".                                 *)
EXTENDS Integers, Sequences, FiniteSets

CONSTANTS Nodes,       \* addresses of the backend service
          BackupNodes, \* addresses of the circuit breaker's backup service
          Statuses,    \* status codes the backends and the break handler answer with
          Settings     \* the endpoint settings under check

ASSUME RequestConstants ==
    \A e \in Settings : e.stream \in {"yes", "no"} /\ e.retry \in {"yes", "no"} /\ e.attempts \in Nat

VARIABLES
    ep,          \* the endpoint: [stream, retry, attempts, conditions, breaker]
    qpc,         \* "begin", "attempt", "trip", "client", "backup", "judge",
                 \* "answer", "copy", "done"
    i,           \* attempts started
    cerr,        \* ctx.Err(): "nil", "canceled", "deadline"
    err,         \* err: "nil", "canceled", "deadline", "other"
    resp,        \* the last response, [status, hdr, of, body]; body "open" or "closed"
    backends,    \* reqOpts.Backends
    doneFunc,    \* reqOpts.DoneFunc: the attempt whose done it is, 0 the no-op
    released,    \* attempt -> how often its done was called
    marks,       \* circuit breaker: marks set
    passes,      \* circuit breaker: requests it saw
    client,      \* what the client has got: [status, body]
    picked,      \* history: the attempts that picked a node
    rejected,    \* history: the attempts whose response a retry condition matched
    broken       \* history: "yes" when the copy failed

hist == <<picked, rejected, broken>>
requestVars == <<ep, qpc, i, cerr, err, resp, backends, doneFunc, released, marks, passes, client, hist>>

-----------------------------------------------------------------------------
(* The retry strategy (proxy/retry.go, proxy/condition/condition.go) *)

calcAttempts(e) == IF e.retry = "no" \/ e.attempts = 0 THEN 1 ELSE e.attempts

\* A condition is [kind |-> "status", codes |-> <<a>> or <<a, b>>], inclusive, or
\* [kind |-> "header", values |-> a set]; the header may be absent.
Judge(c, r) ==
    CASE c.kind = "status" /\ Len(c.codes) = 1 -> r.status = c.codes[1]
      [] c.kind = "status" /\ Len(c.codes) = 2 -> r.status \in c.codes[1]..c.codes[2]
      [] OTHER -> r.hdr # "absent" /\ r.hdr \in c.values

JudgeConditons(cs, r, onEmpty) ==
    IF cs = {} THEN onEmpty ELSE \E c \in cs : Judge(c, r)

judgeRetryRequired(r) == JudgeConditons(IF ep.retry = "yes" THEN ep.conditions ELSE {}, r, FALSE)

\* prepareRetryStrategy: a stream endpoint with a retry strategy is not built.
Buildable(e) == ~(e.stream = "yes" /\ e.retry = "yes")

NoResponse == [status |-> 0, hdr |-> "absent", of |-> 0, body |-> "open"]

RequestInit ==
    /\ ep \in {e \in Settings : Buildable(e)}
    /\ qpc = "begin" /\ i = 0 /\ cerr = "nil" /\ err = "nil" /\ resp = NoResponse
    /\ backends = <<>> /\ doneFunc = 0 /\ released = [a \in 1..calcAttempts(ep) |-> 0]
    /\ marks = 0 /\ passes = 0 /\ client = [status |-> 0, body |-> "none"]
    /\ picked = {} /\ rejected = {} /\ broken = "no"

\* The client goes away, or the endpoint's timeout runs out.
Expire(e) ==
    /\ qpc \notin {"done"} /\ cerr = "nil" /\ cerr' = e
    /\ UNCHANGED <<ep, qpc, i, err, resp, backends, doneFunc, released, marks, passes, client, hist>>

\* writeError
StatusOf(e) == CASE e = "canceled" -> 499 [] e = "deadline" -> 504 [] OTHER -> 502
writeError(e) == client' = [status |-> StatusOf(e), body |-> "none"] /\ qpc' = "done"

\* The request body is read in full first, unless the endpoint is a stream.
ReadBody ==
    /\ qpc = "begin"
    /\ \/ ep.stream = "no" /\ qpc' = "attempt" /\ UNCHANGED <<i, client>>
       \/ ep.stream = "no" /\ (\E e \in {"canceled", "deadline", "other"} : writeError(e)) /\ UNCHANGED i
       \/ ep.stream = "yes" /\ qpc' = "trip" /\ i' = 1 /\ UNCHANGED client
    /\ UNCHANGED <<ep, cerr, err, resp, backends, doneFunc, released, marks, passes, hist>>

\* The head of the retry loop: retries may be switched off or refused by the retry
\* breaker, and nothing is tried for a request that is over.
NextAttempt ==
    /\ qpc = "attempt"
    /\ \/ i > 0 /\ qpc' = "answer" /\ UNCHANGED <<i, err>>
       \/ /\ i < calcAttempts(ep)
          /\ IF cerr # "nil"
             THEN err' = cerr /\ qpc' = "answer" /\ UNCHANGED i
             ELSE qpc' = "trip" /\ i' = i + 1 /\ UNCHANGED err
    /\ UNCHANGED <<ep, cerr, resp, backends, doneFunc, released, marks, passes, client, hist>>

-----------------------------------------------------------------------------
(* The trippers *)

\* A tripper returns: into the loop, or into the reverse proxy of a stream.
Return(e, r) ==
    /\ err' = e /\ resp' = r
    /\ qpc' = IF e = "nil" THEN "judge" ELSE IF ep.stream = "yes" THEN "answer" ELSE "attempt"

Answers(of) == {[status |-> s, hdr |-> h, of |-> of, body |-> "open"] : s \in Statuses, h \in {"absent", "h"}}

\* Circuit breaker: allowed, the request goes on; refused, the failure is marked
\* and the break handler answers: a static response, or the backup service.
Breaker ==
    /\ qpc = "trip"
    /\ passes' = IF ep.breaker = "none" THEN passes ELSE passes + 1
    /\ \/ qpc' = "client" /\ UNCHANGED <<err, resp, marks>>
       \/ ep.breaker = "data" /\ marks' = marks + 1 /\ \E r \in Answers(0) : Return("nil", r)
       \/ ep.breaker = "backup" /\ marks' = marks + 1 /\ qpc' = "backup" /\ UNCHANGED <<err, resp>>
    /\ UNCHANGED <<ep, i, cerr, backends, doneFunc, released, client, hist>>

\* The filter of NewRequestOptions: the nodes not tried yet, all of them when
\* there is none.
Tried == {backends[k] : k \in 1..Len(backends)}

Filter(nodes) == IF nodes \subseteq Tried THEN nodes ELSE nodes \ Tried

\* An error of the round trip; the timeout of the attempt alone is a deadline too.
TripErrors == {"other"} \cup (IF cerr = "nil" THEN {"deadline"} ELSE {cerr})

\* client.RoundTrip: no node; a node that fails, whose done is called at once; or
\* a response, whose done is left to the caller.
RoundTrip(nodes) ==
    \/ Return("other", NoResponse) /\ UNCHANGED <<backends, doneFunc, released, picked>>
    \/ \E n \in Filter(nodes) :
          /\ backends' = Append(backends, n) /\ picked' = picked \cup {i}
          /\ \/ /\ \E e \in TripErrors : Return(e, NoResponse)
                /\ released' = [released EXCEPT ![i] = @ + 1] /\ UNCHANGED doneFunc
             \/ /\ \E r \in Answers(i) : Return("nil", r)
                /\ doneFunc' = i /\ UNCHANGED released

\* Under the breaker, which marks the outcome; and as its backup.
ClientTrip ==
    /\ qpc = "client" /\ RoundTrip(Nodes)
    /\ marks' = IF ep.breaker = "none" THEN marks ELSE marks + 1
    /\ UNCHANGED <<ep, i, cerr, passes, client, rejected, broken>>

BackupTrip ==
    /\ qpc = "backup" /\ RoundTrip(BackupNodes)
    /\ UNCHANGED <<ep, i, cerr, marks, passes, client, rejected, broken>>

-----------------------------------------------------------------------------
\* Mutant: every response is closed before it is judged.
MutClosesAccepted ==
    /\ qpc = "judge" /\ resp' = [resp EXCEPT !.body = "closed"]
    /\ IF ep.stream = "no" /\ judgeRetryRequired(resp)
       THEN qpc' = "attempt" /\ rejected' = rejected \cup {i}
       ELSE qpc' = "answer" /\ UNCHANGED rejected
    /\ UNCHANGED <<ep, i, cerr, err, backends, doneFunc, released, marks, passes, client, picked, broken>>

\* A response that a retry condition matches is closed and the loop goes on.
JudgeResponse ==
    /\ qpc = "judge"
    /\ IF ep.stream = "no" /\ judgeRetryRequired(resp)
       THEN /\ resp' = [resp EXCEPT !.body = "closed"] /\ qpc' = "attempt"
            /\ rejected' = rejected \cup {i}
       ELSE qpc' = "answer" /\ UNCHANGED <<resp, rejected>>
    /\ UNCHANGED <<ep, i, cerr, err, backends, doneFunc, released, marks, passes, client,
                   picked, broken>>

Release == released' = [a \in DOMAIN released |-> released[a] + (IF a = doneFunc THEN 1 ELSE 0)]

\* After the loop: an error is written as a status; a response's header goes out
\* first.
Answer ==
    /\ qpc = "answer" /\ ep.stream = "no"
    /\ IF err # "nil" THEN writeError(err)
       ELSE client' = [status |-> resp.status, body |-> "none"] /\ qpc' = "copy"
    /\ UNCHANGED <<ep, i, cerr, err, resp, backends, doneFunc, released, marks, passes, hist>>

\* proxyStream: the reverse proxy of a stream makes one trip and calls done from its
\* error handler, or from ModifyResponse before the body flows.
proxyStream ==
    /\ qpc = "answer" /\ ep.stream = "yes"
    /\ IF err # "nil" THEN writeError(err)
       ELSE client' = [status |-> resp.status, body |-> "none"] /\ qpc' = "copy"
    /\ Release
    /\ UNCHANGED <<ep, i, cerr, err, resp, backends, doneFunc, marks, passes, hist>>

\* doCopyBody: the whole body, or a part when either side fails or the body was
\* closed before; done is called either way.
CopyBody ==
    /\ qpc = "copy" /\ qpc' = "done"
    /\ broken' \in {"yes", "no"}
    /\ client' = [client EXCEPT !.body = IF resp.body = "closed" \/ broken' = "yes" THEN "part" ELSE "full"]
    /\ IF ep.stream = "yes" THEN UNCHANGED released ELSE Release
    /\ UNCHANGED <<ep, i, cerr, err, resp, backends, doneFunc, marks, passes, picked, rejected>>

HandlerStep == ReadBody \/ NextAttempt \/ Breaker \/ ClientTrip \/ BackupTrip
               \/ JudgeResponse \/ Answer \/ proxyStream \/ CopyBody
RequestNext == HandlerStep \/ \E e \in {"canceled", "deadline"} : Expire(e)
RequestFairness == WF_requestVars(HandlerStep)
RequestSpec == RequestInit /\ [][RequestNext]_requestVars /\ RequestFairness

-----------------------------------------------------------------------------
RequestTypeOK ==
    /\ qpc \in {"begin", "attempt", "trip", "client", "backup", "judge", "answer", "copy", "done"}
    /\ i \in 0..calcAttempts(ep) /\ cerr \in {"nil", "canceled", "deadline"}
    /\ err \in {"nil", "canceled", "deadline", "other"}
    /\ backends \in Seq(Nodes \cup BackupNodes) /\ doneFunc \in 0..i
    /\ picked \cup rejected \subseteq 1..i /\ broken \in {"yes", "no"}

\* The node picked by an attempt is given back to the selector exactly once by the
\* time the request is over (client.go:59-66, proxy.go:281-290), and never twice:
\* by the client on an error, by the handler otherwise.  Only a response that had
\* to be retried may keep its node: the next attempt overwrites DoneFunc
\* (client.go:66) without having called it.
NodesGivenBack ==
    /\ \A a \in DOMAIN released : released[a] <= 1
    /\ qpc = "done" => \A a \in picked \ rejected : released[a] = 1

\* A response no retry condition matched reaches the client with its own status
\* and its whole body unless the copy fails; a response that was to be retried is
\* closed before it is copied (proxy.go:246), so when the attempts end with one
\* the client gets its status without its body.
AcceptedArrivesWhole ==
    qpc = "done" /\ err = "nil" /\ resp.status # 0 /\ broken = "no" =>
        /\ client.status = resp.status
        /\ (client.body = "full") <=> (i \notin rejected)

\* A retry goes to a backend that was not tried yet as long as there is one
\* (the filter of NewRequestOptions, middleware/request.go:78-96), through changes
\* between the service and the backup of its circuit breaker.
FreshNodesFirst ==
    \A k, m \in 1..Len(backends) : k < m /\ backends[k] = backends[m] =>
        \E ns \in {Nodes, BackupNodes} :
            backends[m] \in ns /\ ns \subseteq {backends[j] : j \in 1..(m - 1)}

\* Every request that the circuit breaker saw is marked exactly once, refused ones
\* and retries included (circuitbreaker.go:172-191).
BreakerMarksEachPass == qpc \notin {"client"} => marks = passes

\* Every request is answered: the loop is bounded and each attempt ends by its
\* timeout (proxy.go:207-252).
RequestEnds == <>(qpc = "done")

\* What one request does to nodes, breaker and client, over all its attempts
\* (proxy.go:195-290, client.go:40-75).
RequestIsSound == RequestTypeOK /\ NodesGivenBack /\ AcceptedArrivesWhole /\ FreshNodesFirst /\ BreakerMarksEachPass
=============================================================================
