----------------------------- MODULE RouterDrain -----------------------------
(* Proxy.Update and Proxy.ServeHTTP (proxy/proxy.go) with the routers of         *)
(* router/mux/mux.go: a new router is built endpoint by endpoint, swapped in,    *)
(* and the old one is closed once its requests are done, or after two minutes.   *)
(*                                                                              *)
(* Router 0 is the empty one of New; Update number r builds router r.  An        *)
(* endpoint's clients are <<r, e, kind>>: "own", made by the client factory, or  *)
(* "backup", made by its circuit breaker middleware.                            *)
EXTENDS Integers, FiniteSets

CONSTANTS Endpoints,     \* endpoints per configuration, built in the order 1..Endpoints
          WithBackup,    \* the endpoints whose circuit breaker has a backup service
          MaxUpdates,    \* bound: updates
          Requests       \* the requests served

ASSUME DrainConstants ==
    /\ Endpoints \in Nat /\ WithBackup \subseteq 1..Endpoints /\ MaxUpdates \in Nat
    /\ IsFiniteSet(Requests)

Routers == 0..MaxUpdates
AllClients == Routers \X (1..Endpoints) \X {"own", "backup"}

VARIABLES
    router,    \* the router atomic.Value holds
    updates,   \* updates started
    built,     \* of the update in progress: endpoints built; -1 when there is none
    clients,   \* clients created and not closed
    drain,     \* per router: "no", "wait", "closed", "forced"
    wg,        \* per router: its WaitGroup counter
    rpc,       \* per request: "new", "loaded", "serving", "done"
    via,       \* per request: the router it loaded
    swapped    \* per request: "yes" when its router was replaced before wg.Add

drainVars == <<router, updates, built, clients, drain, wg, rpc, via, swapped>>

DrainInit ==
    /\ router = 0 /\ updates = 0 /\ built = -1 /\ clients = {}
    /\ drain = [r \in Routers |-> "no"] /\ wg = [r \in Routers |-> 0]
    /\ rpc = [q \in Requests |-> "new"] /\ via = [q \in Requests |-> 0]
    /\ swapped = [q \in Requests |-> "no"]

OfRouter(r, kinds) == {c \in AllClients : c[1] = r /\ c[3] \in kinds}

\* Update: one at a time, from main and then from the reloader.
StartUpdate ==
    /\ built = -1 /\ updates < MaxUpdates
    /\ updates' = updates + 1 /\ built' = 0
    /\ UNCHANGED <<router, clients, drain, wg, rpc, via, swapped>>

\* buildEndpoint and Handle: the endpoint's client, then its middlewares (the
\* circuit breaker creates the backup client), then its route.
buildEndpoint ==
    /\ built \in 0..(Endpoints - 1)
    /\ built' = built + 1
    /\ clients' = clients \cup {<<updates, built + 1, "own">>}
                          \cup {<<updates, e, "backup">> : e \in WithBackup \cap {built + 1}}
    /\ UNCHANGED <<router, updates, drain, wg, rpc, via, swapped>>

\* Mutants: closeOnError closes the router in use; closes nothing.
MutClosesCurrent ==
    /\ built \in 0..(Endpoints - 1) /\ built' = -1 /\ clients' = clients \ (OfRouter(router, {"own"}) \cup OfRouter(updates, {"own"}))
    /\ UNCHANGED <<router, updates, drain, wg, rpc, via, swapped>>
MutClosesNothing ==
    /\ built \in 0..(Endpoints - 1) /\ built' = -1
    /\ UNCHANGED <<router, updates, clients, drain, wg, rpc, via, swapped>>

\* The next endpoint cannot be built: the factory fails, or the middlewares or the
\* route do (the client just made is closed too).  closeOnError closes what the
\* update has made, the backup clients excepted: nothing holds on to their closers.
UpdateFails ==
    /\ built \in 0..(Endpoints - 1)
    /\ built' = -1
    /\ \E late \in {{}, {<<updates, e, "backup">> : e \in WithBackup \cap {built + 1}}} :
          clients' = (clients \ OfRouter(updates, {"own"})) \cup late
    /\ UNCHANGED <<router, updates, drain, wg, rpc, via, swapped>>

\* All endpoints built: the router is swapped and the old one drains.
SwapRouter ==
    /\ built = Endpoints
    /\ router' = updates /\ built' = -1
    /\ drain' = [drain EXCEPT ![router] = "wait"]
    /\ swapped' = [q \in Requests |-> IF rpc[q] = "loaded" /\ via[q] = router
                                      THEN "yes" ELSE swapped[q]]
    /\ UNCHANGED <<updates, clients, wg, rpc, via>>

\* ServeHTTP of the proxy loads the router, ServeHTTP of the router counts.
LoadRouter(q) ==
    /\ rpc[q] = "new"
    /\ rpc' = [rpc EXCEPT ![q] = "loaded"] /\ via' = [via EXCEPT ![q] = router]
    /\ UNCHANGED <<router, updates, built, clients, drain, wg, swapped>>

Enter(q) ==
    /\ rpc[q] = "loaded"
    /\ rpc' = [rpc EXCEPT ![q] = "serving"] /\ wg' = [wg EXCEPT ![via[q]] = @ + 1]
    /\ UNCHANGED <<router, updates, built, clients, drain, via, swapped>>

\* The handler returns or panics; Done is deferred and the panic recovered above.
Leave(q) ==
    /\ rpc[q] = "serving"
    /\ rpc' = [rpc EXCEPT ![q] = "done"] /\ wg' = [wg EXCEPT ![via[q]] = @ - 1]
    /\ UNCHANGED <<router, updates, built, clients, drain, via, swapped>>

\* Mutant: the old router is closed at once.
MutClosesAtOnce(r) ==
    /\ drain[r] = "wait" /\ drain' = [drain EXCEPT ![r] = "closed"] /\ clients' = clients \ OfRouter(r, {"own"})
    /\ UNCHANGED <<router, updates, built, wg, rpc, via, swapped>>

\* SyncClose: the counter was seen at zero, or two minutes have passed.
SyncClose(r) ==
    /\ drain[r] = "wait"
    /\ \/ wg[r] = 0 /\ drain' = [drain EXCEPT ![r] = "closed"]
       \/ wg[r] > 0 /\ drain' = [drain EXCEPT ![r] = "forced"]
    /\ clients' = clients \ OfRouter(r, {"own"})
    /\ UNCHANGED <<router, updates, built, wg, rpc, via, swapped>>

BuildStep == buildEndpoint \/ UpdateFails \/ SwapRouter
DrainNext ==
    \/ StartUpdate \/ BuildStep
    \/ \E q \in Requests : LoadRouter(q) \/ Enter(q) \/ Leave(q)
    \/ \E r \in Routers : SyncClose(r)

\* An update runs to its end; the drain goroutine ends by its timer at the latest.
DrainFairness == WF_drainVars(BuildStep) /\ \A r \in Routers : WF_drainVars(SyncClose(r))
DrainSpec == DrainInit /\ [][DrainNext]_drainVars /\ DrainFairness

-----------------------------------------------------------------------------
DrainTypeOK ==
    /\ router \in Routers /\ updates \in Routers /\ built \in -1..Endpoints
    /\ clients \subseteq AllClients
    /\ drain \in [Routers -> {"no", "wait", "closed", "forced"}]
    /\ wg \in [Routers -> Nat]
    /\ rpc \in [Requests -> {"new", "loaded", "serving", "done"}] /\ via \in [Requests -> Routers]
    /\ swapped \in [Requests -> {"yes", "no"}]

\* The router in use keeps the clients of all its endpoints, whatever update has
\* failed or been abandoned meanwhile (Update, proxy.go:301-317).
CurrentStaysOpen ==
    /\ drain[router] = "no"
    /\ router > 0 => \A e \in 1..Endpoints : <<router, e, "own">> \in clients

\* A request that was counted before its router was replaced is never cut off by
\* the orderly close (mux.go:110-135); one that loaded the router and was counted
\* only after the swap can be (proxy.go:332, mux.go:80).
DrainSparesCounted ==
    \A q \in Requests : rpc[q] = "serving" /\ drain[via[q]] = "closed" => swapped[q] = "yes"

\* Between updates the open clients are those of the router in use and of the
\* routers still draining, and backup clients, which nothing ever closes
\* (buildMiddleware drops their closers, proxy.go:94-107).
NoClientLeaks ==
    built = -1 => \A c \in clients : c[3] = "own" => c[1] = router \/ drain[c[1]] = "wait"

\* Every replaced router is closed in the end, by the timer when a request on it
\* never ends: once the updates are over no router is left waiting.
ReplacedIsClosed == <>[](\A r \in Routers : drain[r] # "wait")
=============================================================================
