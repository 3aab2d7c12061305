---------------------------- MODULE GatewayProofs ----------------------------
(* The gateway's routers and its service watcher, for any number of endpoints,  *)
(* updates, requests, services, clients and changes of the registry.            *)
(*                                                                              *)
(* Routers: the router in use keeps its clients, no client of a closed router   *)
(* stays open, and the orderly close cuts off no request that was counted in time. *)
(*                                                                              *)
(* The service watcher: the cache and the pickers agree between deliveries, no  *)
(* picker goes back to an older list, and the watcher with its lock and its     *)
(* goroutines implements the directory.                                         *)
EXTENDS RouterDrain, ServiceWatch, TLAPS, FiniteSetTheorems

\* An update builds a router above the one in use, and the routers from the one in
\* use upwards have not been told to drain.
UpdateAhead ==
    /\ router <= updates /\ (built # -1 => router < updates)
    /\ \A r \in Routers : router <= r => drain[r] = "no"

\* The clients of the endpoints built so far are open, and those of the router in use.
ClientsOpen ==
    /\ router > 0 => \A e \in 1..Endpoints : <<router, e, "own">> \in clients
    /\ \A e \in 1..Endpoints : e <= built => <<updates, e, "own">> \in clients

\* Nothing else holds a client of its own, but the update in progress.
ClientsOwned ==
    \A c \in clients : c[3] = "own" => \/ c[1] = router \/ drain[c[1]] = "wait"
                                       \/ built # -1 /\ c[1] = updates

\* The WaitGroup of a router counts the requests it serves.
Served(r) == {q \in Requests : rpc[q] = "serving" /\ via[q] = r}
WaitGroupCounts == \A r \in Routers : wg[r] = Cardinality(Served(r))

\* A request that has loaded the router and is not marked sees the one in use; one
\* that was counted unmarked is on no router closed in order.
Unmarked ==
    \A q \in Requests : swapped[q] = "no" =>
        /\ rpc[q] = "loaded" => via[q] = router
        /\ rpc[q] = "serving" => drain[via[q]] # "closed"

DrainInv == DrainTypeOK /\ UpdateAhead /\ ClientsOpen /\ ClientsOwned /\ WaitGroupCounts /\ Unmarked

-----------------------------------------------------------------------------
\* A client is its router, its endpoint and its kind.
LEMMA ClientParts ==
  ASSUME NEW c \in AllClients
  PROVE  c = <<c[1], c[2], c[3]>> /\ c[1] \in Routers /\ c[2] \in 1..Endpoints /\ c[3] \in {"own", "backup"}
  BY DEF AllClients

\* What a close takes are the clients of that router's own.
LEMMA OwnOf ==
  ASSUME NEW r \in Routers, NEW c \in AllClients
  PROVE  c \in OfRouter(r, {"own"}) <=> c[1] = r /\ c[3] = "own"
  BY Zenon DEF OfRouter

\* A router serves finitely many requests, none exactly when the count is zero.
LEMMA ServedFinite ==
  ASSUME NEW r
  PROVE  /\ IsFiniteSet(Served(r)) /\ Cardinality(Served(r)) \in Nat
         /\ Cardinality(Served(r)) = 0 <=> Served(r) = {}
<1>1. Served(r) \subseteq Requests
  BY Zenon DEF Served
<1>2. IsFiniteSet(Served(r))
  BY <1>1, DrainConstants, FS_Subset, Zenon
<1>3. QED
  BY <1>2, FS_CardinalityType, FS_EmptySet, Zenon

-----------------------------------------------------------------------------
\* Init establishes the invariant.
LEMMA InitDrainInv == DrainInit => DrainInv
<1> SUFFICES ASSUME DrainInit PROVE DrainInv
  BY Zenon
<1>1. DrainTypeOK /\ UpdateAhead /\ ClientsOpen /\ ClientsOwned /\ Unmarked
  BY DrainConstants DEF DrainInit, DrainTypeOK, UpdateAhead, ClientsOpen, ClientsOwned, Unmarked, Routers
<1>2. WaitGroupCounts
  <2>1. \A r \in Routers : Served(r) = {}
    BY Zenon DEF DrainInit, Served
  <2>2. QED
    BY <2>1, ServedFinite, Zenon DEF DrainInit, WaitGroupCounts
<1>3. QED
  BY <1>1, <1>2, Zenon DEF DrainInv

\* Whoever leaves the requests and the counters alone keeps the count.
LEMMA CountsKept ==
  ASSUME WaitGroupCounts, UNCHANGED <<wg, rpc, via>>
  PROVE  WaitGroupCounts'
  BY Zenon DEF WaitGroupCounts, Served

\* A new update disturbs nothing: its router is beyond all the others.
LEMMA StartUpdateInv ==
  ASSUME DrainInv, StartUpdate
  PROVE  DrainInv'
<1> USE DEF DrainInv, StartUpdate
<1>1. DrainTypeOK' /\ UpdateAhead' /\ Unmarked'
  BY DrainConstants DEF DrainTypeOK, UpdateAhead, Unmarked, Routers
<1>2. ClientsOpen' /\ ClientsOwned'
  BY DrainConstants DEF DrainTypeOK, ClientsOpen, ClientsOwned
<1>3. QED
  BY <1>1, <1>2, CountsKept, Zenon

\* An endpoint's clients are added to those of the update.
LEMMA BuildEndpointInv ==
  ASSUME DrainInv, buildEndpoint
  PROVE  DrainInv'
<1> USE DEF DrainInv, buildEndpoint
<1>0. /\ built \in Int /\ built + 1 \in 1..Endpoints /\ updates \in Routers
      /\ <<updates, built + 1, "own">> \in AllClients
  BY DrainConstants DEF DrainTypeOK, AllClients
<1>1. \A c \in clients' : c \in clients \/ c = <<updates, built + 1, "own">> \/ (c \in AllClients /\ c[3] = "backup")
  BY <1>0 DEF AllClients
<1>2. DrainTypeOK'
  BY <1>0, <1>1, DrainConstants DEF DrainTypeOK
<1>3. UpdateAhead' /\ Unmarked'
  BY <1>0 DEF UpdateAhead, Unmarked
<1>4. ClientsOpen'
  BY <1>0 DEF ClientsOpen
<1>5. ClientsOwned'
  BY <1>0, <1>1 DEF ClientsOwned
<1>6. QED
  BY <1>2, <1>3, <1>4, <1>5, CountsKept, Zenon

\* closeOnError takes the update's clients, and the router in use is another one.
LEMMA UpdateFailsInv ==
  ASSUME DrainInv, UpdateFails
  PROVE  DrainInv'
<1> USE DEF DrainInv
<1>0. /\ built \in Int /\ built >= 0 /\ built' = -1 /\ updates \in Routers /\ router \in Routers
      /\ router < updates /\ UNCHANGED <<router, updates, drain, wg, rpc, via, swapped>>
  BY DrainConstants DEF DrainTypeOK, UpdateFails, UpdateAhead
<1>1. PICK late \in {{}, {<<updates, e, "backup">> : e \in WithBackup \cap {built + 1}}} :
        clients' = (clients \ OfRouter(updates, {"own"})) \cup late
  BY Zenon DEF UpdateFails
<1>2. \A c \in late : c \in AllClients /\ c[3] = "backup"
  BY <1>0, DrainConstants DEF AllClients
<1>3. DrainTypeOK'
  BY <1>0, <1>1, <1>2, DrainConstants DEF DrainTypeOK
<1>4. UpdateAhead' /\ Unmarked'
  BY <1>0, Zenon DEF UpdateAhead, Unmarked
<1>5. ClientsOpen'
  <2>1. ASSUME router > 0, NEW e \in 1..Endpoints PROVE <<router, e, "own">> \in clients'
    <3>1. <<router, e, "own">> \in AllClients
      BY <1>0, Zenon DEF AllClients
    <3>2. <<router, e, "own">> \notin OfRouter(updates, {"own"})
      BY <1>0, <3>1, OwnOf DEF Routers
    <3>3. QED
      BY <1>1, <2>1, <3>2, Zenon DEF ClientsOpen
  <2>2. QED
    BY <1>0, <2>1 DEF ClientsOpen
<1>6. ClientsOwned'
  <2> SUFFICES ASSUME NEW c \in clients', c[3] = "own" PROVE c[1] = router \/ drain[c[1]] = "wait"
    BY <1>0, Zenon DEF ClientsOwned
  <2>1. c \in clients /\ c \notin OfRouter(updates, {"own"})
    BY <1>1, <1>2, Zenon
  <2>2. c[1] # updates
    BY <1>0, <2>1, OwnOf, Zenon DEF DrainTypeOK
  <2>3. QED
    BY <2>1, <2>2, Zenon DEF ClientsOwned
<1>7. QED
  BY <1>0, <1>3, <1>4, <1>5, <1>6, CountsKept, Zenon

\* The swap: the clients of the update are those of the router in use now, the old
\* router drains, and whoever holds it uncounted is marked.
LEMMA SwapRouterInv ==
  ASSUME DrainInv, SwapRouter
  PROVE  DrainInv'
<1> USE DEF DrainInv, SwapRouter
<1>0. router \in Routers /\ updates \in Routers /\ router < updates /\ built # -1
  BY DrainConstants DEF DrainTypeOK, UpdateAhead
<1>1. DrainTypeOK'
  BY DrainConstants DEF DrainTypeOK
<1>2. UpdateAhead'
  BY <1>0 DEF DrainTypeOK, UpdateAhead, Routers
<1>3. ClientsOpen'
  BY <1>0, DrainConstants DEF ClientsOpen
<1>4. ClientsOwned'
  BY <1>0, ClientParts, Zenon DEF DrainTypeOK, ClientsOwned
<1>5. Unmarked'
  BY <1>0, Zenon DEF DrainTypeOK, Unmarked, UpdateAhead
<1>6. QED
  BY <1>1, <1>2, <1>3, <1>4, <1>5, CountsKept, Zenon

\* A request loads the router in use.
LEMMA LoadRouterInv ==
  ASSUME DrainInv, NEW q \in Requests, LoadRouter(q)
  PROVE  DrainInv'
<1> USE DEF DrainInv, LoadRouter
<1>1. DrainTypeOK' /\ UpdateAhead' /\ ClientsOpen' /\ ClientsOwned'
  BY Zenon DEF DrainTypeOK, UpdateAhead, ClientsOpen, ClientsOwned
<1>2. WaitGroupCounts'
  <2>1. \A r : Served(r)' = Served(r)
    BY Zenon DEF DrainTypeOK, Served
  <2>2. QED
    BY <2>1, Zenon DEF WaitGroupCounts
<1>3. Unmarked'
  BY Zenon DEF DrainTypeOK, Unmarked
<1>4. QED
  BY <1>1, <1>2, <1>3, Zenon

\* A request is counted on the router it loaded: unmarked, that is the one in use,
\* which no drain has closed.
LEMMA EnterInv ==
  ASSUME DrainInv, NEW q \in Requests, Enter(q)
  PROVE  DrainInv'
<1> USE DEF DrainInv, Enter
<1>1. DrainTypeOK' /\ UpdateAhead' /\ ClientsOpen' /\ ClientsOwned'
  BY DEF DrainTypeOK, UpdateAhead, ClientsOpen, ClientsOwned
<1>2. WaitGroupCounts'
  <2> SUFFICES ASSUME NEW r \in Routers PROVE wg'[r] = Cardinality(Served(r)')
    BY Zenon DEF WaitGroupCounts
  <2>1. CASE r = via[q]
    <3>1. Served(r)' = Served(r) \cup {q} /\ q \notin Served(r)
      BY <2>1, Zenon DEF DrainTypeOK, Served
    <3>2. Cardinality(Served(r)') = Cardinality(Served(r)) + 1
      BY <3>1, ServedFinite, FS_AddElement, Zenon
    <3>3. QED
      BY <2>1, <3>2, Zenon DEF DrainTypeOK, WaitGroupCounts
  <2>2. CASE r # via[q]
    <3>1. Served(r)' = Served(r)
      BY <2>2, Zenon DEF DrainTypeOK, Served
    <3>2. QED
      BY <2>2, <3>1, Zenon DEF DrainTypeOK, WaitGroupCounts
  <2>3. QED
    BY <2>1, <2>2, Zenon
<1>3. Unmarked'
  <2>1. router \in Routers /\ drain[router] = "no"
    BY DEF DrainTypeOK, UpdateAhead, Routers
  <2>2. QED
    BY <2>1, Zenon DEF DrainTypeOK, Unmarked
<1>4. QED
  BY <1>1, <1>2, <1>3, Zenon

\* A request leaves, whose count is in its router's WaitGroup.
LEMMA LeaveInv ==
  ASSUME DrainInv, NEW q \in Requests, Leave(q)
  PROVE  DrainInv'
<1> USE DEF DrainInv, Leave
<1>0. via[q] \in Routers /\ q \in Served(via[q])
  BY Zenon DEF DrainTypeOK, Served
<1>1. wg[via[q]] > 0
  BY <1>0, ServedFinite, SMTT(30) DEF DrainTypeOK, WaitGroupCounts
<1>2. DrainTypeOK' /\ UpdateAhead' /\ ClientsOpen' /\ ClientsOwned'
  BY <1>0, <1>1 DEF DrainTypeOK, UpdateAhead, ClientsOpen, ClientsOwned
<1>3. WaitGroupCounts'
  <2> SUFFICES ASSUME NEW r \in Routers PROVE wg'[r] = Cardinality(Served(r)')
    BY Zenon DEF WaitGroupCounts
  <2>1. CASE r = via[q]
    <3>1. Served(r)' = Served(r) \ {q} /\ q \in Served(r)
      BY <1>0, <2>1, Zenon DEF DrainTypeOK, Served
    <3>2. Cardinality(Served(r)') = Cardinality(Served(r)) - 1
      BY <3>1, ServedFinite, FS_RemoveElement, ZenonT(40)
    <3>3. QED
      BY <2>1, <3>2, Zenon DEF DrainTypeOK, WaitGroupCounts
  <2>2. CASE r # via[q]
    <3>1. Served(r)' = Served(r)
      BY <2>2, Zenon DEF DrainTypeOK, Served
    <3>2. QED
      BY <2>2, <3>1, Zenon DEF DrainTypeOK, WaitGroupCounts
  <2>3. QED
    BY <2>1, <2>2, Zenon
<1>4. Unmarked'
  BY Zenon DEF DrainTypeOK, Unmarked
<1>5. QED
  BY <1>2, <1>3, <1>4, Zenon

\* A drain ends: its router is neither the one in use nor the one being built, and
\* closed in order it serves nobody who was counted.
LEMMA SyncCloseInv ==
  ASSUME DrainInv, NEW r \in Routers, SyncClose(r)
  PROVE  DrainInv'
<1> USE DEF DrainInv
<1>0. /\ drain[r] = "wait" /\ clients' = clients \ OfRouter(r, {"own"})
      /\ UNCHANGED <<router, updates, built, wg, rpc, via, swapped>>
      /\ \/ wg[r] = 0 /\ drain' = [drain EXCEPT ![r] = "closed"]
         \/ drain' = [drain EXCEPT ![r] = "forced"]
  BY Zenon DEF SyncClose
<1>1. router \in Routers /\ updates \in Routers /\ r < router
  BY <1>0 DEF DrainTypeOK, UpdateAhead, Routers
<1>2. r # updates /\ r # router
  BY <1>1 DEF UpdateAhead, Routers
<1>3. DrainTypeOK'
  BY <1>0, Zenon DEF DrainTypeOK
<1>4. UpdateAhead'
  BY <1>0, <1>1, Zenon DEF DrainTypeOK, UpdateAhead, Routers
<1>5. ClientsOpen'
  <2>1. ASSUME NEW s \in Routers, s # r, NEW e \in 1..Endpoints, <<s, e, "own">> \in clients
        PROVE  <<s, e, "own">> \in clients'
    BY <1>0, <2>1, OwnOf DEF AllClients
  <2>2. QED
    BY <1>0, <1>1, <1>2, <2>1, Zenon DEF ClientsOpen
<1>6. ClientsOwned'
  <2> SUFFICES ASSUME NEW c \in clients', c[3] = "own"
               PROVE  c[1] = router \/ drain'[c[1]] = "wait" \/ (built # -1 /\ c[1] = updates)
    BY <1>0, Zenon DEF ClientsOwned
  <2>1. c \in clients /\ c \in AllClients /\ c[1] # r
    BY <1>0, OwnOf, Zenon DEF DrainTypeOK
  <2>2. c[1] \in Routers
    BY <2>1, ClientParts, Zenon
  <2>3. QED
    BY <1>0, <2>1, <2>2, Zenon DEF ClientsOwned, DrainTypeOK
<1>7. Unmarked'
  <2> SUFFICES ASSUME NEW q \in Requests, swapped[q] = "no", rpc[q] = "serving", drain'[via[q]] = "closed"
               PROVE  FALSE
    BY <1>0, Zenon DEF Unmarked
  <2>1. via[q] = r /\ wg[r] = 0
    BY <1>0 DEF DrainTypeOK, Unmarked
  <2>2. q \in Served(r)
    BY <2>1, Zenon DEF Served
  <2>3. QED
    BY <2>1, <2>2, ServedFinite, Zenon DEF WaitGroupCounts
<1>8. QED
  BY <1>0, <1>3, <1>4, <1>5, <1>6, <1>7, CountsKept, Zenon

\* Every step keeps the invariant.
LEMMA DrainStepInv == DrainInv /\ [DrainNext]_drainVars => DrainInv'
<1> SUFFICES ASSUME DrainInv, [DrainNext]_drainVars PROVE DrainInv'
  BY Zenon
<1>1. CASE StartUpdate
  BY <1>1, StartUpdateInv, Zenon
<1>2. CASE BuildStep
  BY <1>2, BuildEndpointInv, UpdateFailsInv, SwapRouterInv, Zenon DEF BuildStep
<1>3. CASE \E q \in Requests : LoadRouter(q) \/ Enter(q) \/ Leave(q)
  BY <1>3, LoadRouterInv, EnterInv, LeaveInv, Zenon
<1>4. CASE \E r \in Routers : SyncClose(r)
  BY <1>4, SyncCloseInv, Zenon
<1>5. CASE UNCHANGED drainVars
  BY <1>5 DEF drainVars, DrainInv, DrainTypeOK, UpdateAhead, ClientsOpen, ClientsOwned, WaitGroupCounts, Served, Unmarked
<1>6. QED
  BY <1>1, <1>2, <1>3, <1>4, <1>5, Zenon DEF DrainNext

\* The invariant gives the three properties.
LEMMA DrainConsequences == DrainInv => CurrentStaysOpen /\ NoClientLeaks /\ DrainSparesCounted
<1> SUFFICES ASSUME DrainInv PROVE CurrentStaysOpen /\ NoClientLeaks /\ DrainSparesCounted
  BY Zenon
<1>1. CurrentStaysOpen
  BY DEF DrainInv, DrainTypeOK, UpdateAhead, ClientsOpen, CurrentStaysOpen, Routers
<1>2. NoClientLeaks
  BY Zenon DEF DrainInv, ClientsOwned, NoClientLeaks
<1>3. DrainSparesCounted
  BY Zenon DEF DrainInv, DrainTypeOK, Unmarked, DrainSparesCounted
<1>4. QED
  BY <1>1, <1>2, <1>3, Zenon

-----------------------------------------------------------------------------
\* The router in use keeps all its clients, whatever updates fail meanwhile.
THEOREM CurrentRouterOpen == DrainSpec => []CurrentStaysOpen
  BY InitDrainInv, DrainStepInv, DrainConsequences, PTL DEF DrainSpec

\* Between updates only the router in use and those that drain have clients open.
THEOREM ClosedRoutersHoldNothing == DrainSpec => []NoClientLeaks
  BY InitDrainInv, DrainStepInv, DrainConsequences, PTL DEF DrainSpec

\* The orderly close cuts off no request that was counted before the swap.
THEOREM CountedAreSpared == DrainSpec => []DrainSparesCounted
  BY InitDrainInv, DrainStepInv, DrainConsequences, PTL DEF DrainSpec

-----------------------------------------------------------------------------
(* The service watcher.                                                           *)

\* An applier is registered with the service it names, once its Add has returned;
\* until then its picker is empty.
Homes ==
    /\ \A s \in Services : appliers[s] \subseteq added /\ \A a \in appliers[s] : target[a] = s
    /\ \A a \in Appliers : a \notin added => applied[a] = 0

\* A service that has no watcher yet, or one whose first Add is under way, has no
\* list and no loop, and has only appliers that were registered while Watch failed.
Unwatched(s) == owner[s] = NoApplier \/ (wlock # NoApplier /\ target[wlock] = s)
Fallow ==
    /\ \A s \in Services : Unwatched(s) => selected[s] = 0 /\ loop[s] = "off" /\ appliers[s] \subseteq missed
    /\ wlock # NoApplier => wlock \notin added /\ owner[target[wlock]] = wlock

\* The list in the hands of the watch loop, before and after it is cached.
Hands ==
    \A s \in Services :
        /\ loop[s] = "set" => got[s] # 0 /\ selected[s] <= got[s]
        /\ loop[s] = "call" => got[s] # 0 /\ selected[s] = got[s]

\* The registry's list, unless it is empty, is the newest one; the cache is ahead of
\* the pickers.
Ordered ==
    /\ \A s \in Services :
          /\ lists[s] <= changes /\ got[s] <= changes /\ selected[s] <= changes
          /\ lists[s] # 0 => got[s] <= lists[s] /\ selected[s] <= lists[s]
    /\ \A a \in Appliers : applied[a] <= selected[target[a]]

WatchInv == WatchTypeOK /\ Homes /\ Fallow /\ Hands /\ Ordered /\ CacheReachesAppliers

-----------------------------------------------------------------------------
\* An applier names one service, and is not NoApplier.
LEMMA TargetService ==
  ASSUME WatchTypeOK, NEW a \in Appliers
  PROVE  target[a] \in Services /\ a # NoApplier
  BY WatchConstants, Zenon DEF WatchTypeOK

\* What a call back leaves in the pickers.
LEMMA CallbackIs ==
  ASSUME NEW as, NEW l, NEW a \in Appliers
  PROVE  Callback(as, l)[a] = IF a \in as \ canceled /\ l # 0 THEN l ELSE applied[a]
  BY Zenon DEF Callback

\* The pickers hold lists after it.
LEMMA CallbackType ==
  ASSUME WatchTypeOK, NEW as, NEW l \in Lists
  PROVE  Callback(as, l) \in [Appliers -> Lists]
  BY Zenon DEF WatchTypeOK, Callback

\* Init establishes the invariant.
LEMMA InitWatchInv == WatchInit => WatchInv
<1> SUFFICES ASSUME WatchInit PROVE WatchInv
  BY Zenon
<1>0. 0 \in Lists
  BY WatchConstants DEF Lists
<1>1. WatchTypeOK
  BY <1>0, Zenon DEF WatchInit, WatchTypeOK
<1>2. Homes /\ Fallow /\ Hands /\ CacheReachesAppliers
  BY WatchConstants, Zenon DEF WatchInit, Homes, Fallow, Unwatched, Hands, CacheReachesAppliers
<1>3. Ordered
  BY WatchConstants DEF WatchInit, Ordered, Lists
<1>4. QED
  BY <1>1, <1>2, <1>3, Zenon DEF WatchInv

\* The registry's new list is newer than all the others.
LEMMA RegistryChangeInv ==
  ASSUME WatchInv, NEW s \in Services, RegistryChange(s)
  PROVE  WatchInv'
<1> USE DEF WatchInv, RegistryChange, goroutineVars, applierVars
<1>1. WatchTypeOK'
  BY WatchConstants DEF WatchTypeOK, Lists
<1>2. Homes'
  BY Zenon DEF WatchTypeOK, Homes
<1>3. Fallow'
  BY Zenon DEF WatchTypeOK, Homes, Fallow, Unwatched
<1>4. Hands'
  BY Zenon DEF WatchTypeOK, Hands, Fallow, Ordered, Unwatched, Lists
<1>5. Ordered'
  BY WatchConstants DEF WatchTypeOK, Homes, Hands, Ordered, Lists
<1>6. CacheReachesAppliers'
  BY Zenon DEF WatchTypeOK, Homes, Hands, CacheReachesAppliers
<1>7. QED
  BY <1>1, <1>2, <1>3, <1>4, <1>5, <1>6, Zenon

\* The list of the initial resolve is in its goroutine's hands.
LEMMA FirstNextInv ==
  ASSUME WatchInv, NEW s \in Services, FirstNext(s)
  PROVE  WatchInv'
<1> USE DEF WatchInv, FirstNext, registryVars, applierVars
<1>1. WatchTypeOK'
  BY Zenon DEF WatchTypeOK
<1>2. Homes'
  BY Zenon DEF WatchTypeOK, Homes
<1>3. Fallow'
  BY Zenon DEF WatchTypeOK, Homes, Fallow, Unwatched
<1>4. Hands'
  BY Zenon DEF WatchTypeOK, Hands, Fallow, Ordered, Unwatched, Lists
<1>5. Ordered'
  BY WatchConstants DEF WatchTypeOK, Homes, Hands, Ordered, Lists
<1>6. CacheReachesAppliers'
  BY Zenon DEF WatchTypeOK, Homes, Hands, CacheReachesAppliers
<1>7. QED
  BY <1>1, <1>2, <1>3, <1>4, <1>5, <1>6, Zenon

\* The initial resolve has failed.
LEMMA FirstFailedInv ==
  ASSUME WatchInv, NEW s \in Services, FirstFailed(s)
  PROVE  WatchInv'
<1> USE DEF WatchInv, FirstFailed, registryVars, applierVars
<1>1. WatchTypeOK'
  BY Zenon DEF WatchTypeOK
<1>2. Homes'
  BY Zenon DEF WatchTypeOK, Homes
<1>3. Fallow'
  BY Zenon DEF WatchTypeOK, Homes, Fallow, Unwatched
<1>4. Hands'
  BY Zenon DEF WatchTypeOK, Hands, Fallow, Ordered, Unwatched, Lists
<1>5. Ordered'
  BY WatchConstants, Zenon DEF WatchTypeOK, Homes, Hands, Ordered, Lists
<1>6. CacheReachesAppliers'
  BY Zenon DEF WatchTypeOK, Homes, Hands, CacheReachesAppliers
<1>7. QED
  BY <1>1, <1>2, <1>3, <1>4, <1>5, <1>6, Zenon

\* The watch loop takes the registry's list, which is no older than the cached one.
LEMMA WatchNextInv ==
  ASSUME WatchInv, NEW s \in Services, WatchNext(s)
  PROVE  WatchInv'
<1> USE DEF WatchInv, WatchNext, registryVars, applierVars
<1>1. WatchTypeOK'
  BY Zenon DEF WatchTypeOK
<1>2. Homes'
  BY Zenon DEF WatchTypeOK, Homes
<1>3. Fallow'
  BY Zenon DEF WatchTypeOK, Homes, Fallow, Unwatched
<1>4. Hands'
  BY SMTT(30) DEF WatchTypeOK, Hands, Fallow, Ordered, Unwatched, Lists
<1>5. Ordered'
  BY TargetService, WatchConstants, SMTT(30) DEF WatchTypeOK, Ordered, Lists
<1>6. CacheReachesAppliers'
  BY DEF WatchTypeOK, Homes, Hands, CacheReachesAppliers
<1>7. QED
  BY <1>1, <1>2, <1>3, <1>4, <1>5, <1>6, Zenon

\* The watch loop ends.
LEMMA WatchCanceledInv ==
  ASSUME WatchInv, NEW s \in Services, WatchCanceled(s)
  PROVE  WatchInv'
<1> USE DEF WatchInv, WatchCanceled, registryVars, applierVars
<1>1. WatchTypeOK'
  BY Zenon DEF WatchTypeOK
<1>2. Homes'
  BY Zenon DEF WatchTypeOK, Homes
<1>3. Fallow'
  BY Zenon DEF WatchTypeOK, Homes, Fallow, Unwatched
<1>4. Hands'
  BY Zenon DEF WatchTypeOK, Hands, Fallow, Ordered, Unwatched, Lists
<1>5. Ordered'
  BY WatchConstants, Zenon DEF WatchTypeOK, Homes, Hands, Ordered, Lists
<1>6. CacheReachesAppliers'
  BY DEF WatchTypeOK, Homes, Hands, CacheReachesAppliers
<1>7. QED
  BY <1>1, <1>2, <1>3, <1>4, <1>5, <1>6, Zenon

\* The cache takes the list; until the callbacks it may be ahead of the pickers.
LEMMA SetSelectedCacheInv ==
  ASSUME WatchInv, NEW s \in Services, setSelectedCache(s)
  PROVE  WatchInv'
<1> USE DEF WatchInv, setSelectedCache, registryVars, applierVars, Unlocked
<1>1. WatchTypeOK'
  BY Zenon DEF WatchTypeOK
<1>2. Homes'
  BY Zenon DEF WatchTypeOK, Homes
<1>3. Fallow'
  BY DEF WatchTypeOK, Homes, Fallow, Unwatched
<1>4. Hands'
  BY Zenon DEF WatchTypeOK, Hands, Fallow, Ordered, Unwatched, Lists
<1>5. Ordered'
  BY WatchConstants, SMTT(30) DEF WatchTypeOK, Homes, Hands, Ordered, Lists
<1>6. CacheReachesAppliers'
  BY DEF WatchTypeOK, Homes, Hands, CacheReachesAppliers
<1>7. QED
  BY <1>1, <1>2, <1>3, <1>4, <1>5, <1>6, Zenon

\* The callbacks bring every open applier of the service to the cached list.
LEMMA DoCallbackInv ==
  ASSUME WatchInv, NEW s \in Services, doCallback(s)
  PROVE  WatchInv'
<1> USE DEF WatchInv, doCallback, registryVars, Unlocked
<1>1. WatchTypeOK'
  BY CallbackType, WatchConstants, SMTT(30) DEF WatchTypeOK, Lists
<1>2. Homes'
  BY TargetService, CallbackIs, SMTT(30) DEF WatchTypeOK, Homes
<1>3. Fallow'
  BY TargetService DEF WatchTypeOK, Homes, Fallow, Unwatched
<1>4. Hands'
  BY Zenon DEF WatchTypeOK, Hands, Fallow, Ordered, Unwatched, Lists
<1>5. Ordered'
  BY TargetService, CallbackIs, WatchConstants, SMTT(30) DEF WatchTypeOK, Homes, Hands, Ordered, Lists
<1>6. CacheReachesAppliers'
  BY TargetService, CallbackIs DEF WatchTypeOK, Homes, Hands, CacheReachesAppliers
<1>7. QED
  BY <1>1, <1>2, <1>3, <1>4, <1>5, <1>6, Zenon

\* A later applier starts from the cached list.
LEMMA AddExistingInv ==
  ASSUME WatchInv, NEW a \in Appliers, AddExisting(a)
  PROVE  WatchInv'
<1> USE DEF WatchInv, AddExisting, registryVars, goroutineVars, Register, Unlocked
<1>1. WatchTypeOK'
  BY TargetService, CallbackType, Zenon DEF WatchTypeOK
<1>2. Homes'
  BY TargetService, CallbackIs, SMTT(30) DEF WatchTypeOK, Homes
<1>3. Fallow'
  BY TargetService DEF WatchTypeOK, Homes, Fallow, Unwatched
<1>4. Hands'
  BY Zenon DEF WatchTypeOK, Hands, Fallow, Ordered, Unwatched, Lists
<1>5. Ordered'
  BY TargetService, CallbackIs, WatchConstants, SMTT(30) DEF WatchTypeOK, Homes, Hands, Ordered, Lists
<1>6. CacheReachesAppliers'
  BY TargetService, CallbackIs DEF WatchTypeOK, Homes, Hands, CacheReachesAppliers
<1>7. QED
  BY <1>1, <1>2, <1>3, <1>4, <1>5, <1>6, Zenon

\* An applier is registered although Watch failed.
LEMMA AddWatchFailedInv ==
  ASSUME WatchInv, NEW a \in Appliers, AddWatchFailed(a)
  PROVE  WatchInv'
<1> USE DEF WatchInv, AddWatchFailed, registryVars, goroutineVars, Register, Unlocked
<1>1. WatchTypeOK'
  BY TargetService, ZenonT(40) DEF WatchTypeOK
<1>2. Homes'
  BY TargetService, Zenon DEF WatchTypeOK, Homes
<1>3. Fallow'
  BY TargetService DEF WatchTypeOK, Homes, Fallow, Unwatched
<1>4. Hands'
  BY Zenon DEF WatchTypeOK, Hands, Fallow, Ordered, Unwatched, Lists
<1>5. Ordered'
  BY TargetService, WatchConstants, ZenonT(40) DEF WatchTypeOK, Homes, Hands, Ordered, Lists
<1>6. CacheReachesAppliers'
  BY TargetService DEF WatchTypeOK, Homes, Hands, CacheReachesAppliers
<1>7. QED
  BY <1>1, <1>2, <1>3, <1>4, <1>5, <1>6, Zenon

\* The first Add takes the lock.
LEMMA AddFirstInv ==
  ASSUME WatchInv, NEW a \in Appliers, AddFirst(a)
  PROVE  WatchInv'
<1> USE DEF WatchInv, AddFirst, registryVars, applierVars, Unlocked
<1>1. WatchTypeOK'
  BY TargetService, ZenonT(40) DEF WatchTypeOK
<1>2. Homes'
  BY TargetService, Zenon DEF WatchTypeOK, Homes
<1>3. Fallow'
  BY TargetService DEF WatchTypeOK, Homes, Fallow, Unwatched
<1>4. Hands'
  BY Zenon DEF WatchTypeOK, Hands, Fallow, Ordered, Unwatched, Lists
<1>5. Ordered'
  BY TargetService, WatchConstants, Zenon DEF WatchTypeOK, Homes, Hands, Ordered, Lists
<1>6. CacheReachesAppliers'
  BY TargetService, Zenon DEF WatchTypeOK, Homes, Hands, CacheReachesAppliers
<1>7. QED
  BY <1>1, <1>2, <1>3, <1>4, <1>5, <1>6, Zenon

\* An applier is cancelled.
LEMMA CancelInv ==
  ASSUME WatchInv, NEW a \in Appliers, Cancel(a)
  PROVE  WatchInv'
<1> USE DEF WatchInv, Cancel, registryVars, goroutineVars
<1>1. WatchTypeOK'
  BY Zenon DEF WatchTypeOK
<1>2. Homes'
  BY Zenon DEF WatchTypeOK, Homes
<1>3. Fallow'
  BY Zenon DEF WatchTypeOK, Homes, Fallow, Unwatched
<1>4. Hands'
  BY Zenon DEF WatchTypeOK, Hands, Fallow, Ordered, Unwatched, Lists
<1>5. Ordered'
  BY WatchConstants, Zenon DEF WatchTypeOK, Homes, Hands, Ordered, Lists
<1>6. CacheReachesAppliers'
  BY Zenon DEF WatchTypeOK, Homes, Hands, CacheReachesAppliers
<1>7. QED
  BY <1>1, <1>2, <1>3, <1>4, <1>5, <1>6, Zenon

\* A cleanup pass drops cancelled appliers.
LEMMA DoCleanupInv ==
  ASSUME WatchInv, NEW done \in SUBSET Services, doCleanup(done)
  PROVE  WatchInv'
<1> USE DEF WatchInv, doCleanup, registryVars, goroutineVars, Unlocked
<1>1. WatchTypeOK'
  BY Zenon DEF WatchTypeOK
<1>2. Homes'
  BY Zenon DEF WatchTypeOK, Homes
<1>3. Fallow'
  BY Zenon DEF WatchTypeOK, Homes, Fallow, Unwatched
<1>4. Hands'
  BY Zenon DEF WatchTypeOK, Hands, Fallow, Ordered, Unwatched, Lists
<1>5. Ordered'
  BY WatchConstants, Zenon DEF WatchTypeOK, Homes, Hands, Ordered, Lists
<1>6. CacheReachesAppliers'
  BY Zenon DEF WatchTypeOK, Homes, Hands, CacheReachesAppliers
<1>7. QED
  BY <1>1, <1>2, <1>3, <1>4, <1>5, <1>6, Zenon

\* The end of the first Add, with a list no older than what the registry had then:
\* nobody else had a list of the service.
LEMMA FinishAddInv ==
  ASSUME WatchInv, NEW a \in Appliers, wlock = a, NEW f \in {"off", "next"},
         NEW l \in Lists, l = 0 \/ l = got[target[a]], FinishAdd(a, l, f)
  PROVE  WatchInv'
<1> USE DEF WatchInv, FinishAdd, registryVars, Register
<1>0. /\ target[a] \in Services /\ a # NoApplier /\ a \notin added /\ owner[target[a]] = a
      /\ selected[target[a]] = 0 /\ loop[target[a]] = "off" /\ appliers[target[a]] \subseteq missed
  BY TargetService, Zenon DEF Fallow, Unwatched
<1>1. WatchTypeOK'
  BY <1>0, CallbackType, WatchConstants, ZenonT(40) DEF WatchTypeOK, Lists
<1>2. Homes'
  BY <1>0, CallbackIs, SMTT(30) DEF WatchTypeOK, Homes
<1>3. Fallow'
  BY <1>0 DEF WatchTypeOK, Homes, Fallow, Unwatched
<1>4. Hands'
  BY <1>0, ZenonT(40) DEF WatchTypeOK, Hands
<1>5. Ordered'
  BY <1>0, TargetService, CallbackIs, WatchConstants, SMTT(30) DEF WatchTypeOK, Homes, Ordered, Lists
<1>6. CacheReachesAppliers'
  BY <1>0, CallbackIs DEF WatchTypeOK, Homes, CacheReachesAppliers
<1>7. QED
  BY <1>1, <1>2, <1>3, <1>4, <1>5, <1>6, Zenon

\* The initial resolve was answered, or its timer fired: which list the first Add ends with.
LEMMA FirstAddEnds ==
  ASSUME WatchInv, NEW a \in Appliers, Resolved(a) \/ ResolveTimedOut(a)
  PROVE  /\ wlock = a
         /\ \E l \in Lists, f \in {"off", "next"} : (l = 0 \/ l = got[target[a]]) /\ FinishAdd(a, l, f)
<1>1. target[a] \in Services /\ got[target[a]] \in Lists /\ 0 \in Lists
  BY TargetService, WatchConstants DEF WatchInv, WatchTypeOK, Lists
<1>2. QED
  BY <1>1, Zenon DEF Resolved, ResolveTimedOut

\* Every step keeps the invariant.
LEMMA WatchStepInv == WatchInv /\ [WatchNextState]_watchVars => WatchInv'
<1> SUFFICES ASSUME WatchInv, [WatchNextState]_watchVars PROVE WatchInv'
  BY Zenon
<1>1. ASSUME NEW s \in Services,
             \/ RegistryChange(s) \/ FirstNext(s) \/ FirstFailed(s) \/ WatchNext(s)
             \/ WatchCanceled(s) \/ setSelectedCache(s) \/ doCallback(s)
      PROVE  WatchInv'
  BY <1>1, RegistryChangeInv, FirstNextInv, FirstFailedInv, WatchNextInv, WatchCanceledInv,
     SetSelectedCacheInv, DoCallbackInv, Zenon
<1>2. ASSUME NEW a \in Appliers, AddExisting(a) \/ AddWatchFailed(a) \/ AddFirst(a) \/ Cancel(a)
      PROVE  WatchInv'
  BY <1>2, AddExistingInv, AddWatchFailedInv, AddFirstInv, CancelInv, Zenon
<1>3. ASSUME NEW a \in Appliers, Resolved(a) \/ ResolveTimedOut(a)
      PROVE  WatchInv'
  BY <1>3, FirstAddEnds, FinishAddInv, Zenon
<1>4. ASSUME NEW done \in SUBSET Services, doCleanup(done)
      PROVE  WatchInv'
  BY <1>4, DoCleanupInv, Zenon
<1>5. CASE UNCHANGED watchVars
  BY <1>5, Zenon DEF watchVars, WatchInv, WatchTypeOK, Homes, Fallow, Unwatched, Hands, Ordered, CacheReachesAppliers
<1>6. QED
  BY <1>1, <1>2, <1>3, <1>4, <1>5, Zenon DEF WatchNextState

-----------------------------------------------------------------------------
\* Between deliveries the cache and the pickers of a service agree.
THEOREM CacheAndPickersAgree == WatchSpec => []CacheReachesAppliers
<1>1. WatchInv => CacheReachesAppliers
  BY Zenon DEF WatchInv
<1>2. QED
  BY <1>1, InitWatchInv, WatchStepInv, PTL DEF WatchSpec

\* A step never takes a picker back to an older list.
LEMMA StepIsFresh ==
  ASSUME WatchInv, [WatchNextState]_watchVars, NEW a \in Appliers
  PROVE  applied'[a] >= applied[a]
<1>0. applied[a] \in Nat /\ target[a] \in Services /\ a # NoApplier
  BY TargetService, WatchConstants, SMTT(30) DEF WatchInv, WatchTypeOK, Lists
<1>1. CASE applied' = applied
  BY <1>0, <1>1, SMTT(30)
<1>2. ASSUME NEW s \in Services, doCallback(s) PROVE applied'[a] >= applied[a]
  <2>1. got[s] = selected[s] /\ got[s] \in Nat
    BY <1>2, WatchConstants, SMTT(30) DEF WatchInv, WatchTypeOK, Lists, Hands, doCallback
  <2>2. a \in appliers[s] => applied[a] <= selected[s]
    BY Zenon DEF WatchInv, Homes, Ordered
  <2>3. QED
    BY <1>0, <1>2, <2>1, <2>2, CallbackIs, SMTT(30) DEF doCallback
<1>3. ASSUME NEW b \in Appliers, AddExisting(b) \/ Resolved(b) \/ ResolveTimedOut(b)
      PROVE  applied'[a] >= applied[a]
  <2>1. b \notin added /\ applied[b] = 0
    BY <1>3, FirstAddEnds, TargetService, Zenon DEF AddExisting, WatchInv, Fallow, Homes
  <2>2. PICK l \in Lists : applied' = Callback({b}, l)
    <3>1. target[b] \in Services /\ selected[target[b]] \in Lists
      BY TargetService, Zenon DEF WatchInv, WatchTypeOK
    <3>2. QED
      BY <1>3, <3>1, FirstAddEnds, Zenon DEF AddExisting, FinishAdd
  <2>3. QED
    BY <1>0, <2>1, <2>2, CallbackIs, WatchConstants, SMTT(30) DEF Lists
<1>4. QED
  BY <1>1, <1>2, <1>3, Zenon
     DEF WatchNextState, watchVars, applierVars, RegistryChange, FirstNext, FirstFailed, WatchNext, WatchCanceled,
         setSelectedCache, AddWatchFailed, AddFirst, Cancel, doCleanup

\* No picker ever goes back, neither to an older list nor to none.
THEOREM PickersStayFresh == WatchSpec => FreshnessMonotone
<1>1. WatchInv /\ [WatchNextState]_watchVars => [\A a \in Appliers : applied'[a] >= applied[a]]_watchVars
  BY StepIsFresh, Zenon
<1>2. QED
  BY <1>1, InitWatchInv, WatchStepInv, PTL DEF WatchSpec, FreshnessMonotone

-----------------------------------------------------------------------------
\* The first Add that ends is the first subscription of the directory.
LEMMA FirstAddSubscribes ==
  ASSUME WatchInv, NEW a \in Appliers, Resolved(a) \/ ResolveTimedOut(a)
  PROVE  \E l \in Lists : Dir!SubscribeFirst(a, target[a], l)
<1>1. PICK l \in Lists, f \in {"off", "next"} : FinishAdd(a, l, f)
  BY FirstAddEnds, ZenonT(40)
<1>2. /\ a \notin added /\ selected[target[a]] = 0 /\ target[a] \in Services /\ a \notin canceled /\ applied[a] = 0
      /\ \A t \in Services : a \notin appliers[t]
  BY FirstAddEnds, TargetService, SMTT(30) DEF WatchInv, WatchTypeOK, Homes, Fallow, Unwatched
<1>3. applied' = [applied EXCEPT ![a] = l]
  BY <1>1, <1>2, Zenon DEF FinishAdd, Callback, WatchInv, WatchTypeOK
<1>4. QED
  BY <1>1, <1>2, <1>3, Zenon DEF FinishAdd, Register, Dir!SubscribeFirst

\* An Add for a service that has a watcher, or whose Watch fails, is a subscription.
LEMMA AddSubscribes ==
  ASSUME WatchInv, NEW a \in Appliers, AddExisting(a) \/ AddWatchFailed(a)
  PROVE  Dir!Subscribe(a, target[a])
<1>1. /\ a \notin added /\ target[a] \in Services /\ a \notin canceled /\ applied[a] = 0
      /\ \A t \in Services : a \notin appliers[t]
  BY TargetService, Zenon DEF AddExisting, AddWatchFailed, WatchInv, WatchTypeOK, Homes
<1>2. applied' = [applied EXCEPT ![a] = selected[target[a]]]
  <2>1. CASE AddExisting(a)
    BY <1>1, <2>1, Zenon DEF AddExisting, Callback, WatchInv, WatchTypeOK
  <2>2. CASE AddWatchFailed(a)
    BY <1>1, <2>2, Zenon DEF AddWatchFailed, WatchInv, WatchTypeOK, Fallow, Unwatched
  <2>3. QED
    BY <2>1, <2>2, Zenon
<1>3. QED
  BY <1>1, <1>2, Zenon DEF AddExisting, AddWatchFailed, Register, Dir!Subscribe

\* A cleanup pass forgets the cancelled appliers of the services it got to: no other
\* service has them.
LEMMA CleanupForgets ==
  ASSUME WatchInv, NEW done \in SUBSET Services, doCleanup(done)
  PROVE  \E cs \in SUBSET Appliers : Dir!Forget(cs)
<1> DEFINE cs == {a \in canceled : \E s \in done : a \in appliers[s]}
<1>1. cs \in SUBSET Appliers
  BY Zenon DEF WatchInv, WatchTypeOK
<1>2. \A s \in Services : appliers'[s] = appliers[s] \ cs
  BY DEF doCleanup, WatchInv, Homes
<1>3. appliers' = [s \in Services |-> appliers[s] \ cs]
  BY <1>2, Zenon DEF doCleanup
<1>4. Dir!Forget(cs)
  BY <1>3, Zenon DEF doCleanup, Dir!Forget
<1>5. QED
  BY <1>1, <1>4, Zenon

\* Every step of the watcher is a step of the directory, or changes nothing of it.
LEMMA WatchStepMaps == WatchInv /\ [WatchNextState]_watchVars => [Dir!DirNext]_(Dir!dirVars)
<1> SUFFICES ASSUME WatchInv, [WatchNextState]_watchVars PROVE [Dir!DirNext]_(Dir!dirVars)
  BY Zenon
<1>1. ASSUME NEW s \in Services, RegistryChange(s) \/ FirstNext(s) \/ FirstFailed(s) \/ WatchNext(s) \/ WatchCanceled(s)
      PROVE  UNCHANGED Dir!dirVars
  BY <1>1, Zenon DEF RegistryChange, FirstNext, FirstFailed, WatchNext, WatchCanceled, applierVars, Dir!dirVars
<1>2. ASSUME NEW s \in Services, setSelectedCache(s) PROVE Dir!DirNext
  <2>1. got[s] \in Lists /\ got[s] # 0
    BY <1>2, Zenon DEF setSelectedCache, WatchInv, WatchTypeOK, Hands
  <2>2. Dir!Publish(s, got[s])
    BY <1>2, <2>1, Zenon DEF setSelectedCache, applierVars, Dir!Publish
  <2>3. QED
    BY <2>1, <2>2, Zenon DEF Dir!DirNext
<1>3. ASSUME NEW s \in Services, doCallback(s) PROVE Dir!DirNext
  <2>1. got[s] = selected[s] /\ got[s] # 0
    BY <1>3, Zenon DEF doCallback, WatchInv, Hands
  <2>2. Dir!Deliver(s)
    BY <1>3, <2>1, Zenon DEF doCallback, Callback, Dir!Deliver, Dir!Open
  <2>3. QED
    BY <2>2, Zenon DEF Dir!DirNext
<1>4. ASSUME NEW a \in Appliers, AddExisting(a) \/ AddWatchFailed(a) PROVE Dir!DirNext
  BY <1>4, AddSubscribes, TargetService, Zenon DEF WatchInv, Dir!DirNext
<1>5. ASSUME NEW a \in Appliers, AddFirst(a) PROVE UNCHANGED Dir!dirVars
  BY <1>5, Zenon DEF AddFirst, applierVars, Dir!dirVars
<1>6. ASSUME NEW a \in Appliers, Resolved(a) \/ ResolveTimedOut(a) PROVE Dir!DirNext
  BY <1>6, FirstAddSubscribes, TargetService, Zenon DEF WatchInv, Dir!DirNext
<1>7. ASSUME NEW a \in Appliers, Cancel(a) PROVE Dir!DirNext
  BY <1>7, Zenon DEF Cancel, Dir!Close, Dir!DirNext
<1>8. ASSUME NEW done \in SUBSET Services, doCleanup(done) PROVE Dir!DirNext
  BY <1>8, CleanupForgets, Zenon DEF Dir!DirNext
<1>9. CASE UNCHANGED watchVars
  BY <1>9, Zenon DEF watchVars, Dir!dirVars
<1>10. QED
  BY <1>1, <1>2, <1>3, <1>4, <1>5, <1>6, <1>7, <1>8, <1>9, ZenonT(40) DEF WatchNextState

\* The watcher implements the directory.
THEOREM WatcherImplementsDirectory == WatchSpec => Directory
<1>1. WatchInit => Dir!DirInit
  BY Zenon DEF WatchInit, Dir!DirInit
<1>2. QED
  BY <1>1, InitWatchInv, WatchStepInv, WatchStepMaps, PTL DEF WatchSpec, Directory, Dir!DirSpec
=============================================================================
