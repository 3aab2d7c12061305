---------------------------- MODULE ServiceWatch ----------------------------
(* The gateway's service watcher: app/gateway/client/servicewatch.go and the   *)
(* node applier of factory.go that it calls back.                              *)
(*                                                                             *)
(* One watcher per discovered service, created by the first client (applier)   *)
(* that asks for it, on that client's context; two goroutines that call the    *)
(* registry's Next: the one of the initial resolve, and the watch loop; a      *)
(* read-write lock, which Add holds while the initial resolve is pending; and  *)
(* a cleanup pass every 30 seconds.  A list of instances is a number, 0 the    *)
(* empty list; the registry numbers its lists in the order they appear.        *)
(*                                                                             *)
(* The registry is external: Next returns the current list when there is one   *)
(* to report and blocks otherwise, one caller takes one report, and it returns *)
(* context.Canceled once the context given to Watch is cancelled, if the       *)
(* registry's watcher follows that context.                                    *)
EXTENDS Naturals, FiniteSets

CONSTANTS Services, Appliers, NoApplier,
          Targets,         \* the choices of a service for every applier
          MaxChanges       \* bound: changes of the registry's lists

ASSUME WatchConstants ==
    /\ NoApplier \notin Appliers
    /\ Targets \subseteq [Appliers -> Services]
    /\ MaxChanges \in Nat

Lists == 0..MaxChanges

VARIABLES
    target,     \* applier -> the service its backend names (discovery:///name)
    timeoutSet, \* "yes" when INITIAL_RESOLVE_TIMEOUT is set to a positive time
    lists,      \* service -> the registry's current list
    changes,    \* how many changes the registry has seen
    report,     \* the services whose watcher has a list to report
    wlock,      \* the applier whose Add holds the write lock, or NoApplier
    owner,      \* service -> the applier on whose context it is watched
    first,      \* service -> goroutine of the initial resolve: "off", "next",
                \*   "sent" (its list is in the channel) or "closed" (it failed)
    loop,       \* service -> watch loop: "off", "next", "set", "call"
    got,        \* service -> the list its goroutine has in hand
    selected,   \* service -> selectedInstances, the cache
    appliers,   \* service -> the registered appliers
    added,      \* the appliers whose Add has returned
    canceled,   \* the appliers that were cancelled
    missed,     \* history: registered while Watch failed, not called back since
    applied     \* applier -> the list its picker holds

watchVars == <<target, timeoutSet, lists, changes, report, wlock, owner, first, loop, got, selected,
               appliers, added, canceled, missed, applied>>
registryVars == <<target, timeoutSet, lists, changes>>
goroutineVars == <<owner, first, loop, got>>
applierVars == <<appliers, added, canceled, missed, applied>>

WatchInit ==
    /\ target \in Targets
    /\ timeoutSet \in {"yes", "no"}
    /\ lists = [s \in Services |-> 0] /\ changes = 0 /\ report = {}
    /\ wlock = NoApplier
    /\ owner = [s \in Services |-> NoApplier]
    /\ first = [s \in Services |-> "off"] /\ loop = [s \in Services |-> "off"]
    /\ got = [s \in Services |-> 0] /\ selected = [s \in Services |-> 0]
    /\ appliers = [s \in Services |-> {}]
    /\ added = {} /\ canceled = {} /\ missed = {}
    /\ applied = [a \in Appliers |-> 0]

Unlocked == wlock = NoApplier

\* The registry's list for a service changes: instances come, or the last goes.
\* (A service that no backend names does not concern the gateway.)
RegistryChange(s) ==
    /\ \E a \in Appliers : target[a] = s
    /\ changes < MaxChanges /\ changes' = changes + 1
    /\ lists' = [lists EXCEPT ![s] = changes + 1] \/ (lists[s] # 0 /\ lists' = [lists EXCEPT ![s] = 0])
    /\ report' = report \cup {s}
    /\ UNCHANGED <<target, timeoutSet, wlock, selected, goroutineVars, applierVars>>

\* Mutant: a cancelled applier is called back too.
MutCallsCanceled(as, l) == [a \in Appliers |-> IF a \in as /\ l # 0 THEN l ELSE applied[a]]

\* nodeApplier.Callback: a cancelled applier and an empty list change nothing.
Callback(as, l) ==
    [a \in Appliers |-> IF a \in as \ canceled /\ l # 0 THEN l ELSE applied[a]]

Register(a) == /\ appliers' = [appliers EXCEPT ![target[a]] = @ \cup {a}]
               /\ added' = added \cup {a}

\* Mutant: the cached list is not handed to a later applier.
MutAddsWithoutCache(a) ==
    /\ Unlocked /\ a \notin added /\ owner[target[a]] # NoApplier
    /\ Register(a)
    /\ UNCHANGED <<report, wlock, selected, canceled, missed, applied, registryVars, goroutineVars>>

\* Add for a service that has a watcher: the cached list, if there is one.
AddExisting(a) == LET s == target[a] IN
    /\ Unlocked /\ a \notin added /\ owner[s] # NoApplier
    /\ applied' = Callback({a}, selected[s])
    /\ Register(a)
    /\ UNCHANGED <<report, wlock, selected, canceled, missed, registryVars, goroutineVars>>

\* Add when Watch fails: no watcher, but the applier is registered all the same.
AddWatchFailed(a) == LET s == target[a] IN
    /\ Unlocked /\ a \notin added /\ owner[s] = NoApplier
    /\ Register(a) /\ missed' = missed \cup {a}
    /\ UNCHANGED <<report, wlock, selected, canceled, applied, registryVars, goroutineVars>>

\* Add of the first applier: the watcher starts and the initial resolve begins,
\* the lock held.  A non-empty list is there to report at once.
AddFirst(a) == LET s == target[a] IN
    /\ Unlocked /\ a \notin added /\ owner[s] = NoApplier
    /\ wlock' = a
    /\ owner' = [owner EXCEPT ![s] = a]
    /\ first' = [first EXCEPT ![s] = "next"]
    /\ report' = IF lists[s] # 0 THEN report \cup {s} ELSE report \ {s}
    /\ UNCHANGED <<loop, got, selected, registryVars, applierVars>>

\* Mutant: a list that comes after the timeout is applied by the resolve's goroutine.
MutAppliesLateList(s) ==
    /\ first[s] = "next" /\ s \in report /\ report' = report \ {s}
    /\ IF loop[s] = "off"
       THEN got' = [got EXCEPT ![s] = lists[s]] /\ first' = [first EXCEPT ![s] = "sent"] /\ UNCHANGED applied
       ELSE first' = [first EXCEPT ![s] = "off"] /\ applied' = Callback(appliers[s], lists[s]) /\ UNCHANGED got
    /\ UNCHANGED <<wlock, selected, owner, loop, registryVars, appliers, added, canceled, missed>>

\* The goroutine of the initial resolve: its Next returns a list.  One that comes
\* after the resolve timed out stays in a channel that nobody reads.
FirstNext(s) ==
    /\ first[s] = "next" /\ s \in report
    /\ report' = report \ {s}
    /\ IF loop[s] = "off"
       THEN got' = [got EXCEPT ![s] = lists[s]] /\ first' = [first EXCEPT ![s] = "sent"]
       ELSE first' = [first EXCEPT ![s] = "off"] /\ UNCHANGED got
    /\ UNCHANGED <<wlock, selected, owner, loop, registryVars, applierVars>>

\* ... or fails: the channel is closed empty, "will attempt asynchronously".
FirstFailed(s) ==
    /\ first[s] = "next"
    /\ first' = [first EXCEPT ![s] = IF loop[s] = "off" THEN "closed" ELSE "off"]
    /\ UNCHANGED <<report, wlock, selected, owner, loop, got, registryVars, applierVars>>

\* The end of the first Add, whichever way the select went: the list goes to the
\* cache and to the applier, the watch loop starts, the lock is released.
FinishAdd(a, l, f) == LET s == target[a] IN
    /\ selected' = [selected EXCEPT ![s] = l]
    /\ applied' = Callback({a}, l)
    /\ first' = [first EXCEPT ![s] = f]
    /\ loop' = [loop EXCEPT ![s] = "next"]
    /\ Register(a)
    /\ got' = [got EXCEPT ![s] = 0]
    /\ wlock' = NoApplier
    /\ UNCHANGED <<report, owner, canceled, missed, registryVars>>

Resolved(a) == LET s == target[a] IN
    /\ wlock = a
    /\ \/ first[s] = "sent" /\ FinishAdd(a, got[s], "off")
       \/ first[s] = "closed" /\ FinishAdd(a, 0, "off")

ResolveTimedOut(a) == LET s == target[a] IN
    /\ timeoutSet = "yes" /\ wlock = a
    /\ FinishAdd(a, 0, IF first[s] = "next" THEN "next" ELSE "off")

\* The watch loop: Next returns a list; an empty one is skipped.
WatchNext(s) ==
    /\ loop[s] = "next" /\ s \in report
    /\ report' = report \ {s}
    /\ IF lists[s] = 0 THEN UNCHANGED <<got, loop>>
       ELSE /\ got' = [got EXCEPT ![s] = lists[s]]
            /\ loop' = [loop EXCEPT ![s] = "set"]
    /\ UNCHANGED <<wlock, selected, owner, first, registryVars, applierVars>>

\* Next returns context.Canceled: the watch loop ends, and with it every update.
WatchCanceled(s) ==
    /\ loop[s] = "next" /\ owner[s] \in canceled
    /\ loop' = [loop EXCEPT ![s] = "off"]
    /\ UNCHANGED <<report, wlock, selected, owner, first, got, registryVars, applierVars>>

\* The cache and the callbacks are two critical sections.
setSelectedCache(s) ==
    /\ loop[s] = "set" /\ Unlocked
    /\ selected' = [selected EXCEPT ![s] = got[s]]
    /\ loop' = [loop EXCEPT ![s] = "call"]
    /\ UNCHANGED <<report, wlock, owner, first, got, registryVars, applierVars>>

\* Mutant: the watch loop ends after its first delivery.
MutWatchesOnce(s) ==
    /\ loop[s] = "call" /\ Unlocked
    /\ applied' = Callback(appliers[s], got[s]) /\ missed' = missed \ appliers[s]
    /\ loop' = [loop EXCEPT ![s] = "off"] /\ got' = [got EXCEPT ![s] = 0]
    /\ UNCHANGED <<report, wlock, selected, owner, first, appliers, added, canceled, registryVars>>

doCallback(s) ==
    /\ loop[s] = "call" /\ Unlocked
    /\ applied' = Callback(appliers[s], got[s])
    /\ missed' = missed \ appliers[s]
    /\ loop' = [loop EXCEPT ![s] = "next"] /\ got' = [got EXCEPT ![s] = 0]
    /\ UNCHANGED <<report, wlock, selected, owner, first, appliers, added, canceled,
                   registryVars>>

\* client.Close: the flag is set and the context cancelled, without the lock.
Cancel(a) ==
    /\ a \in added \ canceled
    /\ canceled' = canceled \cup {a}
    /\ UNCHANGED <<report, wlock, selected, appliers, added, missed, applied,
                   registryVars, goroutineVars>>

\* A cleanup pass ranges over the services that have a map, in random order, and
\* drops the cancelled appliers of each; at the first service that has none (or
\* none any more) the whole pass returns, and the others wait for another pass.
doCleanup(done) ==
    LET keys  == {target[a] : a \in added}
        dirty == {s \in keys : appliers[s] \cap canceled # {}}
    IN /\ Unlocked
       /\ done \subseteq dirty /\ done # {}
       /\ done = dirty \/ dirty # keys
       /\ appliers' = [s \in Services |-> IF s \in done THEN appliers[s] \ canceled ELSE appliers[s]]
       /\ UNCHANGED <<report, wlock, selected, added, canceled, missed, applied,
                      registryVars, goroutineVars>>

WatchNextState ==
    \/ \E s \in Services : \/ RegistryChange(s) \/ FirstNext(s) \/ FirstFailed(s) \/ WatchNext(s)
                           \/ WatchCanceled(s) \/ setSelectedCache(s) \/ doCallback(s)
    \/ \E a \in Appliers : \/ AddExisting(a) \/ AddWatchFailed(a) \/ AddFirst(a)
                           \/ Resolved(a) \/ ResolveTimedOut(a) \/ Cancel(a)
    \/ \E done \in SUBSET Services : doCleanup(done)

WatchSpec == WatchInit /\ [][WatchNextState]_watchVars

\* Goroutines run and timers fire; a goroutine that waits for the lock gets it in
\* the end if it is free again and again (Go's RWMutex does not starve a waiter);
\* a pass starts every 30 seconds and, since Go ranges over a map in random order,
\* every service comes first in infinitely many passes.  Nothing is assumed of the
\* registry, of cancellations and of new appliers.
WatchFairness ==
    /\ \A s \in Services :
         /\ WF_watchVars(FirstNext(s)) /\ WF_watchVars(WatchNext(s))
         /\ SF_watchVars(setSelectedCache(s)) /\ SF_watchVars(doCallback(s))
         /\ SF_watchVars(\E done \in SUBSET Services : s \in done /\ doCleanup(done))
    /\ \A a \in Appliers : WF_watchVars(Resolved(a)) /\ WF_watchVars(ResolveTimedOut(a))

-----------------------------------------------------------------------------
WatchTypeOK ==
    /\ target \in Targets /\ timeoutSet \in {"yes", "no"}
    /\ lists \in [Services -> Lists] /\ changes \in Lists
    /\ report \subseteq Services
    /\ wlock \in Appliers \cup {NoApplier}
    /\ owner \in [Services -> Appliers \cup {NoApplier}]
    /\ first \in [Services -> {"off", "next", "sent", "closed"}]
    /\ loop \in [Services -> {"off", "next", "set", "call"}]
    /\ got \in [Services -> Lists] /\ selected \in [Services -> Lists]
    /\ appliers \in [Services -> SUBSET Appliers]
    /\ added \subseteq Appliers /\ canceled \subseteq added /\ missed \subseteq added
    /\ applied \in [Appliers -> Lists]

\* Between two deliveries the cache of a service and the pickers of its clients
\* agree: every registered applier that is not cancelled chooses from exactly the
\* cached list, however its Add fell between setSelectedCache and doCallback.  The
\* exception is an applier that was registered although Watch failed
\* (servicewatch.go:134-138, 206-211): it waits for the first delivery.
CacheReachesAppliers ==
    \A s \in Services : selected[s] # 0 /\ loop[s] # "call" =>
        \A a \in appliers[s] \ (canceled \cup missed) : applied[a] = selected[s]

\* A picker never goes back to an older list, and never back to none, although two
\* goroutines read the registry's watcher after a timed-out resolve and a new
\* applier is fed from the cache while a delivery is under way.
FreshnessMonotone == [][\A a \in Appliers : applied'[a] >= applied[a]]_watchVars

Dir == INSTANCE ServiceDirectory WITH Clients <- Appliers, published <- selected,
           view <- applied, subs <- appliers, closed <- canceled

\* The watcher implements the directory: published lists are the cache, views the
\* pickers, subscriptions the applier map; lock and goroutines are hidden.
Directory == Dir!DirSpec

\* An Add gets its answer and gives the lock back, provided the registry has a
\* list to report or a resolve timeout is set.  Without either it holds the lock
\* of every service for ever (servicewatch.go:168).
AddReturns ==
    \A a \in Appliers :
        (wlock = a /\ (timeoutSet = "yes" \/ target[a] \in report)) ~> (wlock # a)

\* With the lock free again and again, a list that the registry settles on reaches
\* every client of the service while the watching client is not cancelled.
\* Not with a resolve timeout: the report after a timed-out resolve goes to the
\* goroutine that was left behind, although it "will attempt asynchronously"
\* (servicewatch.go:172-177).
Settled(s, l) == lists[s] = l /\ owner[s] \notin canceled \cup {NoApplier}
Reaches(s, l) == \A a \in appliers[s] \ (canceled \cup missed) : applied[a] = l
Arrives(s) == \A l \in Lists \ {0} : <>[]Settled(s, l) /\ []<>Unlocked => <>[]Reaches(s, l)
UpdatesArrive == timeoutSet = "no" => \A s \in Services : Arrives(s)

\* A cancelled applier is dropped from the map in the end, although a cleanup
\* pass returns at the first service that has nothing to drop (servicewatch.go:253).
CanceledAreDropped ==
    \A s \in Services, a \in Appliers :
        (a \in appliers[s] \cap canceled /\ []<>Unlocked) ~> (a \notin appliers[s])

\* What the watcher owes its clients in the end: an answer to Add, a list that has
\* settled, and to be dropped after Close (servicewatch.go:120-275).
WatchProgress == AddReturns /\ UpdatesArrive /\ CanceledAreDropped
=============================================================================
