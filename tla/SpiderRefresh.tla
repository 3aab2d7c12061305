--------------------------- MODULE SpiderRefresh ---------------------------
(***************************************************************************)
(* The OJ refresh pipeline of core_data, for one user.                     *)
(*                                                                         *)
(* A refresh is requested by a manual update, a retry, the hourly cron, an *)
(* administrator's rebuild or an account binding.  SpiderTask.Do refuses   *)
(* the request when a conflicting job is active, otherwise inserts a row   *)
(* in spider_refresh_jobs and publishes an event on the RabbitMQ queue     *)
(* "spider".  The consumer hands each delivery to a goroutine that runs    *)
(* SpiderUseCase.LoadData and then acks or nacks it.                       *)
(*                                                                         *)
(* Every action is one database statement, one broker operation or one     *)
(* step between two of them, so requests and goroutines interleave as they *)
(* do under PostgreSQL's READ COMMITTED.  The publisher and the consumer   *)
(* share one connection (event.RabbitMQ), so a publisher's Reconnect also  *)
(* closes the channel the consumer reads from.                             *)
(*                                                                         *)
(* Abstracted: what a fetch stores (module SubmitSync), the caches, the    *)
(* rate limiters (a limited request changes nothing) and the order of the  *)
(* queue.  Time is a tick that ages every active row.                      *)
(***************************************************************************)
EXTENDS Integers, FiniteSets

CONSTANTS
    Platforms,   \* the OJ platforms a user can bind
    CodeForces,  \* the platform with a cooldown window
    All,         \* the empty platform name: every bound platform
    Callers,     \* the goroutines that may be inside SpiderTask.Do
    Workers,     \* the goroutines consumeOnce may have started
    None,        \* no platform
    MaxJobs,     \* bound: rows of spider_refresh_jobs
    TTL,         \* activeRefreshJobTTL, in ticks
    Prefetch,    \* Qos(2, 0, false)
    MaxFaults    \* bound: connection losses, crashes, panics, lost writes

ASSUME ConstantsAssumption ==
    /\ All \notin Platforms
    /\ None \notin Platforms \cup {All}
    /\ IsFiniteSet(Platforms)
    /\ MaxJobs \in Nat
    /\ TTL \in Nat
    /\ Prefetch \in Nat \ {0}
    /\ MaxFaults \in Nat

VARIABLES
    njobs,      \* rows inserted so far; ids are 1..njobs
    scope,      \* SpiderEvent.Platform of each job's message
    status,     \* spider_refresh_jobs.status
    current,    \* spider_refresh_jobs.current_platform
    total,      \* spider_refresh_jobs.total_platforms
    finished,   \* spider_refresh_jobs.finished_platforms
    age,        \* ticks since updated_at, for an active row
    bound,      \* platforms with a row in the platforms table
    recent,     \* {CodeForces} when its last_started_at lies within the window
    cpc,        \* a caller's step in SpiderTask.Do or SetSpider
    carg,       \* the platform it asks for
    cjob,       \* the job it inserted
    open,       \* callers whose channel is still open
    link,       \* event.RabbitMQ: "down", "up", or "consuming" when consumeOnce
                \* is ranging over its deliveries
    ready,      \* jobs whose event waits in the queue
    wpc,        \* a goroutine's step in LoadData
    wjob,       \* the job of its event
    wtodo,      \* the platforms it has still to fetch
    wcur,       \* the platform it is fetching
    failing,    \* goroutines with a failed platform
    live,       \* goroutines that can still ack their delivery
    faults,     \* history: faults so far
    orphaned,   \* history: jobs whose event or final UPDATE was lost
    revived,    \* history: jobs that had ended and were started again
    disturbed,  \* history: callers past their SELECT when a job became active
    raced       \* history: jobs inserted by a disturbed caller

rows == <<njobs, scope, status, current, total, finished, age>>
accounts == <<bound, recent>>
callers == <<cpc, carg, cjob, open>>
broker == <<link, ready>>
goroutines == <<wpc, wjob, wtodo, wcur, failing, live>>
history == <<faults, orphaned, revived, raced, disturbed>>
vars == <<rows, accounts, callers, broker, goroutines, history>>

Scopes == Platforms \cup {All}
JobIds == 1..MaxJobs
Rows == 1..njobs
ActiveStatus == {"queued", "running"}
Status == ActiveStatus \cup {"success", "failed", "none"}

IsActive(j) == status[j] \in ActiveStatus

\* Mutants: the condition without its own platform, and without the total count.
MutForgetsOwnPlatform(j, p) == current[j] = All \/ total[j] # 1
MutForgetsTotal(j, p) == current[j] = All \/ (p # All /\ current[j] = p)

\* ActiveRefreshConflictCondition: the WHERE clause that selects the rows a
\* request for platform p conflicts with.
ConflictCondition(j, p) ==
    \/ p # All /\ current[j] = p
    \/ current[j] = All
    \/ total[j] # 1

Conflicting(p) == {j \in Rows : IsActive(j) /\ ConflictCondition(j, p)}

Stale(j) == age[j] > TTL

\* Mutant: only a job that never started is expired.
MutExpiresQueuedOnly(p) == {j \in Conflicting(p) : Stale(j) /\ status[j] = "queued"}

\* The rows expireStaleActiveJobs selects.
Expirable(p) == {j \in Conflicting(p) : Stale(j)}

Init ==
    /\ njobs = 0
    /\ scope = [j \in JobIds |-> All]
    /\ status = [j \in JobIds |-> "none"]
    /\ current = [j \in JobIds |-> All]
    /\ total = [j \in JobIds |-> 0]
    /\ finished = [j \in JobIds |-> 0]
    /\ age = [j \in JobIds |-> 0]
    /\ bound \in SUBSET Platforms
    /\ recent = {}
    /\ cpc = [c \in Callers |-> "idle"]
    /\ carg = [c \in Callers |-> All]
    /\ cjob = [c \in Callers |-> 0]
    /\ open = {}
    /\ link = "consuming"
    /\ ready = {}
    /\ wpc = [w \in Workers |-> "idle"]
    /\ wjob = [w \in Workers |-> 0]
    /\ wtodo = [w \in Workers |-> {}]
    /\ wcur = [w \in Workers |-> None]
    /\ failing = {}
    /\ live = {}
    /\ faults = 0
    /\ orphaned = {}
    /\ revived = {}
    /\ raced = {}
    /\ disturbed = {}

-----------------------------------------------------------------------------
(* Requests: the operations that call SpiderTask.Do.                       *)

\* Bound: no request begins once the job table is full.
Idle(c) == cpc[c] = "idle" /\ njobs < MaxJobs

CallDo(c, p) ==
    /\ Idle(c)
    /\ cpc' = [cpc EXCEPT ![c] = "expire"]
    /\ carg' = [carg EXCEPT ![c] = p]
    /\ UNCHANGED <<cjob, open>>

\* SpiderService.Update: a CodeForces refresh inside the window returns early.
Update(c, p) ==
    /\ p \notin recent
    /\ CallDo(c, p)
    /\ UNCHANGED <<rows, accounts, broker, goroutines, history>>

\* SpiderService.Retry: only a failed job; a job that did not count exactly one
\* platform is retried as a full refresh.
Retry(c, j) ==
    /\ j \in Rows
    /\ status[j] = "failed"
    /\ CallDo(c, IF total[j] # 1 THEN All ELSE current[j])
    /\ UNCHANGED <<rows, accounts, broker, goroutines, history>>

\* The hourly cron asks for a full refresh of every user.
CronDo(c) ==
    /\ CallDo(c, All)
    /\ UNCHANGED <<rows, accounts, broker, goroutines, history>>

\* SpiderService.RebuildAll does so for every user with a binding.
RebuildAll(c) ==
    /\ bound # {}
    /\ CallDo(c, All)
    /\ UNCHANGED <<rows, accounts, broker, goroutines, history>>

\* SpiderService.SetSpider up to the deletion of the old binding: a first binding,
\* the same username again (refused for CodeForces inside the window), or another
\* username, which deletes CodeForces' sync status.
SetSpider(c, p) ==
    /\ Idle(c)
    /\ \/ p \notin bound /\ UNCHANGED recent
       \/ p \in bound /\ p \notin recent /\ UNCHANGED recent
       \/ p \in bound /\ recent' = recent \ {p}
    /\ bound' = bound \ {p}
    /\ cpc' = [cpc EXCEPT ![c] = "save"]
    /\ carg' = [carg EXCEPT ![c] = p]
    /\ UNCHANGED <<rows, cjob, open, broker, goroutines, history>>

\* SetSpider saves the new binding and calls Do; a failed save returns an error
\* and leaves the platform unbound.
SaveBinding(c) ==
    /\ cpc[c] = "save"
    /\ \/ /\ bound' = bound \cup {carg[c]}
          /\ cpc' = [cpc EXCEPT ![c] = "expire"]
          /\ UNCHANGED carg
       \/ /\ cpc' = [cpc EXCEPT ![c] = "idle"]
          /\ carg' = [carg EXCEPT ![c] = All]
          /\ UNCHANGED bound
    /\ UNCHANGED <<rows, recent, cjob, open, broker, goroutines, history>>

-----------------------------------------------------------------------------
(* SpiderTask.Do, statement by statement.                                  *)

Return(c) ==
    /\ cpc' = [cpc EXCEPT ![c] = "idle"]
    /\ carg' = [carg EXCEPT ![c] = All]
    /\ cjob' = [cjob EXCEPT ![c] = 0]
    /\ open' = open \ {c}

\* expireStaleActiveJobs: one UPDATE over the stale conflicting rows.
ExpireStaleActiveJobs(c) ==
    /\ cpc[c] = "expire"
    /\ LET dead == Expirable(carg[c])
       IN  /\ status' = [j \in JobIds |-> IF j \in dead THEN "failed" ELSE status[j]]
           /\ age' = [j \in JobIds |-> IF j \in dead THEN 0 ELSE age[j]]
    /\ cpc' = [cpc EXCEPT ![c] = "find"]
    /\ UNCHANGED <<njobs, scope, current, total, finished, accounts, carg, cjob,
                   open, broker, goroutines, history>>

\* findActiveJob: the SELECT; Do returns ErrActiveRefreshJob when it finds a row.
FindActiveJob(c) ==
    /\ cpc[c] = "find"
    /\ IF Conflicting(carg[c]) # {}
       THEN Return(c)
       ELSE /\ cpc' = [cpc EXCEPT ![c] = "create"]
            /\ UNCHANGED <<carg, cjob, open>>
    /\ disturbed' = disturbed \ {c}
    /\ UNCHANGED <<rows, accounts, broker, goroutines, faults, orphaned,
                   revived, raced>>

\* The callers whose SELECT is behind them and whose INSERT is ahead.
Deciding == {c \in Callers : cpc[c] = "create"}

\* Do inserts the job and takes the current channel.
CreateJob(c) ==
    /\ cpc[c] = "create"
    /\ njobs < MaxJobs
    /\ LET j == njobs + 1
       IN  /\ njobs' = j
           /\ scope' = [scope EXCEPT ![j] = carg[c]]
           /\ status' = [status EXCEPT ![j] = "queued"]
           /\ current' = [current EXCEPT ![j] = carg[c]]
           /\ total' = [total EXCEPT ![j] = IF carg[c] = All THEN 0 ELSE 1]
           /\ cjob' = [cjob EXCEPT ![c] = j]
           /\ raced' = IF c \in disturbed THEN raced \cup {j} ELSE raced
    /\ cpc' = [cpc EXCEPT ![c] = "publish"]
    /\ open' = IF link = "down" THEN open ELSE open \cup {c}
    /\ disturbed' = Deciding \ {c}
    /\ UNCHANGED <<finished, age, accounts, carg, broker, goroutines, faults,
                   orphaned, revived>>

\* The SELECT, the UPDATE or the INSERT of Do fails: Do returns the error.
DoError(c) ==
    /\ cpc[c] \in {"expire", "find", "create"}
    /\ Return(c)
    /\ disturbed' = disturbed \ {c}
    /\ UNCHANGED <<rows, accounts, broker, goroutines, faults, orphaned,
                   revived, raced>>

\* Mutant: deliveries are acknowledged when they are received.
MutAutoAck == {}

\* The jobs whose event is delivered on the open channel and not acknowledged.
Unacked == {wjob[w] : w \in live}

\* The connection closes: unacked deliveries return to the queue while their
\* goroutines go on, and every channel handed out before is dead.
CloseConnection ==
    /\ ready' = ready \cup Unacked
    /\ live' = {}

\* publish, first attempt.  A dead channel leads to Reconnect.
Publish(c) ==
    /\ cpc[c] = "publish"
    /\ IF c \in open
       THEN /\ ready' = ready \cup {cjob[c]}
            /\ Return(c)
       ELSE /\ cpc' = [cpc EXCEPT ![c] = "reconnect"]
            /\ UNCHANGED <<carg, cjob, open, ready>>
    /\ UNCHANGED <<rows, accounts, link, goroutines, history>>

\* publish calls RabbitMQ.Reconnect, which closes the shared connection first.
PublisherReconnect(c) ==
    /\ cpc[c] = "reconnect"
    /\ CloseConnection
    /\ \/ /\ link' = "up"
          /\ open' = {c}
          /\ cpc' = [cpc EXCEPT ![c] = "republish"]
       \/ /\ link' = "down"
          /\ open' = {}
          /\ cpc' = [cpc EXCEPT ![c] = "fail"]
    /\ UNCHANGED <<rows, accounts, carg, cjob, wpc, wjob, wtodo, wcur, failing,
                   history>>

\* publish, second and last attempt.
Republish(c) ==
    /\ cpc[c] = "republish"
    /\ IF c \in open
       THEN /\ ready' = ready \cup {cjob[c]}
            /\ Return(c)
       ELSE /\ cpc' = [cpc EXCEPT ![c] = "fail"]
            /\ UNCHANGED <<carg, cjob, open, ready>>
    /\ UNCHANGED <<rows, accounts, link, goroutines, history>>

\* Do marks the job failed when its event could not be published.
MarkUnpublished(c) ==
    /\ cpc[c] = "fail"
    /\ status' = [status EXCEPT ![cjob[c]] = "failed"]
    /\ age' = [age EXCEPT ![cjob[c]] = 0]
    /\ Return(c)
    /\ UNCHANGED <<njobs, scope, current, total, finished, accounts, broker,
                   goroutines, history>>

-----------------------------------------------------------------------------
(* Consumer and SpiderUseCase.LoadData.                                    *)

\* Mutant: Consume reopens the channel but does not consume again.
MutConsumerGivesUp ==
    /\ link = "down"
    /\ link' = "up"
    /\ UNCHANGED <<rows, accounts, callers, ready, goroutines, history>>

\* Consume reconnects (again closing the shared connection) and consumeOnce
\* declares the queue, sets the prefetch and starts consuming.
ConsumerReconnect ==
    /\ link # "consuming"
    /\ link' = "consuming"
    /\ open' = {}
    /\ UNCHANGED <<rows, accounts, cpc, carg, cjob, ready, goroutines, history>>

\* The broker delivers an event; consumeOnce starts a goroutine for it.
Deliver(w, j) ==
    /\ link = "consuming"
    /\ wpc[w] = "idle"
    /\ j \in ready
    /\ Cardinality(live) < Prefetch
    /\ ready' = ready \ {j}
    /\ wpc' = [wpc EXCEPT ![w] = "load"]
    /\ wjob' = [wjob EXCEPT ![w] = j]
    /\ live' = live \cup {w}
    /\ UNCHANGED <<rows, accounts, callers, link, wtodo, wcur, failing, history>>

\* The bindings the job covers.
BoundIn(p) == IF p = All THEN bound ELSE bound \cap {p}

\* shouldSkipRecentCodeforcesRefresh
Skipped(p) == p \in recent

\* LoadData reads the bindings and drops a CodeForces account refreshed within
\* the window: filterRecentCodeforcesRefresh for a full refresh, the direct skip
\* for a single platform.  No binding, or a failed SELECT, fails the job.
LoadPlatforms(w) ==
    /\ wpc[w] = "load"
    /\ LET b == BoundIn(scope[wjob[w]])
       IN  \/ /\ b # {}
              /\ wtodo' = [wtodo EXCEPT ![w] = {p \in b : ~Skipped(p)}]
              /\ wpc' = [wpc EXCEPT ![w] = "start"]
              /\ UNCHANGED failing
           \/ /\ wpc' = [wpc EXCEPT ![w] = "finish"]
              /\ failing' = failing \cup {w}
              /\ UNCHANGED wtodo
    /\ UNCHANGED <<rows, accounts, callers, broker, wjob, wcur, live, history>>

\* Mutant: the platforms are counted before the recent ones are dropped.
MutCountsSkipped(w) == Cardinality(BoundIn(scope[wjob[w]]))

\* The number of platforms LoadData passes to startJob.
PlatformCount(w) == Cardinality(wtodo[w])

\* startJob: status running, counters reset, whatever the status was.
StartJob(w) ==
    /\ wpc[w] = "start"
    /\ LET j == wjob[w]
       IN  /\ status' = [status EXCEPT ![j] = "running"]
           /\ total' = [total EXCEPT ![j] = PlatformCount(w)]
           /\ finished' = [finished EXCEPT ![j] = 0]
           /\ age' = [age EXCEPT ![j] = 0]
           /\ revived' = IF IsActive(j) THEN revived ELSE revived \cup {j}
           /\ disturbed' = IF IsActive(j) THEN disturbed ELSE Deciding
    /\ wpc' = [wpc EXCEPT ![w] = IF wtodo[w] = {} THEN "finish" ELSE "next"]
    /\ UNCHANGED <<njobs, scope, current, accounts, callers, broker, wjob, wtodo,
                   wcur, failing, live, faults, orphaned, raced>>

\* One iteration of LoadData's loop begins: setCurrentPlatform, then
\* markPlatformRunning, which stamps last_started_at.
NextPlatform(w, p) ==
    /\ wpc[w] = "next"
    /\ p \in wtodo[w]
    /\ wtodo' = [wtodo EXCEPT ![w] = @ \ {p}]
    /\ wcur' = [wcur EXCEPT ![w] = p]
    /\ current' = [current EXCEPT ![wjob[w]] = p]
    /\ age' = [age EXCEPT ![wjob[w]] = 0]
    /\ recent' = recent \cup ({p} \cap {CodeForces})
    /\ wpc' = [wpc EXCEPT ![w] = "fetch"]
    /\ UNCHANGED <<njobs, scope, status, total, finished, bound, callers, broker,
                   wjob, failing, live, history>>

\* The rest of the iteration: the fetch succeeds or fails, finishPlatform counts
\* it.  After the last platform the job is ready to finish.
FinishPlatform(w) ==
    /\ wpc[w] = "fetch"
    /\ LET j == wjob[w]
       IN  /\ current' = [current EXCEPT ![j] = wcur[w]]
           /\ finished' = [finished EXCEPT ![j] = @ + 1]
           /\ age' = [age EXCEPT ![j] = 0]
    /\ failing' \in {failing, failing \cup {w}}
    /\ wcur' = [wcur EXCEPT ![w] = None]
    /\ wpc' = [wpc EXCEPT ![w] = IF wtodo[w] = {} THEN "finish" ELSE "next"]
    /\ UNCHANGED <<njobs, scope, status, total, accounts, callers, broker, wjob,
                   wtodo, live, history>>

\* finishJob; the error of its UPDATE is dropped, so the row may stay active.
FinishJob(w) ==
    /\ wpc[w] = "finish"
    /\ LET j == wjob[w]
       IN  \/ /\ status' = [status EXCEPT ![j] = IF w \in failing THEN "failed" ELSE "success"]
              /\ age' = [age EXCEPT ![j] = 0]
              /\ UNCHANGED <<faults, orphaned>>
           \/ /\ faults < MaxFaults
              /\ faults' = faults + 1
              /\ orphaned' = orphaned \cup {j}
              /\ UNCHANGED <<status, age>>
    /\ wpc' = [wpc EXCEPT ![w] = "settle"]
    /\ UNCHANGED <<njobs, scope, current, total, finished, accounts, callers,
                   broker, wjob, wtodo, wcur, failing, live, revived, raced, disturbed>>

GoroutineEnds(w) ==
    /\ wpc' = [wpc EXCEPT ![w] = "idle"]
    /\ wjob' = [wjob EXCEPT ![w] = 0]
    /\ wtodo' = [wtodo EXCEPT ![w] = {}]
    /\ wcur' = [wcur EXCEPT ![w] = None]
    /\ failing' = failing \ {w}
    /\ live' = live \ {w}

\* Ack after success, Nack without requeue after an error.  On a closed channel
\* either does nothing.
Settle(w) ==
    /\ wpc[w] = "settle"
    /\ GoroutineEnds(w)
    /\ UNCHANGED <<rows, accounts, callers, broker, history>>

\* LoadData panics: the deferred handler nacks without requeue and nothing
\* updates the job.
Panic(w) ==
    /\ wpc[w] \notin {"idle", "settle"}
    /\ faults < MaxFaults
    /\ faults' = faults + 1
    /\ orphaned' = orphaned \cup {wjob[w]}
    /\ GoroutineEnds(w)
    /\ UNCHANGED <<rows, accounts, callers, broker, revived, raced, disturbed>>

-----------------------------------------------------------------------------
(* Faults and time.                                                        *)

Fault ==
    /\ faults < MaxFaults
    /\ faults' = faults + 1

ConnectionLost ==
    /\ link # "down"
    /\ Fault
    /\ CloseConnection
    /\ link' = "down"
    /\ open' = {}
    /\ UNCHANGED <<rows, accounts, cpc, carg, cjob, wpc, wjob, wtodo, wcur, failing,
                   orphaned, revived, raced, disturbed>>

\* Publish returns nil without a confirmation from the broker and the connection
\* drops with the event still in flight.
PublishLost(c) ==
    /\ cpc[c] \in {"publish", "republish"}
    /\ c \in open
    /\ Fault
    /\ orphaned' = orphaned \cup {cjob[c]}
    /\ CloseConnection
    /\ link' = "down"
    /\ cpc' = [cpc EXCEPT ![c] = "idle"]
    /\ carg' = [carg EXCEPT ![c] = All]
    /\ cjob' = [cjob EXCEPT ![c] = 0]
    /\ open' = {}
    /\ UNCHANGED <<rows, accounts, wpc, wjob, wtodo, wcur, failing, revived, raced,
                   disturbed>>

\* The broker restarts.  The queue is durable, its events are not: they are
\* published without a delivery mode.
BrokerRestart ==
    /\ Fault
    /\ ready' = {}
    /\ orphaned' = orphaned \cup ready
    /\ link' = "down"
    /\ live' = {}
    /\ open' = {}
    /\ UNCHANGED <<rows, accounts, cpc, carg, cjob, wpc, wjob, wtodo, wcur, failing,
                   revived, raced, disturbed>>

\* The core_data process restarts: callers and goroutines vanish, unacked events
\* return to the queue.
Crash ==
    /\ Fault
    /\ ready' = ready \cup Unacked
    /\ orphaned' = orphaned
            \cup {cjob[c] : c \in {d \in Callers : cjob[d] # 0}}
            \cup {wjob[w] : w \in {v \in Workers : wpc[v] # "idle" /\ v \notin live}}
    /\ link' = "down"
    /\ cpc' = [c \in Callers |-> "idle"]
    /\ carg' = [c \in Callers |-> All]
    /\ cjob' = [c \in Callers |-> 0]
    /\ open' = {}
    /\ wpc' = [w \in Workers |-> "idle"]
    /\ wjob' = [w \in Workers |-> 0]
    /\ wtodo' = [w \in Workers |-> {}]
    /\ wcur' = [w \in Workers |-> None]
    /\ failing' = {}
    /\ live' = {}
    /\ disturbed' = {}
    /\ UNCHANGED <<rows, accounts, revived, raced>>

\* Time passes: every active row grows older, and a tick outlasts the CodeForces
\* window.
Tick ==
    /\ \E j \in Rows : IsActive(j) /\ ~Stale(j)
    /\ age' = [j \in JobIds |-> IF j \in Rows /\ IsActive(j) /\ ~Stale(j)
                                THEN age[j] + 1 ELSE age[j]]
    /\ recent' = {}
    /\ UNCHANGED <<njobs, scope, status, current, total, finished, bound, callers,
                   broker, goroutines, history>>

CooldownElapses ==
    /\ recent # {}
    /\ recent' = {}
    /\ UNCHANGED <<rows, bound, callers, broker, goroutines, history>>

-----------------------------------------------------------------------------

Request(c) ==
    \/ \E p \in Scopes : Update(c, p)
    \/ \E j \in JobIds : Retry(c, j)
    \/ CronDo(c)
    \/ RebuildAll(c)
    \/ \E p \in Platforms : SetSpider(c, p)

DoStep(c) ==
    \/ SaveBinding(c)
    \/ ExpireStaleActiveJobs(c)
    \/ FindActiveJob(c)
    \/ CreateJob(c)
    \/ DoError(c)
    \/ Publish(c)
    \/ PublisherReconnect(c)
    \/ Republish(c)
    \/ MarkUnpublished(c)

LoadDataStep(w) ==
    \/ LoadPlatforms(w)
    \/ StartJob(w)
    \/ \E p \in Platforms : NextPlatform(w, p)
    \/ FinishPlatform(w)
    \/ FinishJob(w)
    \/ Settle(w)

Environment ==
    \/ \E w \in Workers : Panic(w)
    \/ ConnectionLost
    \/ \E c \in Callers : PublishLost(c)
    \/ BrokerRestart
    \/ Crash
    \/ Tick
    \/ CooldownElapses

Next ==
    \/ \E c \in Callers : Request(c) \/ DoStep(c)
    \/ ConsumerReconnect
    \/ \E w \in Workers : (\E j \in JobIds : Deliver(w, j)) \/ LoadDataStep(w)
    \/ Environment

Spec == Init /\ [][Next]_vars

\* Goroutines run, the consumer loops for ever and the broker delivers: the
\* fairness Go's scheduler and RabbitMQ give.  Nothing is assumed of requests,
\* of faults or of time.
Fairness ==
    /\ \A c \in Callers : WF_vars(DoStep(c))
    /\ \A w \in Workers : WF_vars(LoadDataStep(w))
    /\ WF_vars(ConsumerReconnect)
    /\ \A j \in JobIds : WF_vars(\E w \in Workers : Deliver(w, j))

FairSpec == Spec /\ Fairness

-----------------------------------------------------------------------------
(* Properties.                                                             *)

RowsOK ==
    /\ njobs \in 0..MaxJobs
    /\ scope \in [JobIds -> Scopes]
    /\ status \in [JobIds -> Status]
    /\ current \in [JobIds -> Scopes]
    /\ total \in [JobIds -> Nat]
    /\ finished \in [JobIds -> Nat]
    /\ age \in [JobIds -> 0..TTL + 1]

AccountsOK ==
    /\ bound \subseteq Platforms
    /\ recent \subseteq {CodeForces}

CallersOK ==
    /\ cpc \in [Callers -> {"idle", "save", "expire", "find", "create", "publish",
                            "reconnect", "republish", "fail"}]
    /\ carg \in [Callers -> Scopes]
    /\ cjob \in [Callers -> 0..njobs]
    /\ open \subseteq Callers

BrokerOK ==
    /\ link \in {"down", "up", "consuming"}
    /\ ready \subseteq Rows

GoroutinesOK ==
    /\ wpc \in [Workers -> {"idle", "load", "start", "next", "fetch", "finish", "settle"}]
    /\ wjob \in [Workers -> 0..njobs]
    /\ wtodo \in [Workers -> SUBSET Platforms]
    /\ wcur \in [Workers -> Platforms \cup {None}]
    /\ failing \subseteq Workers
    /\ live \subseteq Workers

HistoryOK ==
    /\ faults \in 0..MaxFaults
    /\ orphaned \subseteq Rows
    /\ revived \subseteq Rows
    /\ raced \subseteq Rows
    /\ disturbed \subseteq Callers

\* Every variable has its type.
TypeOK ==
    RowsOK /\ AccountsOK /\ CallersOK /\ BrokerOK /\ GoroutinesOK /\ HistoryOK

\* Some caller is about to publish j's event, the event waits in the queue, or a
\* goroutine that has it will still write the row.
Carried(j) ==
    \/ \E c \in Callers : cjob[c] = j
    \/ j \in ready
    \/ \E w \in Workers : wjob[w] = j /\ wpc[w] # "settle"

\* A queued or running job always has somebody who will settle it, unless its own
\* event or final UPDATE was lost: reconnects, redeliveries and the faults of
\* other jobs never leave a job active with nobody behind it.
NoSilentOrphan == \A j \in Rows : IsActive(j) => Carried(j) \/ j \in orphaned

\* Of two active jobs for the same single platform, the later one was inserted
\* after somebody else slipped between its SELECT and its INSERT, or one of them
\* had already ended and was restarted by a late or repeated delivery.  The
\* duplicate-job check of Do has no other hole for single platforms.
SamePlatformExclusion ==
    \A j, k \in Rows :
        j < k /\ IsActive(j) /\ IsActive(k) /\ scope[j] = scope[k] /\ scope[j] # All
            => k \in raced \/ {j, k} \cap revived # {}

\* While a goroutine works through a full refresh whose event was delivered once,
\* Do refuses a request for any platform that goroutine has not finished, although
\* the columns the check reads change at every step of LoadData.
FullRefreshBlocksItsPlatforms ==
    \A w \in Workers :
        /\ wpc[w] \in {"load", "start", "next", "fetch"}
        /\ scope[wjob[w]] = All
        /\ IsActive(wjob[w])
        => \A p \in wtodo[w] \cup ({wcur[w]} \ {None}) : ConflictCondition(wjob[w], p)

\* When events are delivered once the progress a job shows never exceeds its
\* total, and a successful job has finished every platform it counted.
ProgressConsistent ==
    \A j \in Rows :
        /\ finished[j] <= total[j]
        /\ status[j] = "success" => finished[j] = total[j]

\* Under a bounded number of faults every job ends up settled or is one whose
\* event or final UPDATE was lost; the consumer's reconnect loop and redelivery
\* see to it.
JobsSettle == <>[](\A j \in Rows : ~IsActive(j) \/ j \in orphaned)

\* Somebody keeps asking for a full refresh, time passes, and the database does
\* not fail every time.
Persistence ==
    /\ WF_vars(Tick)
    /\ \A c \in Callers : /\ SF_vars(CronDo(c))
                          /\ SF_vars(ExpireStaleActiveJobs(c))
                          /\ SF_vars(FindActiveJob(c))
                          /\ SF_vars(CreateJob(c))

PersistentSpec == FairSpec /\ Persistence

\* Whatever was lost, the hourly request is not refused for ever: a job nobody
\* will settle grows stale, is expired by the next request and gives way.
RefusalIsTemporary == <>(njobs = MaxJobs)

\* README: "a full refresh excludes every single-platform refresh"
\* (src/README.md:377).
FullExcludesSingle ==
    ~ \E j, k \in Rows :
        IsActive(j) /\ IsActive(k) /\ scope[j] = All /\ scope[k] # All
=============================================================================
