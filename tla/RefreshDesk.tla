----------------------------- MODULE RefreshDesk -----------------------------
(* How refreshes of one user's Codeforces account are asked for and spaced           *)
(* (service/spider.go, biz/service/spider.go): the rate limiters of Update and       *)
(* SetSpider, the cool-down by last_started_at, the change of the bound account,      *)
(* and the worker that skips a recent refresh.  The user has bound no other          *)
(* platform.  Conflicts of jobs, their queue and redelivery in full are in            *)
(* SpiderRefresh; here a restart delivers every unfinished job again.                *)
EXTENDS Integers, FiniteSets

CONSTANTS Desks,          \* requests in progress: numbers, the lowest free one is taken
          Handles,        \* Codeforces accounts
          FirstHandle,    \* the one that is bound first
          Cooldown,       \* 30 minutes
          BindPause,      \* 30 seconds
          MaxDeskClock,   \* bound: time
          MaxCallers,     \* bound: requests
          MaxDeskJobs,    \* bound: jobs
          MaxOutages      \* bound: restarts of the process

Absent == "none"
Never == -1
DeskJobs == 1..MaxDeskJobs
LimiterKeys == {"update", "bind"}

ASSUME DeskConstants ==
    /\ Desks \subseteq Nat /\ Absent \notin Handles /\ FirstHandle \in Handles
    /\ Cooldown \in Nat /\ BindPause \in Nat
    /\ MaxDeskClock \in Nat /\ MaxCallers \in Nat /\ MaxDeskJobs \in Nat /\ MaxOutages \in Nat

VARIABLES
    deskNow, asked, outages,
    limiterOf,    \* sync.Map: the number of a key's limiter, 0 without one
    allowedAt,    \* per limiter: when it last allowed a request
    boundTo,      \* platforms.username
    startedAt,    \* spider_sync_status.last_started_at
    djob,         \* the jobs and their workers
    desk,         \* the requests
    lastGrant,    \* history: per key, time and number of the grants of this process
    starts,       \* history: crawls started
    crawled,      \* history: per account, the last start
    forgot,       \* history: accounts whose last start a rebinding has erased
    owed          \* history: "yes" when the bound account is yet to be crawled

deskVars == <<deskNow, asked, outages, limiterOf, allowedAt, boundTo, startedAt, djob, desk,
              lastGrant, starts, crawled, forgot, owed>>

AtRest == [pc |-> "idle", op |-> Absent, handle |-> Absent, mine |-> 0, over |-> "no"]
NoJob == [pc |-> Absent, full |-> "no", cur |-> Absent, handle |-> Absent, looked |-> 0]
Finished == [NoJob EXCEPT !.pc = "done"]

DeskInit ==
    /\ deskNow = 0 /\ asked = 0 /\ outages = 0
    /\ limiterOf = [k \in LimiterKeys |-> 0] /\ allowedAt = [n \in 1..MaxCallers |-> Never]
    /\ boundTo = Absent /\ startedAt = Never
    /\ djob = [j \in DeskJobs |-> NoJob] /\ desk = [d \in Desks |-> AtRest]
    /\ lastGrant = [k \in LimiterKeys |-> [at |-> Never, n |-> 0]]
    /\ starts = 0 /\ crawled = [h \in Handles |-> Never] /\ forgot = {} /\ owed = "no"

DeskStep(d, pc) == desk' = [desk EXCEPT ![d].pc = pc]
Answer(d) == desk' = [desk EXCEPT ![d] = AtRest]
storeVars == <<boundTo, startedAt>>
limitVars == <<limiterOf, allowedAt, lastGrant>>
crawlHist == <<starts, crawled, forgot>>
clockVars == <<deskNow, outages>>

-----------------------------------------------------------------------------
(* Requests *)

\* platformRefreshStartedWithin: without a row, or without a start, it is not recent.
platformRefreshStartedWithin(window) == startedAt # Never /\ deskNow - startedAt < window

Call(d, op, h) ==
    /\ desk[d].pc = "idle" /\ (\A e \in Desks : e < d => desk[e].pc # "idle")
    /\ asked < MaxCallers /\ asked' = asked + 1
    /\ desk' = [desk EXCEPT ![d] = [pc |-> IF op = "update" THEN "recent" ELSE IF op = "bind" THEN "load" ELSE "find",
                                       op |-> op, handle |-> h, mine |-> asked + 1, over |-> "no"]]
    /\ UNCHANGED <<clockVars, limitVars, storeVars, djob, crawlHist, owed>>

\* Update of CodeForces: a recent refresh is answered at once.
Recent(d) ==
    /\ desk[d].pc = "recent"
    /\ IF platformRefreshStartedWithin(Cooldown) THEN Answer(d) ELSE DeskStep(d, "load")
    /\ UNCHANGED <<clockVars, asked, limitVars, storeVars, djob, crawlHist, owed>>

KeyOf(d) == IF desk[d].op = "bind" THEN "bind" ELSE "update"
manualRefreshWindow(k) == IF k = "bind" THEN BindPause ELSE Cooldown

\* getLimiterByKey: Load, and LoadOrStore of a new limiter when there was none.
LoadLimiter(d) ==
    /\ desk[d].pc = "load"
    /\ IF limiterOf[KeyOf(d)] # 0
       THEN desk' = [desk EXCEPT ![d].pc = "allow", ![d].mine = limiterOf[KeyOf(d)]] ELSE DeskStep(d, "store")
    /\ UNCHANGED <<clockVars, asked, limitVars, storeVars, djob, crawlHist, owed>>
\* Mutant: Store, and the request goes on with the limiter it made.
MutStore(d) ==
    /\ desk[d].pc = "store" /\ limiterOf' = [limiterOf EXCEPT ![KeyOf(d)] = desk[d].mine] /\ DeskStep(d, "allow")
    /\ UNCHANGED <<clockVars, asked, allowedAt, lastGrant, storeVars, djob, crawlHist, owed>>
LoadOrStore(d) ==
    LET k == KeyOf(d)
        actual == IF limiterOf[k] # 0 THEN limiterOf[k] ELSE desk[d].mine
    IN  /\ desk[d].pc = "store"
        /\ limiterOf' = [limiterOf EXCEPT ![k] = actual]
        /\ desk' = [desk EXCEPT ![d].pc = "allow", ![d].mine = actual]
        /\ UNCHANGED <<clockVars, asked, allowedAt, lastGrant, storeVars, djob, crawlHist, owed>>

\* Allow: one request per interval, burst 1.
Allow(d) ==
    LET k == KeyOf(d)
        l == desk[d].mine
    IN  /\ desk[d].pc = "allow"
        /\ IF allowedAt[l] # Never /\ deskNow - allowedAt[l] < manualRefreshWindow(k)
           THEN Answer(d) /\ UNCHANGED <<allowedAt, lastGrant>>
           ELSE /\ desk' = [desk EXCEPT ![d].pc = IF k = "bind" THEN "existing" ELSE "find", ![d].mine = 0]
                /\ allowedAt' = [allowedAt EXCEPT ![l] = deskNow]
                /\ lastGrant' = [lastGrant EXCEPT ![k] = [at |-> deskNow, n |-> @.n + 1]]
        /\ UNCHANGED <<clockVars, asked, limiterOf, storeVars, djob, crawlHist, owed>>

\* Bindings in the middle of a change.
Rebinding == {d \in Desks : desk[d].pc \in {"same", "forget", "unbind", "save"}}

\* SetSpider: the binding is read, then, for the same account, the last start.
Existing(d) ==
    LET same == boundTo = desk[d].handle
    IN  /\ desk[d].pc = "existing"
        /\ desk' = [desk EXCEPT ![d].over = IF Rebinding # {} \/ owed = "lost" THEN "yes" ELSE "no",
                                ![d].pc = IF same THEN "same" ELSE IF boundTo = Absent THEN "unbind" ELSE "forget"]
        /\ UNCHANGED <<clockVars, asked, limitVars, storeVars, djob, crawlHist, owed>>
SameBinding(d) ==
    /\ desk[d].pc = "same"
    /\ IF platformRefreshStartedWithin(Cooldown) THEN Answer(d) ELSE DeskStep(d, "unbind")
    /\ UNCHANGED <<clockVars, asked, limitVars, storeVars, djob, crawlHist, owed>>

\* Mutant: the sync status of the old account is kept.
MutKeepsStatus(d) ==
    /\ desk[d].pc = "forget" /\ DeskStep(d, "unbind")
    /\ UNCHANGED <<clockVars, asked, limitVars, storeVars, djob, crawlHist, owed>>

\* Another account: the sync status is deleted.  Then the binding and its submissions
\* are deleted, and the new binding is saved.
ForgetStatus(d) ==
    /\ desk[d].pc = "forget" /\ DeskStep(d, "unbind")
    /\ startedAt' = Never /\ forgot' = {h \in Handles : crawled[h] # Never}
    /\ UNCHANGED <<clockVars, asked, limitVars, boundTo, djob, starts, crawled, owed>>
Unbind(d) ==
    /\ desk[d].pc = "unbind" /\ DeskStep(d, "save") /\ boundTo' = Absent
    /\ UNCHANGED <<clockVars, asked, limitVars, startedAt, djob, crawlHist, owed>>
DeskSaveBinding(d) ==
    /\ desk[d].pc = "save" /\ desk' = [desk EXCEPT ![d].pc = "find", ![d].over = "no"]
    /\ boundTo' = desk[d].handle
    /\ owed' = IF desk[d].over = "yes" THEN "excused" ELSE "yes"
    /\ UNCHANGED <<clockVars, asked, limitVars, startedAt, djob, crawlHist>>

\* task.Do: an active job in conflict answers the request, then the job is created and
\* published.  Every job is of this user; a full one that has reached its only
\* platform does not stand in the way of another full one.
ActiveDeskJob(j) == djob[j].pc \in {"queued", "look", "mark", "crawl"}
ActiveRefreshConflict(full, j) == IF full = "yes" THEN djob[j].cur = Absent ELSE TRUE
findActiveJob(d) ==
    /\ desk[d].pc = "find"
    /\ LET full == IF desk[d].op = "cron" THEN "yes" ELSE "no"
           busy == \E j \in DeskJobs : ActiveDeskJob(j) /\ ActiveRefreshConflict(full, j)
       IN  /\ IF busy THEN Answer(d) ELSE DeskStep(d, "create")
           /\ owed' = IF busy /\ desk[d].op = "bind" /\ owed = "yes" THEN "excused" ELSE owed
    /\ UNCHANGED <<clockVars, asked, limitVars, storeVars, djob, crawlHist>>
DeskCreateJob(d) ==
    /\ desk[d].pc = "create" /\ Answer(d)
    /\ LET full == IF desk[d].op = "cron" THEN "yes" ELSE "no"
       IN  \E j \in DeskJobs :
              /\ djob[j].pc = Absent /\ \A e \in 1..(j - 1) : djob[e].pc # Absent
              /\ djob' = [djob EXCEPT ![j] = [NoJob EXCEPT !.pc = "queued", !.full = full, !.cur = IF full = "yes" THEN Absent ELSE "CodeForces"]]
    /\ UNCHANGED <<clockVars, asked, limitVars, storeVars, crawlHist, owed>>

-----------------------------------------------------------------------------
(* The worker of a job: LoadData *)

LoadBinding(j) ==
    /\ djob[j].pc = "queued"
    /\ djob' = [djob EXCEPT ![j] = IF boundTo = Absent THEN Finished ELSE [@ EXCEPT !.pc = "look", !.handle = boundTo]]
    /\ UNCHANGED <<clockVars, asked, limitVars, storeVars, desk, crawlHist, owed>>

\* filterRecentCodeforcesRefresh for a full refresh, and the check of a direct one.
shouldSkipRecentCodeforcesRefresh(j) == platformRefreshStartedWithin(Cooldown)
LookRecent(j) ==
    /\ djob[j].pc = "look"
    /\ djob' = [djob EXCEPT ![j] = IF shouldSkipRecentCodeforcesRefresh(j) THEN Finished
                                   ELSE [@ EXCEPT !.pc = "mark", !.looked = starts]]
    /\ UNCHANGED <<clockVars, asked, limitVars, storeVars, desk, crawlHist, owed>>

\* setCurrentPlatform and markPlatformRunning, then the platform is asked.
markPlatformRunning(j) ==
    LET h == djob[j].handle
    IN  /\ djob[j].pc = "mark"
        /\ djob' = [djob EXCEPT ![j].pc = "crawl", ![j].cur = "CodeForces"]
        /\ startedAt' = deskNow
        /\ starts' = starts + 1 /\ crawled' = [crawled EXCEPT ![h] = deskNow] /\ forgot' = forgot \ {h}
        /\ desk' = [d \in Desks |-> IF d \in Rebinding THEN [desk[d] EXCEPT !.over = "yes"] ELSE desk[d]]
        /\ owed' = IF owed = "yes" /\ h # boundTo THEN "excused" ELSE owed
        /\ UNCHANGED <<clockVars, asked, limitVars, boundTo>>

\* markPlatformSuccess or markPlatformFailed, and finishJob.
DeskCrawlEnds(j, status) ==
    /\ djob[j].pc = "crawl"
    /\ djob' = [djob EXCEPT ![j] = Finished]
    /\ owed' = IF owed = "yes" /\ djob[j].handle = boundTo
               THEN IF status = "success" THEN "no" ELSE "excused"
               ELSE owed
    /\ UNCHANGED <<clockVars, asked, limitVars, storeVars, desk, crawlHist>>

DeskTick ==
    /\ deskNow < MaxDeskClock /\ deskNow' = deskNow + 1
    /\ UNCHANGED <<asked, outages, limitVars, storeVars, djob, desk, crawlHist, owed>>

\* The process restarts: limiters and requests are gone, unfinished jobs are delivered
\* again.
DeskRestart ==
    /\ outages < MaxOutages /\ outages' = outages + 1
    /\ limiterOf' = [k \in LimiterKeys |-> 0] /\ allowedAt' = [n \in 1..MaxCallers |-> Never]
    /\ lastGrant' = [k \in LimiterKeys |-> [at |-> Never, n |-> 0]]
    /\ desk' = [d \in Desks |-> AtRest]
    /\ djob' = [j \in DeskJobs |-> IF ActiveDeskJob(j) THEN [djob[j] EXCEPT !.pc = "queued"] ELSE djob[j]]
    /\ owed' = IF \E d \in Desks : desk[d].op = "bind" THEN "lost"
               ELSE IF owed = "yes" /\ (\E j \in DeskJobs : djob[j].pc = "crawl") THEN "excused"
               ELSE owed
    /\ UNCHANGED <<deskNow, asked, storeVars, crawlHist>>

\* Accounts are alike: another one is named once the first has been.
Named == IF boundTo = Absent /\ owed = "no" /\ starts = 0 /\ \A d \in Desks : desk[d].op # "bind" THEN {FirstHandle} ELSE Handles

DeskNext ==
    \/ \E d \in Desks :
          \/ Recent(d) \/ LoadLimiter(d) \/ LoadOrStore(d) \/ Allow(d) \/ Existing(d) \/ SameBinding(d)
          \/ ForgetStatus(d) \/ Unbind(d) \/ DeskSaveBinding(d) \/ findActiveJob(d) \/ DeskCreateJob(d)
          \/ Call(d, "update", Absent) \/ Call(d, "cron", Absent) \/ \E h \in Named : Call(d, "bind", h)
    \/ \E j \in DeskJobs : LoadBinding(j) \/ LookRecent(j) \/ markPlatformRunning(j) \/ DeskCrawlEnds(j, "success") \/ DeskCrawlEnds(j, "failed")
    \/ DeskTick \/ DeskRestart

DeskSpec == DeskInit /\ [][DeskNext]_deskVars

-----------------------------------------------------------------------------
DeskTypeOK ==
    /\ boundTo \in Handles \cup {Absent} /\ startedAt \in Never..deskNow
    /\ \A j \in DeskJobs : djob[j].pc \in {Absent, "queued", "look", "mark", "crawl", "done"}
    /\ \A j \in DeskJobs : djob[j].pc \in {"look", "mark", "crawl"} => djob[j].handle \in Handles
    /\ \A d \in Desks : desk[d].pc = "idle" <=> desk[d].op = Absent

\* In the life of a process the requests let through under one key are at least its
\* window apart, those that arrive together for the first time included
\* (getLimiterByKey, service/spider.go:77-85).
GrantsApart ==
    [][\A k \in LimiterKeys : lastGrant'[k].n > lastGrant[k].n /\ lastGrant[k].at # Never =>
          lastGrant'[k].at - lastGrant[k].at >= manualRefreshWindow(k)]_deskVars

\* A Codeforces account is asked at most once in 30 minutes, by whichever of Update,
\* SetSpider and the hourly job: a crawl that starts sooner belongs to a job that had
\* looked before the last one started, or follows a rebinding that erased the last
\* start (biz/service/spider.go:54-61, 91-106, service/spider.go:135, 551).
CodeforcesSpared ==
    [][\A j \in DeskJobs :
          LET h == djob[j].handle
          IN  djob[j].pc = "mark" /\ djob'[j].pc = "crawl" /\ djob[j].looked = starts /\ h \notin forgot
                 /\ crawled[h] # Never => deskNow - crawled[h] >= Cooldown]_deskVars

\* When everything is at rest the account that was bound last has been crawled since:
\* the last start of the account before does not hold it off
\* (service/spider.go:551-555).  Excused are an active job that refused the new one,
\* a worker of the old account that marked its start after the status was deleted,
\* overlapping bindings, a failed crawl, and a restart during one: the job is
\* delivered again and skipped as recent.
RebindIsRefreshed ==
    DeskTypeOK /\ (boundTo # Absent /\ (\A d \in Desks : desk[d].pc = "idle") /\ (\A j \in DeskJobs : ~ActiveDeskJob(j)) => owed # "yes")

\* Nobody is let through too soon, and no account is asked too soon.
RefreshesAreSpaced == GrantsApart /\ CodeforcesSpared
=============================================================================
