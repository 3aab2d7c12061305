----------------------------- MODULE SubmitSync -----------------------------
(***************************************************************************)
(* What a refresh stores, on one OJ platform.                              *)
(*                                                                         *)
(* A goroutine in SpiderUseCase.LoadData reads the accounts a user has     *)
(* bound, fetches each one's submissions and saves them in submit_logs,    *)
(* whose rows are unique by (platform, submit_id); on the way it keeps     *)
(* spider_sync_statuses.  SpiderService.SetSpider replaces the binding and *)
(* deletes the old account's rows, statement by statement and without a    *)
(* transaction, while goroutines may be anywhere in LoadData.              *)
(*                                                                         *)
(* Which refreshes may overlap is decided in SpiderRefresh; its findings   *)
(* show that a duplicate or an overlapping job is possible, so here a load *)
(* may start at any time.  A fetched batch is a set of submissions: the    *)
(* batch normalizeFetchedSubmitLogs returns has distinct submit ids.       *)
(* contest_logs is represented by one contest, which every account took.   *)
(* Rows of the platforms table that differ only in their id are one.       *)
(***************************************************************************)
EXTENDS Integers, FiniteSets

CONSTANTS
    SyncUsers,
    Accounts,     \* usernames on the platform
    Submissions,  \* submit ids of the platform
    AccountOf,    \* the account that made each submission
    Platform,     \* the platform modelled
    CodeForces,   \* the platform with a cooldown and a single attempt
    Workers,      \* goroutines of the consumer
    Binders,      \* SetSpider calls
    NoSync,         \* no account, no user, no row
    Retries,      \* maxRetries in loadOnePlatform
    MaxFaults,    \* bound: failed statements, failed or incomplete fetches
    MaxRestarts   \* bound: restarts of the process

ASSUME SyncAssumption ==
    /\ AccountOf \in [Submissions -> Accounts]
    /\ IsFiniteSet(Submissions)
    /\ NoSync \notin SyncUsers \cup Accounts
    /\ Retries \in Nat \ {0}
    /\ MaxFaults \in Nat
    /\ MaxRestarts \in Nat

VARIABLES
    bindings,    \* the usernames in each user's rows of platforms
    rowOwner,       \* submit_logs.user_id of each submission, NoSync without a row
    contest,     \* the account whose result each user's contest_logs row holds
    syncUser,    \* spider_sync_statuses.username, NoSync without a row
    syncStatus,  \* spider_sync_statuses.status
    started,     \* users whose last_started_at lies within the cooldown window
    wpc,         \* a goroutine's step
    wuser,       \* the user it loads
    full,        \* goroutines with needAll
    wtodo,       \* accounts it has still to load
    wacct,       \* the account it is loading
    wtmp,        \* the batch it has fetched
    wtries,      \* attempts made
    werr,        \* the error of the attempt: "none", "retry" or, when its text
                 \* holds the word that stops the loop, "final"
    bpc,         \* a SetSpider call's step
    buser,       \* its user
    bacct,       \* the username it binds
    faults,      \* history: faults so far
    restarts,    \* history: restarts so far
    everBound,   \* history: accounts each user has ever bound
    overtaken,   \* history: users whose clean-up missed a write in flight
    counted      \* history: goroutines whose Count still is the table's

syncTables == <<bindings, rowOwner, contest>>
statuses == <<syncUser, syncStatus, started>>
loaders == <<wpc, wuser, full, wtodo, wacct, wtmp, wtries, werr>>
binders == <<bpc, buser, bacct>>
syncHistory == <<faults, restarts, everBound, overtaken, counted>>
syncVars == <<syncTables, statuses, loaders, binders, syncHistory>>

RowsOf(u) == {s \in Submissions : rowOwner[s] = u}

\* Mutant: the platform is asked for every account's submissions.
MutIgnoresUsername(a) == Submissions

\* What the platform holds for a username.
SubmissionsOf(a) == {s \in Submissions : AccountOf[s] = a}

\* The accounts a goroutine has read from platforms and will still load.
Holds(w) == wtodo[w] \cup ({wacct[w]} \ {NoSync})

\* Some goroutine holds an account its user has since unbound.
StaleLoader(u) ==
    \E w \in Workers : wpc[w] # "idle" /\ wuser[w] = u /\ ~(Holds(w) \subseteq bindings[u])

\* Rows of accounts the user has not bound.
Residue(u) == {s \in RowsOf(u) : AccountOf[s] \notin bindings[u]}

SyncInit ==
    /\ bindings = [u \in SyncUsers |-> {}]
    /\ rowOwner = [s \in Submissions |-> NoSync]
    /\ contest = [u \in SyncUsers |-> NoSync]
    /\ syncUser = [u \in SyncUsers |-> NoSync]
    /\ syncStatus = [u \in SyncUsers |-> "none"]
    /\ started = {}
    /\ wpc = [w \in Workers |-> "idle"]
    /\ wuser = [w \in Workers |-> NoSync]
    /\ full = {}
    /\ wtodo = [w \in Workers |-> {}]
    /\ wacct = [w \in Workers |-> NoSync]
    /\ wtmp = [w \in Workers |-> {}]
    /\ wtries = [w \in Workers |-> 0]
    /\ werr = [w \in Workers |-> "none"]
    /\ bpc = [b \in Binders |-> "idle"]
    /\ buser = [b \in Binders |-> NoSync]
    /\ bacct = [b \in Binders |-> NoSync]
    /\ faults = 0
    /\ restarts = 0
    /\ everBound = [u \in SyncUsers |-> {}]
    /\ overtaken = {}
    /\ counted = {}

Fault == faults < MaxFaults /\ faults' = faults + 1

-----------------------------------------------------------------------------
(* LoadData and loadOnePlatform                                            *)

\* The rows of platforms with this user_id.
BoundBy(u) == bindings[u]

\* LoadData's query; a user without a row ends the job and changes nothing here.
ReadBindings(w, u) ==
    /\ wpc[w] = "idle"
    /\ BoundBy(u) # {}
    /\ wpc' = [wpc EXCEPT ![w] = "filter"]
    /\ wuser' = [wuser EXCEPT ![w] = u]
    /\ wtodo' = [wtodo EXCEPT ![w] = BoundBy(u)]
    /\ UNCHANGED <<syncTables, statuses, wacct, wtmp, wtries, werr, binders, syncHistory>>

LoadData(w, u) == full' = full \ {w} /\ ReadBindings(w, u)
LoadAllData(w, u) == full' = full \cup {w} /\ ReadBindings(w, u)

\* shouldSkipRecentCodeforcesRefresh, with the status row it reads.
SkipRecent(u) == Platform = CodeForces /\ u \in started

FilterRecent(w) ==
    /\ wpc[w] = "filter"
    /\ wpc' = [wpc EXCEPT ![w] = "next"]
    /\ wtodo' = [wtodo EXCEPT ![w] = IF SkipRecent(wuser[w]) THEN {} ELSE @]
    /\ UNCHANGED <<syncTables, statuses, wuser, full, wacct, wtmp, wtries, werr, binders, syncHistory>>

\* upsertPlatformStatus: FirstOrCreate, then an UPDATE of the columns given.
Upsert(u, a, st) ==
    /\ syncUser' = [syncUser EXCEPT ![u] = a]
    /\ syncStatus' = [syncStatus EXCEPT ![u] = st]

\* The next row of the loop: markPlatformRunning.
MarkRunning(w, a) ==
    /\ wpc[w] = "next"
    /\ a \in wtodo[w]
    /\ wpc' = [wpc EXCEPT ![w] = "fetch"]
    /\ wtodo' = [wtodo EXCEPT ![w] = @ \ {a}]
    /\ wacct' = [wacct EXCEPT ![w] = a]
    /\ wtries' = [wtries EXCEPT ![w] = 0]
    /\ Upsert(wuser[w], a, "running")
    /\ started' = started \cup {wuser[w]}
    /\ UNCHANGED <<syncTables, wuser, full, wtmp, werr, binders, syncHistory>>

\* FetchSubmitLog and normalizeFetchedSubmitLogs: the whole list, or, when a
\* page is missing, a part of it.
Fetch(w) ==
    /\ wpc[w] = "fetch"
    /\ wpc' = [wpc EXCEPT ![w] = IF w \in full THEN "count" ELSE "save"]
    /\ \/ /\ wtmp' = [wtmp EXCEPT ![w] = SubmissionsOf(wacct[w])]
          /\ UNCHANGED faults
       \/ /\ \E part \in SUBSET SubmissionsOf(wacct[w]) : wtmp' = [wtmp EXCEPT ![w] = part]
          /\ Fault
    /\ UNCHANGED <<syncTables, statuses, wuser, full, wtodo, wacct, wtries, werr, binders>>
    /\ UNCHANGED <<restarts, everBound, overtaken, counted>>

\* The attempt fails with an error and the loop goes on to the contests.
Fails(w, err) ==
    /\ wpc' = [wpc EXCEPT ![w] = "contest"]
    /\ werr' = [werr EXCEPT ![w] = err]

FetchError(w) ==
    /\ wpc[w] = "fetch"
    /\ \E err \in {"retry", "final"} : Fails(w, err)
    /\ Fault
    /\ UNCHANGED <<syncTables, statuses, wuser, full, wtodo, wacct, wtmp, wtries, binders>>
    /\ UNCHANGED <<restarts, everBound, overtaken, counted>>

\* Mutant: every batch is trusted.
MutTrustsBatch(fetchedCount, existingCount) == FALSE

\* rejectIncompleteFullFetch
RejectIncomplete(fetchedCount, existingCount) ==
    existingCount > 0 /\ fetchedCount < existingCount

\* The SELECT count(*), before the transaction.  The rejection's text holds the
\* word that stops the retries.
CountExisting(w) ==
    /\ wpc[w] = "count"
    /\ IF RejectIncomplete(Cardinality(wtmp[w]), Cardinality(RowsOf(wuser[w])))
       THEN Fails(w, "final") /\ UNCHANGED counted
       ELSE /\ wpc' = [wpc EXCEPT ![w] = "save"]
            /\ counted' = counted \cup {w}
            /\ UNCHANGED werr
    /\ UNCHANGED <<syncTables, statuses, wuser, full, wtodo, wacct, wtmp, wtries, binders>>
    /\ UNCHANGED <<faults, restarts, everBound, overtaken>>

\* The transaction: with needAll the user's rows go first, then each submission
\* of the batch is inserted or, where its row exists, given to this user.
SaveSubmits(w) ==
    /\ wpc[w] = "save"
    /\ rowOwner' = [s \in Submissions |->
                    IF s \in wtmp[w] THEN wuser[w]
                    ELSE IF w \in full /\ rowOwner[s] = wuser[w] THEN NoSync
                    ELSE rowOwner[s]]
    /\ wpc' = [wpc EXCEPT ![w] = "contest"]
    /\ counted' = {}
    /\ UNCHANGED <<bindings, contest, statuses, wuser, full, wtodo, wacct, wtmp, wtries, werr>>
    /\ UNCHANGED <<binders, faults, restarts, everBound, overtaken>>

\* The transaction fails and rolls back.
SaveError(w) ==
    /\ wpc[w] = "save"
    /\ Fails(w, "retry")
    /\ Fault
    /\ UNCHANGED <<syncTables, statuses, wuser, full, wtodo, wacct, wtmp, wtries, binders>>
    /\ UNCHANGED <<restarts, everBound, overtaken, counted>>

MaxAttempts == IF Platform = CodeForces THEN 1 ELSE Retries

\* A retry is made for a full load whose error allows it, up to maxRetries.
TriesAgain(w) == werr[w] = "retry" /\ w \in full /\ wtries[w] + 1 < MaxAttempts

\* fetchAndSaveContest, whose errors are only logged, and the loop's decision.
\* An empty list leaves the table alone; a row that exists is kept unless a
\* full load deleted it.
SaveContests(w) ==
    /\ wpc[w] = "contest"
    /\ \/ UNCHANGED contest
       \/ contest' = [contest EXCEPT ![wuser[w]] =
                         IF w \in full \/ @ = NoSync THEN wacct[w] ELSE @]
    /\ IF TriesAgain(w)
       THEN /\ wpc' = [wpc EXCEPT ![w] = "fetch"]
            /\ wtries' = [wtries EXCEPT ![w] = @ + 1]
            /\ werr' = [werr EXCEPT ![w] = "none"]
       ELSE wpc' = [wpc EXCEPT ![w] = "mark"] /\ UNCHANGED <<wtries, werr>>
    /\ wtmp' = [wtmp EXCEPT ![w] = {}]
    /\ UNCHANGED <<bindings, rowOwner, statuses, wuser, full, wtodo, wacct, binders, syncHistory>>

\* Mutant: only a successful load is recorded.
MutMarksSuccessOnly(w) ==
    IF werr[w] = "none" THEN Upsert(wuser[w], wacct[w], "success")
                        ELSE UNCHANGED <<syncUser, syncStatus>>

\* markPlatformSuccess and markPlatformFailed.
MarkOutcome(w) ==
    Upsert(wuser[w], wacct[w], IF werr[w] = "none" THEN "success" ELSE "failed")

MarkResult(w) ==
    /\ wpc[w] = "mark"
    /\ wpc' = [wpc EXCEPT ![w] = "next"]
    /\ MarkOutcome(w)
    /\ wacct' = [wacct EXCEPT ![w] = NoSync]
    /\ wtries' = [wtries EXCEPT ![w] = 0]
    /\ werr' = [werr EXCEPT ![w] = "none"]
    /\ UNCHANGED <<syncTables, started, wuser, full, wtodo, wtmp, binders>>
    /\ UNCHANGED <<faults, restarts, everBound, overtaken, counted>>

\* The loop is over; finishJob belongs to SpiderRefresh.
EndLoad(w) ==
    /\ wpc[w] = "next"
    /\ wtodo[w] = {}
    /\ wpc' = [wpc EXCEPT ![w] = "idle"]
    /\ wuser' = [wuser EXCEPT ![w] = NoSync]
    /\ full' = full \ {w}
    /\ UNCHANGED <<syncTables, statuses, wtodo, wacct, wtmp, wtries, werr, binders, syncHistory>>

-----------------------------------------------------------------------------
(* SetSpider                                                               *)

\* SyncGoto(b, pc): the call goes on; Done(b): it returns.
SyncGoto(b, pc) == bpc' = [bpc EXCEPT ![b] = pc] /\ UNCHANGED <<buser, bacct>>

Done(b) ==
    /\ bpc' = [bpc EXCEPT ![b] = "idle"]
    /\ buser' = [buser EXCEPT ![b] = NoSync]
    /\ bacct' = [bacct EXCEPT ![b] = NoSync]

\* The lookup of the existing binding.  A CodeForces account bound again within
\* the window is refused; a CodeForces account that changes clears the status.
SetSpider(b, u, a) ==
    /\ bpc[b] = "idle"
    /\ \E existing \in IF bindings[u] = {} THEN {NoSync} ELSE bindings[u] :
          /\ ~(Platform = CodeForces /\ existing = a /\ u \in started)
          /\ bpc' = [bpc EXCEPT ![b] =
                IF Platform = CodeForces /\ existing \notin {NoSync, a} THEN "status"
                                                                      ELSE "platform"]
    /\ buser' = [buser EXCEPT ![b] = u]
    /\ bacct' = [bacct EXCEPT ![b] = a]
    /\ UNCHANGED <<syncTables, statuses, loaders, syncHistory>>

DeleteStatus(b) ==
    /\ bpc[b] = "status"
    /\ SyncGoto(b, "platform")
    /\ \/ /\ syncUser' = [syncUser EXCEPT ![buser[b]] = NoSync]
          /\ syncStatus' = [syncStatus EXCEPT ![buser[b]] = "none"]
          /\ started' = started \ {buser[b]}
          /\ UNCHANGED faults
       \/ Fault /\ UNCHANGED statuses
    /\ UNCHANGED <<syncTables, loaders, restarts, everBound, overtaken, counted>>

DeletePlatform(b) ==
    /\ bpc[b] = "platform"
    /\ SyncGoto(b, "submits")
    /\ \/ bindings' = [bindings EXCEPT ![buser[b]] = {}] /\ UNCHANGED faults
       \/ Fault /\ UNCHANGED bindings
    /\ UNCHANGED <<rowOwner, contest, statuses, loaders>>
    /\ UNCHANGED <<restarts, everBound, overtaken, counted>>

\* Mutant: the old account's rows are left to the next full load.
MutKeepsRows(u) == {}

\* The rows the clean-up deletes.
Cleaned(u) == RowsOf(u)

DeleteSubmits(b) ==
    /\ bpc[b] = "submits"
    /\ SyncGoto(b, "save")
    /\ LET u == buser[b] IN
       \/ /\ rowOwner' = [s \in Submissions |-> IF s \in Cleaned(u) THEN NoSync ELSE rowOwner[s]]
          /\ overtaken' = overtaken \cup {x \in {u} : StaleLoader(x)}
          /\ counted' = {}
          /\ UNCHANGED faults
       \/ /\ Fault
          /\ overtaken' = overtaken \cup {u}
          /\ UNCHANGED <<rowOwner, counted>>
    /\ UNCHANGED <<bindings, contest, statuses, loaders, restarts, everBound>>

\* Save; the full refresh that SetSpider then asks for is SpiderRefresh's.
SavePlatform(b) ==
    /\ bpc[b] = "save"
    /\ Done(b)
    /\ LET u == buser[b] IN
       \/ /\ bindings' = [bindings EXCEPT ![u] = @ \cup {bacct[b]}]
          /\ everBound' = [everBound EXCEPT ![u] = @ \cup {bacct[b]}]
          /\ UNCHANGED faults
       \/ Fault /\ UNCHANGED <<bindings, everBound>>
    /\ UNCHANGED <<rowOwner, contest, statuses, loaders, restarts, overtaken, counted>>

-----------------------------------------------------------------------------
(* The environment                                                         *)

\* The process restarts: goroutines and calls are gone, tables stay.
SyncRestart ==
    /\ restarts < MaxRestarts
    /\ restarts' = restarts + 1
    /\ wpc' = [w \in Workers |-> "idle"]
    /\ wuser' = [w \in Workers |-> NoSync]
    /\ full' = {}
    /\ wtodo' = [w \in Workers |-> {}]
    /\ wacct' = [w \in Workers |-> NoSync]
    /\ wtmp' = [w \in Workers |-> {}]
    /\ wtries' = [w \in Workers |-> 0]
    /\ werr' = [w \in Workers |-> "none"]
    /\ bpc' = [b \in Binders |-> "idle"]
    /\ buser' = [b \in Binders |-> NoSync]
    /\ bacct' = [b \in Binders |-> NoSync]
    /\ overtaken' = overtaken \cup {u \in SyncUsers :
                                      \E b \in Binders : bpc[b] = "submits" /\ buser[b] = u}
    /\ counted' = {}
    /\ UNCHANGED <<syncTables, statuses, faults, everBound>>

\* The cooldown window of every user passes.
WindowElapses ==
    /\ started # {}
    /\ started' = {}
    /\ UNCHANGED <<syncTables, syncUser, syncStatus, loaders, binders, syncHistory>>

LoadStep(w) ==
    \/ FilterRecent(w)
    \/ \E a \in Accounts : MarkRunning(w, a)
    \/ Fetch(w) \/ FetchError(w)
    \/ CountExisting(w)
    \/ SaveSubmits(w) \/ SaveError(w)
    \/ SaveContests(w)
    \/ MarkResult(w)
    \/ EndLoad(w)

BindStep(b) == DeleteStatus(b) \/ DeletePlatform(b) \/ DeleteSubmits(b) \/ SavePlatform(b)

SyncNext ==
    \/ \E w \in Workers, u \in SyncUsers : LoadData(w, u) \/ LoadAllData(w, u)
    \/ \E w \in Workers : LoadStep(w)
    \/ \E b \in Binders, u \in SyncUsers, a \in Accounts : SetSpider(b, u, a)
    \/ \E b \in Binders : BindStep(b)
    \/ SyncRestart
    \/ WindowElapses

SyncSpec == SyncInit /\ [][SyncNext]_syncVars

\* Goroutines run, HTTP clients time out and calls return: a step that can be
\* taken is.  The failing outcomes of a step are not owed anything.
Fairness ==
    /\ \A w \in Workers : WF_syncVars(LoadStep(w))
    /\ \A b \in Binders : WF_syncVars(BindStep(b))

FairSpec == SyncSpec /\ Fairness

\* Beyond that, somebody keeps asking for a full refresh of every user.
PersistentSpec ==
    /\ FairSpec
    /\ \A u \in SyncUsers : WF_syncVars(\E w \in Workers : LoadAllData(w, u))

-----------------------------------------------------------------------------
(* Properties                                                              *)

LoadPCs == {"idle", "filter", "next", "fetch", "count", "save", "contest", "mark"}
BindPCs == {"idle", "status", "platform", "submits", "save"}

TablesOK ==
    /\ bindings \in [SyncUsers -> SUBSET Accounts]
    /\ rowOwner \in [Submissions -> SyncUsers \cup {NoSync}]
    /\ contest \in [SyncUsers -> Accounts \cup {NoSync}]

StatusesOK ==
    /\ syncUser \in [SyncUsers -> Accounts \cup {NoSync}]
    /\ syncStatus \in [SyncUsers -> {"none", "running", "success", "failed"}]
    /\ started \subseteq SyncUsers

LoadersOK ==
    /\ wpc \in [Workers -> LoadPCs]
    /\ wuser \in [Workers -> SyncUsers \cup {NoSync}]
    /\ full \subseteq Workers
    /\ wtodo \in [Workers -> SUBSET Accounts]
    /\ wacct \in [Workers -> Accounts \cup {NoSync}]
    /\ wtmp \in [Workers -> SUBSET Submissions]
    /\ wtries \in [Workers -> 0..MaxAttempts - 1]
    /\ werr \in [Workers -> {"none", "retry", "final"}]

BindersOK ==
    /\ bpc \in [Binders -> BindPCs]
    /\ buser \in [Binders -> SyncUsers \cup {NoSync}]
    /\ bacct \in [Binders -> Accounts \cup {NoSync}]

HistoryOK ==
    /\ faults \in 0..MaxFaults
    /\ restarts \in 0..MaxRestarts
    /\ everBound \in [SyncUsers -> SUBSET Accounts]
    /\ overtaken \subseteq SyncUsers
    /\ counted \subseteq Workers

\* Every table row, goroutine and call has its type: in particular a goroutine
\* past LoadData's query has a user and loadOnePlatform makes at most
\* maxRetries attempts.
SyncTypeOK == TablesOK /\ StatusesOK /\ LoadersOK /\ BindersOK /\ HistoryOK

\* The submissions and the contest result stored for a user were made by an
\* account this user has bound at some time: however loads and bindings
\* interleave, fetchAndSave never stores a stranger's rows under a user.
Provenance ==
    /\ \A s \in Submissions : rowOwner[s] # NoSync => AccountOf[s] \in everBound[rowOwner[s]]
    /\ \A u \in SyncUsers : contest[u] # NoSync => contest[u] \in everBound[u]

\* SetSpider deletes platforms before submit_logs.  Rows of an unbound account,
\* or a goroutine that is about to write some, are therefore seen only while a
\* call is still between the two, or after a clean-up that failed, was cut
\* short by a restart, or had such a goroutine in flight.
ResidueExplained ==
    \A u \in SyncUsers :
        (Residue(u) # {} \/ StaleLoader(u)) =>
            u \in overtaken \/ \E b \in Binders : bpc[b] = "submits" /\ buser[b] = u

\* A full load whose count is still accurate when its transaction commits does
\* not leave the user with fewer submissions than before: what
\* rejectIncompleteFullFetch is for.
FullLoadKeepsCount ==
    [][\A w \in Workers :
          w \in full /\ w \in counted /\ wpc[w] = "save" /\ wpc'[w] = "contest" /\ werr'[w] = "none"
              => Cardinality(RowsOf(wuser[w])') >= Cardinality(RowsOf(wuser[w]))]_syncVars

\* A platform shown as running is not shown so for ever: every path through
\* loadOnePlatform, its retries included, ends in markPlatformSuccess or
\* markPlatformFailed, unless the process restarts on the way.
RunningEnds ==
    \A u \in SyncUsers : syncStatus[u] = "running" ~> (syncStatus[u] # "running" \/ restarts > 0)

\* README: a full refresh replaces the platform's rows, so that a changed
\* binding leaves no residue.  A user whose full refresh keeps being asked for
\* eventually has no rows of unbound accounts.
ResidueCleared == \A u \in SyncUsers : Residue(u) # {} ~> Residue(u) = {}
=============================================================================
