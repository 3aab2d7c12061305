------------------------------ MODULE CoreCache ------------------------------
(* The caches of core_data in Redis.                                            *)
(*                                                                              *)
(* Pages: SpiderDal.GetByUserId and GetContestByUserId (data/dal/spider.go) keep  *)
(* a sorted set of row ids by time and one detail key per row.  A read takes the  *)
(* ids of the page, compares the first one with the table, takes the details, and  *)
(* falls back to the table, whose answer a goroutine then puts into the cache.    *)
(*                                                                              *)
(* Values: GetCacheDalWithTTL (common/data/dal.go), used for the statistics, and    *)
(* LastSubmitTime (service/submit_log.go).                                       *)
EXTENDS Integers, Sequences, FiniteSets, SequencesExt

CONSTANTS RowIds,       \* ids of rows of the user under check, in the order they are given out
          TimeOf,       \* id -> second of the submission; it also identifies the submission
          PageReaders,  \* requests for a page running at the same time
          Limits, Cursors,   \* the limits and cursors clients ask with
          MaxPages,     \* bound: different pages asked for
          MaxTasks,     \* bound: goroutines that have a page to cache
          ValueReaders, \* requests for a value running at the same time
          MaxCommits    \* bound: changes of the table behind the value

VARIABLES
    logKind,    \* "submit" or "contest": which of the two page caches this is
    table,      \* ids of the rows in the table
    inserted,   \* ids given out so far
    zset,       \* members of the sorted set; its key has no expiry
    detail,     \* ids whose detail key exists
    tasks,      \* pages that goroutines still have to put into the cache
    reader,     \* per request: [pc, limit, cursor, ids, out, src, truth]
    asked,      \* the <<limit, cursor>> asked for so far
    late,       \* "yes" once a row older than one in the table was inserted
    gone,       \* "yes" once rows were deleted
    clearing    \* "details" between the two halves of ClearCache, else "no"
pageVars == <<logKind, table, inserted, zset, detail, tasks, reader, asked, late, gone, clearing>>

VARIABLES
    vkind,      \* "statistic" or "lastSubmit": which key this is
    val,        \* the value the table gives now (a version)
    stored,     \* the cached value: a set of at most one version
    vreader,    \* per request: [pc, v]
    floor,      \* the value at the last ClearCache
    slow,       \* requests that had read the table when ClearCache deleted the key
    tainted     \* "yes" while the stored value comes from such a request
valueVars == <<vkind, val, stored, vreader, floor, slow, tainted>>

-----------------------------------------------------------------------------
(* Pages *)

\* ORDER BY time DESC, and ZREVRANGEBYSCORE: equal scores by member, descending.
Newer(a, b) == TimeOf[a] > TimeOf[b] \/ (TimeOf[a] = TimeOf[b] /\ a > b)
Page(S, cursor, n) ==
    LET below == SetToSortSeq({i \in S : TimeOf[i] < cursor}, Newer)
    IN  SubSeq(below, 1, IF Len(below) < n THEN Len(below) ELSE n)

NoRead == [pc |-> "idle", limit |-> 0, cursor |-> 0, ids |-> <<>>, out |-> <<>>, src |-> "none", truth |-> <<>>]

PageInit ==
    /\ logKind \in {"submit", "contest"} /\ table = {} /\ inserted = {} /\ zset = {} /\ detail = {} /\ tasks = {}
    /\ reader = [r \in PageReaders |-> NoRead] /\ asked = {} /\ late = "no" /\ gone = "no" /\ clearing = "no"

\* The collector inserts the next row, of a submission that is not in the table.
InsertRow ==
    LET i == Cardinality(inserted) + 1
    IN  /\ i \in RowIds /\ TimeOf[i] \notin {TimeOf[j] : j \in table}
        /\ table' = table \cup {i} /\ inserted' = inserted \cup {i}
        /\ late' = IF \E j \in table : TimeOf[j] > TimeOf[i] THEN "yes" ELSE late
        /\ UNCHANGED <<logKind, zset, detail, tasks, reader, asked, gone, clearing>>

\* A full refresh or a changed account deletes the rows; a refresh inserts the
\* submissions again, under new ids, in the same transaction.
DeleteRows ==
    /\ table # {}
    /\ \E n \in 0..1 :
          LET new == (Cardinality(inserted) + 1)..(Cardinality(inserted) + n)
          IN  new \subseteq RowIds /\ table' = new /\ inserted' = inserted \cup new
    /\ gone' = "yes"
    /\ UNCHANGED <<logKind, zset, detail, tasks, reader, asked, late, clearing>>

\* The call up to the ids of the page; a Redis error goes to the table at once.
PageIds(r, n, c) ==
    /\ reader[r].pc \in {"idle", "done"}
    /\ \E pc \in {"guard", "db"} :
          reader' = [reader EXCEPT ![r] = [NoRead EXCEPT !.pc = pc, !.limit = n, !.cursor = c,
                                                         !.ids = IF pc = "guard" THEN Page(zset, c, n) ELSE <<>>]]
    /\ asked' = asked \cup {<<n, c>>}
    /\ UNCHANGED <<logKind, table, inserted, zset, detail, tasks, late, gone, clearing>>

\* Mutant: the newest row of the table is not compared with the first id.
MutNoGuard(r) == Len(reader[r].ids) < reader[r].limit

\* The cache is left when it holds less than a page, or when its first id is not
\* the newest row.  Without any row a page of submissions comes from the table, a
\* page of contests from the cache (line 171).
SubmitsMoved(ids, newest) == newest = <<>> \/ newest[1] # ids[1]
ContestsMoved(ids, newest) == newest # <<>> /\ newest[1] # ids[1]
CacheIsStale(r) ==
    LET q == reader[r]
        newest == Page(table, q.cursor, 1)
    IN  \/ Len(q.ids) < q.limit
        \/ logKind = "submit" /\ SubmitsMoved(q.ids, newest)
        \/ logKind = "contest" /\ ContestsMoved(q.ids, newest)
Guard(r) ==
    /\ reader[r].pc = "guard"
    /\ reader' = [reader EXCEPT ![r].pc = IF CacheIsStale(r) THEN "db" ELSE "mget",
                                ![r].truth = Page(table, reader[r].cursor, reader[r].limit)]
    /\ UNCHANGED <<logKind, table, inserted, zset, detail, tasks, asked, late, gone, clearing>>

MGet(r) ==
    /\ reader[r].pc = "mget"
    /\ reader' = IF ToSet(reader[r].ids) \subseteq detail
                 THEN [reader EXCEPT ![r].pc = "done", ![r].src = "cache", ![r].out = reader[r].ids, ![r].ids = <<>>]
                 ELSE [reader EXCEPT ![r].pc = "db"]
    /\ UNCHANGED <<logKind, table, inserted, zset, detail, tasks, asked, late, gone, clearing>>

\* dbFunc: the page from the table, and a goroutine that caches it.
DbFunc(r) ==
    /\ reader[r].pc = "db" /\ Cardinality(tasks) < MaxTasks
    /\ LET rows == Page(table, reader[r].cursor, reader[r].limit)
       IN  /\ reader' = [reader EXCEPT ![r].pc = "done", ![r].src = "db", ![r].out = rows, ![r].truth = rows, ![r].ids = <<>>]
           /\ tasks' = tasks \cup {rows}
    /\ UNCHANGED <<logKind, table, inserted, zset, detail, asked, late, gone, clearing>>

\* SetCache, SetContestCache: or the two seconds are over.  Members are only added.
SetCache(rows) ==
    /\ rows \in tasks /\ tasks' = tasks \ {rows}
    /\ \/ zset' = zset \cup ToSet(rows) /\ detail' = detail \cup ToSet(rows)
       \/ UNCHANGED <<zset, detail>>
    /\ UNCHANGED <<logKind, table, inserted, reader, asked, late, gone, clearing>>

\* A detail key lives twelve hours.
ExpireDetail(i) ==
    /\ i \in detail /\ detail' = detail \ {i}
    /\ UNCHANGED <<logKind, table, inserted, zset, tasks, reader, asked, late, gone, clearing>>

\* ClearCache: the listed keys in one DEL, then the keys of each pattern.
ClearKeys ==
    /\ clearing = "no" /\ zset \cup detail # {} /\ zset' = {} /\ clearing' = "details"
    /\ UNCHANGED <<logKind, table, inserted, detail, tasks, reader, asked, late, gone>>
ClearDetails ==
    /\ clearing = "details" /\ detail' = {} /\ clearing' = "no"
    /\ UNCHANGED <<logKind, table, inserted, zset, tasks, reader, asked, late, gone>>

PageNext ==
    \/ InsertRow \/ DeleteRows \/ ClearKeys \/ ClearDetails
    \/ \E r \in PageReaders : \/ \E n \in Limits, c \in Cursors : Cardinality(asked \cup {<<n, c>>}) <= MaxPages /\ PageIds(r, n, c)
                              \/ Guard(r) \/ MGet(r) \/ DbFunc(r)
    \/ \E rows \in tasks : SetCache(rows)
    \/ \E i \in detail : ExpireDetail(i)

-----------------------------------------------------------------------------
(* Values *)

ValueInit ==
    /\ vkind \in {"statistic", "lastSubmit"} /\ val = 1 /\ stored = {} /\ floor = 0 /\ slow = {} /\ tainted = "no"
    /\ vreader = [r \in ValueReaders |-> [pc |-> "idle", v |-> 0, src |-> "none"]]

\* The collector commits rows; it deletes no key of the statistics.
Commit ==
    /\ val <= MaxCommits /\ val' = val + 1
    /\ UNCHANGED <<vkind, stored, vreader, floor, slow, tainted>>

\* GET: a hit answers, a miss asks the table, and an error too, except of
\* LastSubmitTime, which then leaves the user out.  A value that does not decode is an
\* error to the caller and changes nothing.
GetCached(r) ==
    /\ vreader[r].pc \in {"idle", "done"}
    /\ \/ \E v \in stored : vreader' = [vreader EXCEPT ![r] = [pc |-> "done", v |-> v, src |-> "cache"]]
       \/ /\ stored = {} \/ vkind = "statistic"
          /\ vreader' = [vreader EXCEPT ![r] = [pc |-> "query", v |-> 0, src |-> "none"]]
    /\ UNCHANGED <<vkind, val, stored, floor, slow, tainted>>

\* dbFunc succeeds or fails.
QueryTable(r) ==
    /\ vreader[r].pc = "query"
    /\ \/ vreader' = [vreader EXCEPT ![r].pc = "set", ![r].v = val]
       \/ vreader' = [vreader EXCEPT ![r].pc = "idle"]
    /\ UNCHANGED <<vkind, val, stored, floor, slow, tainted>>

\* SET with the time to live (the statistics one minute, lastSubmitTime one hour);
\* its error is ignored.
SetCached(r) ==
    /\ vreader[r].pc = "set"
    /\ vreader' = [vreader EXCEPT ![r].pc = "done", ![r].src = "db"]
    /\ \/ stored' = {vreader[r].v} /\ tainted' = IF r \in slow THEN "yes" ELSE "no"
       \/ UNCHANGED <<stored, tainted>>
    /\ slow' = slow \ {r}
    /\ UNCHANGED <<vkind, val, floor>>

ExpireValue ==
    /\ stored # {} /\ stored' = {} /\ tainted' = "no"
    /\ UNCHANGED <<vkind, val, vreader, floor, slow>>

\* ClearCache deletes the keys of statisticCacheKeys and statisticCachePatterns;
\* lastSubmitTime is not among them.
ClearCache ==
    /\ floor' = val
    /\ slow' = {r \in ValueReaders : vreader[r].pc = "set"}
    /\ IF vkind = "statistic" THEN stored' = {} /\ tainted' = "no" ELSE UNCHANGED <<stored, tainted>>
    /\ UNCHANGED <<vkind, val, vreader>>

ValueNext ==
    \/ Commit \/ ExpireValue \/ ClearCache
    \/ \E r \in ValueReaders : GetCached(r) \/ QueryTable(r) \/ SetCached(r)

-----------------------------------------------------------------------------
CacheTypeOK ==
    /\ table \subseteq inserted /\ inserted \subseteq RowIds /\ zset \subseteq inserted /\ detail \subseteq inserted
    /\ \A r \in PageReaders : reader[r].pc \in {"idle", "guard", "mget", "db", "done"}
    /\ Cardinality(stored) <= 1

Cached(r) == reader[r].pc = "done" /\ reader[r].src = "cache"

\* "防止缓存忽悠人" (spider.go:72, keep the cache from fooling people): a page served
\* from the cache is the page the table gave when the guard looked at it, as long as
\* every client asks for the same page and rows arrive in the order of their times:
\* the first id vouches for the ids behind it only then.
SamePageIsTrue ==
    \A r \in PageReaders : Cached(r) /\ late = "no" /\ gone = "no" /\ Cardinality(asked) = 1
                           => reader[r].out = reader[r].truth

\* Whatever was inserted, deleted, expired or cleared meanwhile, a cached page
\* starts with the newest row of the table and is as long as the client asked;
\* with an empty table only a page of contests is served from the cache
\* (spider.go:74, 171).
NewestIsShown ==
    \A r \in PageReaders : Cached(r) =>
        /\ Len(reader[r].out) = reader[r].limit
        /\ IF reader[r].truth = <<>> THEN logKind = "contest" ELSE reader[r].out[1] = reader[r].truth[1]

\* After ClearCache the statistics are at least as new as the table was then, save
\* for a value that a request had read before and stored after it
\* (dal.go:48-58 and statistic_ops.go:625 are not atomic).
ClearTakesEffect ==
    vkind = "statistic" => \A v \in stored : v >= floor \/ tainted = "yes"

\* What the caches promise, pages and statistics together (dal/spider.go:45-197,
\* common/data/dal.go:30-76).
CacheIsTrue == CacheTypeOK /\ SamePageIsTrue /\ NewestIsShown /\ ClearTakesEffect
=============================================================================
