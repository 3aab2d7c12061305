------------------------------- MODULE MC_Core -------------------------------
(* The parts of core_data around the collection of submissions, and the agent, in  *)
(* one model: in each behaviour one of them, the focus, moves, and the others stay   *)
(* at an initial state.                                                          *)
EXTENDS CoreCache, Statistics, FeatureSnapshots, ContestMatrix, Crawlers, Summaries, Bulletins, JobBoard

VARIABLES focus, logs, clockNow,
          flogs,                  \* the rows a crawl fetched
          ccase, csubs, crows,    \* the contest under check, its submissions, its rows
          jobTable                \* the jobs that are shown
statVars == <<logs, clockNow>>
contestVars == <<ccase, csubs, crows>>

-----------------------------------------------------------------------------
\* Row 3 is older than row 2.
TimeOfDef == [i \in 1..3 |-> CASE i = 1 -> 10 [] i = 2 -> 30 [] OTHER -> 20]

\* Times: a Monday, first of a month and year; a Sunday; a first of March after a
\* leap day.
Nows == {2 * 365 + 1, 2 * 371 + 1, 2 * (365 + 60)}
Row(i, u, pl, pr, st, t) == [id |-> i, user |-> u, plat |-> pl, prob |-> pr, sid |-> IF i % 2 = 0 THEN "x" ELSE "y", st |-> st, t |-> t]
LogRows(now) ==
    LET week == getWeekStart(now)
    IN  {Row(1, 1, "QOJ", "A", "ac", now - 1), Row(2, 1, "QOJ", "A", "ac", week), Row(3, 1, "QOJ", "A", "wa", now),
         Row(4, 1, "LuoGu", "A", "ac", now - 1), Row(5, 1, "LuoGu", "", "ac", week - 1), Row(6, 1, "QOJ", "", "ac", week - 1),
         Row(7, 2, "QOJ", "A", "ac", now - 1), Row(8, 2, "QOJ", "B", "wa", week - 14), Row(9, 2, "LuoGu", "A", "ac", 3),
         Row(10, 3, "QOJ", "A", "ac", now - 2), Row(11, 3, "LuoGu", "", "other", now - 1)}

\* Names: letters 1 and 2, keys 11 and 12 with the titles 21 and 22, 31 is "B 22"; the
\* index of 31 can be read off it.  Contest 7 runs from minute 10 to minute 20.
IndexOfDef == 31 :> 2
Titled == <<2, 22>> :> 31
Problem1 == Column(11, 1, 21, {})
NowCoderMeta == parseNowCoderProblems(<<[index |-> 2, title |-> 22], [index |-> 1, title |-> 0], [index |-> 2, title |-> 11]>>, Titled)
Contest(plat, end, total) == [plat |-> plat, id |-> 7, start |-> 10, end |-> end, total |-> total]
Meta(ok, end, problems) == [ok |-> ok, start |-> 10, end |-> end, problems |-> problems]
Cases ==
    {[c |-> Contest("AtCoder", 0, 1), meta |-> Meta(TRUE, 20, <<Problem1, Column(12, 0, 0, {})>>)],
     [c |-> Contest("CodeForces", 0, 1), meta |-> Meta(FALSE, 0, <<>>)],
     [c |-> Contest("NowCoder", 20, 2), meta |-> Meta(TRUE, 20, NowCoderMeta)],
     [c |-> Contest("NowCoder", 20, 2), meta |-> Meta(FALSE, 0, <<>>)],
     [c |-> Contest("other", 20, 0), meta |-> Meta(FALSE, 0, <<>>)]}
Sub(u, p, s, c, a, t) == [user |-> u, prob |-> p, sid |-> s, contest |-> c, ac |-> a, t |-> t]
CSubs ==
    {Sub(u, p, 0, 7, a, t) : u \in {1}, p \in {11, 31}, a \in BOOLEAN, t \in {12, 15, 25}}
    \cup {Sub(1, 11, 0, 7, TRUE, 9), Sub(2, 22, 0, 7, TRUE, 15), Sub(2, 0, 12, 7, TRUE, 12), Sub(1, 0, 0, 7, TRUE, 12), Sub(2, 11, 0, 0, TRUE, 15), Sub(2, 11, 0, 0, TRUE, 25)}
CRows == {[user |-> u, rank |-> r, ac |-> a, total |-> 3] : u \in {1, 2}, r \in {0, 1, 2}, a \in {1, 2}}
         \cup {[user |-> 3, rank |-> 0, ac |-> 2, total |-> 4]}
CReqs == {[group |-> g, offset |-> 0, limit |-> l] : g \in BOOLEAN, l \in {0, 1, 2}}
CEnvs ==
    {[conn |-> TRUE, rpc |-> TRUE, members |-> mem, bound |-> b, place |-> pl]
        : mem \in {{}, {1, 3}}, b \in {{}, {1, 2}}, pl \in {<<>>, 1 :> 5, (1 :> 5) @@ (2 :> 4)}}
    \cup {[conn |-> cn, rpc |-> FALSE, members |-> {}, bound |-> {}, place |-> <<>>] : cn \in BOOLEAN}

\* Bulletins: an update sends a title, a content or the pin.
DraftsDef == [title : {"t1"}, content : {"t1"}, pinned : {"no"}]
RevisionsDef == {[NoText EXCEPT !.title = "t2"], [NoText EXCEPT !.content = "t2"], [NoText EXCEPT !.pinned = "yes"]}

MCInit ==
    /\ focus \in {"pages", "values", "snapshots", "stat", "matrix", "ranking", "synth", "standings", "crawl", "session", "fetched", "reports", "listing", "board", "jobs"}
    /\ PageInit /\ ValueInit /\ SnapInit
    /\ focus # "pages" => logKind = "submit"
    /\ focus # "values" => vkind = "statistic"
    /\ StandInit /\ csubs = <<>> /\ crows = {}
    /\ ccase \in IF focus = "matrix" THEN Cases ELSE {CHOOSE c \in Cases : TRUE}
    /\ synTotal \in IF focus = "synth" THEN 0..5 ELSE {0}
    /\ synSubs \in IF focus = "synth" THEN {<<>>, <<Sub(1, 11, 0, 7, TRUE, 12), Sub(1, 31, 0, 7, TRUE, 12), Sub(1, 11, 0, 7, TRUE, 13)>>} ELSE {<<>>}
    /\ SynthInit
    /\ CrawlInit /\ SessInit /\ flogs = <<>>
    /\ focus # "crawl" => cplat = "QOJ"
    /\ focus # "session" => splat = "QOJ"
    /\ SumInit /\ ListInit /\ BoardInit /\ jobTable = {}
    /\ focus # "reports" => monday = TRUE /\ roleOf = [u \in SumUsers |-> 0]
    /\ monday \/ \E u \in SumUsers : roleOf[u] # 0   \* the day does not matter to members
    /\ focus # "listing" => people = {1}
    /\ logs = {} /\ clockNow \in IF focus = "stat" THEN Nows ELSE {2 * 365 + 1}

\* A row is written to submit_logs.
AddLog ==
    /\ Cardinality(logs) < 3
    /\ \E r \in LogRows(clockNow) : r \notin logs /\ logs' = logs \cup {r}
    /\ UNCHANGED clockNow

\* Submissions of the contest are read in the order of time.
AddSubmission ==
    /\ Len(csubs) < 3
    /\ \E s \in {x \in CSubs : IF csubs = <<>> THEN TRUE ELSE Last(csubs).t <= x.t} : csubs' = Append(csubs, s)
    /\ UNCHANGED <<ccase, crows>>
AddContestRow ==
    /\ \E r \in CRows : (\A x \in crows : x.user # r.user) /\ crows' = crows \cup {r}
    /\ UNCHANGED <<ccase, csubs>>

AddFetched ==
    /\ Len(flogs) < 4
    /\ \E i \in {"", "a", "b"}, st \in {"AC", "WA"}, z \in BOOLEAN : flogs' = Append(flogs, [id |-> i, zero |-> z, st |-> st])

\* A job of user 1 or 2, asked for by user 1; no two are updated at the same time.
AddJobRow ==
    /\ Cardinality(jobTable) < 3
    /\ \E u \in {1, 2}, st \in {"queued", "running", "failed"}, t \in {1, 3, 5} :
          /\ \A j \in jobTable : j.updated # t
          /\ jobTable' = jobTable \cup {[id |-> Cardinality(jobTable) + 1, user |-> u, requester |-> 1, status |-> st, updated |-> t,
                                         error |-> IF st = "failed" THEN "e" ELSE ""]}

reportingVars == <<sumVars, listVars, boardVars, jobTable>>
coreVars == <<focus, pageVars, valueVars, snapVars, statVars, contestVars, synthVars, standVars, crawlVars, sessVars, flogs>>
allVars == <<coreVars, reportingVars>>
MCNext ==
    \/ focus = "pages" /\ PageNext /\ UNCHANGED <<focus, valueVars, snapVars, statVars, contestVars, synthVars, standVars, crawlVars, sessVars, flogs, reportingVars>>
    \/ focus = "values" /\ ValueNext /\ UNCHANGED <<focus, pageVars, snapVars, statVars, contestVars, synthVars, standVars, crawlVars, sessVars, flogs, reportingVars>>
    \/ focus = "snapshots" /\ SnapNext /\ UNCHANGED <<focus, pageVars, valueVars, statVars, contestVars, synthVars, standVars, crawlVars, sessVars, flogs, reportingVars>>
    \/ focus = "stat" /\ AddLog /\ UNCHANGED <<focus, pageVars, valueVars, snapVars, contestVars, synthVars, standVars, crawlVars, sessVars, flogs, reportingVars>>
    \/ focus = "matrix" /\ AddSubmission /\ UNCHANGED <<focus, pageVars, valueVars, snapVars, statVars, synthVars, standVars, crawlVars, sessVars, flogs, reportingVars>>
    \/ focus = "ranking" /\ AddContestRow /\ UNCHANGED <<focus, pageVars, valueVars, snapVars, statVars, synthVars, standVars, crawlVars, sessVars, flogs, reportingVars>>
    \/ focus = "synth" /\ SynthStep /\ UNCHANGED <<focus, pageVars, valueVars, snapVars, statVars, contestVars, standVars, crawlVars, sessVars, flogs, reportingVars>>
    \/ focus = "standings" /\ StandNext /\ UNCHANGED <<focus, pageVars, valueVars, snapVars, statVars, contestVars, synthVars, crawlVars, sessVars, flogs, reportingVars>>
    \/ focus = "crawl" /\ CrawlNext /\ UNCHANGED <<focus, pageVars, valueVars, snapVars, statVars, contestVars, synthVars, standVars, sessVars, flogs, reportingVars>>
    \/ focus = "session" /\ SessNext /\ UNCHANGED <<focus, pageVars, valueVars, snapVars, statVars, contestVars, synthVars, standVars, crawlVars, flogs, reportingVars>>
    \/ focus = "fetched" /\ AddFetched /\ UNCHANGED <<focus, pageVars, valueVars, snapVars, statVars, contestVars, synthVars, standVars, crawlVars, sessVars, reportingVars>>
    \/ focus = "reports" /\ SumNext /\ UNCHANGED <<coreVars, listVars, boardVars, jobTable>>
    \/ focus = "listing" /\ ListNext /\ UNCHANGED <<coreVars, sumVars, boardVars, jobTable>>
    \/ focus = "board" /\ BoardNext /\ UNCHANGED <<coreVars, sumVars, listVars, jobTable>>
    \/ focus = "jobs" /\ AddJobRow /\ UNCHANGED <<coreVars, sumVars, listVars, boardVars>>
MCSpec == MCInit /\ [][MCNext]_allVars

-----------------------------------------------------------------------------
\* The properties of Statistics for every table that rows are written to: periods,
\* counts, the detail page and the site's context (statistic.go, statistic_ops.go).
StatisticsAreRight ==
    focus = "stat" => /\ PeriodsNest(clockNow) /\ CountsAgree(logs, clockNow)
                      /\ DetailAgrees(logs, clockNow) /\ ContextsAgree(logs, clockNow)

\* The rows again, as rows of two contests on two platforms.
ListRows(rows) == {[user |-> r.user, plat |-> 1 + (r.ac % 2), id |-> 1 + (r.rank % 2), t |-> r.user % 2] : r \in rows}

TheMatrix == buildContestMatrix(ccase.c, ccase.meta, csubs, Titled, {1, 2}, {1, 2})

\* The properties of ContestMatrix for every such sequence and every such set of rows:
\* the table of a contest with its columns, and the rankings with their pages and the
\* age of their ranks (contest_matrix.go, contest.go, contest_official_rank.go).
ContestsAreRight ==
    /\ focus = "matrix" => MatrixIsRight(TheMatrix, {1, 2}, {1, 2}) /\ ColumnsAreOwn(TheMatrix)
    /\ focus = "ranking" => ListIsRight(ListRows(crows))
    /\ focus = "ranking" => \A plat \in {"AtCoder", "CodeForces", "other"}, req \in CReqs, env \in CEnvs :
                               RankingIsRight(plat, crows, req, env)
    /\ SynthesisEnds /\ LongLivedAreFinal /\ RanksAreRecent

LuoGuCodes == 0..15
QOJStatuses ==
    {[tick |-> k, head |-> h, parts |-> {}, whole |-> h] : k \in BOOLEAN, h \in {"100", "CE", "TLE", "WA", "RE", "MLE", "0", ""}}

\* Of Crawlers: what a crawl brings, what is kept of the fetched rows, and every verdict
\* of a platform (spider_normalize.go:10-60, statistic_rules.go:8-14).
CrawlsAreRight ==
    /\ CrawlsAreComplete
    /\ focus = "fetched" =>
          /\ NormalizedIsLatest(flogs)
          /\ \A c \in LuoGuCodes : VerdictsAgree(normalizeLuoGuStatus(c), c = 12)
          /\ \A q \in QOJStatuses : VerdictsAgree(normalizeQOJStatus(q), q.tick \/ q.head = "100")

Viewers == [user : 1..3, role : 0..2]

\* Of JobBoard, for every caller: the lists show of a job what the job itself shows,
\* and the three boards agree (service/spider.go:222-361, 454-522).
JobsAreShown ==
    focus = "jobs" => \A c \in Viewers :
        /\ \A scope \in {"mine", "all"}, u \in {0, 2}, st \in {"", "failed"}, n \in {1, 2} :
              JobsShowWhatJobOpens(jobTable, c, [scope |-> scope, user |-> u, status |-> st, page |-> 0, size |-> n])
        /\ BoardsAgree(jobTable, c, 6, 3)

\* What no step may do to a table: lose a submission, delete a snapshot newer than one
\* it leaves, undo the text of another editor (biz/service/spider.go:143-176,
\* statistic_ops.go:219-225, bulletin.go:99-126).
TablesChangeSafely == RowsStay /\ CleanupTakesOldest /\ EditsStayApart
=============================================================================
