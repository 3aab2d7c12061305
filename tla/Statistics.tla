----------------------------- MODULE Statistics -----------------------------
(* The statistics over submit_logs as operators on the table: period counts of a  *)
(* user, by platform and of a team (data/dal/statistic.go, service/statistic.go),  *)
(* the heatmap, the platform detail and the crawl audit, and the site-wide          *)
(* achievement snapshot (service/statistic_ops.go).                              *)
(*                                                                              *)
(* A row is [id, user, plat, prob, sid, st, t]; prob and sid may be "".  st is the *)
(* class of the status text: "ac", "wa" or "other".  Times are half days: day      *)
(* 2023-01-01, a Sunday, is 0 and its halves are the times 0 and 1.                *)
EXTENDS Integers, Sequences, FiniteSets, SequencesExt, FiniteSetsExt

Everyone == -1
KnownPlatforms == {"AtCoder", "NowCoder", "LuoGu", "CodeForces", "QOJ"}

-----------------------------------------------------------------------------
(* Periods.  Go's calendar for 2023 and 2024 (external). *)

MonthLengths == <<31, 28, 31, 30, 31, 30, 31, 31, 30, 31, 30, 31,
                  31, 29, 31, 30, 31, 30, 31, 31, 30, 31, 30, 31>>
MonthStart == [m \in 0..24 |-> FoldLeft(+, 0, SubSeq(MonthLengths, 1, m))]
MonthOf(day) == Max({m \in 0..24 : MonthStart[m] <= day})
Weekday(day) == day % 7
Day(t) == t \div 2

\* The Monday of the week: Sunday counts as the seventh day.
getWeekStart(now) ==
    LET weekday == IF Weekday(Day(now)) = 0 THEN 7 ELSE Weekday(Day(now))
    IN  2 * (Day(now) - (weekday - 1))

\* Each period is the half-open interval from its start to its end.
Periods(now) ==
    LET month == MonthOf(Day(now))
        monthStart == 2 * MonthStart[month]
        yearStart == 2 * MonthStart[12 * (month \div 12)]
        week == getWeekStart(now)
    IN  [Today |-> <<2 * Day(now), now>>,
         ThisWeek |-> <<week, now>>, LastWeek |-> <<week - 14, week>>,
         ThisMonth |-> <<monthStart, now>>, LastMonth |-> <<2 * MonthStart[month - 1], monthStart>>,
         ThisYear |-> <<yearStart, now>>, LastYear |-> <<2 * MonthStart[12 * (month \div 12) - 12], yearStart>>]
PeriodNames == {"Today", "ThisWeek", "LastWeek", "ThisMonth", "LastMonth", "ThisYear", "LastYear"}
In(r, period) == r.t >= period[1] /\ r.t < period[2]

-----------------------------------------------------------------------------
(* Counts *)

\* acCondition, acDistinctKey
isAcceptedStatus(r) == r.st = "ac"
acDistinctKey(r) == <<r.user, r.plat, IF r.prob = "" THEN r.sid ELSE r.prob>>
countAc(rows) == Cardinality({acDistinctKey(r) : r \in {x \in rows : isAcceptedStatus(x)}})

OfUser(rows, user) == IF user = Everyone THEN rows ELSE {r \in rows : r.user = user}
Counts(rows, now) ==
    [Submit |-> [p \in PeriodNames \cup {"Total"} |->
                    Cardinality(IF p = "Total" THEN rows ELSE {r \in rows : In(r, Periods(now)[p])})],
     Ac |-> [p \in PeriodNames \cup {"Total"} |->
                    countAc(IF p = "Total" THEN rows ELSE {r \in rows : In(r, Periods(now)[p])})]]

\* One query per number: countQuery, countQueryTotal, countAcDistinctQuery and
\* countAcDistinctTotal.  An error of one is logged and leaves its number 0.
countQuery(rows, user, start, end) == Cardinality({r \in OfUser(rows, user) : r.t >= start /\ r.t < end})
countQueryTotal(rows, user) == Cardinality(OfUser(rows, user))
countAcDistinctQuery(rows, user, start, end) == countAc({r \in OfUser(rows, user) : r.t >= start /\ r.t < end})
countAcDistinctTotal(rows, user) == countAc(OfUser(rows, user))
GetPeriodCount(rows, user, now) ==
    LET ps == Periods(now)
    IN  [Submit |-> [p \in PeriodNames \cup {"Total"} |->
                        IF p = "Total" THEN countQueryTotal(rows, user) ELSE countQuery(rows, user, ps[p][1], ps[p][2])],
         Ac |-> [p \in PeriodNames \cup {"Total"} |->
                        IF p = "Total" THEN countAcDistinctTotal(rows, user)
                        ELSE countAcDistinctQuery(rows, user, ps[p][1], ps[p][2])]]

\* One query grouped by platform; a platform without a row has zeros.
GetPlatformPeriodCount(rows, user, now) ==
    [p \in KnownPlatforms |-> Counts({r \in OfUser(rows, user) : r.plat = p}, now)]

\* One query grouped by user, and the wrong answers.
GetTeamPeriodCount(rows, users, now) ==
    [u \in users |-> [count |-> Counts({r \in rows : r.user = u}, now),
                      WaTotal |-> Cardinality({r \in rows : r.user = u /\ r.st = "wa"})]]

\* TeamPeriod: the totals add up the members as they are listed, a repeated one twice.
addCount(a, b) == [k \in {"Submit", "Ac"} |-> [p \in PeriodNames \cup {"Total"} |-> a[k][p] + b[k][p]]]
ZeroCount == Counts({}, 800)
TeamPeriod(rows, userIds, now) ==
    LET data == GetTeamPeriodCount(rows, ToSet(userIds), now)
    IN  [members |-> [k \in 1..Len(userIds) |-> data[userIds[k]]],
         total |-> FoldLeft(LAMBDA acc, u : addCount(acc, data[u].count), ZeroCount, userIds),
         wa |-> FoldLeft(LAMBDA acc, u : acc + data[u].WaTotal, 0, userIds)]

\* HeatmapQuery: rows per day; here user 0 is everyone, and AC rows are not distinct.
HeatmapQuery(rows, user, from, to, isAc) ==
    [d \in from..to |-> Cardinality({r \in rows : /\ Day(r.t) = d /\ user \in {0, r.user}
                                                  /\ isAc => isAcceptedStatus(r)})]

-----------------------------------------------------------------------------
(* Detail and audit *)

\* The summary of PlatformDetail; SpiderAudit counts the same six numbers.
problemKey(r) == IF r.prob = "" THEN r.sid ELSE r.prob
PlatformSummary(rows, user, plat) ==
    LET mine == {r \in rows : r.user = user /\ r.plat = plat}
        keys == {problemKey(r) : r \in mine}
    IN  [raw |-> Cardinality(mine), accepted |-> Cardinality({r \in mine : isAcceptedStatus(r)}),
         distinct |-> Cardinality(keys),
         distinctAc |-> Cardinality({problemKey(r) : r \in {x \in mine : isAcceptedStatus(x)}}),
         duplicate |-> Max({Cardinality(mine) - Cardinality(keys), 0}),
         invalid |-> Cardinality({r \in mine : r.sid = ""})]
SpiderAudit(rows, user, plat, skipped) ==
    LET s == PlatformSummary(rows, user, plat) IN [summary |-> s, abnormal |-> s.invalid + skipped]

\* Page and size: 1 for a page that is not positive, 30 for a size out of range.
PageNo(page) == IF page <= 0 THEN 1 ELSE page
PageSize(size) == IF size <= 0 \/ size > 100 THEN 30 ELSE size
Slice(list, page, size) ==
    LET lo == (PageNo(page) - 1) * PageSize(size)
        hi == lo + PageSize(size)
    IN  SubSeq(list, lo + 1, IF hi > Len(list) THEN Len(list) ELSE hi)

\* Mutant: the submits of a problem are counted over all platforms.
MutTotalOverPlatforms(rows, user, plat) ==
    LET mine == {r \in rows : r.user = user /\ r.plat = plat /\ isAcceptedStatus(r)}
    IN  {[key |-> k, first |-> Min({r.t : r \in {x \in mine : problemKey(x) = k}}),
          accepted |-> Cardinality({r \in mine : problemKey(r) = k}),
          total |-> Cardinality({r \in rows : r.user = user /\ problemKey(r) = k})]
            : k \in {problemKey(r) : r \in mine}}

\* The mode "ac" of PlatformDetail: a problem with its first AC, its AC submits and
\* its submits, the newest first AC on top.
AcProblems(rows, user, plat) ==
    LET mine == {r \in rows : r.user = user /\ r.plat = plat /\ isAcceptedStatus(r)}
    IN  {[key |-> k, first |-> Min({r.t : r \in {x \in mine : problemKey(x) = k}}),
          accepted |-> Cardinality({r \in mine : problemKey(r) = k}),
          total |-> Cardinality({r \in rows : r.user = user /\ r.plat = plat /\ problemKey(r) = k})]
            : k \in {problemKey(r) : r \in mine}}
Ordered(S, Before(_, _)) == {s \in SetToSeqs(S) : \A k \in 1..(Len(s) - 1) : ~Before(s[k + 1], s[k])}
PlatformDetail(rows, user, plat, mode, page, size) ==
    IF mode = "submit"
    THEN {Slice(s, page, size) : s \in Ordered({r \in rows : r.user = user /\ r.plat = plat}, LAMBDA a, b : a.t > b.t)}
    ELSE {Slice(s, page, size) : s \in Ordered(AcProblems(rows, user, plat), LAMBDA a, b : a.first > b.first)}

-----------------------------------------------------------------------------
(* Achievements *)

\* The code's rates are floats; multiples of 1/1200 are exact for up to five rows.
RateScale == 1200

\* Twice the median, so that the mean of the middle two stays an integer.
achievementMedian(values) ==
    LET items == SortSeq(values, <)
        middle == Len(items) \div 2
    IN  CASE items = <<>> -> 0
          [] Len(items) % 2 = 1 -> 2 * items[middle + 1]
          [] OTHER -> items[middle] + items[middle + 1]

\* The number of smaller values; the percentile is this over the length.
achievementPercentile(values, value) == Cardinality({k \in 1..Len(values) : values[k] < value})

todaySubmitLeader(m, metrics) ==
    /\ \A u \in DOMAIN metrics : metrics[u].todaySubmit <= m.todaySubmit
    /\ m.todaySubmit > 0

\* achievementUserMetrics: the users with rows.  The first half of a day stands for
\* its hours 0 to 4, the night.
achievementUserMetrics(rows, now) ==
    [u \in {r.user : r \in rows} |->
        LET mine == {r \in rows : r.user = u}
            today == {r \in mine : Day(r.t) = Day(now)}
        IN  [totalSubmit |-> Cardinality(mine), acceptedSubmit |-> Cardinality({r \in mine : isAcceptedStatus(r)}),
             nightAc |-> Cardinality({r \in mine : isAcceptedStatus(r) /\ r.t % 2 = 0}),
             todaySubmit |-> Cardinality(today), todayAc |-> Cardinality({r \in today : isAcceptedStatus(r)}),
             maxDailyWa |-> Max({0} \cup {Cardinality({r \in mine : r.st = "wa" /\ Day(r.t) = d}) : d \in {Day(r.t) : r \in mine}})]]

\* buildAchievementGlobalSnapshot: the rate of an achievement over the snapshots
\* that list any, and what each user's context says.  LuckyAfter is 10 in the code,
\* WaLeaderAfter 20.
AchievementRates(snapshots) ==
    LET counted == {s \in snapshots : s.achievements # <<>>}
        opened(s, k) == Cardinality({n \in 1..Len(s.achievements) : s.achievements[n].key = k /\ s.achievements[n].unlocked})
        keys == UNION {{s.achievements[n].key : n \in 1..Len(s.achievements)} : s \in counted} \ {""}
    IN  [k \in {x \in keys : \E s \in counted : opened(s, x) > 0} |->
            [unlocked |-> MapThenSumSet(LAMBDA s : opened(s, k), counted), total |-> Cardinality(counted)]]
SiteContexts(rows, now, LuckyAfter, WaLeaderAfter) ==
    LET metrics == achievementUserMetrics(rows, now)
        users == SetToSeq(DOMAIN metrics)
        list(f(_)) == [k \in 1..Len(users) |-> f(metrics[users[k]])]
        acRate(m) == (RateScale * m.acceptedSubmit) \div m.totalSubmit
        lucky == SelectSeq(users, LAMBDA u : metrics[u].todaySubmit >= LuckyAfter)
        luckyRate(u) == (RateScale * metrics[u].todayAc) \div metrics[u].todaySubmit
        waLeader == Max({0} \cup {metrics[u].maxDailyWa : u \in DOMAIN metrics})
        acMinutes(u) == {r.t : r \in {x \in rows : x.user = u /\ isAcceptedStatus(x)}}
    IN  [u \in DOMAIN metrics |->
            [totalPercentile |-> achievementPercentile(list(LAMBDA m : m.totalSubmit), metrics[u].totalSubmit),
             ratePercentile |-> achievementPercentile(list(acRate), acRate(metrics[u])),
             nightPercentile |-> achievementPercentile(list(LAMBDA m : m.nightAc), metrics[u].nightAc),
             medianSubmit |-> achievementMedian(list(LAMBDA m : m.totalSubmit)),
             medianRate |-> achievementMedian(list(acRate)),
             uniqueAcMinute |-> \E t \in acMinutes(u) : \A w \in DOMAIN metrics \ {u} : t \notin acMinutes(w),
             waLeader |-> waLeader >= WaLeaderAfter /\ metrics[u].maxDailyWa = waLeader,
             submitLeader |-> todaySubmitLeader(metrics[u], metrics),
             luckyPercentile |-> IF metrics[u].todaySubmit < LuckyAfter THEN 0
                                 ELSE achievementPercentile([k \in 1..Len(lucky) |-> luckyRate(lucky[k])], luckyRate(u))]]

-----------------------------------------------------------------------------
(* Properties, for a table and a time *)

\* Today lies in this week, this month and this year; each of them starts where
\* the one before ends, on a Monday or a first; a week has seven days
\* (getWeekStart, statistic.go:557, on a Sunday as on any other day).
PeriodsNest(now) ==
    LET ps == Periods(now)
    IN  /\ \A p \in {"ThisWeek", "ThisMonth", "ThisYear"} : ps[p][1] <= ps.Today[1] /\ ps[p][2] = now
        /\ ps.ThisYear[1] <= ps.ThisMonth[1]
        /\ ps.LastWeek[2] = ps.ThisWeek[1] /\ ps.LastMonth[2] = ps.ThisMonth[1] /\ ps.LastYear[2] = ps.ThisYear[1]
        /\ Weekday(Day(ps.ThisWeek[1])) = 1 /\ Day(now) - Day(ps.ThisWeek[1]) \in 0..6
        /\ ps.LastWeek[2] - ps.LastWeek[1] = 14

\* The three ways to count give the same numbers: a user's periods are the sum of
\* the user's platforms and equal the user's line in a team, everyone's are the sum
\* over the users, and the days of the heatmap add up to the period.
CountsAgree(rows, now) ==
    LET users == {r.user : r \in rows}
        sumUp(S, f(_)) == MapThenSumSet(f, S)
        team == GetTeamPeriodCount(rows, users, now)
    IN  /\ \A u \in users \cup {Everyone}, p \in PeriodNames \cup {"Total"}, k \in {"Submit", "Ac"} :
              GetPeriodCount(rows, u, now)[k][p]
                  = sumUp(KnownPlatforms, LAMBDA pl : GetPlatformPeriodCount(rows, u, now)[pl][k][p])
        /\ \A u \in users : team[u].count = GetPeriodCount(rows, u, now)
        /\ TeamPeriod(rows, SetToSeq(users), now).total = GetPeriodCount(rows, Everyone, now)
        /\ \A u \in users : LET week == Periods(now).LastWeek
                               days == HeatmapQuery(rows, u, Day(week[1]), Day(week[2]) - 1, FALSE)
                           IN  sumUp(DOMAIN days, LAMBDA d : days[d]) = countQuery(rows, u, week[1], week[2])

\* What the detail page of a platform lists is what the numbers above it say: one
\* problem per distinct AC, their AC submits adding up to the AC submits, no problem
\* with fewer submits than AC submits or more than the platform has, and the same
\* number of AC problems as the platform's period count.
DetailAgrees(rows, now) ==
    \A u \in {r.user : r \in rows}, pl \in {r.plat : r \in rows} :
        LET problems == AcProblems(rows, u, pl)
            audit == SpiderAudit(rows, u, pl, 0)
            s == audit.summary
        IN  /\ Cardinality(problems) = s.distinctAc
            /\ s.distinctAc = GetPlatformPeriodCount(rows, u, now)[pl].Ac.Total
            /\ MapThenSumSet(LAMBDA q : q.accepted, problems) = s.accepted
            /\ MapThenSumSet(LAMBDA q : q.total, problems) <= s.raw
            /\ \A q \in problems : q.accepted <= q.total
            /\ s.duplicate = s.raw - s.distinct /\ s.distinctAc <= s.distinct /\ audit.abnormal <= s.raw
            /\ \A list \in PlatformDetail(rows, u, pl, "ac", 1, 2), rest \in PlatformDetail(rows, u, pl, "ac", 2, 2) :
                  Len(list) + Len(rest) = (IF s.distinctAc < 4 THEN s.distinctAc ELSE 4)

\* Of the site's context: no more than half of the users lie below the median or
\* above it; there is a leader of the day exactly when somebody submitted today; and
\* a user is in a lower percentile than another exactly with fewer submits.  The rate
\* of an achievement is that of the users who have it, and there is one for the leader
\* exactly when there is one (buildAchievementGlobalSnapshot).
ContextsAgree(rows, now) ==
    LET ctx == SiteContexts(rows, now, 2, 1)
        metrics == achievementUserMetrics(rows, now)
        snapshot(u) == [user |-> u, achievements |-> <<[key |-> "leader", unlocked |-> ctx[u].submitLeader],
                                                       [key |-> "minute", unlocked |-> ctx[u].uniqueAcMinute]>>]
        rates == AchievementRates({snapshot(u) : u \in DOMAIN ctx})
        half(S) == 2 * Cardinality(S) <= Cardinality(DOMAIN ctx)
    IN  /\ \A u \in DOMAIN ctx :
              /\ half({w \in DOMAIN ctx : 2 * metrics[w].totalSubmit < ctx[u].medianSubmit})
              /\ half({w \in DOMAIN ctx : 2 * metrics[w].totalSubmit > ctx[u].medianSubmit})
              /\ \A w \in DOMAIN ctx : (ctx[u].totalPercentile < ctx[w].totalPercentile)
                                        = (metrics[u].totalSubmit < metrics[w].totalSubmit)
        /\ (\E u \in DOMAIN ctx : ctx[u].submitLeader) = (\E r \in rows : Day(r.t) = Day(now))
        /\ "leader" \in DOMAIN rates <=> \E r \in rows : Day(r.t) = Day(now)
        /\ \A k \in DOMAIN rates : rates[k].unlocked \in 1..Cardinality(DOMAIN ctx) /\ rates[k].total = Cardinality(DOMAIN ctx)
=============================================================================
