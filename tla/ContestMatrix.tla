---------------------------- MODULE ContestMatrix ----------------------------
(* The contest ranking of core_data: the rows of a ranking page and their order   *)
(* (service/contest.go, data/dal/spider.go, service/contest_official_rank.go), the *)
(* table of problems and verdicts beside it (service/contest_matrix.go), and the   *)
(* caches in front of the Codeforces standings (service/contest_meta_cache.go).    *)
(*                                                                              *)
(* Names (problem keys, titles, indexes) are numbers, 0 the empty one; the letters *)
(* A, B, ... are 1..Letters.  Times are minutes, 0 the zero time.                  *)
EXTENDS Integers, Sequences, FiniteSets, SequencesExt, FiniteSetsExt

CONSTANTS Letters,        \* the letters of the alphabet: 26 in the code
          IndexOf,        \* names whose problem index can be read off them -> the index
          StandReaders,   \* concurrent requests for a running contest
          ContestEnd,     \* the end of that contest
          ShortTTL, Grace, FetchTime,   \* one minute, ten minutes after the end, the HTTP timeout
          MaxStandClock   \* bound: the clock

-----------------------------------------------------------------------------
(* Columns *)

\* A submission is [user, prob, sid, ac, t], a problem [key, index, name, aliases].
RawKey(sub) == IF sub.prob # 0 THEN sub.prob ELSE sub.sid
Letter(k) == 1 + (k % Letters)
deriveProblemIndex(key, fallback) == IF key \in DOMAIN IndexOf THEN IndexOf[key] ELSE Letter(fallback)
HasKey(problems, key) == \E k \in 1..Len(problems) : problems[k].key = key
Column(key, index, name, aliases) == [key |-> key, index |-> index, name |-> name, aliases |-> aliases]

naturalProblemOrder(p, q) == IF p.index # q.index THEN p.index < q.index ELSE p.key < q.key

\* normalizeContestProblems: the columns of the metadata, then one for every further
\* key of a submission; sorted when there is no metadata.
normalizeContestProblems(meta, subs) ==
    LET AddMeta(acc, p) ==
            IF p.key = 0 \/ HasKey(acc, p.key) THEN acc
            ELSE LET index == IF p.index = 0 THEN deriveProblemIndex(p.key, Len(acc)) ELSE p.index
                     name == IF p.name = 0 THEN p.key ELSE p.name
                 IN  Append(acc, Column(p.key, index, name, p.aliases \cup {index, name}))
        AddRaw(acc, sub) ==
            IF RawKey(sub) = 0 \/ HasKey(acc, RawKey(sub)) THEN acc
            ELSE Append(acc, Column(RawKey(sub), deriveProblemIndex(RawKey(sub), Len(acc)), RawKey(sub), {}))
        all == FoldLeft(AddRaw, FoldLeft(AddMeta, <<>>, meta), subs)
    IN  IF meta = <<>> THEN SortSeq(all, naturalProblemOrder) ELSE all

\* buildProblemAliasMap and canonicalProblemKey: a later column overwrites the
\* names of an earlier one.
NamesOf(p) == ({p.key, p.index, p.name} \cup p.aliases) \ {0}

canonicalProblemKey(raw, problems) ==
    LET k == SelectLastInSeq(problems, LAMBDA p : raw \in NamesOf(p))
    IN  IF k = 0 THEN raw ELSE problems[k].key

\* nowCoderProblemAliases; titled maps <<index, title>> to the name "index title".
nowCoderProblemAliases(index, title, titled) ==
    {index, title} \cup (IF <<index, title>> \in DOMAIN titled THEN {titled[<<index, title>>]} ELSE {})

\* parseNowCoderProblems: the problem links of the page, the first one of an index,
\* in the order of the indexes; the title is the key.
parseNowCoderProblems(links, titled) ==
    LET Add(acc, l) ==
            IF \E k \in 1..Len(acc) : acc[k].index = l.index THEN acc
            ELSE LET title == IF l.title = 0 THEN l.index ELSE l.title
                 IN  Append(acc, Column(title, l.index, title, nowCoderProblemAliases(l.index, title, titled)))
    IN  SortSeq(FoldLeft(Add, <<>>, links), naturalProblemOrder)

-----------------------------------------------------------------------------
(* Verdicts *)

Reliable(w) == w.start # 0 /\ w.end # 0 /\ w.end > w.start
elapsedMinute(start, t) == IF start = 0 \/ t < start THEN 0 ELSE t - start
InContest(w, t) == ~Reliable(w) \/ (w.start <= t /\ t < w.end)
AfterContest(w, t) == Reliable(w) /\ t >= w.end

NoState == [submitted |-> FALSE, ac |-> FALSE, minute |-> 0, wrong |-> 0, upsolved |-> FALSE, upWrong |-> 0]

\* Mutant: a wrong answer after the accepted one counts.
MutCountsLate(s, sub, w) ==
    CASE InContest(w, sub.t) ->
            [s EXCEPT !.submitted = TRUE, !.ac = @ \/ sub.ac, !.minute = IF sub.ac /\ ~s.ac THEN elapsedMinute(w.start, sub.t) ELSE @,
                      !.wrong = IF sub.ac THEN @ ELSE @ + 1]
      [] OTHER -> s

\* One submission in the loop of calculateContestProblemMatrix.
CellStep(s, sub, w) ==
    CASE InContest(w, sub.t) ->
            [s EXCEPT !.submitted = TRUE, !.ac = @ \/ sub.ac,
                      !.minute = IF sub.ac /\ ~s.ac THEN elapsedMinute(w.start, sub.t) ELSE @,
                      !.wrong = IF ~sub.ac /\ ~s.ac THEN @ + 1 ELSE @]
      [] AfterContest(w, sub.t) /\ ~s.ac /\ ~s.upsolved ->
            [s EXCEPT !.upsolved = sub.ac, !.upWrong = IF sub.ac THEN @ ELSE @ + 1]
      [] OTHER -> s

CellState(u, key, w, problems, subs) ==
    FoldLeft(LAMBDA s, sub : IF sub.user = u /\ canonicalProblemKey(RawKey(sub), problems) = key
                             THEN CellStep(s, sub, w) ELSE s, NoState, subs)

CellStatus(s) ==
    CASE s.ac -> "contest_ac" [] s.upsolved -> "upsolve_ac" [] s.submitted -> "contest_failed" [] OTHER -> "none"

\* calculateContestProblemMatrix: the table for the users of the page, the totals
\* for all users.
calculateContestProblemMatrix(w, problems, subs, page, all) ==
    LET cell == [u \in page \cup all |-> [k \in 1..Len(problems) |-> CellState(u, problems[k].key, w, problems, subs)]]
        solved(u) == {k \in 1..Len(problems) : cell[u][k].ac}
    IN  [results |-> [u \in page |-> [k \in 1..Len(problems) |->
                        [status |-> CellStatus(cell[u][k]), minute |-> cell[u][k].minute, wrongBefore |-> cell[u][k].wrong,
                         attempts |-> cell[u][k].wrong + cell[u][k].upWrong, upsolved |-> cell[u][k].upsolved]]],
         penalty |-> [u \in all |-> MapThenSumSet(LAMBDA k : cell[u][k].minute + 20 * cell[u][k].wrong, solved(u))],
         acCount |-> [u \in all |-> Cardinality(solved(u))],
         stats |-> [k \in 1..Len(problems) |->
                        [accepted |-> Cardinality({u \in all : cell[u][k].ac}),
                         attempted |-> Cardinality({u \in all : cell[u][k].submitted}),
                         upsolved |-> Cardinality({u \in all : cell[u][k].upsolved})]]]

-----------------------------------------------------------------------------
(* The table of one contest.  c is its row [plat, start, end, total]; meta what    *)
(* the platform answered, [ok, start, end, problems]; table the submissions, each  *)
(* with the contest it names, in the order of time.                              *)

\* loadContestSubmissions: by contest, or by window when no row names the contest.
loadContestSubmissions(table, contest, users, w) ==
    LET mine == SelectSeq(table, LAMBDA s : s.user \in users /\ s.contest = contest)
    IN  IF mine # <<>> \/ ~Reliable(w) THEN mine
        ELSE SelectSeq(table, LAMBDA s : s.user \in users /\ w.start <= s.t /\ s.t < w.end)

\* synthesizeNowCoderProblems, first loop: the submitted keys, at most total.
SubmittedProblems(total, subs, titled) ==
    LET Add(acc, sub) ==
            IF sub.prob = 0 \/ HasKey(acc, sub.prob) \/ Len(acc) >= total THEN acc
            ELSE LET index == deriveProblemIndex(sub.prob, Len(acc))
                 IN  Append(acc, Column(sub.prob, index, sub.prob, nowCoderProblemAliases(index, sub.prob, titled)))
    IN  FoldLeft(Add, <<>>, subs)

\* Second loop: one turn.  The key of a placeholder is made of its letter; when it
\* is taken the turn changes nothing.
PlaceholderKey(letter) == -letter
SynthTurn(problems) ==
    LET index == Letter(Len(problems))
    IN  IF HasKey(problems, PlaceholderKey(index)) THEN problems
        ELSE Append(problems, Column(PlaceholderKey(index), index, index, {index}))

\* The loop ends when the letters last.
Placeable(total, subs, titled) == total - Len(SubmittedProblems(total, subs, titled)) <= Letters
synthesizeNowCoderProblems(total, subs, titled) ==
    FoldLeft(LAMBDA acc, k : IF Len(acc) < total THEN SynthTurn(acc) ELSE acc,
             SubmittedProblems(total, subs, titled), [k \in 1..Letters |-> k])

\* buildContestMatrix.
Window(c, meta) == [start |-> IF meta.ok /\ meta.start # 0 THEN meta.start ELSE c.start,
                    end |-> IF meta.ok /\ meta.end # 0 THEN meta.end ELSE c.end]
DegradedReason(c, meta) ==
    CASE c.plat # "other" /\ ~meta.ok -> "meta" [] ~Reliable(Window(c, meta)) -> "window" [] OTHER -> ""
MatrixColumns(c, meta, subs, titled) ==
    LET known == IF meta.ok THEN meta.problems ELSE <<>>
    IN  normalizeContestProblems(IF c.plat = "NowCoder" /\ known = <<>> /\ c.total > 0
                                 THEN synthesizeNowCoderProblems(c.total, subs, titled) ELSE known, subs)
buildContestMatrix(c, meta, table, titled, page, all) ==
    LET w == Window(c, meta)
        subs == loadContestSubmissions(table, c.id, all, w)
        problems == MatrixColumns(c, meta, subs, titled)
    IN  [columns |-> problems, reason |-> DegradedReason(c, meta), subs |-> subs, w |-> w,
         calc |-> calculateContestProblemMatrix(w, problems, subs, page, all)]

-----------------------------------------------------------------------------
(* Rows.  A contest_logs row is [user, rank, ac, total].                         *)

\* sortContestLogs
LogBefore(a, b) ==
    CASE (a.rank > 0) # (b.rank > 0) -> a.rank > 0
      [] a.rank # b.rank -> a.rank > 0 /\ (b.rank <= 0 \/ a.rank < b.rank)
      [] a.ac # b.ac -> a.ac > b.ac
      [] a.total # b.total -> a.total > b.total
      [] OTHER -> a.user < b.user

\* ORDER BY of GetContestRanking and GetContestParticipants.
SqlKey(r) == <<IF r.rank > 0 THEN 0 ELSE 1, r.rank, -r.ac, -r.total, r.user>>
SqlBefore(a, b) ==
    \E k \in 1..5 : SqlKey(a)[k] < SqlKey(b)[k] /\ \A n \in 1..(k - 1) : SqlKey(a)[n] = SqlKey(b)[n]
Filtered(rows, users) == IF users = {} THEN rows ELSE {r \in rows : r.user \in users}
GetContestParticipants(rows, users) == SetToSortSeq(Filtered(rows, users), SqlBefore)

paginateContestLogs(logs, offset, limit) ==
    LET from == IF offset < 0 THEN 0 ELSE offset
        to == from + (IF limit <= 0 THEN Len(logs) ELSE limit)
    IN  SubSeq(logs, from + 1, IF to > Len(logs) THEN Len(logs) ELSE to)
\* LIMIT 0 of the database is an empty page, a negative one no limit.
SqlPage(logs, offset, limit) == IF limit = 0 THEN <<>> ELSE paginateContestLogs(logs, offset, limit)

\* applyAtCoderOfficialRanks: official ranks of bound users, found in their history;
\* applyCodeforcesOfficialRanks: once there are standings, they alone decide.
applyAtCoderOfficialRanks(logs, bound, place) ==
    [k \in 1..Len(logs) |-> IF logs[k].user \in bound /\ logs[k].user \in DOMAIN place
                            THEN [logs[k] EXCEPT !.rank = place[logs[k].user]] ELSE logs[k]]

applyCodeforcesOfficialRanks(logs, bound, place) ==
    IF bound = {} \/ DOMAIN place = {} THEN logs
    ELSE [k \in 1..Len(logs) |->
            [logs[k] EXCEPT !.rank = IF logs[k].user \in bound /\ logs[k].user \in DOMAIN place
                                     THEN place[logs[k].user] ELSE 0]]

\* GetContestRanking up to the table.  env is [conn, rpc, members, bound, place]:
\* whether the user service could be dialled and answers, the members of the group,
\* the users with a binding, and the official places (empty when they could not be
\* fetched).
Asked(req, env) == IF req.group /\ env.conn THEN env.members ELSE {}
GetContestRanking(plat, rows, req, env) ==
    LET participants == GetContestParticipants(rows, Asked(req, env))
        official == CASE plat = "AtCoder" -> SortSeq(applyAtCoderOfficialRanks(participants, env.bound, env.place), LogBefore)
                      [] plat = "CodeForces" -> SortSeq(applyCodeforcesOfficialRanks(participants, env.bound, env.place), LogBefore)
                      [] OTHER -> participants
    IN  IF req.group /\ env.conn /\ ~env.rpc THEN [code |-> 500, items |-> <<>>, total |-> 0]
        ELSE IF req.group /\ env.conn /\ env.members = {} THEN [code |-> 0, items |-> <<>>, total |-> 0]
        ELSE [code |-> 0, total |-> Len(participants),
              items |-> IF plat \in {"AtCoder", "CodeForces"} THEN paginateContestLogs(official, req.offset, req.limit)
                        ELSE SqlPage(official, req.offset, req.limit)]

\* GetContestList: contests [plat, id] by latest time, platform and id; the row shown
\* for a contest is the last one the database returns, any of its rows.
ContestKeys(rows, user, plat) ==
    {[plat |-> r.plat, id |-> r.id] : r \in {x \in rows : (user = -1 \/ x.user = user) /\ (plat = 0 \/ x.plat = plat)}}
GetContestList(rows, user, plat, offset, limit) ==
    LET keys == ContestKeys(rows, user, plat)
        latest(k) == Max({r.t : r \in {x \in rows : (user = -1 \/ x.user = user) /\ x.plat = k.plat /\ x.id = k.id}})
        Before(a, b) == latest(a) > latest(b) \/ (latest(a) = latest(b) /\ (a.plat < b.plat \/ (a.plat = b.plat /\ a.id > b.id)))
    IN  [total |-> Cardinality(keys), items |-> SqlPage(SetToSortSeq(keys, Before), offset, limit)]

-----------------------------------------------------------------------------
(* The second loop of synthesizeNowCoderProblems, turn by turn *)

VARIABLES synTotal, synSubs, synProblems
synthVars == <<synTotal, synSubs, synProblems>>
SynthInit == synProblems = SubmittedProblems(synTotal, synSubs, <<>>)
SynthStep ==
    /\ Len(synProblems) < synTotal
    /\ synProblems' = SynthTurn(synProblems)
    /\ UNCHANGED <<synTotal, synSubs>>

-----------------------------------------------------------------------------
(* The caches in front of the standings of a running contest.  An entry is         *)
(* [at, exp]: when its data was taken, when it expires; at = -1 when there is none. *)

VARIABLES sclock, standings, ranks, cfMeta, sreq, servedAt
standVars == <<sclock, standings, ranks, cfMeta, sreq, servedAt>>
LongTTL == 2 * MaxStandClock
NoEntry == [at |-> -1, exp |-> -1]
Quiet == [goal |-> "none", at |-> 0]
StandInit ==
    /\ sclock = 0 /\ standings = NoEntry /\ ranks = NoEntry /\ cfMeta = NoEntry
    /\ sreq = [r \in StandReaders |-> Quiet] /\ servedAt = [at |-> 0, now |-> 0]

\* ttlCache.Get and SetWithTTL; codeforcesStandingsTTL.
TTLGet(e) == e.at # -1 /\ sclock <= e.exp
codeforcesStandingsTTL(now) == IF now < ContestEnd + Grace THEN ShortTTL ELSE LongTTL
SetWithTTL(at, ttl) == [at |-> at, exp |-> sclock + ttl]

\* An HTTP request ends before its timeout.
StandTick ==
    /\ sclock < MaxStandClock /\ \A r \in StandReaders : sreq[r].goal # "none" => sclock - sreq[r].at < FetchTime
    /\ sclock' = sclock + 1
    /\ UNCHANGED <<standings, ranks, cfMeta, sreq, servedAt>>

\* What fetchCodeforcesOfficialRankMap and fetchCodeforcesMatrixMeta make of
\* standings taken at the given time.
UseStandings(goal, at) ==
    IF goal = "rank"
    THEN /\ ranks' = SetWithTTL(at, codeforcesStandingsTTL(sclock)) /\ servedAt' = [at |-> at, now |-> sclock]
         /\ UNCHANGED cfMeta
    ELSE cfMeta' = SetWithTTL(at, LongTTL) /\ UNCHANGED <<ranks, servedAt>>

fetchCodeforcesOfficialRankMap(r) ==
    /\ sreq[r].goal = "none"
    /\ \/ TTLGet(ranks) /\ servedAt' = [at |-> ranks.at, now |-> sclock] /\ UNCHANGED <<sreq, ranks, cfMeta>>
       \/ ~TTLGet(ranks) /\ TTLGet(standings) /\ UseStandings("rank", standings.at) /\ UNCHANGED sreq
       \/ /\ ~TTLGet(ranks) /\ ~TTLGet(standings)
          /\ sreq' = [sreq EXCEPT ![r] = [goal |-> "rank", at |-> sclock]] /\ UNCHANGED <<ranks, cfMeta, servedAt>>
    /\ UNCHANGED <<sclock, standings>>

fetchCodeforcesMatrixMeta(r) ==
    /\ sreq[r].goal = "none" /\ ~TTLGet(cfMeta)
    /\ \/ TTLGet(standings) /\ UseStandings("meta", standings.at) /\ UNCHANGED sreq
       \/ /\ ~TTLGet(standings)
          /\ sreq' = [sreq EXCEPT ![r] = [goal |-> "meta", at |-> sclock]] /\ UNCHANGED <<ranks, cfMeta, servedAt>>
    /\ UNCHANGED <<sclock, standings>>

\* fetchCodeforcesStandings: the answer, or an error, which nothing is cached of.
fetchCodeforcesStandings(r) ==
    /\ sreq[r].goal # "none" /\ sreq' = [sreq EXCEPT ![r] = Quiet]
    /\ \/ /\ standings' = SetWithTTL(sreq[r].at, codeforcesStandingsTTL(sclock))
          /\ UseStandings(sreq[r].goal, sreq[r].at)
       \/ UNCHANGED <<standings, ranks, cfMeta, servedAt>>
    /\ UNCHANGED sclock

StandNext ==
    \/ StandTick
    \/ \E r \in StandReaders :
          fetchCodeforcesOfficialRankMap(r) \/ fetchCodeforcesMatrixMeta(r) \/ fetchCodeforcesStandings(r)

-----------------------------------------------------------------------------
\* The table against a definition without a loop: a cell is accepted in the contest
\* exactly when an accepted submission lies in the window, with the minute of the
\* first one and the wrong answers before it; solved afterwards only when it is not;
\* the counts of users and of columns agree (contest_matrix.go:810-918).
MatrixIsRight(m, page, all) ==
    LET cell(u, k) == {n \in 1..Len(m.subs) : /\ m.subs[n].user = u
                                               /\ canonicalProblemKey(RawKey(m.subs[n]), m.columns) = m.columns[k].key}
        hits(u, k) == {n \in cell(u, k) : m.subs[n].ac /\ InContest(m.w, m.subs[n].t)}
        cols == 1..Len(m.columns)
        status(u, k) == m.calc.results[u][k].status
    IN  /\ \A u \in page, k \in cols :
              LET res == m.calc.results[u][k]
                  late == {n \in cell(u, k) : m.subs[n].ac /\ AfterContest(m.w, m.subs[n].t)}
              IN  /\ res.status = "contest_ac" <=> hits(u, k) # {}
                  /\ hits(u, k) # {} => res.minute = elapsedMinute(m.w.start, m.subs[Min(hits(u, k))].t)
                  /\ res.wrongBefore = Cardinality({n \in cell(u, k) : ~m.subs[n].ac /\ InContest(m.w, m.subs[n].t)
                                                                       /\ \A h \in hits(u, k) : n < h})
                  /\ res.upsolved <=> hits(u, k) = {} /\ late # {}
        /\ \A u \in page \cap all : m.calc.acCount[u] = Cardinality({k \in cols : status(u, k) = "contest_ac"})
        /\ page = all => \A k \in cols :
              /\ m.calc.stats[k].accepted = Cardinality({u \in all : status(u, k) = "contest_ac"})
              /\ m.calc.stats[k].upsolved = Cardinality({u \in all : status(u, k) = "upsolve_ac"})

\* Every submission of the table has a column, and it counts in the column of its
\* own key unless another column bears that name: deriveProblemIndex falls back on
\* letters that can be the names of other problems (contest_matrix.go:590-640,
\* 710-745, 771).
ColumnsAreOwn(m) ==
    /\ \A k, n \in 1..Len(m.columns) : k # n => m.columns[k].key # m.columns[n].key
    /\ \A n \in 1..Len(m.subs) : LET key == RawKey(m.subs[n]) IN
          /\ key # 0 => HasKey(m.columns, canonicalProblemKey(key, m.columns))
          /\ key # 0 /\ Cardinality({k \in 1..Len(m.columns) : key \in NamesOf(m.columns[k])}) = 1 =>
                canonicalProblemKey(key, m.columns) = key

\* The pages of a ranking, one after the other, are the whole ranking in the order of
\* the database: nobody is left out or shown twice; with the user service at hand a
\* group's ranking shows its members only, and once there are Codeforces standings
\* no rank stems from anywhere else (contest.go:98-140, contest_official_rank.go:79-125).
RankingIsRight(plat, rows, req, env) ==
    LET whole == GetContestRanking(plat, rows, [req EXCEPT !.offset = 0, !.limit = 9], env)
        page(o) == GetContestRanking(plat, rows, [req EXCEPT !.offset = o], env).items
        n == Len(whole.items)
    IN  /\ n = whole.total /\ IsInjective([k \in 1..n |-> whole.items[k].user])
        /\ req.limit > 0 => FlattenSeq([k \in 1..3 |-> page((k - 1) * req.limit)]) = SubSeq(whole.items, 1, IF n < 3 * req.limit THEN n ELSE 3 * req.limit)
        /\ \A k \in 1..(n - 1) : SqlBefore(whole.items[k], whole.items[k + 1])
        /\ req.group /\ env.conn => \A k \in 1..n : whole.items[k].user \in env.members
        /\ plat = "CodeForces" /\ DOMAIN env.place # {} /\ env.bound # {} =>
              \A k \in 1..n : whole.items[k].rank # 0 =>
                 whole.items[k].user \in DOMAIN env.place /\ whole.items[k].rank = env.place[whole.items[k].user]

\* The list of contests counts and pages every contest of the rows once, whoever took
\* part in it (dal/spider.go:200-277).
ListIsRight(rows) ==
    \A user \in {-1, 1}, plat \in {0, 1} :
        LET page(o) == GetContestList(rows, user, plat, o, 1)
            n == page(0).total
            all == FlattenSeq([k \in 1..n |-> page(k - 1).items])
        IN  Len(all) = n /\ page(n).items = <<>> /\ ToSet(all) = ContestKeys(rows, user, plat)

\* The placeholders of a NowCoder contest are all made, as long as the letters last:
\* every turn of the loop makes one, until there are as many as the contest has
\* problems.  With more than 26 of them to make the loop of contest_matrix.go:539-545
\* never ends.
SynthesisEnds ==
    Placeable(synTotal, synSubs, <<>>) =>
        IF Len(synProblems) < synTotal THEN Len(SynthTurn(synProblems)) > Len(synProblems)
        ELSE synProblems = synthesizeNowCoderProblems(synTotal, synSubs, <<>>)

\* Ranks that are kept for six hours were taken after the end of the contest, although
\* the lifetime is chosen by the time at which they are stored, from standings that
\* another request may have cached before (contest_matrix.go:300-311,
\* contest_official_rank.go:151).
LongLivedAreFinal == ranks.exp - sclock > ShortTTL => ranks.at >= ContestEnd

\* Until ten minutes after the end a ranking shows ranks that are at most two minutes
\* and one request old: two caches of a minute lie one behind the other.
RanksAreRecent ==
    servedAt.now < ContestEnd + Grace => servedAt.now - servedAt.at <= 2 * ShortTTL + FetchTime
=============================================================================
