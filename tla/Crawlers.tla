------------------------------- MODULE Crawlers -------------------------------
(* The crawlers of core_data (internal/spider/platform): the paging loops of the   *)
(* five platforms against a user who goes on submitting, the write of what they    *)
(* fetched (biz/service/spider.go, spider_normalize.go), the contest rows they     *)
(* make, and the logged-in clients that the LuoGu and QOJ crawlers share.          *)
(*                                                                              *)
(* A submission is its number, in the order in which it was made; made[i] is       *)
(* [t, list], its time and the list of the platform it appears in (NowCoder has a   *)
(* practice list, 1, and a training list, 2).  A failed request ends a crawl with   *)
(* nothing written, except for CodeForces, which tries again.                      *)
EXTENDS Integers, Sequences, FiniteSets, SequencesExt, FiniteSetsExt

CONSTANTS CrawlPlatforms,   \* the platforms
          CrawlPage,         \* rows per page: 1000, 500, 100, 50, 20 in the code
          MaxSubs,          \* bound: submissions
          MaxCrawlClock,    \* bound: the clock
          RecentWindow,     \* the 60 minutes of an incremental AtCoder crawl
          MaxPageAttempts,  \* codeforcesMaxPageAttempts
          ContestStart, ContestStop,   \* the contest in which every submission in between is made
          SessionUsers,     \* concurrent crawls of LuoGu or QOJ
          MaxLogins         \* bound: logins

ASSUME CrawlConstants ==
    CrawlPage \in Nat \ {0} /\ MaxSubs \in Nat /\ RecentWindow \in Nat /\ MaxPageAttempts \in Nat \ {0}

VARIABLES
    cplat,      \* the platform
    made,      \* the submissions made so far
    cnow,      \* the clock
    crawl,     \* the crawl in progress, see NoCrawl
    rowsKept,  \* submit_logs of the user on the platform
    covered,   \* history: submissions made, and time, when the last crawl that was written began
    conRow,    \* the contest row: the submissions its counts stem from
    conFull    \* history: submissions in the contest when a full crawl last wrote the row

crawlVars == <<cplat, made, cnow, crawl, rowsKept, covered, conRow, conFull>>

NoCrawl == [pc |-> "idle", all |-> FALSE, list |-> 1, page |-> 1, pages |-> 0, from |-> 0, tries |-> 1,
            got |-> {}, start |-> 0, since |-> 0]
CrawlInit ==
    /\ cplat \in CrawlPlatforms /\ made = <<>> /\ cnow = 1 /\ crawl = NoCrawl /\ rowsKept = {}
    /\ covered = [n |-> 0, t |-> 1] /\ conRow = {} /\ conFull = {}

\* The platform: a list is shown newest first.
Listed(l) == SelectSeq([k \in 1..Len(made) |-> Len(made) + 1 - k], LAMBDA i : made[i].list = l)
PageOf(l, p) == SubSeq(Listed(l), (p - 1) * CrawlPage + 1, Min({p * CrawlPage, Len(Listed(l))}))
PageCount(l) == (Len(Listed(l)) + CrawlPage - 1) \div CrawlPage
InTheContest(ids) == {i \in ids : ContestStart <= made[i].t /\ made[i].t < ContestStop}

UserSubmits(l) ==
    /\ Len(made) < MaxSubs /\ (l = 2 => cplat = "NowCoder")
    /\ made' = Append(made, [t |-> cnow, list |-> l])
    /\ UNCHANGED <<cplat, cnow, crawl, rowsKept, covered, conRow, conFull>>
CrawlTick == cnow < MaxCrawlClock /\ cnow' = cnow + 1 /\ UNCHANGED <<cplat, made, crawl, rowsKept, covered, conRow, conFull>>

\* Mutant: the window of an incremental AtCoder crawl is a second short.
MutShortWindow(all) ==
    /\ crawl.pc = "idle"
    /\ crawl' = [NoCrawl EXCEPT !.pc = "page", !.all = all, !.start = Len(made), !.since = cnow,
                                !.from = IF cplat = "AtCoder" /\ ~all THEN cnow - RecentWindow + 1 ELSE 0]
    /\ UNCHANGED <<cplat, made, cnow, rowsKept, covered, conRow, conFull>>

\* FetchSubmitLog, up to the first request.
StartCrawl(all) ==
    /\ crawl.pc = "idle"
    /\ crawl' = [NoCrawl EXCEPT !.pc = "page", !.all = all, !.start = Len(made), !.since = cnow,
                                !.from = IF cplat = "AtCoder" /\ ~all THEN cnow - RecentWindow ELSE 0]
    /\ UNCHANGED <<cplat, made, cnow, rowsKept, covered, conRow, conFull>>

\* What a crawl is after a page of the given rows: another page, the other list, done.
After(rows, more, pages) ==
    crawl' = [crawl EXCEPT !.got = @ \cup ToSet(rows), !.page = @ + 1, !.tries = 1, !.pages = pages,
                           !.pc = IF more THEN "page" ELSE "fetched"]

\* A crawl that failed writes no submissions; the contests are fetched all the same.
Abandoned == [crawl EXCEPT !.pc = "contest", !.got = {}]

\* The answer to one request of fetchCodeforcesPageOnce: count rows after an offset.
CodeForcesRows(from) == SubSeq(Listed(1), from + 1, Min({from + CrawlPage, Len(Listed(1))}))

\* NewCodeforces.FetchSubmitLog: the pages are taken by offset until one is not full;
\* fetchCodeforcesPage makes up to five attempts at a page, for errors that may pass.
CodeForcesPage ==
    LET rows == CodeForcesRows(crawl.from)
    IN  crawl' = [crawl EXCEPT !.got = @ \cup ToSet(rows), !.from = @ + Len(rows), !.tries = 1,
                               !.pc = IF crawl.all /\ Len(rows) = CrawlPage THEN "page" ELSE "fetched"]
CodeForcesRetries ==
    /\ crawl.tries < MaxPageAttempts
    /\ crawl' = [crawl EXCEPT !.tries = @ + 1]

\* NewLuoGu.FetchSubmitLog: the first page says how many there are.
LuoGuPage ==
    LET rows == PageOf(1, crawl.page)
        pages == IF crawl.page = 1 THEN PageCount(1) ELSE crawl.pages
    IN  After(rows, crawl.all /\ crawl.page < pages /\ rows # <<>>, pages)

\* NewQOJ.FetchSubmitLog: a page links to the next one.
QOJPage ==
    LET rows == PageOf(1, crawl.page)
    IN  After(rows, crawl.all /\ rows # <<>> /\ crawl.page < PageCount(1), 0)

\* NewNowCoder.FetchSubmitLog: the practice list, whose length may be missing on the
\* page (then an empty page is the end), and after it the training list.
PracticePage ==
    LET rows == PageOf(1, crawl.page)
        first == crawl.page = 1
        counted == {PageCount(1), IF Len(rows) = CrawlPage THEN MaxSubs + 1 ELSE 0}
    IN  \E pages \in IF first THEN counted ELSE {crawl.pages} :
          IF crawl.all /\ crawl.page < pages /\ (first \/ rows # <<>>) THEN After(rows, TRUE, pages)
          ELSE crawl' = [crawl EXCEPT !.got = @ \cup ToSet(rows), !.list = 2, !.page = 1]

\* fetchSub: the training list, of which an incremental crawl takes 150 rows, three
\* pages.  The account is a number: for another name the list is not asked.
fetchSub ==
    LET rows == PageOf(2, crawl.page)
        first == crawl.page = 1
        pages == IF first THEN PageCount(2) ELSE crawl.pages
        room == crawl.all \/ crawl.page < 3
    IN  After(rows, room /\ crawl.page < pages /\ (first \/ rows # <<>>), pages)

NowCoderPage == IF crawl.list = 1 THEN PracticePage ELSE fetchSub

\* fetchAtCoderRows: rows from a second on, oldest first; the next page starts at the
\* last second seen, and what was seen is skipped.
AtCoderRows(from) ==
    LET all == SelectSeq([k \in 1..Len(made) |-> k], LAMBDA i : made[i].t >= from)
    IN  SubSeq(all, 1, Min({CrawlPage, Len(all)}))
AtCoderPage ==
    LET rows == AtCoderRows(crawl.from)
        last == Max({crawl.from} \cup {made[i].t : i \in ToSet(rows)})
        stop == rows = <<>> \/ ~crawl.all \/ Len(rows) < CrawlPage
    IN  crawl' = IF ~stop /\ (ToSet(rows) \subseteq crawl.got \/ last <= crawl.from) THEN Abandoned
                 ELSE [crawl EXCEPT !.got = @ \cup ToSet(rows), !.from = last, !.pc = IF stop THEN "fetched" ELSE "page"]

FetchPage ==
    /\ crawl.pc = "page"
    /\ CASE cplat = "CodeForces" -> CodeForcesPage
         [] cplat = "LuoGu" -> LuoGuPage
         [] cplat = "QOJ" -> QOJPage
         [] cplat = "NowCoder" -> NowCoderPage
         [] OTHER -> AtCoderPage
    /\ UNCHANGED <<cplat, made, cnow, rowsKept, covered, conRow, conFull>>
PageFails ==
    /\ crawl.pc = "page"
    /\ \/ crawl' = Abandoned
       \/ cplat = "CodeForces" /\ CodeForcesRetries
    /\ UNCHANGED <<cplat, made, cnow, rowsKept, covered, conRow, conFull>>

\* normalizeFetchedSubmitLogs: rows [id, zero, st]; one without an id or a time is
\* skipped, a later row of an id takes the place of the earlier one, and only such
\* rows are an error.
NormalizeStep(out, r) ==
    LET k == SelectInSeq(out, LAMBDA x : x.id = r.id)
    IN  IF r.id = "" \/ r.zero THEN out ELSE IF k = 0 THEN Append(out, r) ELSE [out EXCEPT ![k] = r]
normalizeFetchedSubmitLogs(fetched) ==
    LET rows == FoldLeft(NormalizeStep, <<>>, fetched)
    IN  [rows |-> rows, skipped |-> Len(fetched) - Len(rows), err |-> fetched # <<>> /\ rows = <<>>]

\* rejectIncompleteFullFetch
rejectIncompleteFullFetch(fetched, existing, needAll) == needAll /\ existing > 0 /\ fetched < existing

\* fetchAndSave: a full crawl replaces the rows unless it found fewer.
fetchAndSave ==
    /\ crawl.pc = "fetched"
    /\ crawl' = [crawl EXCEPT !.pc = "contest"]
    /\ IF rejectIncompleteFullFetch(Cardinality(crawl.got), Cardinality(rowsKept), crawl.all) THEN UNCHANGED <<rowsKept, covered>>
       ELSE /\ rowsKept' = IF crawl.all THEN crawl.got ELSE rowsKept \cup crawl.got
            /\ covered' = [n |-> crawl.start, t |-> crawl.since]
    /\ UNCHANGED <<cplat, made, cnow, conRow, conFull>>

\* FetchContestLog, the rows it may come to, as the submissions they count.  AtCoder's
\* are made of the submissions it fetched: those within the contest when
\* fetchAtCoderContestMeta could read the contest's page, otherwise all of them.
AtCoderMeta(ids) == {InTheContest(ids), ids}
AtCoderContest(all) ==
    AtCoderMeta(IF all THEN 1..Len(made) ELSE ToSet(AtCoderRows(cnow - RecentWindow)))
\* CodeForces and NowCoder have counts of their own, NowCoder of contests that are over.
CodeForcesContest == {InTheContest(1..Len(made))}
NowCoderContest == IF cnow >= ContestStop THEN {InTheContest(1..Len(made))} ELSE {{}}

\* LuoGu and QOJ have no contests.
ContestRowsOf(all) ==
    CASE cplat = "AtCoder" -> AtCoderContest(all)
      [] cplat = "CodeForces" -> CodeForcesContest
      [] cplat = "NowCoder" -> NowCoderContest
      [] OTHER -> {{}}

\* The CodeForces rows bear the name "Codeforces", and are not deleted.
DeletedByName(p) == p # "CodeForces"

\* fetchAndSaveContest: a row that exists stays as it is.
fetchAndSaveContest ==
    /\ crawl.pc = "contest" /\ crawl' = NoCrawl
    /\ \/ UNCHANGED <<conRow, conFull>>
       \/ \E row \in ContestRowsOf(crawl.all) \ {{}} :
             LET kept == IF crawl.all /\ DeletedByName(cplat) THEN {} ELSE conRow
             IN  /\ conRow' = (IF kept = {} THEN row ELSE kept)
                 /\ conFull' = IF crawl.all THEN InTheContest(1..Len(made)) ELSE conFull
    /\ UNCHANGED <<cplat, made, cnow, rowsKept, covered>>

CrawlNext ==
    \/ (\E l \in {1, 2} : UserSubmits(l)) \/ CrawlTick
    \/ (\E all \in BOOLEAN : StartCrawl(all)) \/ FetchPage \/ PageFails
    \/ fetchAndSave \/ fetchAndSaveContest

-----------------------------------------------------------------------------
(* The shared client of LuoGu and QOJ: getClient.  Client 0 is none; the session of *)
(* a client lives until the platform ends it.                                     *)

VARIABLES splat,      \* "LuoGu" or "QOJ"
          sclient,    \* lg.client, q.client
          sold,       \* "yes" when lastUsed is 30 minutes ago
          live,       \* the clients whose session lives
          slock,      \* who holds mu for writing, or "free"
          spc, held,  \* per crawl: where it is; the client it read or returns
          checked,    \* history, per crawl: the client for which isSessionValid was true, or that logged in
          replaced    \* history, per crawl: "yes" when the client changed before it was checked
sessVars == <<splat, sclient, sold, live, slock, spc, held, checked, replaced>>

SessInit ==
    /\ splat \in {"LuoGu", "QOJ"} /\ sclient = 0 /\ sold = "no" /\ live = {} /\ slock = "free"
    /\ spc = [u \in SessionUsers |-> "idle"] /\ held = [u \in SessionUsers |-> 0]
    /\ checked = [u \in SessionUsers |-> 0] /\ replaced = [u \in SessionUsers |-> "no"]

\* Under RLock: the client and its age.
ReadClient(u) ==
    /\ spc[u] = "idle" /\ slock = "free"
    /\ spc' = [spc EXCEPT ![u] = IF sclient # 0 /\ sold = "no" THEN "validate" ELSE "wait"]
    /\ held' = [held EXCEPT ![u] = sclient] /\ checked' = [checked EXCEPT ![u] = 0]
    /\ replaced' = [replaced EXCEPT ![u] = "no"]
    /\ UNCHANGED <<splat, sclient, sold, live, slock>>

\* isSessionValid: QOJ's page tells a session that ended; LuoGu's client follows the
\* redirect to the login page, and the status it looks for does not show.
isSessionValid(c) == c # 0 /\ (splat = "LuoGu" \/ c \in live)

\* Without a lock, with the client that is current now; the request may fail.
Validate(u) ==
    /\ spc[u] = "validate"
    /\ \/ /\ isSessionValid(sclient)
          /\ spc' = [spc EXCEPT ![u] = "got"] /\ checked' = [checked EXCEPT ![u] = sclient]
       \/ spc' = [spc EXCEPT ![u] = "wait"] /\ UNCHANGED checked
    /\ UNCHANGED <<splat, sclient, sold, live, slock, held, replaced>>

LockSession(u) ==
    /\ spc[u] = "wait" /\ slock = "free"
    /\ slock' = u /\ spc' = [spc EXCEPT ![u] = "recheck"]
    /\ UNCHANGED <<splat, sclient, sold, live, held, checked, replaced>>

\* The check again, under the lock.
Recheck(u) ==
    /\ spc[u] = "recheck"
    /\ \/ /\ sold = "no" /\ isSessionValid(sclient)
          /\ spc' = [spc EXCEPT ![u] = "got"] /\ slock' = "free"
          /\ held' = [held EXCEPT ![u] = sclient] /\ checked' = [checked EXCEPT ![u] = sclient]
       \/ spc' = [spc EXCEPT ![u] = "login"] /\ UNCHANGED <<slock, held, checked>>
    /\ UNCHANGED <<splat, sclient, sold, live, replaced>>

\* login: 20 attempts, each with a captcha; an error of the network ends it.
Login(u) ==
    /\ spc[u] = "login" /\ slock' = "free" /\ UNCHANGED splat
    /\ \/ /\ sclient < MaxLogins
          /\ sclient' = sclient + 1 /\ sold' = "no" /\ live' = live \cup {sclient + 1}
          /\ spc' = [spc EXCEPT ![u] = "got"] /\ held' = [held EXCEPT ![u] = sclient + 1]
          /\ checked' = [checked EXCEPT ![u] = sclient + 1]
          /\ replaced' = [v \in SessionUsers |-> IF spc[v] = "validate" THEN "yes" ELSE replaced[v]]
       \/ spc' = [spc EXCEPT ![u] = "idle"] /\ UNCHANGED <<sclient, sold, live, held, checked, replaced>>

CrawlEnds(u) ==
    /\ spc[u] = "got" /\ spc' = [spc EXCEPT ![u] = "idle"]
    /\ UNCHANGED <<splat, sclient, sold, live, slock, held, checked, replaced>>
\* The platform ends a session; a client counts as old.
SessionEnds(c) ==
    /\ c \in live /\ live' = live \ {c}
    /\ UNCHANGED <<splat, sclient, sold, slock, spc, held, checked, replaced>>
HalfHour == sclient # 0 /\ sold' = "yes" /\ UNCHANGED <<splat, sclient, live, slock, spc, held, checked, replaced>>

SessNext ==
    \/ \E u \in SessionUsers : ReadClient(u) \/ Validate(u) \/ LockSession(u) \/ Recheck(u) \/ Login(u) \/ CrawlEnds(u)
    \/ (\E c \in live : SessionEnds(c)) \/ HalfHour

-----------------------------------------------------------------------------
(* Verdicts.  A verdict is [whole, parts]: the string and the substrings of it that  *)
(* the rules below look for.                                                       *)

Verdict(whole, parts) == [whole |-> whole, parts |-> parts]

normalizeLuoGuStatus(code) ==
    CASE code = 12 -> Verdict("AC", {"AC"}) [] code = 2 -> Verdict("CE", {}) [] code = 5 -> Verdict("TLE", {})
      [] code \in {6, 11, 14} -> Verdict("WA", {}) [] code = 7 -> Verdict("RE", {}) [] code \in {0, 1} -> Verdict("UNKNOWN", {})
      [] code = 3 -> Verdict("OLE", {}) [] code = 4 -> Verdict("MLE", {}) [] OTHER -> Verdict("LuoGu:n", {})

\* A QOJ status is [tick, head, parts, whole]: "100 ..." or a tick is accepted, then the
\* beginning or a part decides.
normalizeQOJStatus(r) ==
    CASE r.tick \/ r.head \in {"100", "AC"} -> Verdict("AC", {"AC"})
      [] r.head = "CE" \/ "COMPILE" \in r.parts -> Verdict("CE", {})
      [] r.head \in {"TLE", "TL"} \/ "TIME LIMIT" \in r.parts -> Verdict("TLE", {})
      [] r.head = "WA" \/ "WRONG" \in r.parts -> Verdict("WA", {})
      [] r.head = "RE" \/ "RUNTIME" \in r.parts -> Verdict("RE", {})
      [] r.head \in {"MLE", "ML"} \/ "MEMORY" \in r.parts -> Verdict("MLE", {})
      [] r.whole = "0" -> Verdict("WA", {})
      [] r.whole = "" -> Verdict("UNKNOWN", {})
      [] OTHER -> Verdict(r.whole, r.parts)

\* acCondition of the queries, and IsAcceptedStatus.
acCondition(v) == v.parts \cap {"AC", "OK", "correct"} # {}
IsAcceptedStatus(v) == v.whole \in {"AC", "OK"} \/ v.parts \cap {"ACCEPTED", "correct"} # {}

-----------------------------------------------------------------------------
CrawlTypeOK ==
    /\ cplat \in CrawlPlatforms /\ Len(made) <= MaxSubs /\ cnow \in 1..MaxCrawlClock
    /\ crawl.pc \in {"idle", "page", "fetched", "contest"} /\ crawl.tries \in 1..MaxPageAttempts
    /\ rowsKept \subseteq 1..Len(made) /\ conRow \subseteq 1..Len(made)
    /\ slock \in SessionUsers \cup {"free"} /\ \A u \in SessionUsers : spc[u] \in {"recheck", "login"} <=> slock = u

\* A full crawl that succeeds brings every submission that existed when it began,
\* although the user goes on submitting.  Where the first page fixes the number of
\* pages (LuoGu, NowCoder), each submission made meanwhile may push one off the last
\* page (luogu.go:258-259, nowcoder.go:253-265).
FullCrawlComplete ==
    crawl.pc = "fetched" /\ crawl.all =>
        LET missing == 1..crawl.start \ crawl.got
        IN  IF cplat \in {"LuoGu", "NowCoder"} THEN Cardinality(missing) <= Len(made) - crawl.start
            ELSE missing = {}

\* Incremental crawls keep up: when the rows were complete up to the last crawl that
\* was written, and since then no list has grown by more than a page (AtCoder: no more
\* than an hour has passed and the hour fits a page), they are complete up to this one.
Since(n, l) == Cardinality({i \in (n + 1)..Len(made) : made[i].list = l})
Fits ==
    IF cplat = "AtCoder"
    THEN crawl.since - covered.t <= RecentWindow /\ Cardinality({i \in 1..Len(made) : made[i].t >= crawl.since - RecentWindow}) <= CrawlPage
    ELSE \A l \in {1, 2} : Since(covered.n, l) <= CrawlPage
IncrementsKeepUp ==
    crawl.pc = "fetched" /\ ~crawl.all /\ Fits /\ 1..covered.n \subseteq rowsKept =>
        1..crawl.start \subseteq rowsKept \cup crawl.got

\* An incremental crawl, or a full one that finds less than there is, never removes a
\* submission from the table (biz/service/spider.go:143-176).
RowsStay == [][rowsKept \subseteq rowsKept' \/ (crawl.all /\ Cardinality(rowsKept') >= Cardinality(rowsKept))]_crawlVars

\* Once a full crawl has written a contest's row, the row counts all submissions that
\* had been made in it.  Not for CodeForces, whose rows are stored under another name
\* (codeforces.go:290) than the one they are deleted under (biz/service/spider.go:211),
\* so that the first row stays for ever.
ContestRowComplete == cplat # "CodeForces" => conFull \subseteq conRow

\* getClient returns a client for which isSessionValid was true, unless another crawl
\* replaced the client in the meantime: isSessionValid asks with the new one and the
\* old one is returned (luogu.go:199-206, qoj.go:161-168).
ClientWasChecked == \A u \in SessionUsers : spc[u] = "got" /\ replaced[u] = "no" => checked[u] = held[u]

\* What is written has each submission once, with the status it has last in the fetched
\* pages: a row that moved to the next page during the crawl is fetched twice, and the
\* insert of one statement may not touch a row twice (spider_normalize.go:29-33).
NormalizedIsLatest(fetched) ==
    LET rows == normalizeFetchedSubmitLogs(fetched).rows
        sound == {k \in 1..Len(fetched) : fetched[k].id # "" /\ ~fetched[k].zero}
    IN  /\ IsInjective([k \in 1..Len(rows) |-> rows[k].id])
        /\ ToSet(rows) = {fetched[k] : k \in {j \in sound : \A n \in sound : n > j => fetched[n].id # fetched[j].id}}

\* The statistics' SQL condition and the contest table's rule take the same verdicts of
\* a platform for accepted, and they are the accepted ones (statistic.go:101,
\* statistic_rules.go:8-14).
VerdictsAgree(v, accepted) == (acCondition(v) <=> accepted) /\ (IsAcceptedStatus(v) <=> accepted)

\* What a crawl brings, in full and in part, with the client it asks with
\* (luogu.go:199-330, qoj.go:161-290, atcoder.go:130-220, nowcoder.go:240-330).
CrawlsAreComplete == CrawlTypeOK /\ FullCrawlComplete /\ IncrementsKeepUp /\ ContestRowComplete /\ ClientWasChecked
=============================================================================
