-------------------------- MODULE RefreshDeskProofs --------------------------
(* The desk for refresh requests, for any number of requests, jobs and handles: a *)
(* name that was bound anew is fetched anew, and the requests of a user are spaced. *)
EXTENDS RefreshDesk, TLAPS

-----------------------------------------------------------------------------
(* The invariant *)

DeskStates ==
    [pc : {"idle", "recent", "load", "store", "allow", "existing", "same", "forget", "unbind", "save", "find", "create"},
     op : {Absent, "update", "bind", "cron"}, handle : Handles \cup {Absent}, mine : 0..MaxCallers, over : {"yes", "no"}]
JobStates ==
    [pc : {Absent, "queued", "look", "mark", "crawl", "done"}, full : {"yes", "no"}, cur : {Absent, "CodeForces"},
     handle : Handles \cup {Absent}, looked : Nat]
DeskTypes ==
    /\ deskNow \in Nat /\ asked \in 0..MaxCallers /\ outages \in Nat
    /\ limiterOf \in [LimiterKeys -> 0..MaxCallers] /\ allowedAt \in [1..MaxCallers -> Int]
    /\ boundTo \in Handles \cup {Absent} /\ startedAt \in Never..deskNow
    /\ djob \in [DeskJobs -> JobStates] /\ desk \in [Desks -> DeskStates]
    /\ lastGrant \in [LimiterKeys -> [at : Int, n : Nat]]
    /\ starts \in Nat /\ crawled \in [Handles -> Never..deskNow] /\ forgot \in SUBSET Handles
    /\ owed \in {"no", "yes", "excused", "lost"}

\* What a request q is at a step, and the account of a job at work.
PlaceOf(q) ==
    /\ q.pc = "idle" <=> q.op = Absent
    /\ q.pc \in {"recent", "load", "store", "allow"} => q.op \in {"update", "bind"}
    /\ q.pc \in {"existing", "same", "forget", "unbind", "save"} => q.op = "bind"
    /\ q.op = "bind" => q.handle \in Handles
PlaceInv ==
    /\ \A d \in Desks : PlaceOf(desk[d])
    /\ \A j \in DeskJobs : djob[j].pc \in {"look", "mark", "crawl"} => djob[j].handle \in Handles

\* A request that may store a limiter has one that nobody knows and that has let nobody
\* through; one that asks has the limiter of its key.  The limiter of a key remembers
\* the last grant under that key.
Fresh(q) == q.pc \in {"recent", "load", "store"}
KeyFor(q) == IF q.op = "bind" THEN "bind" ELSE "update"
FreshInv ==
    \A d \in Desks : Fresh(desk[d]) =>
       /\ desk[d].mine \in 1..asked /\ allowedAt[desk[d].mine] = Never
       /\ \A k \in LimiterKeys : limiterOf[k] # desk[d].mine
       /\ \A e \in Desks : Fresh(desk[e]) /\ e # d => desk[e].mine # desk[d].mine
AllowInv == \A d \in Desks : desk[d].pc = "allow" => limiterOf[KeyFor(desk[d])] # 0 /\ desk[d].mine = limiterOf[KeyFor(desk[d])]
GrantInv ==
    /\ \A n \in 1..MaxCallers : n > asked => allowedAt[n] = Never
    /\ \A k \in LimiterKeys :
          /\ limiterOf[k] <= asked
          /\ limiterOf[k] = 0 => lastGrant[k].at = Never
          /\ limiterOf[k] # 0 => allowedAt[limiterOf[k]] = lastGrant[k].at
    /\ limiterOf["update"] = limiterOf["bind"] => limiterOf["bind"] = 0
LimiterInv == FreshInv /\ AllowInv /\ GrantInv

\* The recorded start is the latest of those a rebinding has not erased, and a worker
\* that has looked last has seen no recent one.
StillRecent == platformRefreshStartedWithin(Cooldown)
StartsInv ==
    /\ \A h \in Handles : crawled[h] # Never /\ h \notin forgot => startedAt # Never /\ crawled[h] <= startedAt
    /\ \A j \in DeskJobs : djob[j].pc = "mark" => djob[j].looked <= starts /\ (djob[j].looked = starts => ~StillRecent)

\* Who will crawl the account that was bound last: a binding that is still being
\* changed, a crawl of that account, or, while no start holds it off, the binding that
\* is about to ask for a job, a job that has yet to read the binding, or one that has.
Changing(q) == q.pc \in {"forget", "unbind", "save"}
Asking(q) == q.op = "bind" /\ q.pc \in {"find", "create"}
OnItsWay ==
    \/ \E d \in Desks : Asking(desk[d])
    \/ \E j \in DeskJobs : djob[j].pc = "queued"
    \/ \E j \in DeskJobs : djob[j].pc \in {"look", "mark"} /\ djob[j].handle = boundTo
NeverBound == owed = "no" /\ startedAt = Never /\ \A j \in DeskJobs : djob[j].pc \in {Absent, "queued", "done"}
Unheld == \A d \in Desks : desk[d].pc \in {"unbind", "save"} /\ desk[d].over = "no" => ~StillRecent
Unbound == boundTo = Absent => (\E d \in Desks : desk[d].pc = "save") \/ owed = "lost" \/ NeverBound
Owing ==
    owed = "yes" =>
       \/ \E d \in Desks : Changing(desk[d])
       \/ \E j \in DeskJobs : djob[j].pc = "crawl" /\ djob[j].handle = boundTo
       \/ boundTo # Absent /\ ~StillRecent /\ OnItsWay
OwedInv == Unheld /\ Unbound /\ Owing

DeskInv == DeskTypes /\ PlaceInv /\ LimiterInv /\ StartsInv /\ OwedInv

-----------------------------------------------------------------------------
\* The invariant holds when the service starts.
LEMMA InitDeskInv == DeskInit => DeskInv
<1> SUFFICES ASSUME DeskInit PROVE DeskInv
    BY Zenon
<1>1. AtRest \in DeskStates /\ NoJob \in JobStates
    BY DeskConstants DEF AtRest, NoJob, DeskStates, JobStates
<1>2. DeskTypes
    BY <1>1, DeskConstants DEF DeskInit, DeskTypes, Never
<1>3. \A d \in Desks : desk[d] = AtRest /\ AtRest.pc = "idle" /\ AtRest.op = Absent
    BY Zenon DEF DeskInit, AtRest
<1>4. \A j \in DeskJobs : djob[j] = NoJob /\ NoJob.pc = Absent
    BY Zenon DEF DeskInit, NoJob
<1>5. PlaceInv
    BY <1>3, <1>4, Zenon DEF PlaceInv, PlaceOf, Absent
<1>6. LimiterInv
  <2>1. FreshInv /\ AllowInv
    BY <1>3, Zenon DEF FreshInv, AllowInv, Fresh
  <2> QED BY <2>1 DEF DeskInit, LimiterInv, GrantInv, LimiterKeys
<1>7. StartsInv
    BY <1>4, Zenon DEF DeskInit, StartsInv, Absent
<1>8. OwedInv
    BY <1>3, <1>4, Zenon DEF DeskInit, OwedInv, Unheld, Unbound, NeverBound, Owing
<1> QED BY <1>2, <1>5, <1>6, <1>7, <1>8, Zenon DEF DeskInv

-----------------------------------------------------------------------------
(* Requests: request d becomes q *)

\* The request keeps its place and type.
LEMMA MovePlaces ==
    ASSUME DeskTypes, PlaceInv, NEW d \in Desks, NEW q \in DeskStates, PlaceOf(q), desk' = [desk EXCEPT ![d] = q]
    PROVE  /\ desk' \in [Desks -> DeskStates] /\ \A e \in Desks : PlaceOf(desk'[e])
           /\ desk'[d] = q /\ \A e \in Desks : e # d => desk'[e] = desk[e]
<1>1. /\ desk' \in [Desks -> DeskStates]
      /\ desk'[d] = q /\ \A e \in Desks : e # d => desk'[e] = desk[e]
    BY Zenon DEF DeskTypes
<1>2. \A e \in Desks : PlaceOf(desk'[e])
    BY <1>1, Zenon DEF PlaceInv
<1> QED BY <1>1, <1>2, Zenon

\* A request that touches no limiter: it keeps the one it made, or has found its key's.
LEMMA MoveLimiters ==
    ASSUME LimiterInv, NEW d \in Desks, NEW q, desk'[d] = q, \A e \in Desks : e # d => desk'[e] = desk[e],
           UNCHANGED <<asked, limiterOf, allowedAt, lastGrant>>,
           Fresh(q) => Fresh(desk[d]) /\ q.mine = desk[d].mine,
           q.pc = "allow" => limiterOf[KeyFor(q)] # 0 /\ q.mine = limiterOf[KeyFor(q)]
    PROVE  LimiterInv'
<1>1. FreshInv'
    BY DEF LimiterInv, FreshInv
<1>2. AllowInv'
    BY Zenon DEF LimiterInv, AllowInv
<1>3. GrantInv'
    BY Zenon DEF LimiterInv, GrantInv
<1> QED BY <1>1, <1>2, <1>3, Zenon DEF LimiterInv

\* A request that was not changing the binding; nothing holds it off when it is about to.
LEMMA MoveOwed ==
    ASSUME OwedInv, NEW d \in Desks, NEW q, desk'[d] = q, \A e \in Desks : e # d => desk'[e] = desk[e],
           UNCHANGED <<deskNow, boundTo, startedAt, owed, djob>>,
           ~Changing(desk[d]), desk[d].pc \notin {"find", "create"}, q.pc \in {"unbind", "save"} /\ q.over = "no" => ~StillRecent
    PROVE  OwedInv'
<1>1. StillRecent' = StillRecent
    BY Zenon DEF StillRecent, platformRefreshStartedWithin
<1>2. Unheld'
    BY <1>1, Zenon DEF OwedInv, Unheld
<1>3. (\E e \in Desks : desk[e].pc = "save") => \E e \in Desks : desk'[e].pc = "save"
    BY Zenon DEF Changing
<1>4. Unbound'
    BY <1>3, Zenon DEF OwedInv, Unbound, NeverBound
<1>5. (\E e \in Desks : Changing(desk[e])) => \E e \in Desks : Changing(desk'[e])
    BY Zenon
<1>6. OnItsWay => OnItsWay'
    BY Zenon DEF OnItsWay, Asking
<1>7. Owing'
    BY <1>1, <1>5, <1>6, Zenon DEF OwedInv, Owing
<1> QED BY <1>2, <1>4, <1>7, Zenon DEF OwedInv

\* Requests leave what was started alone.
LEMMA MoveStarts ==
    ASSUME StartsInv, UNCHANGED <<deskNow, startedAt, djob, starts, crawled, forgot>> PROVE StartsInv'
BY Zenon DEF StartsInv, StillRecent, platformRefreshStartedWithin

\* A step that changes only a request, which is not changing the binding.
LEMMA QuietMove ==
    ASSUME DeskInv, NEW d \in Desks, NEW q \in DeskStates, PlaceOf(q), desk' = [desk EXCEPT ![d] = q],
           UNCHANGED <<deskNow, outages, asked, limiterOf, allowedAt, boundTo, startedAt, djob, lastGrant, starts, crawled, forgot, owed>>,
           Fresh(q) => Fresh(desk[d]) /\ q.mine = desk[d].mine,
           q.pc = "allow" => limiterOf[KeyFor(q)] # 0 /\ q.mine = limiterOf[KeyFor(q)],
           ~Changing(desk[d]), desk[d].pc \notin {"find", "create"}, q.pc \in {"unbind", "save"} /\ q.over = "no" => ~StillRecent
    PROVE  DeskInv'
<1>1. /\ desk' \in [Desks -> DeskStates] /\ \A e \in Desks : PlaceOf(desk'[e])
      /\ desk'[d] = q /\ \A e \in Desks : e # d => desk'[e] = desk[e]
    BY MovePlaces, Zenon DEF DeskInv
<1>2. DeskTypes'
    BY <1>1, Zenon DEF DeskInv, DeskTypes
<1>3. PlaceInv'
    BY <1>1, Zenon DEF DeskInv, PlaceInv
<1>4. LimiterInv'
    BY <1>1, MoveLimiters, Zenon DEF DeskInv
<1>5. OwedInv'
    BY <1>1, MoveOwed, Zenon DEF DeskInv
<1> QED BY <1>2, <1>3, <1>4, <1>5, MoveStarts, Zenon DEF DeskInv

\* A request at rest is where it may be.
LEMMA RestPlace == AtRest \in DeskStates /\ PlaceOf(AtRest) /\ AtRest.pc = "idle" /\ AtRest.op = Absent
BY DeskConstants DEF AtRest, DeskStates, PlaceOf, Absent

\* A caller that finds a recent job is answered with it.
LEMMA RecentInv == ASSUME DeskInv, NEW d \in Desks, Recent(d) PROVE DeskInv'
<1> DEFINE q == [desk[d] EXCEPT !.pc = "load"]
<1>1. desk[d] \in DeskStates /\ PlaceOf(desk[d]) /\ desk[d].pc = "recent"
    BY Zenon DEF DeskInv, DeskTypes, PlaceInv, Recent
<1>2. q \in DeskStates /\ q.pc = "load" /\ q.op = desk[d].op /\ q.handle = desk[d].handle /\ q.mine = desk[d].mine
    BY <1>1, Zenon DEF DeskStates
<1>3. PlaceOf(q)
    BY <1>1, <1>2, Zenon DEF PlaceOf
<1>4. UNCHANGED <<deskNow, outages, asked, limiterOf, allowedAt, boundTo, startedAt, djob, lastGrant, starts, crawled, forgot, owed>>
    BY Zenon DEF Recent, clockVars, limitVars, storeVars, crawlHist
<1>5. CASE desk' = [desk EXCEPT ![d] = q]
    BY <1>1, <1>2, <1>3, <1>4, <1>5, QuietMove, Zenon DEF Fresh, Changing
<1>6. CASE desk' = [desk EXCEPT ![d] = AtRest]
    BY <1>1, <1>4, <1>6, RestPlace, QuietMove, Zenon DEF Fresh, Changing
<1> QED BY <1>5, <1>6, Zenon DEF Recent, Answer, DeskStep

\* The limiter's entry is read before anything is decided.
LEMMA LoadLimiterInv == ASSUME DeskInv, NEW d \in Desks, LoadLimiter(d) PROVE DeskInv'
<1> DEFINE q == [desk[d] EXCEPT !.pc = "store"]
           l == limiterOf[KeyOf(d)]
           m == [desk[d] EXCEPT !.pc = "allow", !.mine = l]
<1>1. desk[d] \in DeskStates /\ PlaceOf(desk[d]) /\ desk[d].pc = "load"
    BY Zenon DEF DeskInv, DeskTypes, PlaceInv, LoadLimiter
<1>2. q \in DeskStates /\ q.pc = "store" /\ q.op = desk[d].op /\ q.handle = desk[d].handle /\ q.mine = desk[d].mine
    BY <1>1, Zenon DEF DeskStates
<1>3. l \in 0..MaxCallers
    BY Zenon DEF DeskInv, DeskTypes, KeyOf, LimiterKeys
<1>4. m \in DeskStates /\ m.pc = "allow" /\ m.op = desk[d].op /\ m.handle = desk[d].handle /\ m.mine = l
    BY <1>1, <1>3, Zenon DEF DeskStates
<1>5. PlaceOf(q) /\ PlaceOf(m)
    BY <1>1, <1>2, <1>4, Zenon DEF PlaceOf
<1>6. KeyFor(m) = KeyOf(d)
    BY <1>4, Zenon DEF KeyFor, KeyOf
<1>7. UNCHANGED <<deskNow, outages, asked, limiterOf, allowedAt, boundTo, startedAt, djob, lastGrant, starts, crawled, forgot, owed>>
    BY Zenon DEF LoadLimiter, clockVars, limitVars, storeVars, crawlHist
<1>8. CASE l = 0
  <2>1. desk' = [desk EXCEPT ![d] = q]
    BY <1>8, Zenon DEF LoadLimiter, DeskStep
  <2> QED BY <1>1, <1>2, <1>5, <1>7, <2>1, QuietMove, Zenon DEF Fresh, Changing
<1>9. CASE l # 0
  <2>1. desk' = [desk EXCEPT ![d] = m]
    BY <1>9, Zenon DEF LoadLimiter, DeskTypes, DeskInv
  <2> QED BY <1>1, <1>4, <1>5, <1>6, <1>7, <1>9, <2>1, QuietMove, Zenon DEF Fresh, Changing
<1> QED BY <1>8, <1>9, Zenon
\* A limiter becomes its key's, or the request takes the one that is.
LEMMA LoadOrStoreInv == ASSUME DeskInv, NEW d \in Desks, LoadOrStore(d) PROVE DeskInv'
<1> DEFINE k == KeyOf(d)
           l == IF limiterOf[k] # 0 THEN limiterOf[k] ELSE desk[d].mine
           q == [desk[d] EXCEPT !.pc = "allow", !.mine = l]
<1>1. desk[d] \in DeskStates /\ PlaceOf(desk[d]) /\ desk[d].pc = "store" /\ k \in LimiterKeys
    BY Zenon DEF DeskInv, DeskTypes, PlaceInv, LoadOrStore, KeyOf, LimiterKeys
<1>2. l \in 0..MaxCallers
    BY <1>1, Zenon DEF DeskInv, DeskTypes, DeskStates
<1>3. q \in DeskStates /\ q.pc = "allow" /\ q.op = desk[d].op /\ q.handle = desk[d].handle /\ q.mine = l
    BY <1>1, <1>2, Zenon DEF DeskStates
<1>4. PlaceOf(q) /\ KeyFor(q) = k
    BY <1>1, <1>3, Zenon DEF PlaceOf, KeyFor, KeyOf
<1>5. /\ UNCHANGED <<deskNow, outages, asked, allowedAt, boundTo, startedAt, djob, lastGrant, starts, crawled, forgot, owed>>
      /\ limiterOf' = [limiterOf EXCEPT ![k] = l] /\ desk' = [desk EXCEPT ![d] = q]
    BY Zenon DEF LoadOrStore, clockVars, storeVars, crawlHist, DeskInv, DeskTypes
<1>6. /\ desk' \in [Desks -> DeskStates] /\ \A e \in Desks : PlaceOf(desk'[e])
      /\ desk'[d] = q /\ \A e \in Desks : e # d => desk'[e] = desk[e]
    BY <1>3, <1>4, <1>5, MovePlaces, Zenon DEF DeskInv
<1>7. limiterOf' \in [LimiterKeys -> 0..MaxCallers] /\ limiterOf'[k] = l /\ \A c \in LimiterKeys : c # k => limiterOf'[c] = limiterOf[c]
    BY <1>1, <1>2, <1>5, Zenon DEF DeskInv, DeskTypes
<1>8. DeskTypes'
    BY <1>5, <1>6, <1>7, Zenon DEF DeskInv, DeskTypes
<1>9. PlaceInv'
    BY <1>5, <1>6, Zenon DEF DeskInv, PlaceInv
<1>10. LimiterInv'
  <2>1. CASE limiterOf[k] # 0
    <3>1. limiterOf' = limiterOf
        BY <1>5, <2>1, Zenon DEF DeskInv, DeskTypes
    <3>2. ~Fresh(q) /\ limiterOf[KeyFor(q)] # 0 /\ q.mine = limiterOf[KeyFor(q)]
        BY <1>3, <1>4, <2>1, Zenon DEF Fresh
    <3> HIDE DEF q, l, k
    <3> QED BY <1>5, <1>6, <3>1, <3>2, MoveLimiters, Zenon DEF DeskInv
  <2>2. CASE limiterOf[k] = 0
    <3>0. /\ l = desk[d].mine /\ l \in 1..asked /\ allowedAt[l] = Never /\ Fresh(desk[d]) /\ ~Fresh(q)
          /\ \A c \in LimiterKeys : limiterOf[c] # l
        BY <1>1, <1>3, <2>2, Zenon DEF DeskInv, LimiterInv, FreshInv, Fresh
    <3>1. FreshInv'
        BY <1>5, <1>6, <1>7, <3>0 DEF DeskInv, LimiterInv, FreshInv
    <3>2. \A e \in Desks : e # d /\ desk[e].pc = "allow" => KeyFor(desk[e]) # k
        BY <2>2, Zenon DEF DeskInv, LimiterInv, AllowInv
    <3>3. \A e \in Desks : KeyFor(desk[e]) \in LimiterKeys
        BY Zenon DEF KeyFor, LimiterKeys
    <3>4. AllowInv'
      <4> HIDE DEF q, l, k
      <4>1. limiterOf'[KeyFor(q)] # 0 /\ q.mine = limiterOf'[KeyFor(q)]
        BY <1>3, <1>4, <1>7, <3>0
      <4>2. ASSUME NEW e \in Desks, e # d, desk[e].pc = "allow"
            PROVE  limiterOf'[KeyFor(desk[e])] # 0 /\ desk[e].mine = limiterOf'[KeyFor(desk[e])]
        BY <1>7, <3>2, <3>3, <4>2, Zenon DEF DeskInv, LimiterInv, AllowInv
      <4> QED BY <1>6, <4>1, <4>2, Zenon DEF AllowInv
    <3>5. GrantInv'
        BY <1>1, <1>5, <1>7, <2>2, <3>0, SMTT(30) DEF DeskInv, DeskTypes, LimiterInv, GrantInv, LimiterKeys
    <3> QED BY <3>1, <3>4, <3>5, Zenon DEF LimiterInv
  <2> QED BY <2>1, <2>2, Zenon
<1>11. OwedInv'
    BY <1>1, <1>3, <1>5, <1>6, MoveOwed, Zenon DEF DeskInv, Changing
<1> QED BY <1>5, <1>8, <1>9, <1>10, <1>11, MoveStarts, Zenon DEF DeskInv

\* A limiter refuses, or lets the request through and remembers when.
LEMMA AllowStepInv == ASSUME DeskInv, NEW d \in Desks, Allow(d) PROVE DeskInv'
<1> DEFINE k == KeyOf(d)
           l == desk[d].mine
           q == [desk[d] EXCEPT !.pc = IF k = "bind" THEN "existing" ELSE "find", !.mine = 0]
<1>1. desk[d] \in DeskStates /\ PlaceOf(desk[d]) /\ desk[d].pc = "allow" /\ k \in LimiterKeys /\ KeyFor(desk[d]) = k
    BY Zenon DEF DeskInv, DeskTypes, PlaceInv, Allow, KeyOf, KeyFor, LimiterKeys
<1>2. l = limiterOf[k] /\ l # 0 /\ l \in 1..MaxCallers /\ l <= asked
  <2>1. l = limiterOf[k] /\ l # 0
    BY <1>1, Zenon DEF DeskInv, LimiterInv, AllowInv
  <2>2. limiterOf[k] <= asked /\ limiterOf[k] \in 0..MaxCallers
    BY <1>1, Zenon DEF DeskInv, DeskTypes, LimiterInv, GrantInv
  <2> QED BY <2>1, <2>2, DeskConstants
<1>3. q \in DeskStates /\ q.pc \in {"existing", "find"} /\ q.op = desk[d].op /\ q.handle = desk[d].handle /\ (q.pc = "existing" => k = "bind")
  <2> DEFINE x == IF k = "bind" THEN "existing" ELSE "find"
  <2>1. x \in {"existing", "find"} /\ (x = "existing" => k = "bind")
    BY Zenon
  <2> HIDE DEF x
  <2>2. q = [desk[d] EXCEPT !.pc = x, !.mine = 0]
    BY Zenon DEF x
  <2>3. 0 \in 0..MaxCallers
    BY DeskConstants
  <2> HIDE DEF q, k
  <2> QED BY <1>1, <2>1, <2>2, <2>3, Zenon DEF DeskStates
<1>4. PlaceOf(q)
    BY <1>1, <1>3, Zenon DEF PlaceOf, KeyOf, Absent
<1>5. UNCHANGED <<deskNow, outages, asked, limiterOf, boundTo, startedAt, djob, starts, crawled, forgot, owed>>
    BY Zenon DEF Allow, clockVars, storeVars, crawlHist
<1>6. CASE desk' = [desk EXCEPT ![d] = AtRest] /\ UNCHANGED <<allowedAt, lastGrant>>
    BY <1>1, <1>5, <1>6, RestPlace, QuietMove, Zenon DEF Fresh, Changing
<1>7. CASE /\ desk' = [desk EXCEPT ![d] = q]
           /\ allowedAt' = [allowedAt EXCEPT ![l] = deskNow]
           /\ lastGrant' = [lastGrant EXCEPT ![k] = [at |-> deskNow, n |-> @.n + 1]]
  <2>1. /\ desk' \in [Desks -> DeskStates] /\ \A e \in Desks : PlaceOf(desk'[e])
        /\ desk'[d] = q /\ \A e \in Desks : e # d => desk'[e] = desk[e]
    BY <1>3, <1>4, <1>7, MovePlaces, Zenon DEF DeskInv
  <2>2. /\ allowedAt' \in [1..MaxCallers -> Int] /\ allowedAt'[l] = deskNow
        /\ \A n \in 1..MaxCallers : n # l => allowedAt'[n] = allowedAt[n]
    BY <1>2, <1>7 DEF DeskInv, DeskTypes
  <2>3. /\ lastGrant' \in [LimiterKeys -> [at : Int, n : Nat]] /\ lastGrant'[k].at = deskNow
        /\ \A c \in LimiterKeys : c # k => lastGrant'[c] = lastGrant[c]
    BY <1>1, <1>7, SMTT(30) DEF DeskInv, DeskTypes
  <2>4. DeskTypes'
    BY <1>5, <2>1, <2>2, <2>3, Zenon DEF DeskInv, DeskTypes
  <2>5. PlaceInv'
    BY <1>5, <2>1, Zenon DEF DeskInv, PlaceInv
  <2>6. FreshInv'
    <3>1. \A e \in Desks : Fresh(desk'[e]) => e # d /\ Fresh(desk[e]) /\ desk'[e] = desk[e] /\ desk[e].mine # l
      <4> HIDE DEF q
      <4>1. \A e \in Desks : Fresh(desk'[e]) => e # d
        BY <1>3, <2>1, Zenon DEF Fresh
      <4>2. \A e \in Desks : Fresh(desk[e]) => desk[e].mine # l
        BY <1>1, <1>2, Zenon DEF DeskInv, LimiterInv, FreshInv
      <4> QED BY <2>1, <4>1, <4>2, Zenon
    <3>2. \A e \in Desks : Fresh(desk'[e]) => allowedAt'[desk[e].mine] = allowedAt[desk[e].mine]
        BY <3>1, <2>2 DEF DeskInv, DeskTypes, DeskStates, LimiterInv, FreshInv
    <3> QED BY <1>5, <3>1, <3>2 DEF DeskInv, LimiterInv, FreshInv
  <2>7. AllowInv'
    BY <1>3, <1>5, <2>1, Zenon DEF DeskInv, LimiterInv, AllowInv
  <2>8. GrantInv'
    <3>1. \A n \in 1..MaxCallers : n > asked => allowedAt'[n] = Never
        BY <1>2, <2>2 DEF DeskInv, DeskTypes, LimiterInv, GrantInv
    <3>2. \A c \in LimiterKeys : c # k /\ limiterOf[c] # 0 => limiterOf[c] # l /\ limiterOf[c] \in 1..MaxCallers
        BY <1>1, <1>2 DEF DeskInv, DeskTypes, LimiterInv, GrantInv, LimiterKeys
    <3>3. \A c \in LimiterKeys : limiterOf[c] # 0 => allowedAt'[limiterOf[c]] = lastGrant'[c].at
        BY <1>2, <2>2, <2>3, <3>2, Zenon DEF DeskInv, LimiterInv, GrantInv
    <3>4. \A c \in LimiterKeys : limiterOf[c] = 0 => lastGrant'[c].at = Never
        BY <1>2, <2>3, Zenon DEF DeskInv, LimiterInv, GrantInv
    <3> QED BY <1>5, <3>1, <3>3, <3>4, Zenon DEF DeskInv, LimiterInv, GrantInv
  <2>9. OwedInv'
    BY <1>1, <1>3, <1>5, <2>1, MoveOwed, Zenon DEF DeskInv, Changing
  <2> QED BY <1>5, <2>4, <2>5, <2>6, <2>7, <2>8, <2>9, MoveStarts, Zenon DEF DeskInv, LimiterInv
<1> QED BY <1>6, <1>7, Zenon DEF Allow, Answer, DeskInv, DeskTypes

\* A request arrives, with a limiter of its own that nobody has used.
LEMMA CallInv ==
    ASSUME DeskInv, NEW d \in Desks, NEW o \in {"update", "cron", "bind"}, NEW h \in Handles \cup {Absent},
           o = "bind" => h \in Handles, Call(d, o, h)
    PROVE  DeskInv'
<1> DEFINE p == IF o = "update" THEN "recent" ELSE IF o = "bind" THEN "load" ELSE "find"
           q == [pc |-> p, op |-> o, handle |-> h, mine |-> asked + 1, over |-> "no"]
<1>1. desk[d] \in DeskStates /\ desk[d].pc = "idle" /\ asked + 1 \in 1..MaxCallers /\ asked \in Nat
    BY DeskConstants DEF DeskInv, DeskTypes, Call
<1>2. q \in DeskStates /\ PlaceOf(q)
    BY <1>1 DEF DeskStates, PlaceOf, Absent
<1>3. /\ desk' = [desk EXCEPT ![d] = q] /\ asked' = asked + 1
      /\ UNCHANGED <<deskNow, outages, limiterOf, allowedAt, boundTo, startedAt, djob, lastGrant, starts, crawled, forgot, owed>>
    BY Zenon DEF Call, clockVars, limitVars, storeVars, crawlHist
<1>4. /\ desk' \in [Desks -> DeskStates] /\ \A e \in Desks : PlaceOf(desk'[e])
      /\ desk'[d] = q /\ \A e \in Desks : e # d => desk'[e] = desk[e]
    BY <1>2, <1>3, MovePlaces, Zenon DEF DeskInv
<1>5. DeskTypes'
    BY <1>1, <1>3, <1>4 DEF DeskInv, DeskTypes
<1>6. PlaceInv'
    BY <1>3, <1>4, Zenon DEF DeskInv, PlaceInv
<1>7. FreshInv'
  <2>1. /\ allowedAt[asked + 1] = Never /\ \A k \in LimiterKeys : limiterOf[k] # asked + 1
    BY <1>1 DEF DeskInv, DeskTypes, LimiterInv, GrantInv
  <2>2. \A e \in Desks : e # d /\ Fresh(desk'[e]) => desk'[e].mine # asked + 1 /\ desk'[e].mine \in 1..asked'
    BY <1>1, <1>3, <1>4 DEF DeskInv, LimiterInv, FreshInv
  <2> QED BY <1>1, <1>3, <1>4, <2>1, <2>2 DEF DeskInv, LimiterInv, FreshInv
<1>8. AllowInv'
    BY <1>3, <1>4, Zenon DEF DeskInv, LimiterInv, AllowInv
<1>9. GrantInv'
    BY <1>1, <1>3, SMTT(30) DEF DeskInv, DeskTypes, LimiterInv, GrantInv
<1>10. OwedInv'
    BY <1>1, <1>3, <1>4, MoveOwed DEF DeskInv, Changing
<1> QED BY <1>3, <1>5, <1>6, <1>7, <1>8, <1>9, <1>10, MoveStarts, Zenon DEF DeskInv, LimiterInv
\* The binding is read: without one nothing was ever started, or another is at work.
LEMMA ExistingInv == ASSUME DeskInv, NEW d \in Desks, Existing(d) PROVE DeskInv'
<1> DEFINE v == IF Rebinding # {} \/ owed = "lost" THEN "yes" ELSE "no"
           p == IF boundTo = desk[d].handle THEN "same" ELSE IF boundTo = Absent THEN "unbind" ELSE "forget"
           q == [desk[d] EXCEPT !.over = v, !.pc = p]
<1>1. desk[d] \in DeskStates /\ PlaceOf(desk[d]) /\ desk[d].pc = "existing"
    BY Zenon DEF DeskInv, DeskTypes, PlaceInv, Existing
<1>2. /\ v \in {"yes", "no"} /\ p \in {"same", "unbind", "forget"}
      /\ p = "unbind" => boundTo = Absent
      /\ v = "no" => Rebinding = {} /\ owed # "lost"
    BY Zenon
<1>3. /\ desk' = [desk EXCEPT ![d] = q]
      /\ UNCHANGED <<deskNow, outages, asked, limiterOf, allowedAt, boundTo, startedAt, djob, lastGrant, starts, crawled, forgot, owed>>
    BY Zenon DEF Existing, clockVars, limitVars, storeVars, crawlHist, DeskInv, DeskTypes
<1> HIDE DEF v, p
<1>4. q \in DeskStates /\ q.pc = p /\ q.op = desk[d].op /\ q.handle = desk[d].handle /\ q.over = v
    BY <1>1, <1>2, Zenon DEF DeskStates
<1>5. PlaceOf(q)
    BY <1>1, <1>2, <1>4, Zenon DEF PlaceOf
<1>6. p = "unbind" /\ v = "no" => ~StillRecent
  <2> SUFFICES ASSUME p = "unbind", v = "no" PROVE ~StillRecent
    BY Zenon
  <2>1. \A e \in Desks : desk[e].pc # "save"
    BY <1>2, Zenon DEF Rebinding
  <2>2. NeverBound
    BY <1>2, <2>1, Zenon DEF DeskInv, OwedInv, Unbound
  <2> QED BY <2>2, Zenon DEF NeverBound, StillRecent, platformRefreshStartedWithin
<1> HIDE DEF q
<1> QED BY <1>1, <1>2, <1>3, <1>4, <1>5, <1>6, QuietMove, Zenon DEF Fresh, Changing

\* A binding to the name there already changes nothing.
LEMMA SameBindingInv == ASSUME DeskInv, NEW d \in Desks, SameBinding(d) PROVE DeskInv'
<1> DEFINE q == [desk[d] EXCEPT !.pc = "unbind"]
<1>1. desk[d] \in DeskStates /\ PlaceOf(desk[d]) /\ desk[d].pc = "same"
    BY Zenon DEF DeskInv, DeskTypes, PlaceInv, SameBinding
<1>2. q \in DeskStates /\ q.pc = "unbind" /\ q.op = desk[d].op /\ q.handle = desk[d].handle
    BY <1>1, Zenon DEF DeskStates
<1>3. PlaceOf(q)
    BY <1>1, <1>2, Zenon DEF PlaceOf
<1>4. UNCHANGED <<deskNow, outages, asked, limiterOf, allowedAt, boundTo, startedAt, djob, lastGrant, starts, crawled, forgot, owed>>
    BY Zenon DEF SameBinding, clockVars, limitVars, storeVars, crawlHist
<1>5. CASE desk' = [desk EXCEPT ![d] = q] /\ ~StillRecent
    BY <1>1, <1>2, <1>3, <1>4, <1>5, QuietMove, Zenon DEF Fresh, Changing
<1>6. CASE desk' = [desk EXCEPT ![d] = AtRest]
    BY <1>1, <1>4, <1>6, RestPlace, QuietMove, Zenon DEF Fresh, Changing
<1> QED BY <1>5, <1>6, Zenon DEF SameBinding, Answer, DeskStep, StillRecent

\* What holds of a step of a request that touches neither limiters, jobs nor crawls.
LEMMA BindMove ==
    ASSUME DeskInv, NEW d \in Desks, NEW q \in DeskStates, PlaceOf(q), desk' = [desk EXCEPT ![d] = q],
           UNCHANGED <<deskNow, outages, asked, limiterOf, allowedAt, lastGrant, starts, crawled>>,
           djob' \in [DeskJobs -> JobStates],
           \A j \in DeskJobs : djob'[j].pc \in {"look", "mark", "crawl"} => djob'[j].handle \in Handles,
           boundTo' \in Handles \cup {Absent}, startedAt' \in {startedAt, Never}, forgot' \in SUBSET Handles,
           owed' \in {"no", "yes", "excused", "lost"}, ~Fresh(q), q.pc # "allow"
    PROVE  /\ DeskTypes' /\ PlaceInv' /\ LimiterInv'
           /\ desk'[d] = q /\ \A e \in Desks : e # d => desk'[e] = desk[e]
<1>1. /\ desk' \in [Desks -> DeskStates] /\ \A e \in Desks : PlaceOf(desk'[e])
      /\ desk'[d] = q /\ \A e \in Desks : e # d => desk'[e] = desk[e]
    BY MovePlaces, Zenon DEF DeskInv
<1>2. DeskTypes'
  <2>1. startedAt' \in Never..deskNow'
    BY DEF DeskInv, DeskTypes, Never
  <2> QED BY <1>1, <2>1, Zenon DEF DeskInv, DeskTypes
<1>3. PlaceInv'
    BY <1>1, Zenon DEF PlaceInv
<1>4. LimiterInv'
    BY <1>1, MoveLimiters, Zenon DEF DeskInv
<1> QED BY <1>1, <1>2, <1>3, <1>4, Zenon

\* The start of the old account is erased: it holds nobody off, and all starts are excused.
LEMMA ForgetStatusInv == ASSUME DeskInv, NEW d \in Desks, ForgetStatus(d) PROVE DeskInv'
<1> DEFINE q == [desk[d] EXCEPT !.pc = "unbind"]
<1>1. desk[d] \in DeskStates /\ PlaceOf(desk[d]) /\ desk[d].pc = "forget"
    BY Zenon DEF DeskInv, DeskTypes, PlaceInv, ForgetStatus
<1>2. q \in DeskStates /\ q.pc = "unbind" /\ q.op = desk[d].op /\ q.handle = desk[d].handle
    BY <1>1, Zenon DEF DeskStates
<1>3. PlaceOf(q)
    BY <1>1, <1>2, Zenon DEF PlaceOf
<1>4. /\ desk' = [desk EXCEPT ![d] = q] /\ startedAt' = Never /\ forgot' = {h \in Handles : crawled[h] # Never}
      /\ UNCHANGED <<deskNow, outages, asked, limiterOf, allowedAt, boundTo, djob, lastGrant, starts, crawled, owed>>
    BY Zenon DEF ForgetStatus, DeskStep, clockVars, limitVars
<1> HIDE DEF q
<1>5. /\ DeskTypes' /\ PlaceInv' /\ LimiterInv'
      /\ desk'[d] = q /\ \A e \in Desks : e # d => desk'[e] = desk[e]
  <2>1. djob' \in [DeskJobs -> JobStates] /\ boundTo' \in Handles \cup {Absent} /\ owed' \in {"no", "yes", "excused", "lost"}
    BY <1>4, Zenon DEF DeskInv, DeskTypes
  <2>2. \A j \in DeskJobs : djob'[j].pc \in {"look", "mark", "crawl"} => djob'[j].handle \in Handles
    BY <1>4, Zenon DEF DeskInv, PlaceInv
  <2>3. ~Fresh(q) /\ q.pc # "allow" /\ startedAt' \in {startedAt, Never} /\ forgot' \in SUBSET Handles
    BY <1>2, <1>4, Zenon DEF Fresh
  <2> QED BY <1>2, <1>3, <1>4, <2>1, <2>2, <2>3, BindMove, Zenon
<1>6. ~StillRecent'
    BY <1>4, Zenon DEF StillRecent, platformRefreshStartedWithin
<1>7. StartsInv'
    BY <1>4, <1>6, Zenon DEF DeskInv, StartsInv
<1>8. Unheld'
    BY <1>6, Zenon DEF Unheld
<1>9. Unbound'
  <2>1. (\E e \in Desks : desk[e].pc = "save") => \E e \in Desks : desk'[e].pc = "save"
    BY <1>1, <1>5, Zenon
  <2> QED BY <1>4, <2>1, Zenon DEF DeskInv, OwedInv, Unbound, NeverBound
<1>10. Owing'
    BY <1>2, <1>5, Zenon DEF Owing, Changing
<1> QED BY <1>5, <1>7, <1>8, <1>9, <1>10, Zenon DEF DeskInv, OwedInv

\* An unbinding takes the name away.
LEMMA UnbindInv == ASSUME DeskInv, NEW d \in Desks, Unbind(d) PROVE DeskInv'
<1> DEFINE q == [desk[d] EXCEPT !.pc = "save"]
<1>1. desk[d] \in DeskStates /\ PlaceOf(desk[d]) /\ desk[d].pc = "unbind"
    BY Zenon DEF DeskInv, DeskTypes, PlaceInv, Unbind
<1>2. q \in DeskStates /\ q.pc = "save" /\ q.op = desk[d].op /\ q.handle = desk[d].handle /\ q.over = desk[d].over
    BY <1>1, Zenon DEF DeskStates
<1>3. PlaceOf(q)
    BY <1>1, <1>2, Zenon DEF PlaceOf
<1>4. /\ desk' = [desk EXCEPT ![d] = q] /\ boundTo' = Absent
      /\ UNCHANGED <<deskNow, outages, asked, limiterOf, allowedAt, startedAt, djob, lastGrant, starts, crawled, forgot, owed>>
    BY Zenon DEF Unbind, DeskStep, clockVars, limitVars, crawlHist
<1> HIDE DEF q
<1>5. /\ DeskTypes' /\ PlaceInv' /\ LimiterInv'
      /\ desk'[d] = q /\ \A e \in Desks : e # d => desk'[e] = desk[e]
  <2>1. djob' \in [DeskJobs -> JobStates] /\ boundTo' \in Handles \cup {Absent} /\ owed' \in {"no", "yes", "excused", "lost"}
    BY <1>4, Zenon DEF DeskInv, DeskTypes
  <2>2. \A j \in DeskJobs : djob'[j].pc \in {"look", "mark", "crawl"} => djob'[j].handle \in Handles
    BY <1>4, Zenon DEF DeskInv, PlaceInv
  <2>3. ~Fresh(q) /\ q.pc # "allow" /\ startedAt' \in {startedAt, Never} /\ forgot' \in SUBSET Handles
    BY <1>2, <1>4, Zenon DEF Fresh, DeskInv, DeskTypes
  <2> QED BY <1>2, <1>3, <1>4, <2>1, <2>2, <2>3, BindMove, Zenon
<1>6. StillRecent' = StillRecent
    BY <1>4, Zenon DEF StillRecent, platformRefreshStartedWithin
<1>7. Unheld'
    BY <1>1, <1>2, <1>5, <1>6, Zenon DEF DeskInv, OwedInv, Unheld
<1>8. Unbound' /\ Owing'
    BY <1>2, <1>5, Zenon DEF Unbound, Owing, Changing
<1> QED BY <1>4, <1>5, <1>7, <1>8, MoveStarts, Zenon DEF DeskInv, OwedInv

\* The new account is owed a crawl, that no start holds off, by the job about to be asked for.
LEMMA SaveBindingInv == ASSUME DeskInv, NEW d \in Desks, DeskSaveBinding(d) PROVE DeskInv'
<1> DEFINE q == [desk[d] EXCEPT !.pc = "find", !.over = "no"]
<1>1. desk[d] \in DeskStates /\ PlaceOf(desk[d]) /\ desk[d].pc = "save"
    BY Zenon DEF DeskInv, DeskTypes, PlaceInv, DeskSaveBinding
<1>2. q \in DeskStates /\ q.pc = "find" /\ q.op = desk[d].op /\ q.handle = desk[d].handle
    BY <1>1, Zenon DEF DeskStates
<1>3. PlaceOf(q) /\ q.op = "bind" /\ desk[d].handle \in Handles
    BY <1>1, <1>2, Zenon DEF PlaceOf
<1>4. /\ desk' = [desk EXCEPT ![d] = q] /\ boundTo' = desk[d].handle
      /\ owed' \in {"excused", "yes"} /\ (owed' = "yes" => desk[d].over # "yes")
      /\ UNCHANGED <<deskNow, outages, asked, limiterOf, allowedAt, startedAt, djob, lastGrant, starts, crawled, forgot>>
    BY Zenon DEF DeskSaveBinding, clockVars, limitVars, crawlHist, DeskInv, DeskTypes
<1> HIDE DEF q
<1>5. /\ DeskTypes' /\ PlaceInv' /\ LimiterInv'
      /\ desk'[d] = q /\ \A e \in Desks : e # d => desk'[e] = desk[e]
  <2>1. djob' \in [DeskJobs -> JobStates] /\ boundTo' \in Handles \cup {Absent} /\ owed' \in {"no", "yes", "excused", "lost"}
    BY <1>3, <1>4, Zenon DEF DeskInv, DeskTypes
  <2>2. \A j \in DeskJobs : djob'[j].pc \in {"look", "mark", "crawl"} => djob'[j].handle \in Handles
    BY <1>4, Zenon DEF DeskInv, PlaceInv
  <2>3. ~Fresh(q) /\ q.pc # "allow" /\ startedAt' \in {startedAt, Never} /\ forgot' \in SUBSET Handles
    BY <1>2, <1>4, Zenon DEF Fresh, DeskInv, DeskTypes
  <2> QED BY <1>2, <1>3, <1>4, <2>1, <2>2, <2>3, BindMove, Zenon
<1>6. StillRecent' = StillRecent
    BY <1>4, Zenon DEF StillRecent, platformRefreshStartedWithin
<1>7. Unheld'
    BY <1>2, <1>5, <1>6, Zenon DEF DeskInv, OwedInv, Unheld
<1>8. boundTo' # Absent
    BY <1>3, <1>4, DeskConstants, Zenon
<1>9. Unbound'
    BY <1>8, Zenon DEF Unbound
<1>10. Owing'
  <2>1. owed' = "yes" => ~StillRecent'
    BY <1>1, <1>4, <1>6, Zenon DEF DeskInv, OwedInv, Unheld, DeskStates
  <2>2. OnItsWay'
    BY <1>2, <1>3, <1>5, Zenon DEF OnItsWay, Asking
  <2> QED BY <1>8, <2>1, <2>2, Zenon DEF Owing
<1> QED BY <1>4, <1>5, <1>7, <1>9, <1>10, MoveStarts, Zenon DEF DeskInv, OwedInv

\* An active job answers a binding, which is then excused; otherwise a job will be made.
LEMMA FindActiveJobInv == ASSUME DeskInv, NEW d \in Desks, findActiveJob(d) PROVE DeskInv'
<1> DEFINE c == [desk[d] EXCEPT !.pc = "create"]
<1>1. desk[d] \in DeskStates /\ PlaceOf(desk[d]) /\ desk[d].pc = "find"
    BY Zenon DEF DeskInv, DeskTypes, PlaceInv, findActiveJob
<1>2. c \in DeskStates /\ c.pc = "create" /\ c.op = desk[d].op /\ c.handle = desk[d].handle
    BY <1>1, Zenon DEF DeskStates
<1>3. PlaceOf(c)
    BY <1>1, <1>2, Zenon DEF PlaceOf
<1>4. UNCHANGED <<deskNow, outages, asked, limiterOf, allowedAt, boundTo, startedAt, djob, lastGrant, starts, crawled, forgot>>
    BY Zenon DEF findActiveJob, clockVars, limitVars, storeVars, crawlHist
<1>5. PICK q \in {c, AtRest} :
         /\ desk' = [desk EXCEPT ![d] = q]
         /\ owed' = owed \/ (owed' = "excused" /\ owed = "yes")
         /\ owed' = "yes" /\ desk[d].op = "bind" => q = c
    BY Zenon DEF findActiveJob, Answer, DeskStep
<1>6. q \in DeskStates /\ PlaceOf(q) /\ q.pc \in {"create", "idle"}
    BY <1>2, <1>3, RestPlace, Zenon
<1>7. owed' = "yes" /\ Asking(desk[d]) => Asking(q)
    BY <1>2, <1>5, Zenon DEF Asking
<1> HIDE DEF c
<1>8. /\ DeskTypes' /\ PlaceInv' /\ LimiterInv'
      /\ desk'[d] = q /\ \A e \in Desks : e # d => desk'[e] = desk[e]
  <2>1. djob' \in [DeskJobs -> JobStates] /\ boundTo' \in Handles \cup {Absent} /\ owed' \in {"no", "yes", "excused", "lost"}
    BY <1>4, <1>5, Zenon DEF DeskInv, DeskTypes
  <2>2. \A j \in DeskJobs : djob'[j].pc \in {"look", "mark", "crawl"} => djob'[j].handle \in Handles
    BY <1>4, Zenon DEF DeskInv, PlaceInv
  <2>3. ~Fresh(q) /\ q.pc # "allow" /\ startedAt' \in {startedAt, Never} /\ forgot' \in SUBSET Handles
    BY <1>4, <1>6, Zenon DEF Fresh, DeskInv, DeskTypes
  <2> QED BY <1>4, <1>5, <1>6, <2>1, <2>2, <2>3, BindMove, Zenon
<1>9. StillRecent' = StillRecent
    BY <1>4, Zenon DEF StillRecent, platformRefreshStartedWithin
<1>10. Unheld'
    BY <1>6, <1>8, <1>9, Zenon DEF DeskInv, OwedInv, Unheld
<1>11. Unbound'
  <2>1. (\E e \in Desks : desk[e].pc = "save") => \E e \in Desks : desk'[e].pc = "save"
    BY <1>1, <1>8, Zenon
  <2>2. (owed = "lost" => owed' = "lost") /\ (owed = "no" => owed' = "no")
    BY <1>5, Zenon
  <2> QED BY <1>4, <2>1, <2>2, Zenon DEF DeskInv, OwedInv, Unbound, NeverBound
<1>12. Owing'
  <2> SUFFICES ASSUME owed' = "yes" PROVE Owing'
    BY Zenon DEF Owing
  <2>1. owed = "yes"
    BY <1>5, Zenon
  <2>2. (\E e \in Desks : Changing(desk[e])) => \E e \in Desks : Changing(desk'[e])
    BY <1>1, <1>8, Zenon DEF Changing
  <2>3. (\E e \in Desks : Asking(desk[e])) => \E e \in Desks : Asking(desk'[e])
    BY <1>7, <1>8, Zenon
  <2>4. OnItsWay => OnItsWay'
    BY <1>4, <2>3, Zenon DEF OnItsWay
  <2> QED BY <1>4, <1>9, <2>1, <2>2, <2>4, Zenon DEF DeskInv, OwedInv, Owing
<1> QED BY <1>4, <1>8, <1>10, <1>11, <1>12, MoveStarts, Zenon DEF DeskInv, OwedInv

\* The new job takes the place of the request that asked for it.
LEMMA CreateJobInv == ASSUME DeskInv, NEW d \in Desks, DeskCreateJob(d) PROVE DeskInv'
<1> DEFINE every == IF desk[d].op = "cron" THEN "yes" ELSE "no"
           cur == IF every = "yes" THEN Absent ELSE "CodeForces"
           n == [NoJob EXCEPT !.pc = "queued", !.full = every, !.cur = cur]
<1>1. desk[d].pc = "create" /\ desk' = [desk EXCEPT ![d] = AtRest]
    BY Zenon DEF DeskCreateJob, Answer
<1>2. UNCHANGED <<deskNow, outages, asked, limiterOf, allowedAt, boundTo, startedAt, lastGrant, starts, crawled, forgot, owed>>
    BY Zenon DEF DeskCreateJob, clockVars, limitVars, storeVars, crawlHist
<1>3. PICK j \in DeskJobs : djob[j].pc = Absent /\ djob' = [djob EXCEPT ![j] = n]
    BY Zenon DEF DeskCreateJob
<1>4. every \in {"yes", "no"} /\ cur \in {Absent, "CodeForces"}
    BY Zenon
<1> HIDE DEF every, cur
<1>5. n \in JobStates /\ n.pc = "queued"
    BY <1>4, RestPlace, Zenon DEF NoJob, JobStates
<1> HIDE DEF n
<1>6. djob' \in [DeskJobs -> JobStates] /\ djob'[j] = n /\ \A o \in DeskJobs : o # j => djob'[o] = djob[o]
    BY <1>3, <1>5, Zenon DEF DeskInv, DeskTypes
<1>7. /\ DeskTypes' /\ PlaceInv' /\ LimiterInv'
      /\ desk'[d] = AtRest /\ \A e \in Desks : e # d => desk'[e] = desk[e]
  <2>1. boundTo' \in Handles \cup {Absent} /\ owed' \in {"no", "yes", "excused", "lost"}
    BY <1>2, Zenon DEF DeskInv, DeskTypes
  <2>2. \A o \in DeskJobs : djob'[o].pc \in {"look", "mark", "crawl"} => djob'[o].handle \in Handles
    BY <1>5, <1>6, Zenon DEF DeskInv, PlaceInv
  <2>3. ~Fresh(AtRest) /\ AtRest.pc # "allow" /\ startedAt' \in {startedAt, Never} /\ forgot' \in SUBSET Handles
    BY <1>2, RestPlace, Zenon DEF Fresh, DeskInv, DeskTypes
  <2> QED BY <1>1, <1>2, <1>6, RestPlace, <2>1, <2>2, <2>3, BindMove, Zenon
<1>8. StillRecent' = StillRecent
    BY <1>2, Zenon DEF StillRecent, platformRefreshStartedWithin
<1>9. StartsInv'
    BY <1>2, <1>5, <1>6, <1>8, Zenon DEF DeskInv, StartsInv
<1>10. Unheld'
    BY <1>7, <1>8, RestPlace, Zenon DEF DeskInv, OwedInv, Unheld
<1>11. Unbound'
  <2>1. (\E e \in Desks : desk[e].pc = "save") => \E e \in Desks : desk'[e].pc = "save"
    BY <1>1, <1>7, Zenon
  <2>2. NeverBound => NeverBound'
    BY <1>2, <1>5, <1>6, Zenon DEF NeverBound
  <2> QED BY <1>2, <2>1, <2>2, Zenon DEF DeskInv, OwedInv, Unbound
<1>12. Owing'
  <2>1. (\E e \in Desks : Changing(desk[e])) => \E e \in Desks : Changing(desk'[e])
    BY <1>1, <1>7, Zenon DEF Changing
  <2>2. OnItsWay'
    BY <1>5, <1>6, Zenon DEF OnItsWay
  <2>3. \A o \in DeskJobs : djob[o].pc = "crawl" => djob'[o] = djob[o]
    BY <1>3, <1>6, Zenon DEF Absent
  <2> QED BY <1>2, <1>8, <2>1, <2>2, <2>3, Zenon DEF DeskInv, OwedInv, Owing
<1> QED BY <1>7, <1>9, <1>10, <1>11, <1>12, Zenon DEF DeskInv, OwedInv

-----------------------------------------------------------------------------
(* Jobs: job j becomes q *)

\* A step of a worker that starts no crawl.
LEMMA JobMove ==
    ASSUME DeskInv, NEW j \in DeskJobs, NEW q \in JobStates, djob' = [djob EXCEPT ![j] = q],
           q.pc \in {"look", "mark", "crawl"} => q.handle \in Handles,
           q.pc = "mark" => q.looked = starts /\ ~StillRecent,
           boundTo = Absent /\ NeverBound => q.pc \in {Absent, "queued", "done"},
           UNCHANGED <<deskNow, outages, asked, limiterOf, allowedAt, boundTo, startedAt, desk, lastGrant, starts, crawled, forgot>>,
           owed' \in {"no", "yes", "excused", "lost"}, owed \in {"no", "lost"} => owed' = owed,
           owed' = "yes" => /\ owed = "yes" /\ ~(djob[j].pc = "crawl" /\ djob[j].handle = boundTo)
                            /\ boundTo # Absent /\ ~StillRecent /\ (djob[j].pc = "queued" \/ (djob[j].pc \in {"look", "mark"} /\ djob[j].handle = boundTo))
                                  => q.pc \in {"look", "mark"} /\ q.handle = boundTo
    PROVE  DeskInv'
<1>1. djob' \in [DeskJobs -> JobStates] /\ djob'[j] = q /\ \A o \in DeskJobs : o # j => djob'[o] = djob[o]
    BY Zenon DEF DeskInv, DeskTypes
<1>2. DeskTypes'
    BY <1>1, Zenon DEF DeskInv, DeskTypes
<1>3. PlaceInv'
    BY <1>1, Zenon DEF DeskInv, PlaceInv
<1>4. LimiterInv'
    BY Zenon DEF DeskInv, LimiterInv, FreshInv, AllowInv, GrantInv
<1>5. StillRecent' = StillRecent
    BY Zenon DEF StillRecent, platformRefreshStartedWithin
<1>6. StartsInv'
    BY <1>1, <1>5 DEF DeskInv, DeskTypes, StartsInv
<1>7. Unheld'
    BY <1>5, Zenon DEF DeskInv, OwedInv, Unheld
<1>8. Unbound'
    BY <1>1, Zenon DEF DeskInv, OwedInv, Unbound, NeverBound
<1>9. Owing'
  <2> SUFFICES ASSUME owed' = "yes" PROVE Owing'
    BY Zenon DEF Owing
  <2>1. CASE \E d \in Desks : Changing(desk[d])
    BY <2>1, Zenon DEF Owing
  <2>2. CASE \E o \in DeskJobs : djob[o].pc = "crawl" /\ djob[o].handle = boundTo
    BY <2>2, <1>1, Zenon DEF Owing
  <2>3. CASE boundTo # Absent /\ ~StillRecent /\ OnItsWay
    <3>1. OnItsWay'
        BY <2>3, <1>1, Zenon DEF OnItsWay
    <3> QED BY <2>3, <3>1, <1>5, Zenon DEF Owing
  <2> QED BY <2>1, <2>2, <2>3, Zenon DEF DeskInv, OwedInv, Owing
<1> QED BY <1>2, <1>3, <1>4, <1>6, <1>7, <1>8, <1>9, Zenon DEF DeskInv, OwedInv

\* A finished job.
LEMMA FinishedJob == Finished \in JobStates /\ Finished.pc = "done"
BY Zenon DEF Finished, NoJob, JobStates

\* A job reads the binding it is to fetch for.
LEMMA LoadBindingInv == ASSUME DeskInv, NEW j \in DeskJobs, LoadBinding(j) PROVE DeskInv'
<1> DEFINE q == [djob[j] EXCEPT !.pc = "look", !.handle = boundTo]
<1>1. /\ djob[j] \in JobStates /\ djob[j].pc = "queued" /\ boundTo \in Handles \cup {Absent}
      /\ UNCHANGED <<deskNow, outages, asked, limiterOf, allowedAt, boundTo, startedAt, desk, lastGrant, starts, crawled, forgot, owed>>
      /\ owed' \in {"no", "yes", "excused", "lost"}
    BY Zenon DEF DeskInv, DeskTypes, LoadBinding, clockVars, limitVars, storeVars, crawlHist
<1>2. CASE boundTo = Absent
  <2>1. djob' = [djob EXCEPT ![j] = Finished]
    BY <1>2, Zenon DEF LoadBinding
  <2> QED BY <1>1, <1>2, <2>1, FinishedJob, JobMove, Zenon
<1>3. CASE boundTo # Absent
  <2>1. djob' = [djob EXCEPT ![j] = q]
    BY <1>3, Zenon DEF LoadBinding
  <2>2. q \in JobStates /\ q.pc = "look" /\ q.handle = boundTo
    BY <1>1, Zenon DEF JobStates
  <2> HIDE DEF q
  <2> QED BY <1>1, <1>3, <2>1, <2>2, JobMove, Zenon
<1> QED BY <1>2, <1>3, Zenon

\* A job looks whether its platform was fetched shortly before.
LEMMA LookRecentInv == ASSUME DeskInv, NEW j \in DeskJobs, LookRecent(j) PROVE DeskInv'
<1> DEFINE q == [djob[j] EXCEPT !.pc = "mark", !.looked = starts]
<1>1. /\ djob[j] \in JobStates /\ djob[j].pc = "look" /\ starts \in Nat
      /\ UNCHANGED <<deskNow, outages, asked, limiterOf, allowedAt, boundTo, startedAt, desk, lastGrant, starts, crawled, forgot, owed>>
      /\ owed' \in {"no", "yes", "excused", "lost"}
    BY Zenon DEF DeskInv, DeskTypes, LookRecent, clockVars, limitVars, storeVars, crawlHist
<1>2. djob[j].handle \in Handles
    BY <1>1, Zenon DEF DeskInv, PlaceInv
<1>3. ~NeverBound
    BY <1>1, Zenon DEF NeverBound, Absent
<1>4. CASE StillRecent
  <2>1. djob' = [djob EXCEPT ![j] = Finished]
    BY <1>4, Zenon DEF LookRecent, shouldSkipRecentCodeforcesRefresh, StillRecent
  <2> QED BY <1>1, <1>3, <1>4, <2>1, FinishedJob, JobMove, Zenon
<1>5. CASE ~StillRecent
  <2>1. djob' = [djob EXCEPT ![j] = q]
    BY <1>5, Zenon DEF LookRecent, shouldSkipRecentCodeforcesRefresh, StillRecent
  <2>2. q \in JobStates /\ q.pc = "mark" /\ q.handle = djob[j].handle /\ q.looked = starts
    BY <1>1, Zenon DEF JobStates
  <2> HIDE DEF q
  <2> QED BY <1>1, <1>2, <1>3, <1>5, <2>1, <2>2, JobMove, Zenon
<1> QED BY <1>4, <1>5, Zenon

\* A crawl ends, one way or the other.
LEMMA CrawlEndsInv == ASSUME DeskInv, NEW j \in DeskJobs, NEW status, DeskCrawlEnds(j, status) PROVE DeskInv'
<1>1. /\ djob[j].pc = "crawl" /\ djob' = [djob EXCEPT ![j] = Finished]
      /\ UNCHANGED <<deskNow, outages, asked, limiterOf, allowedAt, boundTo, startedAt, desk, lastGrant, starts, crawled, forgot>>
    BY Zenon DEF DeskCrawlEnds, clockVars, limitVars, storeVars, crawlHist
<1>2. owed \in {"no", "yes", "excused", "lost"}
    BY Zenon DEF DeskInv, DeskTypes
<1>3. /\ owed' \in {"no", "yes", "excused", "lost"} /\ (owed \in {"no", "lost"} => owed' = owed)
      /\ owed' = "yes" => owed = "yes" /\ djob[j].handle # boundTo
  <2>1. CASE owed = "yes" /\ djob[j].handle = boundTo
    BY <2>1, Zenon DEF DeskCrawlEnds
  <2>2. CASE ~(owed = "yes" /\ djob[j].handle = boundTo)
    BY <1>2, <2>2, Zenon DEF DeskCrawlEnds
  <2> QED BY <2>1, <2>2, Zenon
<1> QED BY <1>1, <1>3, FinishedJob, JobMove, Zenon

\* A crawl starts: what is being rebound is overtaken, and another account's crawl excuses.
LEMMA MarkRunningInv == ASSUME DeskInv, NEW j \in DeskJobs, markPlatformRunning(j) PROVE DeskInv'
<1> DEFINE h == djob[j].handle
           q == [djob[j] EXCEPT !.pc = "crawl", !.cur = "CodeForces"]
<1>1. /\ djob[j] \in JobStates /\ djob[j].pc = "mark" /\ h \in Handles /\ deskNow \in Nat /\ starts \in Nat
      /\ starts' = starts + 1 /\ startedAt' = deskNow /\ forgot' = forgot \ {h}
      /\ UNCHANGED <<deskNow, outages, asked, limiterOf, allowedAt, boundTo, lastGrant>>
    BY Zenon DEF DeskInv, DeskTypes, PlaceInv, markPlatformRunning, clockVars, limitVars
<1>2. q \in JobStates /\ q.pc = "crawl" /\ q.handle = h /\ djob' = [djob EXCEPT ![j] = q]
    BY <1>1, Zenon DEF JobStates, markPlatformRunning, DeskInv, DeskTypes
<1> HIDE DEF q
<1>3. djob' \in [DeskJobs -> JobStates] /\ djob'[j] = q /\ \A o \in DeskJobs : o # j => djob'[o] = djob[o]
    BY <1>2, Zenon DEF DeskInv, DeskTypes
<1>4. /\ crawled' \in [Handles -> Never..deskNow] /\ crawled'[h] = deskNow
      /\ \A a \in Handles : a # h => crawled'[a] = crawled[a]
    BY <1>1 DEF DeskInv, DeskTypes, markPlatformRunning, Never
<1>5. \A d \in Desks :
         /\ desk'[d] \in DeskStates /\ desk'[d].pc = desk[d].pc /\ desk'[d].op = desk[d].op
         /\ desk'[d].handle = desk[d].handle /\ desk'[d].mine = desk[d].mine
         /\ desk[d].pc \in {"unbind", "save"} => desk'[d].over = "yes"
  <2> SUFFICES ASSUME NEW d \in Desks
               PROVE  /\ desk'[d] \in DeskStates /\ desk'[d].pc = desk[d].pc /\ desk'[d].op = desk[d].op
                      /\ desk'[d].handle = desk[d].handle /\ desk'[d].mine = desk[d].mine
                      /\ desk[d].pc \in {"unbind", "save"} => desk'[d].over = "yes"
    BY Zenon
  <2>1. desk[d] \in DeskStates
    BY Zenon DEF DeskInv, DeskTypes
  <2>2. CASE d \in Rebinding
    <3>1. desk'[d] = [desk[d] EXCEPT !.over = "yes"]
        BY <2>2, Zenon DEF markPlatformRunning
    <3> QED BY <2>1, <3>1, Zenon DEF DeskStates
  <2>3. CASE d \notin Rebinding
    <3>1. desk'[d] = desk[d]
        BY <2>3, Zenon DEF markPlatformRunning
    <3> QED BY <2>1, <2>3, <3>1, Zenon DEF Rebinding
  <2> QED BY <2>2, <2>3, Zenon
<1>6. /\ owed' \in {"no", "yes", "excused", "lost"} /\ (owed \in {"no", "lost"} => owed' = owed)
      /\ owed' = "yes" => h = boundTo
    BY Zenon DEF DeskInv, DeskTypes, markPlatformRunning
<1>7. desk' \in [Desks -> DeskStates]
    BY <1>5, Zenon DEF markPlatformRunning
<1>8. DeskTypes'
    BY <1>1, <1>3, <1>4, <1>6, <1>7, SMTT(30) DEF DeskInv, DeskTypes, Never
<1>9. PlaceInv'
  <2>1. \A d \in Desks : PlaceOf(desk'[d])
    BY <1>5 DEF DeskInv, PlaceInv, PlaceOf
  <2>2. \A o \in DeskJobs : djob'[o].pc \in {"look", "mark", "crawl"} => djob'[o].handle \in Handles
    BY <1>1, <1>2, <1>3, Zenon DEF DeskInv, PlaceInv
  <2> QED BY <2>1, <2>2, Zenon DEF PlaceInv
<1>10. LimiterInv'
  <2>1. \A d \in Desks : Fresh(desk'[d]) = Fresh(desk[d]) /\ KeyFor(desk'[d]) = KeyFor(desk[d])
    BY <1>5, Zenon DEF Fresh, KeyFor
  <2>2. FreshInv'
    <3> SUFFICES ASSUME NEW d \in Desks, Fresh(desk[d])
                 PROVE  /\ desk[d].mine \in 1..asked /\ allowedAt[desk[d].mine] = Never
                        /\ \A k \in LimiterKeys : limiterOf[k] # desk[d].mine
                        /\ \A e \in Desks : Fresh(desk[e]) /\ e # d => desk[e].mine # desk[d].mine
      <4>1. asked' = asked /\ allowedAt' = allowedAt /\ limiterOf' = limiterOf /\ \A e \in Desks : desk'[e].mine = desk[e].mine
        BY <1>1, <1>5, Zenon
      <4> QED BY <2>1, <4>1 DEF FreshInv
    <3> QED BY Zenon DEF DeskInv, LimiterInv, FreshInv
  <2>3. AllowInv'
    BY <1>1, <1>5, <2>1, Zenon DEF DeskInv, LimiterInv, AllowInv
  <2> QED BY <1>1, <2>2, <2>3, Zenon DEF DeskInv, LimiterInv, GrantInv
<1>11. StartsInv'
  <2>1. \A a \in Handles : crawled'[a] # Never /\ a \notin forgot' => startedAt' # Never /\ crawled'[a] <= startedAt'
    BY <1>1, <1>4 DEF Never
  <2>2. \A o \in DeskJobs : djob'[o].pc = "mark" => djob'[o].looked <= starts /\ starts < starts' /\ djob'[o].looked \in Nat
    BY <1>1, <1>2, <1>3 DEF DeskInv, DeskTypes, StartsInv, JobStates
  <2>a. \A x \in Nat : x <= starts => x <= starts' /\ x # starts'
    BY <1>1
  <2>3. \A o \in DeskJobs : djob'[o].pc = "mark" => djob'[o].looked <= starts' /\ djob'[o].looked # starts'
    BY <2>2, <2>a, Zenon
  <2> QED BY <2>1, <2>3, Zenon DEF StartsInv
<1>12. Unheld'
    BY <1>5, Zenon DEF Unheld
<1>13. Unbound'
  <2>1. ~NeverBound
    BY <1>1, Zenon DEF NeverBound, Absent
  <2> QED BY <1>1, <1>5, <1>6, <2>1, Zenon DEF DeskInv, OwedInv, Unbound
<1>14. Owing'
    BY <1>1, <1>2, <1>3, <1>6, Zenon DEF Owing
<1> QED BY <1>8, <1>9, <1>10, <1>11, <1>12, <1>13, <1>14, Zenon DEF DeskInv, OwedInv

-----------------------------------------------------------------------------
(* Time and restarts *)

\* Time passes, and old entries of the limiter go.
LEMMA TickInv == ASSUME DeskInv, DeskTick PROVE DeskInv'
<1>1. /\ deskNow \in Nat /\ deskNow' = deskNow + 1
      /\ UNCHANGED <<asked, outages, limiterOf, allowedAt, boundTo, startedAt, djob, desk, lastGrant, starts, crawled, forgot, owed>>
    BY Zenon DEF DeskInv, DeskTypes, DeskTick, limitVars, storeVars, crawlHist
<1>2. DeskTypes'
  <2>1. crawled' \in [Handles -> Never..deskNow'] /\ startedAt' \in Never..deskNow'
    BY <1>1 DEF DeskInv, DeskTypes, Never
  <2> QED BY <1>1, <2>1 DEF DeskInv, DeskTypes
<1>3. PlaceInv'
    BY <1>1, Zenon DEF DeskInv, PlaceInv
<1>4. LimiterInv'
    BY <1>1, Zenon DEF DeskInv, LimiterInv, FreshInv, AllowInv, GrantInv
<1>5. ~StillRecent => ~StillRecent'
    BY <1>1, DeskConstants DEF DeskInv, DeskTypes, StillRecent, platformRefreshStartedWithin, Never
<1>6. StartsInv'
    BY <1>1, <1>5, Zenon DEF DeskInv, StartsInv
<1>7. Unheld' /\ Unbound'
    BY <1>1, <1>5, Zenon DEF DeskInv, OwedInv, Unheld, Unbound, NeverBound
<1>8. OnItsWay => OnItsWay'
    BY <1>1, Zenon DEF OnItsWay
<1>9. Owing'
    BY <1>1, <1>5, <1>8, Zenon DEF DeskInv, OwedInv, Owing
<1> QED BY <1>2, <1>3, <1>4, <1>6, <1>7, <1>9, Zenon DEF DeskInv, OwedInv

\* Nobody asks any more, and unfinished jobs are queued again.
LEMMA RestartInv == ASSUME DeskInv, DeskRestart PROVE DeskInv'
<1>1. /\ outages \in Nat /\ outages' = outages + 1
      /\ UNCHANGED <<deskNow, asked, boundTo, startedAt, starts, crawled, forgot>>
    BY Zenon DEF DeskInv, DeskTypes, DeskRestart, storeVars, crawlHist
<1>2. desk' \in [Desks -> DeskStates] /\ \A d \in Desks : desk'[d] = AtRest
    BY RestPlace, Zenon DEF DeskRestart
<1>3. /\ limiterOf' \in [LimiterKeys -> 0..MaxCallers] /\ \A k \in LimiterKeys : limiterOf'[k] = 0
      /\ allowedAt' \in [1..MaxCallers -> Int] /\ \A n \in 1..MaxCallers : allowedAt'[n] = Never
      /\ lastGrant' \in [LimiterKeys -> [at : Int, n : Nat]] /\ \A k \in LimiterKeys : lastGrant'[k].at = Never
    BY DeskConstants DEF DeskRestart, Never
<1>4. \A j \in DeskJobs :
         /\ djob'[j] \in JobStates
         /\ djob'[j].pc \in {Absent, "queued", "done"}
         /\ djob[j].pc \in {"queued", "look", "mark"} => djob'[j].pc = "queued"
  <2> SUFFICES ASSUME NEW j \in DeskJobs
               PROVE  /\ djob'[j] \in JobStates
                      /\ djob'[j].pc \in {Absent, "queued", "done"}
                      /\ djob[j].pc \in {"queued", "look", "mark"} => djob'[j].pc = "queued"
    BY Zenon
  <2>1. djob[j] \in JobStates
    BY Zenon DEF DeskInv, DeskTypes
  <2>2. CASE ActiveDeskJob(j)
    <3>1. djob'[j] = [djob[j] EXCEPT !.pc = "queued"]
        BY <2>2, Zenon DEF DeskRestart
    <3> QED BY <2>1, <3>1, Zenon DEF JobStates
  <2>3. CASE ~ActiveDeskJob(j)
    <3>1. djob'[j] = djob[j]
        BY <2>3, Zenon DEF DeskRestart
    <3> QED BY <2>1, <2>3, <3>1, Zenon DEF JobStates, ActiveDeskJob
  <2> QED BY <2>2, <2>3, Zenon
<1>5. djob' \in [DeskJobs -> JobStates]
    BY <1>4, Zenon DEF DeskRestart
<1>6. /\ owed' \in {"no", "yes", "excused", "lost"}
      /\ (\E d \in Desks : desk[d].op = "bind") => owed' = "lost"
      /\ owed = "lost" => owed' = "lost"
      /\ owed = "no" => owed' \in {"no", "lost"}
      /\ owed' = "yes" => owed = "yes" /\ \A j \in DeskJobs : djob[j].pc # "crawl"
  <2>1. owed \in {"no", "yes", "excused", "lost"}
    BY Zenon DEF DeskInv, DeskTypes
  <2>2. CASE \E d \in Desks : desk[d].op = "bind"
    BY <2>2, Zenon DEF DeskRestart
  <2>3. CASE ~(\E d \in Desks : desk[d].op = "bind") /\ owed = "yes" /\ \E j \in DeskJobs : djob[j].pc = "crawl"
    BY <2>3, Zenon DEF DeskRestart
  <2>4. CASE ~(\E d \in Desks : desk[d].op = "bind") /\ ~(owed = "yes" /\ \E j \in DeskJobs : djob[j].pc = "crawl")
    BY <2>1, <2>4, Zenon DEF DeskRestart
  <2> QED BY <2>2, <2>3, <2>4, Zenon
<1>7. DeskTypes'
    BY <1>1, <1>2, <1>3, <1>5, <1>6 DEF DeskInv, DeskTypes
<1>8. PlaceInv'
    BY <1>2, <1>4, RestPlace, Zenon DEF PlaceInv, Absent
<1>9. LimiterInv'
  <2>1. FreshInv' /\ AllowInv'
    BY <1>2, RestPlace, Zenon DEF FreshInv, AllowInv, Fresh
  <2>2. GrantInv'
    BY <1>1, <1>3, SMTT(30) DEF GrantInv, LimiterKeys, DeskInv, DeskTypes
  <2> QED BY <2>1, <2>2, Zenon DEF LimiterInv
<1>10. StillRecent' = StillRecent
    BY <1>1, Zenon DEF StillRecent, platformRefreshStartedWithin
<1>11. StartsInv'
    BY <1>1, <1>4, Zenon DEF DeskInv, StartsInv, Absent
<1>12. Unheld'
    BY <1>2, RestPlace, Zenon DEF Unheld
<1>13. Unbound'
  <2>1. (\E d \in Desks : desk[d].pc = "save") => owed' = "lost"
    BY <1>6, Zenon DEF DeskInv, PlaceInv, PlaceOf
  <2>2. NeverBound => owed' = "lost" \/ NeverBound'
    BY <1>1, <1>4, <1>6, Zenon DEF NeverBound
  <2> QED BY <1>1, <1>6, <2>1, <2>2, Zenon DEF DeskInv, OwedInv, Unbound
<1>14. Owing'
  <2> SUFFICES ASSUME owed' = "yes" PROVE Owing'
    BY Zenon DEF Owing
  <2>1. \A d \in Desks : ~Changing(desk[d]) /\ ~Asking(desk[d])
    BY <1>6, Zenon DEF DeskInv, PlaceInv, PlaceOf, Changing, Asking
  <2>2. boundTo # Absent /\ ~StillRecent /\ OnItsWay
    BY <1>6, <2>1, Zenon DEF DeskInv, OwedInv, Owing
  <2>3. \E j \in DeskJobs : djob'[j].pc = "queued"
    BY <1>4, <2>1, <2>2, Zenon DEF OnItsWay
  <2> QED BY <1>1, <1>10, <2>2, <2>3, Zenon DEF Owing, OnItsWay
<1> QED BY <1>7, <1>8, <1>9, <1>11, <1>12, <1>13, <1>14, Zenon DEF DeskInv, OwedInv

\* Every step preserves the invariant.
LEMMA NextDeskInv == DeskInv /\ [DeskNext]_deskVars => DeskInv'
<1> SUFFICES ASSUME DeskInv, [DeskNext]_deskVars PROVE DeskInv'
    BY Zenon
<1>1. CASE \E d \in Desks : Recent(d) \/ LoadLimiter(d) \/ LoadOrStore(d) \/ Allow(d) \/ Existing(d) \/ SameBinding(d)
    BY <1>1, RecentInv, LoadLimiterInv, LoadOrStoreInv, AllowStepInv, ExistingInv, SameBindingInv, Zenon
<1>2. CASE \E d \in Desks : ForgetStatus(d) \/ Unbind(d) \/ DeskSaveBinding(d) \/ findActiveJob(d) \/ DeskCreateJob(d)
    BY <1>2, ForgetStatusInv, UnbindInv, SaveBindingInv, FindActiveJobInv, CreateJobInv, Zenon
<1>3. CASE \E d \in Desks : Call(d, "update", Absent) \/ Call(d, "cron", Absent) \/ \E h \in Named : Call(d, "bind", h)
  <2>1. Named \subseteq Handles
    BY DeskConstants, Zenon DEF Named
  <2> QED BY <1>3, <2>1, CallInv, Zenon
<1>4. CASE \E j \in DeskJobs : LoadBinding(j) \/ LookRecent(j) \/ markPlatformRunning(j) \/ DeskCrawlEnds(j, "success") \/ DeskCrawlEnds(j, "failed")
    BY <1>4, LoadBindingInv, LookRecentInv, MarkRunningInv, CrawlEndsInv, Zenon
<1>5. CASE DeskTick \/ DeskRestart
    BY <1>5, TickInv, RestartInv, Zenon
<1>6. CASE UNCHANGED deskVars
  <2>1. StillRecent' = StillRecent
    BY <1>6, Zenon DEF StillRecent, platformRefreshStartedWithin, deskVars
  <2>2. DeskTypes' /\ PlaceInv'
    BY <1>6, Zenon DEF DeskInv, DeskTypes, PlaceInv, deskVars
  <2>3. LimiterInv' /\ StartsInv'
    BY <1>6, <2>1, Zenon DEF DeskInv, LimiterInv, FreshInv, AllowInv, GrantInv, StartsInv, deskVars
  <2>4. OwedInv'
    BY <1>6, <2>1, Zenon DEF DeskInv, OwedInv, Unheld, Unbound, NeverBound, Owing, OnItsWay, deskVars
  <2> QED BY <2>2, <2>3, <2>4, Zenon DEF DeskInv
<1> QED BY <1>1, <1>2, <1>3, <1>4, <1>5, <1>6, Zenon DEF DeskNext

-----------------------------------------------------------------------------
\* The account that was bound last is crawled, whatever the requests, jobs, accounts and
\* times: SetSpider's deletion of the sync status keeps the old account's start from
\* holding the new one off (service/spider.go:551-555).
THEOREM RebindRefreshed == DeskSpec => []RebindIsRefreshed
<1>1. DeskInv => RebindIsRefreshed
  <2> SUFFICES ASSUME DeskInv PROVE RebindIsRefreshed
    BY Zenon
  <2>1. DeskTypeOK
    BY Zenon DEF DeskInv, DeskTypes, JobStates, PlaceInv, PlaceOf, DeskTypeOK
  <2>2. ASSUME \A d \in Desks : desk[d].pc = "idle", \A j \in DeskJobs : ~ActiveDeskJob(j), owed = "yes" PROVE FALSE
    <3>1. \A d \in Desks : ~Changing(desk[d]) /\ ~Asking(desk[d])
        BY <2>2, Zenon DEF Changing, Asking
    <3> QED BY <2>2, <3>1, Zenon DEF DeskInv, OwedInv, Owing, OnItsWay, ActiveDeskJob
  <2> QED BY <2>1, <2>2, Zenon DEF RebindIsRefreshed
<1> QED BY <1>1, InitDeskInv, NextDeskInv, PTL DEF DeskSpec

\* A step that lets a request through does so a window after the last one under its key.
LEMMA GrantStep ==
    ASSUME DeskInv, [DeskNext]_deskVars, NEW k \in LimiterKeys, lastGrant'[k].n > lastGrant[k].n, lastGrant[k].at # Never
    PROVE  lastGrant'[k].at - lastGrant[k].at >= manualRefreshWindow(k)
<1>1. lastGrant \in [LimiterKeys -> [at : Int, n : Nat]] /\ lastGrant[k].n \in Nat
    BY Zenon DEF DeskInv, DeskTypes
<1>2. lastGrant' # lastGrant /\ ~DeskRestart
    BY <1>1 DEF DeskRestart
<1>3. PICK d \in Desks : Allow(d)
    BY <1>2, ZenonT(40) DEF DeskNext, deskVars, limitVars, Recent, LoadLimiter, LoadOrStore, Existing, SameBinding, ForgetStatus, Unbind,
                DeskSaveBinding, findActiveJob, DeskCreateJob, Call, LoadBinding, LookRecent, markPlatformRunning,
                DeskCrawlEnds, DeskTick
<1>4. KeyOf(d) = KeyFor(desk[d]) /\ KeyOf(d) \in LimiterKeys /\ desk[d].pc = "allow"
    BY <1>3, Zenon DEF KeyOf, KeyFor, Allow, LimiterKeys
<1>5. limiterOf[KeyOf(d)] # 0 /\ desk[d].mine = limiterOf[KeyOf(d)] /\ allowedAt[desk[d].mine] = lastGrant[KeyOf(d)].at
  <2>1. limiterOf[KeyOf(d)] # 0 /\ desk[d].mine = limiterOf[KeyOf(d)]
    BY <1>4, Zenon DEF DeskInv, LimiterInv, AllowInv
  <2> QED BY <1>4, <2>1, Zenon DEF DeskInv, LimiterInv, GrantInv
<1>6. /\ ~(allowedAt[desk[d].mine] # Never /\ deskNow - allowedAt[desk[d].mine] < manualRefreshWindow(KeyOf(d)))
      /\ lastGrant' = [lastGrant EXCEPT ![KeyOf(d)] = [at |-> deskNow, n |-> @.n + 1]]
    BY <1>2, <1>3, Zenon DEF Allow
<1>7. KeyOf(d) = k
    BY <1>1, <1>4, <1>6
<1>8. lastGrant'[k].at = deskNow
    BY <1>1, <1>6, <1>7, Zenon
<1> QED BY <1>1, <1>5, <1>6, <1>7, <1>8, DeskConstants, SMTT(30) DEF DeskInv, DeskTypes, manualRefreshWindow

\* A worker about to start a crawl that looked after the last start saw none recent.
LEMMA StartStep ==
    ASSUME DeskInv, NEW j \in DeskJobs, djob[j].pc = "mark",
           djob[j].looked = starts, djob[j].handle \notin forgot, crawled[djob[j].handle] # Never
    PROVE  deskNow - crawled[djob[j].handle] >= Cooldown
<1>1. djob[j].handle \in Handles
    BY Zenon DEF DeskInv, PlaceInv
<1>2. startedAt # Never /\ crawled[djob[j].handle] <= startedAt /\ ~StillRecent
    BY <1>1, Zenon DEF DeskInv, StartsInv
<1>3. startedAt \in Int /\ crawled[djob[j].handle] \in Int /\ deskNow \in Int
    BY <1>1 DEF DeskInv, DeskTypes, Never
<1> QED BY <1>2, <1>3, DeskConstants DEF StillRecent, platformRefreshStartedWithin

\* Requests under one key are let through a window apart, and an account is asked at most
\* once in the cool-down, for every number of requests, jobs and restarts and every
\* interleaving of the look-up and the store of a limiter (service/spider.go:77-85,
\* biz/service/spider.go:91-106).
THEOREM RefreshesSpaced == DeskSpec => RefreshesAreSpaced
<1> DEFINE Granted ==
        \A k \in LimiterKeys : lastGrant'[k].n > lastGrant[k].n /\ lastGrant[k].at # Never =>
          lastGrant'[k].at - lastGrant[k].at >= manualRefreshWindow(k)
    Spared ==
        \A j \in DeskJobs :
          LET h == djob[j].handle
          IN  djob[j].pc = "mark" /\ djob'[j].pc = "crawl" /\ djob[j].looked = starts /\ h \notin forgot
                 /\ crawled[h] # Never => deskNow - crawled[h] >= Cooldown
<1>1. DeskInv /\ [DeskNext]_deskVars => [Granted]_deskVars
    BY GrantStep, Zenon
<1>2. DeskInv /\ [DeskNext]_deskVars => [Spared]_deskVars
    BY StartStep, Zenon
<1> QED BY <1>1, <1>2, InitDeskInv, NextDeskInv, PTL DEF DeskSpec, RefreshesAreSpaced, GrantsApart, CodeforcesSpared
=============================================================================
