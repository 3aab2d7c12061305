------------------------------- MODULE JobBoard -------------------------------
(* What service/spider.go shows of refreshes: Job, Jobs, Health and Status, over a     *)
(* table of jobs [id, user, requester, status, updated, error] and a table of sync     *)
(* statuses.  A caller is [user, role].                                            *)
EXTENDS Integers, Sequences, FiniteSets, SequencesExt, TLC

RoleIsStaff(role) == role \in {1, 2}

canManageCoreOps(c) == RoleIsStaff(c.role)
canOperateUserDetail(c, target) == c.user = target \/ canManageCoreOps(c)
SelfOrAbove(c, target) == c.role = 1 \/ c.user = target

\* Mutant: the error is shown to everybody.
MutShowsErrors(job, open) == job

\* jobToPb: the error text is blanked for those who may not see it.
jobToPb(job, open) == IF open THEN job ELSE [job EXCEPT !.error = ""]

\* Job: of a row, for its user and for staff.
MayOpen(c, job) == canOperateUserDetail(c, job.user)
JobAnswer(c, job) == IF MayOpen(c, job) THEN {jobToPb(job, TRUE)} ELSE {}

\* Jobs: "mine" are the caller's and those they asked for; "all" is for staff.  A
\* request is [scope, user, status, page, size], user 0 and status "" for any.
JobsRefused(c, req) == req.scope = "all" /\ ~canManageCoreOps(c)
JobRows(table, c, req) ==
    {j \in table : /\ IF req.scope = "all" THEN req.user <= 0 \/ j.user = req.user
                      ELSE c.user \in {j.user, j.requester}
                   /\ req.status \in {"", j.status}}
Jobs(table, c, req) ==
    LET page == IF req.page <= 0 THEN 1 ELSE req.page
        size == IF req.size <= 0 \/ req.size > 100 THEN 20 ELSE req.size
        rows == SetToSortSeq(JobRows(table, c, req), LAMBDA i, j : i.updated > j.updated)
        to == IF page * size > Len(rows) THEN Len(rows) ELSE page * size
        shown == SubSeq(rows, (page - 1) * size + 1, to)
    IN  [total |-> Len(rows),
         list |-> [k \in 1..Len(shown) |-> jobToPb(shown[k], canOperateUserDetail(c, shown[k].user))]]

\* Health: three counts over the whole table, failures of the last day.
JobHealth(table, now, day) ==
    LET count(st) == Cardinality({j \in table : j.status = st})
    IN  [queued |-> count("queued"), running |-> count("running"),
         failedToday |-> Cardinality({j \in table : j.status = "failed" /\ j.updated >= now - day})]

\* Status: every bound platform with its sync status [success, error], or "never";
\* stale without a success in the last day.
StatusRefused(c, user) == user <= 0 \/ (~SelfOrAbove(c, user) /\ ~canManageCoreOps(c))
SyncStatus(c, user, bound, statuses, now, staleAfter) ==
    [p \in bound |->
        IF p \notin DOMAIN statuses THEN [status |-> "never", error |-> "", stale |-> TRUE]
        ELSE LET s == statuses[p]
             IN  [status |-> s.status, error |-> IF canOperateUserDetail(c, user) THEN s.error ELSE "",
                  stale |-> s.success = 0 \/ now - s.success > staleAfter]]

-----------------------------------------------------------------------------
\* The pages of Jobs hold every row the scope admits once, the last updated first,
\* and show an error exactly where Job would open the row for the caller: a job asked
\* for on somebody else's behalf is listed without its error
\* (service/spider.go:230-322).
JobsShowWhatJobOpens(table, c, req) ==
    ~JobsRefused(c, req) =>
        LET page(k) == Jobs(table, c, [req EXCEPT !.page = k])
            all == FlattenSeq([k \in 1..(Cardinality(table) + 1) |-> page(k).list])
        IN  /\ Len(all) = page(1).total /\ {all[k].id : k \in 1..Len(all)} = {j.id : j \in JobRows(table, c, req)}
            /\ \A k \in 1..(Len(all) - 1) : all[k].updated > all[k + 1].updated
            /\ \A k \in 1..Len(all) :
                  LET job == CHOOSE j \in table : j.id = all[k].id
                  IN  all[k].error = IF JobAnswer(c, job) = {} THEN "" ELSE job.error

\* What Health counts, staff find in Jobs; and whoever may read a user's Status may
\* open that user's jobs and sees the error in both (service/spider.go:324-361,
\* 454-522).
BoardsAgree(table, c, now, day) ==
    LET h == JobHealth(table, now, day)
        total(st) == Jobs(table, c, [scope |-> "all", user |-> 0, status |-> st, page |-> 1, size |-> 20]).total
    IN  /\ canManageCoreOps(c) => h.queued = total("queued") /\ h.running = total("running") /\ h.failedToday <= total("failed")
        /\ \A j \in table : ~StatusRefused(c, j.user) =>
              LET st == [status |-> j.status, error |-> j.error, success |-> IF j.status = "failed" THEN 0 ELSE j.updated]
                  shown == SyncStatus(c, j.user, {"bound", "new"}, "bound" :> st, now, day)
              IN  /\ JobAnswer(c, j) # {} /\ shown["bound"].error = j.error
                  /\ shown["new"].stale /\ (shown["bound"].stale <=> j.status = "failed" \/ now - j.updated > day)
=============================================================================
