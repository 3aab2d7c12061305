------------------------------ MODULE Summaries ------------------------------
(* The AI reports: the scheduler of core_data that lists the users and publishes   *)
(* one task each (task/cron.go, task/summary.go), the agent's consumer             *)
(* (biz/service/consumer.go) with the reports it makes (biz/service/summary.go),    *)
(* the conversation with the model and its tools (agent/chat.go, agent/tool), the   *)
(* connection to RabbitMQ the agent's publisher and consumer share                 *)
(* (common/event/rabbit_mq.go), and the reader of the stored report                    *)
(* (service/summary.go).                                                          *)
(*                                                                              *)
(* A task is its number; its record [user, type] is fixed when it is published.    *)
(* The model is free in what it answers.                                          *)
EXTENDS Integers, Sequences, FiniteSets

CONSTANTS SumUsers,      \* the users; a user is a number
          SumRoles,      \* the roles under check, of 0 (user), 1 (admin), 2 (coach)
          Mondays,       \* the weekdays under check: TRUE is a Monday
          TaskTypes,     \* the types of the jobs; "bad" is a body that does not parse
          Runners,       \* goroutines of the consumer
          Prefetch,      \* Qos
          MaxTasksSent,  \* bound: jobs published
          MaxCalls,      \* bound: tool calls per report
          MaxLosses,     \* bound: connections lost
          MaxToggles,    \* bound: changes of a user's mail setting
          ListPage,      \* users per page of getUserIds: 100 in the code
          MaxListed,     \* bound: users registered when the list is begun
          MaxGone        \* bound: users deleted while it is read

ASSUME SummaryConstants ==
    /\ Prefetch \in Nat \ {0} /\ ListPage \in Nat \ {0} /\ SumUsers \subseteq Nat \ {0}
    /\ SumRoles \subseteq 0..2 /\ Mondays \subseteq BOOLEAN /\ TaskTypes \subseteq {"PersonalLastDay", "PersonalRecent", "bad"}
    /\ MaxCalls \in Nat /\ MaxListed \in Nat

VARIABLES
    jobs,     \* the jobs published: sequence of [user, type]
    waiting,   \* the queue "summary": the numbers of the jobs in it
    unacked,   \* delivered to the consumer's channel and not settled
    settled,   \* task -> "open", "acked", "dropped", "lost"
    channel,   \* [no, open]: r.Ch of the agent
    consumer,  \* the channel on which Consume ranges; 0 when it has returned
    run,       \* per goroutine, see Resting
    mailOn,    \* per user: email_enabled
    recent,    \* per user: whether there is agent:summary:<id>:recent
    mails,     \* history: the mails sent, [task, kind, seen, role]
    tries,     \* history, per task: deliveries
    losses, toggles,   \* connections lost, settings changed
    monday, roleOf     \* whether today is a Monday; per user, the role

sumVars == <<jobs, waiting, unacked, settled, channel, consumer, run, mailOn, recent, mails, tries, losses, toggles, monday, roleOf>>

\* kind is the report being made; seen: the user had mails switched on at
\* some time since the delivery, or the profile could not be read; role: as read.
Resting == [pc |-> "rest", task |-> 0, on |-> 0, kind |-> "none", calls |-> 0, seen |-> "no", role |-> 0]

SumInit ==
    /\ jobs = <<>> /\ waiting = <<>> /\ unacked = {} /\ settled = <<>>
    /\ channel = [no |-> 1, open |-> "yes"] /\ consumer = 1
    /\ run = [r \in Runners |-> Resting] /\ mailOn = [u \in SumUsers |-> "yes"]
    /\ recent = [u \in SumUsers |-> "no"]
    /\ mails = {} /\ tries = <<>> /\ losses = 0 /\ toggles = 0 /\ monday \in Mondays
    /\ roleOf \in [SumUsers -> SumRoles]

UserOf(r) == jobs[run[r].task].user
Active(r) == run[r].pc # "rest"
Goto(r, pc) == run' = [run EXCEPT ![r].pc = pc]

-----------------------------------------------------------------------------
(* Publishing *)

Enqueue(u, type) ==
    /\ jobs' = Append(jobs, [user |-> u, type |-> type]) /\ waiting' = Append(waiting, Len(jobs) + 1)
    /\ settled' = Append(settled, "open") /\ tries' = Append(tries, 0)
NotEnqueued(u, type) ==
    /\ jobs' = Append(jobs, [user |-> u, type |-> type]) /\ settled' = Append(settled, "lost")
    /\ tries' = Append(tries, 0) /\ UNCHANGED waiting

\* The scheduler, over the connection of core_data: the publication works or is lost.
PublishTask(u, type) ==
    /\ Len(jobs) < MaxTasksSent
    /\ Enqueue(u, type) \/ NotEnqueued(u, type)
    /\ UNCHANGED <<unacked, channel, consumer, run, mailOn, recent, mails, losses, toggles, monday, roleOf>>

\* The connection is closed: what was not settled goes back to the head of the queue,
\* in the order it came, and Consume returns.
Requeue ==
    \E back \in [1..Cardinality(unacked) -> unacked] :
       /\ \A a, b \in 1..Cardinality(unacked) : a < b => back[a] < back[b]
       /\ waiting' = back \o waiting

\* SummaryTask.publish over the connection that Consume ranges on.  When the channel does
\* not work it is closed and opened anew, and only the publisher gets the new one (a
\* channel that fails while it is open is closed first, which is LoseConnection).
publish(u, type) ==
    \/ channel.open = "yes" /\ Enqueue(u, type) /\ UNCHANGED channel
    \/ channel.open = "no" /\ NotEnqueued(u, type) /\ UNCHANGED channel
    \/ /\ channel.open = "no" /\ channel' = [no |-> channel.no + 1, open |-> "yes"]
       /\ Enqueue(u, type) \/ NotEnqueued(u, type)

\* GetRecentSummary publishes when there is no report, and when Redis does not answer.
GetRecentSummary(u) ==
    /\ Len(jobs) < MaxTasksSent
    /\ publish(u, "PersonalRecent")
    /\ UNCHANGED <<unacked, consumer, run, mailOn, recent, mails, losses, toggles, monday, roleOf>>

LoseConnection ==
    /\ losses < MaxLosses /\ channel.open = "yes" /\ losses' = losses + 1
    /\ channel' = [channel EXCEPT !.open = "no"] /\ consumer' = 0
    /\ Requeue /\ unacked' = {}
    /\ UNCHANGED <<jobs, settled, run, mailOn, recent, mails, tries, toggles, monday, roleOf>>

\* The agent ends and is started anew, its connection still open or not: its
\* goroutines are gone, Consume runs again.
Restart ==
    /\ channel.open = "yes" /\ consumer # 0 => losses < MaxLosses
    /\ losses' = IF consumer = 0 THEN losses ELSE losses + 1
    /\ channel' = [no |-> channel.no + 1, open |-> "yes"] /\ consumer' = channel.no + 1
    /\ Requeue /\ unacked' = {} /\ run' = [r \in Runners |-> Resting]
    /\ UNCHANGED <<jobs, settled, mailOn, recent, mails, tries, toggles, monday, roleOf>>

\* SetEmailEnabled of the user service.
ToggleMail(u) ==
    /\ toggles < MaxToggles /\ toggles' = toggles + 1
    /\ mailOn' = [mailOn EXCEPT ![u] = IF @ = "yes" THEN "no" ELSE "yes"]
    /\ run' = [r \in Runners |-> IF Active(r) /\ UserOf(r) = u /\ mailOn'[u] = "yes"
                                 THEN [run[r] EXCEPT !.seen = "yes"] ELSE run[r]]
    /\ UNCHANGED <<jobs, waiting, unacked, settled, channel, consumer, recent, mails, tries, losses, monday, roleOf>>

-----------------------------------------------------------------------------
(* Consuming *)

\* Consume: a goroutine per delivery.  Goroutines have no names: a new one takes the
\* place that CHOOSE finds among those at rest.
Consume(r) ==
    /\ consumer # 0 /\ waiting # <<>> /\ Cardinality(unacked) < Prefetch
    /\ ~Active(r) /\ r = CHOOSE x \in Runners : ~Active(x)
    /\ LET t == Head(waiting)
           first == IF jobs[t].type = "PersonalLastDay" THEN "enabled"
                    ELSE IF jobs[t].type = "PersonalRecent" THEN "chat" ELSE "unparsed"
       IN  /\ waiting' = Tail(waiting) /\ unacked' = unacked \cup {t}
           /\ tries' = [tries EXCEPT ![t] = @ + 1]
           /\ run' = [run EXCEPT ![r] = [pc |-> first, task |-> t, on |-> consumer, kind |-> "recent", calls |-> 0,
                                         seen |-> mailOn[jobs[t].user], role |-> 0]]
    /\ UNCHANGED <<jobs, settled, channel, consumer, mailOn, recent, mails, losses, toggles, monday, roleOf>>

\* A body that does not parse is neither acknowledged nor rejected.
Unparsed(r) ==
    /\ run[r].pc = "unparsed" /\ run' = [run EXCEPT ![r] = Resting]
    /\ UNCHANGED <<jobs, waiting, unacked, settled, channel, consumer, mailOn, recent, mails, tries, losses, toggles, monday, roleOf>>

\* Mutant: after an error the delivery is not settled.
MutNoNack(r) ==
    /\ run[r].pc \in {"ok", "failed"} /\ run' = [run EXCEPT ![r] = Resting]
    /\ IF run[r].on = consumer /\ run[r].pc = "ok"
       THEN unacked' = unacked \ {run[r].task} /\ settled' = [settled EXCEPT ![run[r].task] = "acked"]
       ELSE UNCHANGED <<unacked, settled>>
    /\ UNCHANGED <<jobs, waiting, channel, consumer, mailOn, recent, mails, tries, losses, toggles, monday, roleOf>>

\* Ack, or Nack without requeue; on a channel that is gone neither has an effect.
Settle(r) ==
    /\ run[r].pc \in {"ok", "failed"} /\ run' = [run EXCEPT ![r] = Resting]
    /\ IF run[r].on = consumer
       THEN /\ unacked' = unacked \ {run[r].task}
            /\ settled' = [settled EXCEPT ![run[r].task] = IF run[r].pc = "ok" THEN "acked" ELSE "dropped"]
       ELSE UNCHANGED <<unacked, settled>>
    /\ UNCHANGED <<jobs, waiting, channel, consumer, mailOn, recent, mails, tries, losses, toggles, monday, roleOf>>

-----------------------------------------------------------------------------
(* The reports *)

reportVars == <<jobs, waiting, unacked, settled, channel, consumer, mailOn, tries, losses, toggles, monday, roleOf>>
Working == UNCHANGED reportVars

\* checkEmailEnabled: a profile that cannot be read counts as switched on.
checkEmailEnabled(r, pc, next) ==
    /\ run[r].pc = pc
    /\ \/ run' = [run EXCEPT ![r].pc = IF mailOn[UserOf(r)] = "yes" THEN next ELSE IF pc = "weekly" /\ run[r].role = 1 THEN "daily" ELSE "ok"]
       \/ run' = [run EXCEPT ![r].pc = next, ![r].seen = "yes"]
    /\ Working /\ UNCHANGED <<recent, mails>>

\* checkRoleId, and the report PersonalLastDay goes on with.
FirstReport(role) ==
    IF role \in {1, 2} /\ monday THEN "weekly" ELSE IF role = 2 THEN "ok" ELSE "daily"
checkRoleId(r) ==
    /\ run[r].pc = "role"
    /\ \E role \in {roleOf[UserOf(r)], 0} :
          run' = [run EXCEPT ![r].pc = FirstReport(role), ![r].role = role]
    /\ Working /\ UNCHANGED <<recent, mails>>

\* The conversation of a report begins.
StartChat(r) ==
    /\ run[r].pc \in {"daily", "weeklyChat"}
    /\ run' = [run EXCEPT ![r].pc = "chat", ![r].calls = 0, ![r].kind = IF run[r].pc = "daily" THEN "daily" ELSE "weekly"]
    /\ Working /\ UNCHANGED <<recent, mails>>

\* A tool call of the model.  send_email and redis_set have their effect or report a
\* failure to the model; the tools that look something up leave no trace.  The model
\* uses the key and the address it was told to use.
SendEmail(r) ==
    /\ mails' = mails \cup {[task |-> run[r].task, kind |-> run[r].kind, seen |-> run[r].seen, role |-> run[r].role]}
    /\ UNCHANGED recent
RedisSet(r) == recent' = [recent EXCEPT ![UserOf(r)] = "yes"] /\ UNCHANGED mails
CallTool(r) ==
    /\ run[r].pc = "chat" /\ run[r].calls < MaxCalls
    /\ run' = [run EXCEPT ![r].calls = @ + 1]
    /\ \/ run[r].kind # "recent" /\ SendEmail(r)
       \/ run[r].kind = "recent" /\ RedisSet(r)
       \/ UNCHANGED <<recent, mails>>
    /\ Working

\* The conversation ends: with a text or none, or with an error (the service does not
\* answer, answers nothing, or asks for a tool it was not given).  The weekly report's
\* error is the coach's; the admin's daily report follows in any case.
AfterChat(r, outcome) ==
    IF run[r].kind = "weekly" /\ run[r].role = 1 THEN "daily"
    ELSE IF outcome = "error" THEN "failed"
    ELSE IF run[r].kind # "recent" THEN "ok"
    ELSE IF outcome = "empty" THEN "existsEmpty" ELSE "exists"
EndChat(r) ==
    /\ run[r].pc = "chat"
    /\ \E outcome \in {"text", "empty", "error"} : Goto(r, AfterChat(r, outcome))
    /\ Working /\ UNCHANGED <<recent, mails>>

\* redisExists: with a report stored, by this conversation or an earlier one, all is well.
redisExists(r) ==
    /\ run[r].pc \in {"exists", "existsEmpty"}
    /\ \/ Goto(r, IF recent[UserOf(r)] = "yes" THEN "ok" ELSE IF run[r].pc = "exists" THEN "fallback" ELSE "failed")
       \/ Goto(r, "failed")
    /\ Working /\ UNCHANGED <<recent, mails>>

\* The answer itself is stored: the object with "msg" found in it, or the whole answer
\* wrapped into one; "updateTime" is added where it is missing.
Fallback(r) ==
    /\ run[r].pc = "fallback"
    /\ \/ recent' = [recent EXCEPT ![UserOf(r)] = "yes"] /\ Goto(r, "ok")
       \/ UNCHANGED recent /\ Goto(r, "failed")
    /\ Working /\ UNCHANGED mails

ReportStep(r) ==
    \/ checkEmailEnabled(r, "enabled", "role") \/ checkEmailEnabled(r, "weekly", "weeklyChat") \/ checkRoleId(r)
    \/ StartChat(r) \/ CallTool(r) \/ EndChat(r) \/ redisExists(r) \/ Fallback(r)
SumNext ==
    \/ \E u \in SumUsers : GetRecentSummary(u) \/ ToggleMail(u) \/ \E type \in TaskTypes : PublishTask(u, type)
    \/ LoseConnection \/ Restart
    \/ \E r \in Runners : Consume(r) \/ Unparsed(r) \/ Settle(r) \/ ReportStep(r)

-----------------------------------------------------------------------------
(* getUserIds: the pages of the user service's list, ordered by id.  Users register   *)
(* and are deleted between two pages.                                               *)

VARIABLES people,   \* the users there are, by id
          stayed,   \* history: those there from the first page on
          listed,   \* the ids collected
          again,    \* history: those collected twice
          lister,   \* [pc, page, pages]
          leavers, skipped   \* history: deletions since the first page, pages that failed

listVars == <<people, stayed, listed, again, lister, leavers, skipped>>
ListInit ==
    /\ people \in {1..n : n \in 1..MaxListed} /\ stayed = people /\ listed = {} /\ again = {}
    /\ lister = [pc |-> "first", page |-> 1, pages |-> 1] /\ leavers = 0 /\ skipped = 0

PlaceById(u) == Cardinality({v \in people : v <= u})
UserPage(n) == {u \in people : PlaceById(u) \in ((n - 1) * ListPage + 1)..(n * ListPage)}

PageTotal(total) == (total + ListPage - 1) \div ListPage

\* A page that does not arrive: of the first one nothing is known, a later one is left out.
GetUsers ==
    /\ lister.pc \in {"first", "rest"} /\ lister.page <= lister.pages
    /\ LET pages == IF lister.pc = "first" THEN PageTotal(Cardinality(people)) ELSE lister.pages
       IN  \/ /\ listed' = listed \cup UserPage(lister.page) /\ again' = again \cup (listed \cap UserPage(lister.page))
              /\ UNCHANGED skipped
              /\ lister' = [pc |-> IF lister.page + 1 > pages THEN "done" ELSE "rest", page |-> lister.page + 1, pages |-> pages]
           \/ /\ UNCHANGED <<listed, again>> /\ skipped' = skipped + 1
              /\ lister' = [pc |-> IF lister.pc = "first" \/ lister.page + 1 > pages THEN "done" ELSE "rest",
                            page |-> lister.page + 1, pages |-> pages]
    /\ UNCHANGED <<people, stayed, leavers>>
UserLeaves ==
    /\ lister.pc = "rest" /\ leavers < MaxGone
    /\ \E u \in stayed : people' = people \ {u} /\ stayed' = stayed \ {u}
    /\ leavers' = leavers + 1 /\ UNCHANGED <<listed, again, lister, skipped>>
UserJoins ==
    /\ lister.pc = "rest" /\ people' = people \cup {MaxListed + 1} /\ UNCHANGED <<stayed, listed, again, lister, leavers, skipped>>
ListNext == GetUsers \/ UserLeaves \/ UserJoins

\* The agent, and beside it the scheduler that reads the list.
SumSpec == SumInit /\ ListInit /\ [][SumNext]_sumVars /\ [][ListNext]_listVars

-----------------------------------------------------------------------------
SumTypeOK ==
    /\ {waiting[i] : i \in DOMAIN waiting} \subseteq 1..Len(jobs) /\ unacked \subseteq 1..Len(jobs) /\ Cardinality(unacked) <= Prefetch
    /\ Len(settled) = Len(jobs) /\ Len(tries) = Len(jobs) /\ consumer \in {0, channel.no}
    /\ \A r \in Runners : run[r].task \in 0..Len(jobs) /\ run[r].calls \in 0..MaxCalls
    /\ mailOn \in [SumUsers -> {"yes", "no"}] /\ recent \in [SumUsers -> {"yes", "no"}]

\* A report is mailed for a user only when the user had mails switched on at some time
\* since the task was delivered, or the profile could not be read (checkEmailEnabled takes
\* that for consent, biz/service/summary.go:275-281).
OptOutHonoured == \A m \in mails : m.seen = "yes"

\* A weekly report is made on Mondays for coaches and admins, a coach gets a daily one
\* only when the role could not be read (checkRoleId gives 0, biz/service/summary.go:266-272).
ReportFitsRole ==
    \A m \in mails : LET role == roleOf[jobs[m.task].user]
                     IN  /\ m.kind = "weekly" => monday /\ role \in {1, 2}
                         /\ m.kind = "daily" /\ role = 2 => m.role = 0

\* A task is worked on once, and once more for each time the connection was lost or the
\* agent restarted: an error drops it (consumer.go:51-56), so its mails are not sent twice.
OncePerConnection == \A t \in 1..Len(jobs) : tries[t] <= 1 + losses

\* A PersonalRecent task that is acknowledged leaves a report to read: GetRecentSummary
\* then stops asking for new ones (biz/service/summary.go:147-163, service/summary.go).
AckedIsStored ==
    \A t \in 1..Len(jobs) : settled[t] = "acked" /\ jobs[t].type = "PersonalRecent" => recent[jobs[t].user] = "yes"

\* Each delivery that holds a place of the prefetch window is being worked on, or is a
\* body that did not parse (consumer.go:38-42), which holds it until the channel goes.
SlotsAccountedFor ==
    \A t \in unacked : jobs[t].type = "bad" \/ \E r \in Runners : run[r].task = t /\ run[r].on = consumer

\* The scheduler's list misses, of the users there from the first page on, at most one for
\* each user deleted meanwhile and one page for each page that did not arrive, and has
\* nobody twice (cron.go:58-95); a failed first page leaves everybody out.
ListReachesAll ==
    lister.pc = "done" =>
        /\ again = {}
        /\ listed # {} => Cardinality(stayed \ listed) <= leavers + ListPage * skipped

\* What a user may expect of the agent's reports, and the broker of its consumer
\* (biz/service/summary.go:60-170, consumer.go:25-60, cron.go:58-95).
SummariesAreSound ==
    SumTypeOK /\ OptOutHonoured /\ ReportFitsRole /\ OncePerConnection /\ AckedIsStored /\ SlotsAccountedFor /\ ListReachesAll
=============================================================================
