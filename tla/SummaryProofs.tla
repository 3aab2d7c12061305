---------------------------- MODULE SummaryProofs ----------------------------
(* The reports, for any number of users, goroutines, tasks, losses of the connection *)
(* and restarts: they go to those who want them, once per connection, and the   *)
(* scheduler's list of users misses no more than deletions and lost pages explain. *)
EXTENDS Summaries, TLAPS, FiniteSetTheorems

-----------------------------------------------------------------------------
(* The reports: the agent *)

JobRecords == [user : SumUsers, type : {"PersonalLastDay", "PersonalRecent", "bad"}]
RunStates ==
    [pc : {"rest", "unparsed", "enabled", "role", "weekly", "weeklyChat", "daily", "chat", "exists", "existsEmpty", "fallback",
           "ok", "failed"},
     task : Nat, on : Nat, kind : {"none", "recent", "daily", "weekly"}, calls : 0..MaxCalls, seen : {"yes", "no"}, role : 0..2]
MailRecords == [task : Nat, kind : {"none", "recent", "daily", "weekly"}, seen : {"yes", "no"}, role : 0..2]
SumTypes ==
    /\ jobs \in Seq(JobRecords) /\ waiting \in Seq(1..Len(jobs)) /\ unacked \in SUBSET (1..Len(jobs))
    /\ settled \in Seq({"open", "acked", "dropped", "lost"}) /\ Len(settled) = Len(jobs)
    /\ tries \in Seq(Nat) /\ Len(tries) = Len(jobs) /\ losses \in Nat
    /\ channel \in [no : Nat, open : {"yes", "no"}] /\ consumer \in {0, channel.no}
    /\ run \in [Runners -> RunStates] /\ mails \in SUBSET MailRecords
    /\ mailOn \in [SumUsers -> {"yes", "no"}] /\ recent \in [SumUsers -> {"yes", "no"}]
    /\ monday \in BOOLEAN /\ roleOf \in [SumUsers -> 0..2]

\* A task is in the queue once, or delivered, or settled; it is back in the queue only
\* after a connection was lost.
QueueInv ==
    /\ \A a, b \in 1..Len(waiting) : waiting[a] = waiting[b] => a = b
    /\ \A a \in 1..Len(waiting) : waiting[a] \notin unacked /\ tries[waiting[a]] <= losses
    /\ OncePerConnection
    /\ consumer = 0 => unacked = {}
    /\ channel.open = "no" => consumer = 0
    /\ IsFiniteSet(unacked) /\ Cardinality(unacked) <= Prefetch

\* What a goroutine q knows of its task while it makes a report.
Consented(q) == q.pc \in {"role", "weekly", "weeklyChat", "daily"} \/ (q.pc = "chat" /\ q.kind # "recent")
Weekly(q) == q.pc \in {"weekly", "weeklyChat"} \/ (q.pc = "chat" /\ q.kind = "weekly")
Daily(q) == q.pc = "daily" \/ (q.pc = "chat" /\ q.kind = "daily")
OnTask(q) ==
    /\ q.task \in 1..Len(jobs) /\ q.pc # "rest" /\ q.kind # "none"
    /\ jobs[q.task].type = "PersonalRecent" =>
          /\ q.kind = "recent" /\ q.pc \in {"chat", "exists", "existsEmpty", "fallback", "ok", "failed"}
          /\ q.pc = "ok" => recent[jobs[q.task].user] = "yes"
    /\ q.pc = "unparsed" => jobs[q.task].type = "bad"
    /\ q.pc = "enabled" /\ mailOn[jobs[q.task].user] = "yes" => q.seen = "yes"
    /\ Consented(q) => q.seen = "yes"
    /\ q.role \in {0, roleOf[jobs[q.task].user]}
    /\ Weekly(q) => monday /\ q.role \in {1, 2}
    /\ Daily(q) => q.role # 2
RunInv == \A r \in Runners : run[r] = Resting \/ OnTask(run[r])

\* A mail as it may be sent.
MailFits(m) ==
    /\ m.task \in 1..Len(jobs) /\ m.seen = "yes"
    /\ m.kind = "weekly" => monday /\ roleOf[jobs[m.task].user] \in {1, 2}
    /\ m.kind = "daily" /\ roleOf[jobs[m.task].user] = 2 => m.role = 0
MailInv == \A m \in mails : MailFits(m)

SumInv == SumTypes /\ QueueInv /\ RunInv /\ MailInv /\ AckedIsStored /\ SlotsAccountedFor

-----------------------------------------------------------------------------
\* The invariant holds when the agent starts.
LEMMA InitSumInv == SumInit => SumInv
<1> SUFFICES ASSUME SumInit PROVE SumInv
    BY Zenon
<1>1. Resting \in RunStates
    BY SummaryConstants DEF Resting, RunStates
<1>2. Len(jobs) = 0 /\ Len(waiting) = 0 /\ unacked = {} /\ mails = {}
    BY Zenon DEF SumInit
<1>3. SumTypes
  <2>1. jobs \in Seq(JobRecords) /\ waiting \in Seq(1..Len(jobs)) /\ settled \in Seq({"open", "acked", "dropped", "lost"}) /\ tries \in Seq(Nat)
    BY DEF SumInit
  <2>2. monday \in BOOLEAN /\ roleOf \in [SumUsers -> 0..2]
    BY SummaryConstants, Zenon DEF SumInit
  <2> QED BY <1>1, <2>1, <2>2 DEF SumInit, SumTypes
<1>4. QueueInv
    BY <1>2, FS_EmptySet, SummaryConstants DEF SumInit, QueueInv, OncePerConnection
<1>5. RunInv
    BY Zenon DEF SumInit, RunInv
<1>6. MailInv /\ AckedIsStored /\ SlotsAccountedFor
    BY <1>2 DEF MailInv, AckedIsStored, SlotsAccountedFor
<1> QED BY <1>3, <1>4, <1>5, <1>6, Zenon DEF SumInv

\* A job is of a user and of a known type.
LEMMA JobOf == ASSUME SumTypes, NEW t \in 1..Len(jobs)
               PROVE  jobs[t] \in JobRecords /\ jobs[t].user \in SumUsers /\ jobs[t].type \in {"PersonalLastDay", "PersonalRecent", "bad"}
<1>1. jobs[t] \in JobRecords
    BY DEF SumTypes
<1> QED BY <1>1, Zenon DEF JobRecords

\* What a goroutine knows stays true while jobs are added and reports are stored.
LEMMA OnTaskKept ==
    ASSUME SumTypes, NEW q, OnTask(q), UNCHANGED <<mailOn, monday, roleOf>>,
           \A t \in 1..Len(jobs) : t \in 1..Len(jobs') /\ jobs'[t] = jobs[t],
           \A u \in SumUsers : recent[u] = "yes" => recent'[u] = "yes"
    PROVE  OnTask(q)'
<1>1. q.task \in 1..Len(jobs)
    BY Zenon DEF OnTask
<1>2. jobs'[q.task] = jobs[q.task] /\ jobs[q.task].user \in SumUsers /\ q.task \in 1..Len(jobs')
    BY <1>1, JobOf, Zenon
<1> QED BY <1>2, Zenon DEF OnTask

\* A mail stays as it may be sent while jobs are added.
LEMMA MailKept ==
    ASSUME NEW m, MailFits(m), UNCHANGED <<monday, roleOf>>, \A t \in 1..Len(jobs) : t \in 1..Len(jobs') /\ jobs'[t] = jobs[t]
    PROVE  MailFits(m)'
BY Zenon DEF MailFits

\* A step of a report: goroutine r becomes q.
LEMMA RunMove ==
    ASSUME SumInv, NEW r \in Runners, NEW q \in RunStates, run' = [run EXCEPT ![r] = q], OnTask(q)',
           q.task = run[r].task, q.on = run[r].on,
           UNCHANGED <<jobs, waiting, unacked, settled, channel, consumer, mailOn, tries, losses, monday, roleOf>>,
           recent' \in [SumUsers -> {"yes", "no"}], \A u \in SumUsers : recent[u] = "yes" => recent'[u] = "yes",
           mails' \in SUBSET MailRecords, \A m \in mails' : m \in mails \/ MailFits(m)
    PROVE  SumInv'
<1>1. run' \in [Runners -> RunStates] /\ run'[r] = q /\ \A s \in Runners : s # r => run'[s] = run[s]
    BY Zenon DEF SumInv, SumTypes
<1>2. SumTypes'
    BY <1>1, Zenon DEF SumInv, SumTypes
<1>3. QueueInv'
    BY Zenon DEF SumInv, QueueInv, OncePerConnection
<1>4. RunInv'
  <2> SUFFICES ASSUME NEW s \in Runners PROVE (run[s] = Resting \/ OnTask(run[s]))'
    BY Zenon DEF RunInv
  <2>1. CASE s = r
    BY <1>1, <2>1, Zenon DEF OnTask
  <2>2. CASE s # r
    <3>1. CASE run[s] = Resting
        BY <1>1, <2>2, <3>1, Zenon DEF Resting
    <3>2. CASE OnTask(run[s])
      <4>1. PICK p : p = run[s]
        BY Zenon
      <4>2. OnTask(p) /\ run'[s] = p
        BY <1>1, <2>2, <3>2, <4>1, Zenon
      <4>3. SumTypes /\ \A t \in 1..Len(jobs) : t \in 1..Len(jobs') /\ jobs'[t] = jobs[t]
        BY Zenon DEF SumInv
      <4>4. OnTask(p)'
        BY <4>2, <4>3, OnTaskKept, Zenon
      <4> QED BY <4>2, <4>4, Zenon
    <3> QED BY <3>1, <3>2, Zenon DEF SumInv, RunInv
  <2> QED BY <2>1, <2>2, Zenon
<1>5. MailInv'
  <2> SUFFICES ASSUME NEW m \in mails' PROVE MailFits(m)'
    BY Zenon DEF MailInv
  <2>1. MailFits(m)
    BY Zenon DEF SumInv, MailInv
  <2> QED BY <2>1, MailKept, Zenon
<1>6. AckedIsStored'
    BY JobOf, Zenon DEF SumInv, AckedIsStored
<1>7. SlotsAccountedFor'
    BY <1>1 DEF SumInv, SlotsAccountedFor
<1> QED BY <1>2, <1>3, <1>4, <1>5, <1>6, <1>7, Zenon DEF SumInv

\* A goroutine that is not at rest is on its task.
LEMMA AtWork ==
    ASSUME SumInv, NEW r \in Runners, run[r].pc # "rest"
    PROVE  /\ run[r] \in RunStates /\ OnTask(run[r]) /\ run[r].task \in 1..Len(jobs)
           /\ UserOf(r) = jobs[run[r].task].user /\ UserOf(r) \in SumUsers
<1>1. run[r] # Resting
    BY DEF Resting
<1>2. run[r] \in RunStates /\ OnTask(run[r])
    BY <1>1, Zenon DEF SumInv, SumTypes, RunInv
<1>3. run[r].task \in 1..Len(jobs)
    BY <1>2, Zenon DEF OnTask
<1> QED BY <1>2, <1>3, JobOf, Zenon DEF SumInv, UserOf

\* A step of a report that neither stores nor mails.
LEMMA ReportMove ==
    ASSUME SumInv, NEW r \in Runners, NEW q \in RunStates, run' = [run EXCEPT ![r] = q], OnTask(q),
           q.task = run[r].task, q.on = run[r].on, Working, UNCHANGED <<recent, mails>>
    PROVE  SumInv'
<1>1. UNCHANGED <<jobs, waiting, unacked, settled, channel, consumer, mailOn, tries, losses, monday, roleOf>>
    BY Zenon DEF Working, reportVars
<1>2. SumTypes /\ \A t \in 1..Len(jobs) : t \in 1..Len(jobs') /\ jobs'[t] = jobs[t]
    BY <1>1, Zenon DEF SumInv
<1>3. OnTask(q)'
    BY <1>1, <1>2, OnTaskKept, Zenon
<1>4. /\ recent' \in [SumUsers -> {"yes", "no"}] /\ \A u \in SumUsers : recent[u] = "yes" => recent'[u] = "yes"
      /\ mails' \in SUBSET MailRecords /\ \A m \in mails' : m \in mails \/ MailFits(m)
    BY Zenon DEF SumInv, SumTypes
<1> QED BY <1>1, <1>3, <1>4, RunMove, Zenon

\* The mail setting is read, before the report and again before a weekly one.
LEMMA CheckEmailInv ==
    ASSUME SumInv, NEW r \in Runners, NEW pc, NEW next, <<pc, next>> \in {<<"enabled", "role">>, <<"weekly", "weeklyChat">>},
           checkEmailEnabled(r, pc, next)
    PROVE  SumInv'
<1> DEFINE p == run[r]
           n == IF mailOn[UserOf(r)] = "yes" THEN next ELSE IF pc = "weekly" /\ p.role = 1 THEN "daily" ELSE "ok"
           q == [p EXCEPT !.pc = n]
           s == [p EXCEPT !.pc = next, !.seen = "yes"]
<1>1. p.pc = pc /\ pc \in {"enabled", "weekly"} /\ next \in {"role", "weeklyChat"} /\ (pc = "enabled" <=> next = "role")
    BY Zenon DEF checkEmailEnabled
<1>2. p \in RunStates /\ OnTask(p) /\ UserOf(r) = jobs[p.task].user /\ UserOf(r) \in SumUsers
    BY <1>1, AtWork, Zenon
<1>3. /\ n \in {next, "daily", "ok"} /\ (n = "daily" => pc = "weekly" /\ p.role = 1)
      /\ n = next => mailOn[UserOf(r)] = "yes"
    BY <1>1, Zenon
<1>4. p.seen = "yes" \/ n # next
    BY <1>1, <1>2, <1>3, Zenon DEF OnTask, Consented
<1>5. jobs[p.task].type # "PersonalRecent"
    BY <1>1, <1>2, Zenon DEF OnTask
<1>6. Working /\ UNCHANGED <<recent, mails>> /\ (run' = [run EXCEPT ![r] = q] \/ run' = [run EXCEPT ![r] = s])
    BY Zenon DEF checkEmailEnabled, SumInv, SumTypes
<1> HIDE DEF n, p
<1>7. /\ q \in RunStates /\ q.pc = n /\ q.task = p.task /\ q.on = p.on /\ q.kind = p.kind /\ q.seen = p.seen /\ q.role = p.role
      /\ s \in RunStates /\ s.pc = next /\ s.task = p.task /\ s.on = p.on /\ s.kind = p.kind /\ s.seen = "yes" /\ s.role = p.role
    BY <1>1, <1>2, <1>3, Zenon DEF RunStates
<1> HIDE DEF q, s
<1>8. OnTask(q)
    BY <1>1, <1>2, <1>3, <1>4, <1>5, <1>7, SMTT(30) DEF OnTask, Consented, Weekly, Daily
<1>9. OnTask(s)
    BY <1>1, <1>2, <1>5, <1>7, Zenon DEF OnTask, Consented, Weekly, Daily
<1>10. CASE run' = [run EXCEPT ![r] = q]
    BY <1>6, <1>7, <1>8, <1>10, ReportMove, Zenon DEF p
<1>11. CASE run' = [run EXCEPT ![r] = s]
    BY <1>6, <1>7, <1>9, <1>11, ReportMove, Zenon DEF p
<1> QED BY <1>6, <1>10, <1>11, Zenon

\* The role is read, and the first report chosen.
LEMMA CheckRoleInv == ASSUME SumInv, NEW r \in Runners, checkRoleId(r) PROVE SumInv'
<1> DEFINE p == run[r]
<1>1. p.pc = "role" /\ Working /\ UNCHANGED <<recent, mails>>
    BY Zenon DEF checkRoleId
<1>2. p \in RunStates /\ OnTask(p) /\ UserOf(r) = jobs[p.task].user /\ UserOf(r) \in SumUsers
    BY <1>1, AtWork, Zenon
<1>3. PICK role \in {roleOf[UserOf(r)], 0} : run' = [run EXCEPT ![r].pc = FirstReport(role), ![r].role = role]
    BY Zenon DEF checkRoleId
<1> DEFINE n == FirstReport(role)
           q == [p EXCEPT !.pc = n, !.role = role]
<1>4. role \in 0..2 /\ role \in {0, roleOf[jobs[p.task].user]}
    BY <1>2, <1>3, SMTT(30) DEF SumInv, SumTypes
<1>5. /\ n \in {"weekly", "daily", "ok"} /\ (n = "weekly" => monday /\ role \in {1, 2}) /\ (n = "daily" => role # 2)
    BY Zenon DEF FirstReport
<1>6. run' = [run EXCEPT ![r] = q]
    BY <1>3, Zenon DEF SumInv, SumTypes
<1> HIDE DEF n, p
<1>7. q \in RunStates /\ q.pc = n /\ q.task = p.task /\ q.on = p.on /\ q.kind = p.kind /\ q.seen = p.seen /\ q.role = role
    BY <1>2, <1>4, <1>5, Zenon DEF RunStates
<1> HIDE DEF q
<1>8. OnTask(q)
    BY <1>1, <1>2, <1>4, <1>5, <1>7 DEF OnTask, Consented, Weekly, Daily
<1> QED BY <1>1, <1>6, <1>7, <1>8, ReportMove, Zenon DEF p

\* A conversation begins, for a daily or a weekly report.
LEMMA StartChatInv == ASSUME SumInv, NEW r \in Runners, StartChat(r) PROVE SumInv'
<1> DEFINE p == run[r]
           k == IF p.pc = "daily" THEN "daily" ELSE "weekly"
           q == [p EXCEPT !.pc = "chat", !.calls = 0, !.kind = k]
<1>1. p.pc \in {"daily", "weeklyChat"} /\ Working /\ UNCHANGED <<recent, mails>> /\ (k = "daily" => p.pc = "daily") /\ k \in {"daily", "weekly"}
      /\ (k = "weekly" => p.pc = "weeklyChat")
    BY Zenon DEF StartChat
<1>2. p \in RunStates /\ OnTask(p)
    BY <1>1, AtWork, Zenon
<1>3. run' = [run EXCEPT ![r] = q]
    BY Zenon DEF StartChat, SumInv, SumTypes
<1> HIDE DEF k, p
<1>4. q \in RunStates /\ q.pc = "chat" /\ q.task = p.task /\ q.on = p.on /\ q.kind = k /\ q.seen = p.seen /\ q.role = p.role
  <2>1. 0 \in 0..MaxCalls /\ k \in {"none", "recent", "daily", "weekly"}
    BY <1>1, SummaryConstants
  <2> QED BY <1>2, <2>1, Zenon DEF RunStates
<1> HIDE DEF q
<1>5. OnTask(q)
    BY <1>1, <1>2, <1>4, Zenon DEF OnTask, Consented, Weekly, Daily
<1> QED BY <1>1, <1>3, <1>4, <1>5, ReportMove, Zenon DEF p

\* A conversation ends.
LEMMA EndChatInv == ASSUME SumInv, NEW r \in Runners, EndChat(r) PROVE SumInv'
<1> DEFINE p == run[r]
<1>1. p.pc = "chat" /\ Working /\ UNCHANGED <<recent, mails>>
    BY Zenon DEF EndChat
<1>2. p \in RunStates /\ OnTask(p)
    BY <1>1, AtWork, Zenon
<1>3. PICK outcome : run' = [run EXCEPT ![r].pc = AfterChat(r, outcome)]
    BY Zenon DEF EndChat, Goto
<1> DEFINE n == AfterChat(r, outcome)
           q == [p EXCEPT !.pc = n]
<1>4. /\ n \in {"daily", "failed", "ok", "exists", "existsEmpty"}
      /\ n = "daily" => p.kind = "weekly" /\ p.role = 1
      /\ n = "ok" => p.kind # "recent"
    BY Zenon DEF AfterChat
<1>5. run' = [run EXCEPT ![r] = q]
    BY <1>3, Zenon DEF SumInv, SumTypes
<1> HIDE DEF n, p
<1>6. q \in RunStates /\ q.pc = n /\ q.task = p.task /\ q.on = p.on /\ q.kind = p.kind /\ q.seen = p.seen /\ q.role = p.role
    BY <1>2, <1>4, Zenon DEF RunStates
<1> HIDE DEF q
<1>7. OnTask(q)
    BY <1>1, <1>2, <1>4, <1>6 DEF OnTask, Consented, Weekly, Daily
<1> QED BY <1>1, <1>5, <1>6, <1>7, ReportMove, Zenon DEF p

\* The stored report is looked for.
LEMMA RedisExistsInv == ASSUME SumInv, NEW r \in Runners, redisExists(r) PROVE SumInv'
<1> DEFINE p == run[r]
<1>1. p.pc \in {"exists", "existsEmpty"} /\ Working /\ UNCHANGED <<recent, mails>>
    BY Zenon DEF redisExists
<1>2. p \in RunStates /\ OnTask(p) /\ UserOf(r) = jobs[p.task].user
    BY <1>1, AtWork, Zenon
<1>3. PICK n \in {"ok", "fallback", "failed"} :
         run' = [run EXCEPT ![r].pc = n] /\ (n = "ok" => recent[UserOf(r)] = "yes")
    BY Zenon DEF redisExists, Goto
<1> DEFINE q == [p EXCEPT !.pc = n]
<1>4. run' = [run EXCEPT ![r] = q]
    BY <1>3, Zenon DEF SumInv, SumTypes
<1> HIDE DEF p
<1>5. q \in RunStates /\ q.pc = n /\ q.task = p.task /\ q.on = p.on /\ q.kind = p.kind /\ q.seen = p.seen /\ q.role = p.role
    BY <1>2, <1>3, Zenon DEF RunStates
<1> HIDE DEF q
<1>6. OnTask(q)
    BY <1>1, <1>2, <1>3, <1>5, Zenon DEF OnTask, Consented, Weekly, Daily
<1> QED BY <1>1, <1>4, <1>5, <1>6, ReportMove, Zenon DEF p

\* A report is stored under the user of the task.
LEMMA StoredUp ==
    ASSUME SumInv, NEW u \in SumUsers, recent' = [recent EXCEPT ![u] = "yes"]
    PROVE  recent' \in [SumUsers -> {"yes", "no"}] /\ recent'[u] = "yes" /\ \A v \in SumUsers : recent[v] = "yes" => recent'[v] = "yes"
BY Zenon DEF SumInv, SumTypes

\* The answer itself is stored; the task is then acknowledged.
LEMMA FallbackInv == ASSUME SumInv, NEW r \in Runners, Fallback(r) PROVE SumInv'
<1>1. PICK p : p = run[r]
    BY Zenon
<1>2. p.pc = "fallback" /\ Working /\ UNCHANGED mails
    BY <1>1, Zenon DEF Fallback
<1>3. p \in RunStates /\ OnTask(p) /\ UserOf(r) = jobs[p.task].user /\ UserOf(r) \in SumUsers /\ p.task \in 1..Len(jobs)
    BY <1>1, <1>2, AtWork, Zenon
<1>4. CASE UNCHANGED recent /\ Goto(r, "failed")
  <2> DEFINE q == [p EXCEPT !.pc = "failed"]
  <2>1. run' = [run EXCEPT ![r] = q]
    BY <1>1, <1>4, Zenon DEF Goto, SumInv, SumTypes
  <2>2. q \in RunStates /\ q.pc = "failed" /\ q.task = p.task /\ q.on = p.on /\ q.kind = p.kind /\ q.seen = p.seen /\ q.role = p.role
    BY <1>3, Zenon DEF RunStates
  <2> HIDE DEF q
  <2>3. OnTask(q)
    BY <1>2, <1>3, <2>2, Zenon DEF OnTask, Consented, Weekly, Daily
  <2> QED BY <1>1, <1>2, <1>4, <2>1, <2>2, <2>3, ReportMove, Zenon
<1>5. CASE recent' = [recent EXCEPT ![UserOf(r)] = "yes"] /\ Goto(r, "ok")
  <2>1. PICK q : q = [p EXCEPT !.pc = "ok"]
    BY Zenon
  <2>2. run' = [run EXCEPT ![r] = q]
    BY <1>1, <1>5, <2>1, Zenon DEF Goto, SumInv, SumTypes
  <2>3. q \in RunStates /\ q.pc = "ok" /\ q.task = p.task /\ q.on = p.on /\ q.kind = p.kind /\ q.seen = p.seen /\ q.role = p.role
    BY <1>3, <2>1, Zenon DEF RunStates
  <2>4. recent' \in [SumUsers -> {"yes", "no"}] /\ recent'[UserOf(r)] = "yes" /\ \A v \in SumUsers : recent[v] = "yes" => recent'[v] = "yes"
    BY <1>3, <1>5, StoredUp, Zenon
  <2>5. UNCHANGED <<jobs, waiting, unacked, settled, channel, consumer, mailOn, tries, losses, monday, roleOf>>
    BY <1>2, Zenon DEF Working, reportVars
  <2>6. jobs'[q.task].user = UserOf(r) /\ jobs'[q.task].type = jobs[p.task].type /\ q.task \in 1..Len(jobs')
    BY <1>3, <2>3, <2>5
  <2>7. OnTask(q)'
    BY <1>2, <1>3, <2>3, <2>4, <2>5, <2>6, Zenon DEF OnTask, Consented, Weekly, Daily
  <2>8. mails' \in SUBSET MailRecords /\ \A m \in mails' : m \in mails \/ MailFits(m)
    BY <1>2, Zenon DEF SumInv, SumTypes
  <2> QED BY <1>1, <2>2, <2>3, <2>4, <2>5, <2>7, <2>8, RunMove, Zenon
<1> QED BY <1>4, <1>5, Zenon DEF Fallback

\* send_email and redis_set: what is mailed was consented to and fits the role.
LEMMA CallToolInv == ASSUME SumInv, NEW r \in Runners, CallTool(r) PROVE SumInv'
<1>1. PICK p : p = run[r]
    BY Zenon
<1>2. p.pc = "chat" /\ p.calls < MaxCalls /\ Working /\ run' = [run EXCEPT ![r].calls = p.calls + 1]
    BY <1>1, Zenon DEF CallTool
<1>3. p \in RunStates /\ OnTask(p) /\ UserOf(r) = jobs[p.task].user /\ UserOf(r) \in SumUsers /\ p.task \in 1..Len(jobs)
    BY <1>1, <1>2, AtWork, Zenon
<1>4. PICK q : q = [p EXCEPT !.calls = p.calls + 1]
    BY Zenon
<1>5. run' = [run EXCEPT ![r] = q]
    BY <1>1, <1>2, <1>4, Zenon DEF SumInv, SumTypes
<1>6. q \in RunStates /\ q.pc = p.pc /\ q.task = p.task /\ q.on = p.on /\ q.kind = p.kind /\ q.seen = p.seen /\ q.role = p.role
  <2>1. p.calls + 1 \in 0..MaxCalls
    BY <1>2, <1>3, SummaryConstants DEF RunStates
  <2> QED BY <1>3, <1>4, <2>1, Zenon DEF RunStates
<1>7. OnTask(q)
    BY <1>3, <1>6, Zenon DEF OnTask, Consented, Weekly, Daily
<1>8. UNCHANGED <<jobs, waiting, unacked, settled, channel, consumer, mailOn, tries, losses, monday, roleOf>>
    BY <1>2, Zenon DEF Working, reportVars
<1>9. CASE UNCHANGED <<recent, mails>>
    BY <1>1, <1>2, <1>5, <1>6, <1>7, <1>9, ReportMove, Zenon
<1>10. ASSUME \A u \in SumUsers : recent[u] = "yes" => recent'[u] = "yes" PROVE OnTask(q)'
  <2>1. SumTypes /\ \A t \in 1..Len(jobs) : t \in 1..Len(jobs') /\ jobs'[t] = jobs[t]
    BY <1>8, Zenon DEF SumInv
  <2> QED BY <1>7, <1>8, <1>10, <2>1, OnTaskKept, Zenon
<1>11. CASE RedisSet(r)
  <2>1. recent' \in [SumUsers -> {"yes", "no"}] /\ \A v \in SumUsers : recent[v] = "yes" => recent'[v] = "yes"
    BY <1>3, <1>11, StoredUp, Zenon DEF RedisSet
  <2>2. mails' \in SUBSET MailRecords /\ \A m \in mails' : m \in mails \/ MailFits(m)
    BY <1>11, Zenon DEF RedisSet, SumInv, SumTypes
  <2> QED BY <1>1, <1>5, <1>6, <1>8, <1>10, <2>1, <2>2, RunMove, Zenon
<1>12. CASE p.kind # "recent" /\ SendEmail(r)
  <2> DEFINE m == [task |-> p.task, kind |-> p.kind, seen |-> p.seen, role |-> p.role]
  <2>1. mails' = mails \cup {m} /\ UNCHANGED recent
    BY <1>1, <1>12, Zenon DEF SendEmail
  <2>2. m \in MailRecords
    BY <1>3, Zenon DEF RunStates, MailRecords
  <2>3. Consented(p) /\ (p.kind = "weekly" => Weekly(p)) /\ (p.kind = "daily" => Daily(p))
    BY <1>2, <1>12, Zenon DEF Consented, Weekly, Daily
  <2>4. MailFits(m)
    BY <1>3, <2>3 DEF MailFits, OnTask
  <2>5. mails' \in SUBSET MailRecords /\ \A x \in mails' : x \in mails \/ MailFits(x)
    BY <2>1, <2>2, <2>4, Zenon DEF SumInv, SumTypes
  <2>6. recent' \in [SumUsers -> {"yes", "no"}] /\ \A v \in SumUsers : recent[v] = "yes" => recent'[v] = "yes"
    BY <2>1, Zenon DEF SumInv, SumTypes
  <2> QED BY <1>1, <1>5, <1>6, <1>8, <1>10, <2>5, <2>6, RunMove, Zenon
<1> QED BY <1>1, <1>9, <1>11, <1>12, Zenon DEF CallTool

-----------------------------------------------------------------------------
(* The consumer *)

\* A goroutine ends: what it leaves unsettled is bad, or not of this connection.
LEMMA RestMove ==
    ASSUME SumInv, NEW r \in Runners, run' = [run EXCEPT ![r] = Resting],
           UNCHANGED <<jobs, waiting, channel, consumer, mailOn, recent, mails, tries, losses, monday, roleOf>>,
           unacked' \subseteq unacked, settled' \in Seq({"open", "acked", "dropped", "lost"}), Len(settled') = Len(settled),
           \A t \in unacked' : jobs[t].type = "bad" \/ run[r].task # t \/ run[r].on # consumer,
           AckedIsStored'
    PROVE  SumInv'
<1>0. Resting \in RunStates
    BY SummaryConstants DEF Resting, RunStates
<1>1. run' \in [Runners -> RunStates] /\ run'[r] = Resting /\ \A s \in Runners : s # r => run'[s] = run[s]
    BY <1>0, Zenon DEF SumInv, SumTypes
<1>2. SumTypes'
    BY <1>1, Zenon DEF SumInv, SumTypes
<1>3. QueueInv'
  <2>1. IsFiniteSet(unacked') /\ Cardinality(unacked') <= Cardinality(unacked) /\ Cardinality(unacked) \in Nat /\ Cardinality(unacked') \in Nat
    BY FS_Subset, FS_CardinalityType, Zenon DEF SumInv, QueueInv
  <2>2. Cardinality(unacked') <= Prefetch
    BY <2>1, SummaryConstants DEF SumInv, QueueInv
  <2> QED BY <2>1, <2>2 DEF SumInv, QueueInv, OncePerConnection
<1>4. RunInv'
  <2> SUFFICES ASSUME NEW s \in Runners PROVE (run[s] = Resting \/ OnTask(run[s]))'
    BY Zenon DEF RunInv
  <2>1. CASE s = r
    BY <1>1, <2>1, Zenon DEF Resting
  <2>2. CASE s # r
    BY <1>1, <2>2, Zenon DEF SumInv, RunInv, OnTask, Resting
  <2> QED BY <2>1, <2>2
<1>5. MailInv'
    BY Zenon DEF SumInv, MailInv, MailFits
<1>6. SlotsAccountedFor'
    BY <1>1 DEF SumInv, SlotsAccountedFor
<1> QED BY <1>2, <1>3, <1>4, <1>5, <1>6, SMTT(30) DEF SumInv

\* A body that does not parse keeps its place in the window.
LEMMA UnparsedInv == ASSUME SumInv, NEW r \in Runners, Unparsed(r) PROVE SumInv'
<1>1. run[r].pc = "unparsed" /\ run' = [run EXCEPT ![r] = Resting]
      /\ UNCHANGED <<jobs, waiting, unacked, settled, channel, consumer, mailOn, recent, mails, tries, losses, monday, roleOf>>
    BY Zenon DEF Unparsed
<1>2. OnTask(run[r])
    BY <1>1, AtWork, Zenon
<1>3. \A t \in unacked' : jobs[t].type = "bad" \/ run[r].task # t \/ run[r].on # consumer
    BY <1>1, <1>2, Zenon DEF OnTask
<1>4. settled' \in Seq({"open", "acked", "dropped", "lost"}) /\ Len(settled') = Len(settled) /\ unacked' \subseteq unacked
    BY <1>1, Zenon DEF SumInv, SumTypes
<1>5. AckedIsStored'
    BY <1>1, Zenon DEF SumInv, AckedIsStored
<1> QED BY <1>1, <1>3, <1>4, <1>5, RestMove, Zenon

\* A task is acknowledged or dropped, on the connection it came by.
LEMMA SettleInv == ASSUME SumInv, NEW r \in Runners, Settle(r) PROVE SumInv'
<1> DEFINE t == run[r].task
           a == IF run[r].pc = "ok" THEN "acked" ELSE "dropped"
<1>1. run[r].pc \in {"ok", "failed"} /\ run' = [run EXCEPT ![r] = Resting]
      /\ UNCHANGED <<jobs, waiting, channel, consumer, mailOn, recent, mails, tries, losses, monday, roleOf>>
    BY Zenon DEF Settle
<1>2. OnTask(run[r]) /\ t \in 1..Len(jobs)
    BY <1>1, AtWork, Zenon
<1>3. CASE run[r].on # consumer /\ UNCHANGED <<unacked, settled>>
  <2>1. settled' \in Seq({"open", "acked", "dropped", "lost"}) /\ Len(settled') = Len(settled) /\ unacked' \subseteq unacked
    BY <1>3, Zenon DEF SumInv, SumTypes
  <2>2. AckedIsStored'
    BY <1>1, <1>3, Zenon DEF SumInv, AckedIsStored
  <2> QED BY <1>1, <1>3, <2>1, <2>2, RestMove, Zenon
<1>4. CASE unacked' = unacked \ {t} /\ settled' = [settled EXCEPT ![t] = a]
  <2>1. settled' \in Seq({"open", "acked", "dropped", "lost"}) /\ Len(settled') = Len(settled) /\ unacked' \subseteq unacked
    BY <1>2, <1>4 DEF SumInv, SumTypes
  <2>2. settled'[t] = a /\ \A x \in 1..Len(jobs) : x # t => settled'[x] = settled[x]
    BY <1>2, <1>4 DEF SumInv, SumTypes
  <2>3. a = "acked" /\ jobs[t].type = "PersonalRecent" => recent[jobs[t].user] = "yes"
    BY <1>2, Zenon DEF OnTask
  <2> HIDE DEF a, t
  <2>4. AckedIsStored'
    BY <1>1, <2>2, <2>3, Zenon DEF SumInv, AckedIsStored
  <2>5. \A x \in unacked' : x # t
    BY <1>4, Zenon
  <2> QED BY <1>1, <2>1, <2>4, <2>5, RestMove, Zenon DEF t
<1> QED BY <1>3, <1>4, Zenon DEF Settle

\* A delivery: the task leaves the queue, and its goroutine knows the setting of now.
LEMMA ConsumeInv == ASSUME SumInv, NEW r \in Runners, Consume(r) PROVE SumInv'
<1>1. PICK t : t = Head(waiting)
    BY Zenon
<1>2. /\ consumer # 0 /\ waiting # <<>> /\ Cardinality(unacked) < Prefetch /\ run[r].pc = "rest"
      /\ waiting' = Tail(waiting) /\ unacked' = unacked \cup {t} /\ tries' = [tries EXCEPT ![t] = tries[t] + 1]
      /\ UNCHANGED <<jobs, settled, channel, consumer, mailOn, recent, mails, losses, monday, roleOf>>
    BY <1>1, Zenon DEF Consume, Active
<1>3. /\ t = waiting[1] /\ 1 \in 1..Len(waiting) /\ t \in 1..Len(jobs) /\ Len(waiting') = Len(waiting) - 1
      /\ \A a \in 1..Len(waiting') : a + 1 \in 1..Len(waiting) /\ waiting'[a] = waiting[a + 1]
      /\ waiting' \in Seq(1..Len(jobs))
    BY <1>1, <1>2, SMTT(30) DEF SumInv, SumTypes
<1>4. PICK first \in {"enabled", "chat", "unparsed"} :
         /\ first = "enabled" <=> jobs[t].type = "PersonalLastDay"
         /\ first = "chat" <=> jobs[t].type = "PersonalRecent"
         /\ run' = [run EXCEPT ![r] = [pc |-> first, task |-> t, on |-> consumer, kind |-> "recent", calls |-> 0,
                                       seen |-> mailOn[jobs[t].user], role |-> 0]]
    BY <1>1, Zenon DEF Consume
<1>5. jobs[t].user \in SumUsers /\ jobs[t].type \in {"PersonalLastDay", "PersonalRecent", "bad"}
    BY <1>3, JobOf, Zenon DEF SumInv
<1>6. PICK q : q = [pc |-> first, task |-> t, on |-> consumer, kind |-> "recent", calls |-> 0, seen |-> mailOn[jobs[t].user], role |-> 0]
    BY Zenon
<1>7. q \in RunStates
  <2>1. t \in Nat /\ consumer \in Nat /\ 0 \in 0..MaxCalls /\ mailOn[jobs[t].user] \in {"yes", "no"} /\ 0 \in 0..2
    <3>1. t \in Nat
        BY <1>3
    <3>2. consumer \in Nat /\ mailOn[jobs[t].user] \in {"yes", "no"}
        BY <1>5, SMTT(30) DEF SumInv, SumTypes
    <3> QED BY <3>1, <3>2, SummaryConstants
  <2> QED BY <1>6, <2>1 DEF RunStates
<1>8. OnTask(q)'
    BY <1>2, <1>3, <1>4, <1>5, <1>6, SMTT(30) DEF OnTask, Consented, Weekly, Daily
<1>9. run' \in [Runners -> RunStates] /\ run'[r] = q /\ \A s \in Runners : s # r => run'[s] = run[s]
    BY <1>4, <1>6, <1>7, SMTT(30) DEF SumInv, SumTypes
<1>10. tries' \in Seq(Nat) /\ Len(tries') = Len(jobs) /\ tries'[t] = tries[t] + 1 /\ tries[t] \in Nat /\ \A x \in 1..Len(jobs) : x # t => tries'[x] = tries[x]
    BY <1>2, <1>3, SMTT(30) DEF SumInv, SumTypes
<1>11. SumTypes'
    BY <1>2, <1>3, <1>9, <1>10, Zenon DEF SumInv, SumTypes
<1>12. QueueInv'
  <2>1. \A a, b \in 1..Len(waiting') : waiting'[a] = waiting'[b] => a = b
    <3> SUFFICES ASSUME NEW a \in 1..Len(waiting'), NEW b \in 1..Len(waiting'), waiting'[a] = waiting'[b] PROVE a = b
        BY Zenon
    <3>1. a + 1 \in 1..Len(waiting) /\ b + 1 \in 1..Len(waiting) /\ waiting[a + 1] = waiting[b + 1]
        BY <1>3, Zenon
    <3>2. a + 1 = b + 1
        BY <3>1, Zenon DEF SumInv, QueueInv
    <3> QED BY <3>2
  <2>2. \A a \in 1..Len(waiting') : waiting'[a] # t /\ waiting'[a] \notin unacked /\ waiting'[a] \in 1..Len(jobs) /\ tries[waiting'[a]] <= losses
    <3> SUFFICES ASSUME NEW a \in 1..Len(waiting')
                 PROVE  waiting'[a] # t /\ waiting'[a] \notin unacked /\ waiting'[a] \in 1..Len(jobs) /\ tries[waiting'[a]] <= losses
        BY Zenon
    <3>1. a + 1 \in 1..Len(waiting) /\ waiting'[a] = waiting[a + 1] /\ a + 1 # 1
        BY <1>3
    <3>2. waiting'[a] # t
        BY <1>3, <3>1, Zenon DEF SumInv, QueueInv
    <3>3. waiting[a + 1] \notin unacked /\ tries[waiting[a + 1]] <= losses
        BY <3>1, Zenon DEF SumInv, QueueInv
    <3>4. waiting[a + 1] \in 1..Len(jobs)
        BY <3>1, SMTT(30) DEF SumInv, SumTypes
    <3> QED BY <3>1, <3>2, <3>3, <3>4, Zenon
  <2>3. \A a \in 1..Len(waiting') : waiting'[a] \notin unacked' /\ tries'[waiting'[a]] <= losses'
    BY <1>2, <1>10, <2>2, Zenon
  <2>4. tries[t] <= losses /\ losses \in Nat
    BY <1>3, Zenon DEF SumInv, SumTypes, QueueInv
  <2>5. OncePerConnection'
    BY <1>2, <1>10, <2>4, SMTT(30) DEF SumInv, QueueInv, OncePerConnection
  <2>6. IsFiniteSet(unacked') /\ Cardinality(unacked') <= Prefetch
    <3>1. IsFiniteSet(unacked) /\ Cardinality(unacked) \in Nat
        BY FS_CardinalityType, Zenon DEF SumInv, QueueInv
    <3>2. IsFiniteSet(unacked') /\ Cardinality(unacked') \in {Cardinality(unacked), Cardinality(unacked) + 1}
        BY <1>2, <3>1, FS_AddElement, Zenon
    <3> QED BY <1>2, <3>1, <3>2, SummaryConstants
  <2> QED BY <1>2, <2>1, <2>3, <2>5, <2>6, SMTT(30) DEF SumInv, QueueInv
<1>13. RunInv'
  <2> SUFFICES ASSUME NEW s \in Runners PROVE (run[s] = Resting \/ OnTask(run[s]))'
    BY Zenon DEF RunInv
  <2>1. CASE s = r
    BY <1>8, <1>9, <2>1, ZenonT(40)
  <2>2. CASE s # r
    BY <1>2, <1>9, <2>2, SMTT(30) DEF SumInv, RunInv, OnTask, Resting
  <2> QED BY <2>1, <2>2, Zenon
<1>14. MailInv' /\ AckedIsStored'
    BY <1>2, Zenon DEF SumInv, MailInv, MailFits, AckedIsStored
<1>15. SlotsAccountedFor'
  <2>1. run[r].task = 0
    BY <1>2, SMTT(30) DEF SumInv, RunInv, OnTask, Resting
  <2>2. \A x \in unacked : jobs[x].type = "bad" \/ \E s \in Runners : s # r /\ run[s].task = x /\ run[s].on = consumer
    BY <2>1 DEF SumInv, SumTypes, SlotsAccountedFor
  <2>3. q.task = t /\ q.on = consumer
    BY <1>6, Zenon
  <2> QED BY <1>2, <1>9, <2>2, <2>3, SMTT(30) DEF SlotsAccountedFor
<1> QED BY <1>11, <1>12, <1>13, <1>14, <1>15 DEF SumInv

\* A user switches mails on or off: whoever works for that user notes it.
LEMMA ToggleInv == ASSUME SumInv, NEW u \in SumUsers, ToggleMail(u) PROVE SumInv'
<1>1. /\ UNCHANGED <<jobs, waiting, unacked, settled, channel, consumer, recent, mails, tries, losses, monday, roleOf>>
      /\ mailOn' \in [SumUsers -> {"yes", "no"}] /\ \A v \in SumUsers : v # u => mailOn'[v] = mailOn[v]
    BY Zenon DEF ToggleMail, SumInv, SumTypes
<1>2. \A s \in Runners :
         /\ run'[s] \in RunStates /\ run'[s].pc = run[s].pc /\ run'[s].task = run[s].task /\ run'[s].on = run[s].on
         /\ run'[s].kind = run[s].kind /\ run'[s].role = run[s].role /\ (run[s].seen = "yes" => run'[s].seen = "yes")
         /\ run[s].pc = "rest" => run'[s] = run[s]
         /\ run[s].pc # "rest" /\ UserOf(s) = u /\ mailOn'[u] = "yes" => run'[s].seen = "yes"
  <2> SUFFICES ASSUME NEW s \in Runners
               PROVE  /\ run'[s] \in RunStates /\ run'[s].pc = run[s].pc /\ run'[s].task = run[s].task /\ run'[s].on = run[s].on
                      /\ run'[s].kind = run[s].kind /\ run'[s].role = run[s].role /\ (run[s].seen = "yes" => run'[s].seen = "yes")
                      /\ run[s].pc = "rest" => run'[s] = run[s]
                      /\ run[s].pc # "rest" /\ UserOf(s) = u /\ mailOn'[u] = "yes" => run'[s].seen = "yes"
    BY Zenon
  <2>1. run[s] \in RunStates
    BY Zenon DEF SumInv, SumTypes
  <2>2. CASE run[s].pc # "rest" /\ UserOf(s) = u /\ mailOn'[u] = "yes"
    <3>1. run'[s] = [run[s] EXCEPT !.seen = "yes"]
        BY <2>2, Zenon DEF ToggleMail, Active
    <3> QED BY <2>1, <2>2, <3>1, Zenon DEF RunStates
  <2>3. CASE ~(run[s].pc # "rest" /\ UserOf(s) = u /\ mailOn'[u] = "yes")
    <3>1. run'[s] = run[s]
        BY <2>3, Zenon DEF ToggleMail, Active
    <3> QED BY <2>1, <2>3, <3>1, Zenon
  <2> QED BY <2>2, <2>3, Zenon
<1>3. run' \in [Runners -> RunStates]
    BY <1>2, Zenon DEF ToggleMail
<1>4. SumTypes'
    BY <1>1, <1>3, Zenon DEF SumInv, SumTypes
<1>5. QueueInv'
    BY <1>1, Zenon DEF SumInv, QueueInv, OncePerConnection
<1>6. RunInv'
  <2> SUFFICES ASSUME NEW s \in Runners PROVE (run[s] = Resting \/ OnTask(run[s]))'
    BY Zenon DEF RunInv
  <2>1. CASE run[s].pc = "rest"
    <3>1. run[s] = Resting
        BY <2>1, Zenon DEF SumInv, RunInv, OnTask
    <3>2. run'[s] = run[s]
        BY <1>2, <2>1, Zenon
    <3> QED BY <3>1, <3>2, Zenon DEF Resting
  <2>2. CASE run[s].pc # "rest"
    <3>1. OnTask(run[s]) /\ UserOf(s) = jobs[run[s].task].user /\ UserOf(s) \in SumUsers
        BY <2>2, AtWork, Zenon
    <3>2. PICK q : q = run'[s]
        BY Zenon
    <3>3. /\ q.pc = run[s].pc /\ q.task = run[s].task /\ q.kind = run[s].kind /\ q.role = run[s].role
          /\ run[s].seen = "yes" => q.seen = "yes"
          /\ UserOf(s) = u /\ mailOn'[u] = "yes" => q.seen = "yes"
        BY <1>2, <2>2, <3>2, Zenon
    <3>4. mailOn'[UserOf(s)] = "yes" => mailOn[UserOf(s)] = "yes" \/ q.seen = "yes"
        BY <1>1, <3>1, <3>3, Zenon
    <3>5. OnTask(q)'
        BY <1>1, <3>1, <3>3, <3>4, ZenonT(40) DEF OnTask, Consented, Weekly, Daily
    <3> QED BY <3>2, <3>5, Zenon
  <2> QED BY <2>1, <2>2, Zenon
<1>7. MailInv' /\ AckedIsStored'
    BY <1>1, Zenon DEF SumInv, MailInv, MailFits, AckedIsStored
<1>8. SlotsAccountedFor'
    BY <1>1, <1>2 DEF SumInv, SlotsAccountedFor
<1> QED BY <1>4, <1>5, <1>6, <1>7, <1>8, Zenon DEF SumInv

-----------------------------------------------------------------------------
(* Publishing, and the connection *)

\* One more job, in the queue or lost.
LEMMA GrowInv ==
    ASSUME SumInv, NEW x \in JobRecords, NEW a \in {"open", "lost"},
           jobs' = Append(jobs, x), settled' = Append(settled, a), tries' = Append(tries, 0),
           waiting' \in {waiting, Append(waiting, Len(jobs) + 1)},
           UNCHANGED <<unacked, consumer, run, mailOn, recent, mails, losses, monday, roleOf>>,
           channel' \in [no : Nat, open : {"yes", "no"}], consumer \in {0, channel'.no}, channel'.open = "no" => consumer = 0
    PROVE  SumInv'
<1> DEFINE n == Len(jobs)
<1>1. n \in Nat /\ Len(jobs') = n + 1 /\ jobs' \in Seq(JobRecords) /\ \A t \in 1..n : t \in 1..Len(jobs') /\ jobs'[t] = jobs[t]
    BY DEF SumInv, SumTypes
<1>2. settled' \in Seq({"open", "acked", "dropped", "lost"}) /\ Len(settled') = n + 1 /\ settled'[n + 1] = a /\ \A t \in 1..n : settled'[t] = settled[t]
    BY DEF SumInv, SumTypes
<1>3. tries' \in Seq(Nat) /\ Len(tries') = n + 1 /\ tries'[n + 1] = 0 /\ \A t \in 1..n : tries'[t] = tries[t]
    BY DEF SumInv, SumTypes
<1>4. waiting \in Seq(1..n) /\ Len(waiting) \in Nat /\ \A b \in 1..Len(waiting) : waiting[b] \in 1..n
    BY SMTT(30) DEF SumInv, SumTypes
<1>5. /\ waiting' \in Seq(1..(n + 1)) /\ Len(waiting') \in {Len(waiting), Len(waiting) + 1}
      /\ \A b \in 1..Len(waiting) : waiting'[b] = waiting[b]
      /\ Len(waiting') = Len(waiting) + 1 => waiting'[Len(waiting) + 1] = n + 1
  <2>1. waiting \in Seq(1..(n + 1)) /\ n + 1 \in 1..(n + 1)
    <3>1. 1..n \subseteq 1..(n + 1) /\ n + 1 \in 1..(n + 1)
        BY <1>1
    <3> QED BY <1>4, <3>1
  <2>2. Append(waiting, n + 1) \in Seq(1..(n + 1)) /\ Len(Append(waiting, n + 1)) = Len(waiting) + 1
        /\ Append(waiting, n + 1)[Len(waiting) + 1] = n + 1 /\ \A b \in 1..Len(waiting) : Append(waiting, n + 1)[b] = waiting[b]
    BY <1>4, <2>1
  <2>3. CASE waiting' = waiting
    BY <1>4, <2>1, <2>3
  <2>4. CASE waiting' = Append(waiting, n + 1)
    BY <2>2, <2>4, Zenon
  <2> QED BY <2>3, <2>4, Zenon
<1> HIDE DEF n
<1>6. SumTypes'
  <2>1. unacked' \in SUBSET (1..Len(jobs'))
    BY <1>1, Zenon DEF SumInv, SumTypes, n
  <2>2. waiting' \in Seq(1..Len(jobs'))
    BY <1>1, <1>5, Zenon
  <2> QED BY <1>1, <1>2, <1>3, <2>1, <2>2, Zenon DEF SumInv, SumTypes
<1>7. QueueInv'
  <2>1. \A b \in 1..Len(waiting') : \/ b \in 1..Len(waiting) /\ waiting'[b] = waiting[b] /\ waiting[b] \in 1..n
                                    \/ b = Len(waiting) + 1 /\ waiting'[b] = n + 1
    BY <1>4, <1>5
  <2>2. \A b, c \in 1..Len(waiting') : waiting'[b] = waiting'[c] => b = c
    <3> SUFFICES ASSUME NEW b \in 1..Len(waiting'), NEW c \in 1..Len(waiting'), waiting'[b] = waiting'[c] PROVE b = c
        BY Zenon
    <3>1. n + 1 \notin 1..n
        BY <1>1, SMTT(30)
    <3>2. \A d, e \in 1..Len(waiting) : waiting[d] = waiting[e] => d = e
        BY Zenon DEF SumInv, QueueInv
    <3> QED BY <2>1, <3>1, <3>2, ZenonT(40)
  <2>3. unacked \in SUBSET (1..n) /\ losses \in Nat
    BY Zenon DEF SumInv, SumTypes, n
  <2>4. \A b \in 1..Len(waiting') : waiting'[b] \notin unacked /\ tries'[waiting'[b]] <= losses
    <3> SUFFICES ASSUME NEW b \in 1..Len(waiting') PROVE waiting'[b] \notin unacked /\ tries'[waiting'[b]] <= losses
        BY Zenon
    <3>1. CASE b \in 1..Len(waiting) /\ waiting'[b] = waiting[b] /\ waiting[b] \in 1..n
        BY <1>3, <3>1, Zenon DEF SumInv, QueueInv
    <3>2. CASE waiting'[b] = n + 1
        BY <1>1, <1>3, <2>3, <3>2, SMTT(30)
    <3> QED BY <2>1, <3>1, <3>2, Zenon
  <2>5. OncePerConnection'
    <3> SUFFICES ASSUME NEW t \in 1..(n + 1) PROVE tries'[t] <= 1 + losses
        BY <1>1, Zenon DEF OncePerConnection
    <3>1. CASE t \in 1..n
        BY <1>3, <3>1, Zenon DEF SumInv, QueueInv, OncePerConnection, n
    <3>2. CASE t = n + 1
        BY <1>3, <2>3, <3>2, SMTT(30)
    <3>3. t \in 1..n \/ t = n + 1
        BY <1>1
    <3> QED BY <3>1, <3>2, <3>3, Zenon
  <2> QED BY <2>2, <2>4, <2>5, Zenon DEF SumInv, QueueInv
<1>8. RunInv'
  <2> SUFFICES ASSUME NEW s \in Runners PROVE (run[s] = Resting \/ OnTask(run[s]))'
    BY Zenon DEF RunInv
  <2>1. CASE run[s] = Resting
    BY <2>1, Zenon DEF Resting
  <2>2. CASE OnTask(run[s])
    <3>1. PICK p : p = run[s]
        BY Zenon
    <3>2. OnTask(p) /\ run'[s] = p
        BY <2>2, <3>1, Zenon
    <3>3. OnTask(p)'
        BY <1>1, <3>2, OnTaskKept, Zenon DEF SumInv, n
    <3> QED BY <3>2, <3>3, Zenon
  <2> QED BY <2>1, <2>2, Zenon DEF SumInv, RunInv
<1>9. MailInv'
  <2> SUFFICES ASSUME NEW m \in mails PROVE MailFits(m)'
    BY Zenon DEF MailInv
  <2> QED BY <1>1, MailKept, Zenon DEF SumInv, MailInv, n
<1>10. AckedIsStored'
  <2> SUFFICES ASSUME NEW t \in 1..(n + 1), settled'[t] = "acked", jobs'[t].type = "PersonalRecent" PROVE recent[jobs'[t].user] = "yes"
    BY <1>1, Zenon DEF AckedIsStored
  <2>1. t \in 1..n
    BY <1>1, <1>2, SMTT(30)
  <2> QED BY <1>1, <1>2, <2>1, Zenon DEF SumInv, AckedIsStored, n
<1>11. SlotsAccountedFor'
    BY <1>1 DEF SumInv, SumTypes, SlotsAccountedFor, n
<1> QED BY <1>6, <1>7, <1>8, <1>9, <1>10, <1>11, SMTT(30) DEF SumInv

\* The scheduler's publication, and that of a reader.
LEMMA PublishInv ==
    ASSUME SumInv, NEW u \in SumUsers, NEW type \in TaskTypes \cup {"PersonalRecent"}, Enqueue(u, type) \/ NotEnqueued(u, type),
           UNCHANGED <<unacked, consumer, run, mailOn, recent, mails, losses, monday, roleOf>>,
           channel' \in [no : Nat, open : {"yes", "no"}], consumer \in {0, channel'.no}, channel'.open = "no" => consumer = 0
    PROVE  SumInv'
<1> DEFINE x == [user |-> u, type |-> type]
<1>1. x \in JobRecords
    BY SummaryConstants, Zenon DEF JobRecords
<1>2. jobs' = Append(jobs, x) /\ tries' = Append(tries, 0) /\ waiting' \in {waiting, Append(waiting, Len(jobs) + 1)}
    BY Zenon DEF Enqueue, NotEnqueued
<1>3. settled' = Append(settled, "open") \/ settled' = Append(settled, "lost")
    BY Zenon DEF Enqueue, NotEnqueued
<1> HIDE DEF x
<1> QED BY <1>1, <1>2, <1>3, GrowInv, Zenon

\* The scheduler publishes a task.
LEMMA PublishTaskInv == ASSUME SumInv, NEW u \in SumUsers, NEW type \in TaskTypes, PublishTask(u, type) PROVE SumInv'
<1>1. Enqueue(u, type) \/ NotEnqueued(u, type)
    BY Zenon DEF PublishTask
<1>2. UNCHANGED <<unacked, channel, consumer, run, mailOn, recent, mails, losses, monday, roleOf>>
    BY Zenon DEF PublishTask
<1>3. channel' \in [no : Nat, open : {"yes", "no"}] /\ consumer \in {0, channel'.no} /\ (channel'.open = "no" => consumer = 0)
    BY <1>2, Zenon DEF SumInv, SumTypes, QueueInv
<1> QED BY <1>1, <1>2, <1>3, PublishInv, Zenon

\* A reader publishes a task, over a channel that may be opened anew.
LEMMA GetRecentInv == ASSUME SumInv, NEW u \in SumUsers, GetRecentSummary(u) PROVE SumInv'
<1>1. UNCHANGED <<unacked, consumer, run, mailOn, recent, mails, losses, monday, roleOf>>
    BY Zenon DEF GetRecentSummary
<1>2. Enqueue(u, "PersonalRecent") \/ NotEnqueued(u, "PersonalRecent")
    BY Zenon DEF GetRecentSummary, publish
<1>3. channel' = channel \/ (channel.open = "no" /\ channel' = [no |-> channel.no + 1, open |-> "yes"])
    BY Zenon DEF GetRecentSummary, publish
<1>4. channel \in [no : Nat, open : {"yes", "no"}] /\ consumer \in {0, channel.no} /\ (channel.open = "no" => consumer = 0)
    BY Zenon DEF SumInv, SumTypes, QueueInv
<1>5. channel' \in [no : Nat, open : {"yes", "no"}] /\ consumer \in {0, channel'.no} /\ (channel'.open = "no" => consumer = 0)
    BY <1>3, <1>4
<1> QED BY <1>1, <1>2, <1>5, PublishInv, Zenon

\* What was not settled is back in the queue, once.
LEMMA RequeueInv ==
    ASSUME SumInv, Requeue, unacked' = {}, UNCHANGED <<jobs, settled, recent, mails, tries, monday, roleOf, mailOn>>,
           losses' \in Nat, losses' >= losses, consumer # 0 => losses' >= losses + 1,
           channel' \in [no : Nat, open : {"yes", "no"}], consumer' \in {0, channel'.no}, channel'.open = "no" => consumer' = 0,
           run' \in [Runners -> RunStates], \A s \in Runners : run'[s] = run[s] \/ run'[s] = Resting
    PROVE  SumInv'
<1> DEFINE n == Cardinality(unacked)
<1>1. n \in Nat /\ IsFiniteSet(unacked)
    BY FS_CardinalityType, Zenon DEF SumInv, QueueInv
<1>2. PICK back \in [1..n -> unacked] : /\ \A a, b \in 1..n : a < b => back[a] < back[b]
                                       /\ waiting' = back \o waiting
    BY Zenon DEF Requeue
<1>3. /\ Len(jobs) \in Nat /\ unacked \in SUBSET (1..Len(jobs)) /\ waiting \in Seq(1..Len(jobs)) /\ Len(waiting) \in Nat
      /\ losses \in Nat /\ \A t \in 1..Len(jobs) : tries[t] \in Nat
    BY SMTT(30) DEF SumInv, SumTypes
<1> HIDE DEF n
<1>4. back \in Seq(1..Len(jobs)) /\ Len(back) = n /\ \A a \in 1..n : back[a] \in unacked /\ back[a] \in Int
  <2>1. \A a \in 1..n : back[a] \in unacked /\ back[a] \in 1..Len(jobs)
    BY <1>2, <1>3, Zenon
  <2>2. back \in [1..n -> 1..Len(jobs)]
    BY <1>2, <2>1, Zenon
  <2>3. back \in Seq(1..Len(jobs)) /\ Len(back) = n
    BY <1>1, <2>2, SMTT(30)
  <2> QED BY <1>3, <2>1, <2>3
<1>5. /\ waiting' \in Seq(1..Len(jobs)) /\ Len(waiting') = n + Len(waiting)
      /\ \A a \in 1..Len(waiting') : \/ a \in 1..n /\ waiting'[a] = back[a]
                                     \/ a - n \in 1..Len(waiting) /\ waiting'[a] = waiting[a - n]
    BY <1>1, <1>2, <1>3, <1>4, SMTT(30)
<1>6. \A a, b \in 1..n : back[a] = back[b] => a = b
    BY <1>1, <1>2, <1>4, SMTT(30)
<1>7. SumTypes'
    BY <1>5, Zenon DEF SumInv, SumTypes
<1>8. QueueInv'
  <2>1. \A a, b \in 1..Len(waiting') : waiting'[a] = waiting'[b] => a = b
    <3> SUFFICES ASSUME NEW a \in 1..Len(waiting'), NEW b \in 1..Len(waiting'), waiting'[a] = waiting'[b] PROVE a = b
        BY Zenon
    <3>1. \A c \in 1..Len(waiting) : waiting[c] \notin unacked
        BY Zenon DEF SumInv, QueueInv
    <3>2. CASE a \in 1..n /\ waiting'[a] = back[a] /\ b \in 1..n /\ waiting'[b] = back[b]
        BY <1>6, <3>2, Zenon
    <3>3. CASE a - n \in 1..Len(waiting) /\ waiting'[a] = waiting[a - n] /\ b - n \in 1..Len(waiting) /\ waiting'[b] = waiting[b - n]
      <4>1. a - n = b - n
        BY <3>3, Zenon DEF SumInv, QueueInv
      <4> QED BY <1>1, <4>1
    <3>4. ~(a \in 1..n /\ waiting'[a] = back[a] /\ b - n \in 1..Len(waiting) /\ waiting'[b] = waiting[b - n])
        BY <1>4, <3>1, Zenon
    <3>5. ~(b \in 1..n /\ waiting'[b] = back[b] /\ a - n \in 1..Len(waiting) /\ waiting'[a] = waiting[a - n])
        BY <1>4, <3>1, Zenon
    <3> QED BY <1>5, <3>2, <3>3, <3>4, <3>5, SMTT(30)
  <2>2. \A a \in 1..n : tries[back[a]] <= losses'
    <3> SUFFICES ASSUME NEW a \in 1..n PROVE tries[back[a]] <= losses'
        BY Zenon
    <3>1. back[a] \in unacked /\ back[a] \in 1..Len(jobs)
        BY <1>3, <1>4, Zenon
    <3>2. consumer # 0
        BY <3>1, Zenon DEF SumInv, QueueInv
    <3>3. tries[back[a]] <= 1 + losses /\ tries[back[a]] \in Nat
        BY <1>3, <3>1, Zenon DEF SumInv, QueueInv, OncePerConnection
    <3> QED BY <1>3, <3>2, <3>3, SMTT(30)
  <2>3. \A a \in 1..Len(waiting) : tries[waiting[a]] <= losses'
    <3> SUFFICES ASSUME NEW a \in 1..Len(waiting) PROVE tries[waiting[a]] <= losses'
        BY Zenon
    <3>1. tries[waiting[a]] <= losses /\ tries[waiting[a]] \in Nat
        BY <1>3, SMTT(30) DEF SumInv, QueueInv
    <3> QED BY <1>3, <3>1, SMTT(30)
  <2>4. \A a \in 1..Len(waiting') : tries'[waiting'[a]] <= losses'
    BY <1>5, <2>2, <2>3, Zenon
  <2>5. OncePerConnection'
    BY <1>3 DEF SumInv, QueueInv, OncePerConnection
  <2> QED BY <2>1, <2>4, <2>5, FS_EmptySet, SummaryConstants, SMTT(30) DEF QueueInv
<1>9. RunInv'
  <2> SUFFICES ASSUME NEW s \in Runners PROVE (run[s] = Resting \/ OnTask(run[s]))'
    BY Zenon DEF RunInv
  <2>1. CASE run'[s] = Resting
    BY <2>1, Zenon DEF Resting
  <2>2. CASE run'[s] = run[s]
    <3>1. run[s] = Resting \/ OnTask(run[s])
        BY Zenon DEF SumInv, RunInv
    <3>2. OnTask(run[s]) => OnTask(run[s])'
        BY <2>2, Zenon DEF OnTask, Consented, Weekly, Daily
    <3>3. Resting' = Resting
        BY Zenon DEF Resting
    <3> QED BY <2>2, <3>1, <3>2, <3>3, Zenon
  <2> QED BY <2>1, <2>2, Zenon
<1>10. MailInv' /\ AckedIsStored' /\ SlotsAccountedFor'
    BY Zenon DEF SumInv, MailInv, MailFits, AckedIsStored, SlotsAccountedFor
<1> QED BY <1>7, <1>8, <1>9, <1>10, Zenon DEF SumInv

\* The connection is lost: what was delivered waits again.
LEMMA LoseInv == ASSUME SumInv, LoseConnection PROVE SumInv'
<1>1. losses \in Nat /\ channel \in [no : Nat, open : {"yes", "no"}] /\ run \in [Runners -> RunStates]
    BY Zenon DEF SumInv, SumTypes
<1>2. /\ Requeue /\ unacked' = {} /\ UNCHANGED <<jobs, settled, recent, mails, tries, monday, roleOf, mailOn>> /\ run' = run
      /\ losses' = losses + 1 /\ consumer' = 0 /\ channel' = [channel EXCEPT !.open = "no"]
    BY Zenon DEF LoseConnection
<1>3. channel' \in [no : Nat, open : {"yes", "no"}]
    BY <1>1, <1>2, Zenon
<1>4. losses' \in Nat /\ losses' >= losses /\ losses' >= losses + 1
    BY <1>1, <1>2, SMTT(30)
<1> QED BY <1>1, <1>2, <1>3, <1>4, RequeueInv, Zenon

\* The agent is started anew: no goroutine is left.
LEMMA RestartInv == ASSUME SumInv, Restart PROVE SumInv'
<1>1. losses \in Nat /\ channel \in [no : Nat, open : {"yes", "no"}]
    BY Zenon DEF SumInv, SumTypes
<1>2. /\ Requeue /\ unacked' = {} /\ UNCHANGED <<jobs, settled, recent, mails, tries, monday, roleOf, mailOn>>
      /\ run' = [r \in Runners |-> Resting] /\ losses' = (IF consumer = 0 THEN losses ELSE losses + 1)
      /\ consumer' = channel.no + 1 /\ channel' = [no |-> channel.no + 1, open |-> "yes"]
    BY Zenon DEF Restart
<1>3. channel' \in [no : Nat, open : {"yes", "no"}] /\ consumer' = channel'.no /\ channel'.open = "yes"
    BY <1>1, <1>2, SMTT(30)
<1>4. losses' \in Nat /\ losses' >= losses /\ (consumer # 0 => losses' >= losses + 1)
    BY <1>1, <1>2, SMTT(30)
<1>5. Resting \in RunStates
    BY SummaryConstants DEF Resting, RunStates
<1>6. run' \in [Runners -> RunStates] /\ \A s \in Runners : run'[s] = run[s] \/ run'[s] = Resting
    BY <1>2, <1>5, Zenon
<1> QED BY <1>2, <1>3, <1>4, <1>6, RequeueInv, SMTT(30)

\* Every step of the agent preserves its invariant.
LEMMA NextSumInv == SumInv /\ [SumNext]_sumVars => SumInv'
<1> SUFFICES ASSUME SumInv, [SumNext]_sumVars PROVE SumInv'
    BY Zenon
<1>1. ASSUME NEW u \in SumUsers, GetRecentSummary(u) PROVE SumInv'
    BY <1>1, GetRecentInv, Zenon
<1>2. ASSUME NEW u \in SumUsers, ToggleMail(u) PROVE SumInv'
    BY <1>2, ToggleInv, Zenon
<1>3. ASSUME NEW u \in SumUsers, NEW type \in TaskTypes, PublishTask(u, type) PROVE SumInv'
    BY <1>3, PublishTaskInv, Zenon
<1>4. CASE LoseConnection
    BY <1>4, LoseInv, Zenon
<1>5. CASE Restart
    BY <1>5, RestartInv, Zenon
<1>6. ASSUME NEW r \in Runners, Consume(r) \/ Unparsed(r) \/ Settle(r) PROVE SumInv'
    BY <1>6, ConsumeInv, UnparsedInv, SettleInv, Zenon
<1>7. ASSUME NEW r \in Runners, ReportStep(r) PROVE SumInv'
    BY <1>7, CheckEmailInv, CheckRoleInv, StartChatInv, CallToolInv, EndChatInv, RedisExistsInv, FallbackInv, SMTT(30) DEF ReportStep
<1>8. CASE UNCHANGED sumVars
  <2>1. UNCHANGED <<jobs, waiting, unacked, settled, channel, consumer, run, mailOn, recent, mails, tries, losses, monday, roleOf>>
    BY <1>8, Zenon DEF sumVars
  <2>2. SumTypes' /\ QueueInv'
    BY <2>1, Zenon DEF SumInv, SumTypes, QueueInv, OncePerConnection
  <2>3. RunInv'
    BY <2>1, ZenonT(40) DEF SumInv, RunInv, OnTask, Resting
  <2>4. MailInv' /\ AckedIsStored' /\ SlotsAccountedFor'
    BY <2>1, Zenon DEF SumInv, MailInv, MailFits, AckedIsStored, SlotsAccountedFor
  <2> QED BY <2>2, <2>3, <2>4, Zenon DEF SumInv
<1> QED BY <1>1, <1>2, <1>3, <1>4, <1>5, <1>6, <1>7, <1>8, SMTT(30) DEF SumNext

\* What the invariant says of the agent.
LEMMA AgentSound == SumInv => SumTypeOK /\ OptOutHonoured /\ ReportFitsRole /\ OncePerConnection /\ AckedIsStored /\ SlotsAccountedFor
<1> SUFFICES ASSUME SumInv PROVE SumTypeOK /\ OptOutHonoured /\ ReportFitsRole /\ OncePerConnection
    BY Zenon DEF SumInv
<1>1. OptOutHonoured /\ ReportFitsRole
    BY Zenon DEF SumInv, MailInv, MailFits, OptOutHonoured, ReportFitsRole
<1>2. OncePerConnection
    BY Zenon DEF SumInv, QueueInv
<1>3. {waiting[i] : i \in DOMAIN waiting} \subseteq 1..Len(jobs)
    BY DEF SumInv, SumTypes
<1>4. \A r \in Runners : run[r].task \in 0..Len(jobs) /\ run[r].calls \in 0..MaxCalls
  <2> SUFFICES ASSUME NEW r \in Runners PROVE run[r].task \in 0..Len(jobs) /\ run[r].calls \in 0..MaxCalls
    BY Zenon
  <2>1. run[r] \in RunStates /\ Len(jobs) \in Nat
    BY DEF SumInv, SumTypes
  <2>2. run[r].task = 0 \/ run[r].task \in 1..Len(jobs)
    <3>1. run[r] = Resting \/ run[r].task \in 1..Len(jobs)
        BY Zenon DEF SumInv, RunInv, OnTask
    <3> QED BY <3>1 DEF Resting
  <2> QED BY <2>1, <2>2 DEF RunStates
<1>5. SumTypeOK
    BY <1>3, <1>4, Zenon DEF SumInv, SumTypes, QueueInv, SumTypeOK
<1> QED BY <1>1, <1>2, <1>5, Zenon

-----------------------------------------------------------------------------
(* The list of the users *)

\* The list: places read so far, and the users there from the start that are behind.
ReadTo == (lister.page - 1) * ListPage
Missed == {u \in stayed \ listed : PlaceById(u) <= ReadTo}
ListTypes ==
    /\ stayed \in SUBSET (1..MaxListed) /\ stayed \subseteq people /\ people \subseteq stayed \cup {MaxListed + 1}
    /\ listed \subseteq (1..MaxListed) \cup people
    /\ lister \in [pc : {"first", "rest", "done"}, page : Nat \ {0}, pages : Nat] /\ leavers \in Nat /\ skipped \in Nat
ListInv ==
    /\ ListTypes /\ again = {}
    /\ \A u \in listed \cap people : PlaceById(u) <= ReadTo
    /\ Cardinality(Missed) <= leavers + ListPage * skipped
    /\ lister.pc = "first" => lister.page = 1 /\ listed = {}
    /\ lister.pc # "first" => (lister.pc = "done" /\ listed = {}) \/ Cardinality(stayed) <= lister.pages * ListPage
    /\ lister.pc = "done" => listed = {} \/ lister.page > lister.pages

-----------------------------------------------------------------------------
(* The place of a number in an ordered list of numbers. *)

PlaceIn(S, u) == Cardinality({v \in S : v <= u})

\* A place is between one and the length of the list.
LEMMA PlaceInBounds ==
    ASSUME NEW S, IsFiniteSet(S), S \subseteq Nat, NEW u \in Nat
    PROVE  PlaceIn(S, u) \in Nat /\ PlaceIn(S, u) <= Cardinality(S) /\ (u \in S => PlaceIn(S, u) >= 1)
<1> DEFINE B == {v \in S : v <= u}
<1>1. IsFiniteSet(B) /\ Cardinality(B) <= Cardinality(S) /\ Cardinality(B) \in Nat
    BY FS_Subset, FS_CardinalityType, Zenon
<1>2. ASSUME u \in S PROVE Cardinality(B) >= 1
  <2>1. B # {}
    BY <1>2
  <2> HIDE DEF B
  <2>2. Cardinality(B) # 0
    BY <1>1, <2>1, FS_EmptySet, Zenon
  <2> QED BY <1>1, <2>2, SMTT(30)
<1> QED BY <1>1, <1>2, Zenon DEF PlaceIn

\* Places follow the order, so that no two have the same.
LEMMA PlaceInOrder ==
    ASSUME NEW S, IsFiniteSet(S), S \subseteq Nat, NEW u \in S, NEW w \in S, u < w
    PROVE  PlaceIn(S, u) < PlaceIn(S, w)
<1> DEFINE B == {v \in S : v <= u}
           C == {v \in S : v <= w}
<1>1. B \in SUBSET C /\ w \in C /\ w \notin B
  <2>1. u \in Nat /\ w \in Nat
    BY Zenon
  <2>2. w \in C /\ w \notin B
    BY <2>1
  <2>3. ASSUME NEW v \in S, v <= u PROVE v <= w
    <3>1. v \in Nat
      BY Zenon
    <3> QED BY <2>1, <2>3, <3>1, SMTT(30)
  <2> QED BY <2>2, <2>3, Zenon
<1>2. C \in SUBSET S
    BY Zenon
<1> HIDE DEF B, C
<1>3. IsFiniteSet(C) /\ IsFiniteSet(B)
    BY <1>1, <1>2, FS_Subset, Zenon
<1>4. Cardinality(B) \in Nat /\ Cardinality(C) \in Nat /\ Cardinality(B) <= Cardinality(C) /\ Cardinality(B) # Cardinality(C)
    BY <1>1, <1>3, FS_Subset, FS_CardinalityType, Zenon
<1> QED BY <1>4 DEF PlaceIn, B, C

\* No two users have one place.
LEMMA PlaceInUnique ==
    ASSUME NEW S, IsFiniteSet(S), S \subseteq Nat, NEW u \in S, NEW w \in S, PlaceIn(S, u) = PlaceIn(S, w)
    PROVE  u = w
<1>1. u \in Nat /\ w \in Nat
    BY Zenon
<1>2. PlaceIn(S, u) \in Nat /\ PlaceIn(S, w) \in Nat
    BY <1>1, PlaceInBounds, Zenon
<1>3. ASSUME u < w PROVE FALSE
  <2>1. PlaceIn(S, u) < PlaceIn(S, w)
    BY <1>3, PlaceInOrder, Zenon
  <2> QED BY <1>2, <2>1
<1>4. ASSUME w < u PROVE FALSE
  <2>1. PlaceIn(S, w) < PlaceIn(S, u)
    BY <1>4, PlaceInOrder, Zenon
  <2> QED BY <1>2, <2>1
<1> QED BY <1>1, <1>3, <1>4

\* A page holds no more than its size.
LEMMA PageSize ==
    ASSUME NEW S, IsFiniteSet(S), S \subseteq Nat, NEW X \in SUBSET S, NEW from \in Nat, NEW size \in Nat,
           \A u \in X : PlaceIn(S, u) \in (from + 1)..(from + size)
    PROVE  IsFiniteSet(X) /\ Cardinality(X) <= size
<1> DEFINE T == (from + 1)..(from + size)
           f == [u \in X |-> PlaceIn(S, u)]
<1>1. IsFiniteSet(T) /\ Cardinality(T) = size
  <2>1. from + 1 \in Int /\ from + size \in Int
    OBVIOUS
  <2>2. IsFiniteSet(T) /\ Cardinality(T) = (IF from + 1 > from + size THEN 0 ELSE (from + size) - (from + 1) + 1)
    BY <2>1, FS_Interval, Zenon
  <2> QED BY <2>2
<1>2. f \in [X -> T]
    BY Zenon
<1>3. \A u, w \in X : f[u] = f[w] => u = w
    BY PlaceInUnique, Zenon
<1> HIDE DEF T, f
<1>4. f \in Injection(X, T)
    BY <1>2, <1>3, Zenon DEF Injection, IsInjective
<1> QED BY <1>1, <1>4, FS_Injection, Zenon

\* Where one leaves, the others move up by at most one place.
LEMMA PlaceAfterLeave ==
    ASSUME NEW S, IsFiniteSet(S), S \subseteq Nat, NEW x \in S, NEW u \in Nat
    PROVE  PlaceIn(S \ {x}, u) <= PlaceIn(S, u) /\ PlaceIn(S, u) <= PlaceIn(S \ {x}, u) + 1
<1> DEFINE B == {v \in S : v <= u}
<1>1. IsFiniteSet(B) /\ Cardinality(B) \in Nat
    BY FS_Subset, FS_CardinalityType, Zenon
<1>2. {v \in S \ {x} : v <= u} = B \ {x}
    BY Zenon
<1> HIDE DEF B
<1>3. Cardinality(B \ {x}) = IF x \in B THEN Cardinality(B) - 1 ELSE Cardinality(B)
    BY <1>1, FS_RemoveElement, Zenon
<1> QED BY <1>1, <1>2, <1>3, SMTT(30) DEF PlaceIn, B

-----------------------------------------------------------------------------
(* The scheduler's list *)

\* The users are finitely many numbers, with the places above.
LEMMA PeopleFinite ==
    ASSUME ListTypes
    PROVE  /\ IsFiniteSet(people) /\ IsFiniteSet(stayed) /\ people \subseteq Nat /\ stayed \subseteq Nat
           /\ Cardinality(people) \in Nat /\ Cardinality(stayed) \in Nat /\ Cardinality(stayed) <= Cardinality(people)
           /\ \A u \in stayed : u <= MaxListed
<1>1. MaxListed \in Nat
    BY SummaryConstants, Zenon
<1>2. 1 \in Int /\ MaxListed + 1 \in Int
    BY <1>1
<1>3. IsFiniteSet(1..(MaxListed + 1))
    BY <1>2, FS_Interval, Zenon
<1>4. people \in SUBSET (1..(MaxListed + 1)) /\ stayed \in SUBSET people
    BY <1>1 DEF ListTypes
<1>5. IsFiniteSet(people)
    BY <1>3, <1>4, FS_Subset, Zenon
<1>6. IsFiniteSet(stayed) /\ Cardinality(stayed) <= Cardinality(people)
    BY <1>4, <1>5, FS_Subset, Zenon
<1> QED BY <1>1, <1>4, <1>5, <1>6, FS_CardinalityType, SMTT(30) DEF ListTypes

\* The invariant holds before the first page.
LEMMA InitListInv == ListInit => ListInv
<1> SUFFICES ASSUME ListInit PROVE ListInv
    BY Zenon
<1>1. PICK n \in 1..MaxListed : people = 1..n
    BY Zenon DEF ListInit
<1>2. MaxListed \in Nat /\ n \in Nat /\ n <= MaxListed
    BY <1>1, SummaryConstants, SMTT(30)
<1>3. ListTypes
    BY <1>1, <1>2, SMTT(30) DEF ListInit, ListTypes
<1>4. ReadTo = 0
    BY SummaryConstants DEF ListInit, ReadTo
<1>5. Missed = {}
  <2> SUFFICES ASSUME NEW u \in stayed PROVE ~(PlaceById(u) <= 0)
    BY <1>4, Zenon DEF Missed
  <2>1. PlaceIn(people, u) \in Nat /\ PlaceIn(people, u) >= 1
    BY <1>3, PeopleFinite, PlaceInBounds, Zenon DEF ListInit
  <2> QED BY <2>1 DEF PlaceIn, PlaceById
<1>6. Cardinality(Missed) = 0
    BY <1>5, FS_EmptySet, Zenon
<1>7. leavers + ListPage * skipped = 0
    BY SummaryConstants DEF ListInit
<1>8. again = {} /\ listed = {} /\ lister.pc = "first" /\ lister.page = 1
    BY Zenon DEF ListInit
<1> QED BY <1>3, <1>6, <1>7, <1>8, SMTT(30) DEF ListInv

\* Where the reader stands, in numbers.
LEMMA ReadOn ==
    ASSUME ListTypes, NEW p, p = lister.page
    PROVE  /\ p \in Nat \ {0} /\ ListPage \in Nat \ {0} /\ ReadTo \in Nat /\ ReadTo = (p - 1) * ListPage
           /\ p * ListPage = ReadTo + ListPage /\ (p + 1) - 1 = p
<1>1. p \in Nat \ {0} /\ ListPage \in Nat \ {0}
    BY SummaryConstants, Zenon DEF ListTypes
<1>2. \A a \in Nat : \A b \in Nat : a * b \in Nat /\ (a + 1) * b = a * b + b
    OBVIOUS
<1>3. PICK q \in Nat : p = q + 1 /\ p - 1 = q
    BY <1>1
<1>4. (p - 1) * ListPage \in Nat /\ p * ListPage = (p - 1) * ListPage + ListPage
    BY <1>1, <1>2, <1>3, Zenon
<1> QED BY <1>1, <1>4 DEF ReadTo

\* The pages found with the first one hold everybody.
LEMMA PagesHoldAll ==
    ASSUME NEW total \in Nat
    PROVE  PageTotal(total) \in Nat /\ total <= PageTotal(total) * ListPage
<1>1. ListPage \in Nat \ {0}
    BY SummaryConstants, Zenon
<1>2. \A t \in Nat : \A P \in Nat \ {0} : (t + P - 1) \div P \in Nat /\ t <= ((t + P - 1) \div P) * P
    OBVIOUS
<1> QED BY <1>1, <1>2, Zenon DEF PageTotal

\* A page arrives, or is left out.
LEMMA GetUsersInv == ASSUME ListInv, GetUsers PROVE ListInv'
<1>1. PICK p : p = lister.page
    BY Zenon
<1>2. ListTypes /\ ListTypes'
  <2>1. ListTypes
    BY Zenon DEF ListInv
  <2>2. UserPage(lister.page) \subseteq people
    BY Zenon DEF UserPage
  <2>3. listed' \subseteq (1..MaxListed) \cup people' /\ UNCHANGED <<people, stayed, leavers>> /\ skipped' \in {skipped, skipped + 1}
    BY <2>1, <2>2, Zenon DEF GetUsers, ListTypes
  <2>4. PageTotal(Cardinality(people)) \in Nat
    BY <2>1, PeopleFinite, PagesHoldAll, ZenonT(40)
  <2>5. lister' \in [pc : {"first", "rest", "done"}, page : Nat \ {0}, pages : Nat]
    BY <2>1, <2>4, SMTT(30) DEF GetUsers, ListTypes
  <2> QED BY <2>1, <2>3, <2>5, SMTT(30) DEF ListTypes
<1>3. /\ UNCHANGED <<people, stayed, leavers>> /\ lister'.page = p + 1
      /\ lister'.pages = (IF lister.pc = "first" THEN PageTotal(Cardinality(people)) ELSE lister.pages)
      /\ lister'.pc \in {"rest", "done"} /\ lister.pc \in {"first", "rest"}
    BY <1>1 DEF GetUsers
<1>4. PICK R \in Nat : R = ReadTo /\ ReadTo' = R + ListPage /\ p * ListPage = R + ListPage /\ (p - 1) * ListPage = R /\ ListPage \in Nat
    BY <1>1, <1>2, <1>3, ReadOn, ZenonT(40) DEF ReadTo
<1>5. \A u : PlaceById(u)' = PlaceById(u) /\ PlaceById(u) = PlaceIn(people, u)
    BY <1>3, Zenon DEF PlaceById, PlaceIn
<1>6. IsFiniteSet(people) /\ people \subseteq Nat /\ stayed \subseteq people /\ \A u \in people : PlaceById(u) \in Nat
    BY <1>2, <1>5, PeopleFinite, PlaceInBounds, Zenon DEF ListTypes
<1>7. UserPage(p) = {u \in people : PlaceById(u) \in (R + 1)..(R + ListPage)}
    BY <1>4, Zenon DEF UserPage
<1>8. IsFiniteSet(Missed) /\ Cardinality(Missed) \in Nat
  <2>1. Missed \in SUBSET people
    BY <1>6, Zenon DEF Missed
  <2> QED BY <1>6, <2>1, FS_Subset, FS_CardinalityType, Zenon
<1>9. leavers \in Nat /\ skipped \in Nat /\ Cardinality(Missed) <= leavers + ListPage * skipped /\ again = {}
    BY Zenon DEF ListInv, ListTypes
<1>10. /\ listed' = listed \/ listed' = listed \cup UserPage(p)
       /\ again' = {}
  <2>1. listed \cap UserPage(p) = {}
    <3> SUFFICES ASSUME NEW u \in listed, u \in UserPage(p) PROVE FALSE
        BY Zenon
    <3>1. u \in people /\ PlaceById(u) \in Nat /\ PlaceById(u) >= R + 1
        BY <1>6, <1>7
    <3>2. PlaceById(u) <= R
        BY <1>4, <3>1, Zenon DEF ListInv
    <3> QED BY <3>1, <3>2
  <2> QED BY <1>1, <1>9, <2>1, Zenon DEF GetUsers
<1>11. \A u \in (listed \cap people)' : PlaceById(u)' <= ReadTo'
  <2> SUFFICES ASSUME NEW u \in listed' \cap people PROVE PlaceById(u) <= R + ListPage
    BY <1>3, <1>4, <1>5, Zenon
  <2>1. CASE u \in listed
    <3>1. PlaceById(u) <= R /\ PlaceById(u) \in Nat
        BY <1>4, <1>6, <2>1, Zenon DEF ListInv
    <3> QED BY <1>4, <3>1
  <2>2. CASE u \in UserPage(p)
    BY <1>7, <2>2
  <2> QED BY <1>10, <2>1, <2>2, Zenon
<1>12. Cardinality(Missed') <= leavers' + ListPage * skipped'
  <2>1. CASE listed' = listed \cup UserPage(p) /\ skipped' = skipped
    <3>1. Missed' \subseteq Missed
      <4> SUFFICES ASSUME NEW u \in stayed, u \notin listed', PlaceById(u) <= R + ListPage PROVE PlaceById(u) <= R
        BY <1>3, <1>4, <1>5, <2>1, Zenon DEF Missed
      <4>1. u \in people /\ PlaceById(u) \in Nat /\ u \notin UserPage(p)
        BY <1>6, <2>1, Zenon
      <4> QED BY <1>4, <1>7, <4>1
    <3>2. Cardinality(Missed') <= Cardinality(Missed) /\ Cardinality(Missed') \in Nat
        BY <1>8, <3>1, FS_Subset, FS_CardinalityType, Zenon
    <3> QED BY <1>3, <1>4, <1>8, <1>9, <2>1, <3>2, SMTT(30)
  <2>2. CASE listed' = listed /\ skipped' = skipped + 1
    <3> DEFINE X == {u \in stayed : PlaceById(u) \in (R + 1)..(R + ListPage)}
    <3>1. IsFiniteSet(X) /\ Cardinality(X) <= ListPage
      <4>1. X \in SUBSET people /\ \A u \in X : PlaceIn(people, u) \in (R + 1)..(R + ListPage)
        BY <1>5, <1>6, Zenon
      <4> HIDE DEF X
      <4> QED BY <1>4, <1>6, <4>1, PageSize, Zenon
    <3>2. Missed' \subseteq Missed \cup X
      <4> SUFFICES ASSUME NEW u \in stayed, u \notin listed, PlaceById(u) <= R + ListPage, ~(PlaceById(u) <= R)
                   PROVE  PlaceById(u) \in (R + 1)..(R + ListPage)
        BY <1>3, <1>4, <1>5, <2>2, Zenon DEF Missed
      <4> QED BY <1>4, <1>6, SMTT(30)
    <3> HIDE DEF X
    <3>3. /\ IsFiniteSet(Missed \cup X)
          /\ Cardinality(Missed \cup X) = Cardinality(Missed) + Cardinality(X) - Cardinality(Missed \cap X)
        BY <1>8, <3>1, FS_Union, Zenon
    <3>4. Cardinality(Missed \cap X) \in Nat /\ Cardinality(X) \in Nat
        BY <1>8, <3>1, FS_Subset, FS_CardinalityType, Zenon
    <3>5. Cardinality(Missed') <= Cardinality(Missed \cup X) /\ Cardinality(Missed') \in Nat
        BY <3>2, <3>3, FS_Subset, FS_CardinalityType, Zenon
    <3>6. ListPage * (skipped + 1) = ListPage * skipped + ListPage /\ ListPage * skipped \in Nat
      <4>1. \A a \in Nat : \A b \in Nat : a * (b + 1) = a * b + a /\ a * b \in Nat
        BY SMTT(30)
      <4> QED BY <1>4, <1>9, <4>1, Zenon
    <3>7. Cardinality(Missed') <= Cardinality(Missed) + ListPage
        BY <1>4, <1>8, <3>1, <3>3, <3>4, <3>5, SMTT(30)
    <3>8. leavers' + ListPage * skipped' = leavers + (ListPage * skipped + ListPage)
        BY <1>3, <2>2, <3>6, Zenon
    <3> QED BY <1>4, <1>8, <1>9, <3>5, <3>6, <3>7, <3>8, SMTT(30)
  <2> QED BY <1>1, <2>1, <2>2, Zenon DEF GetUsers
<1>13. (lister.pc # "first" => (lister.pc = "done" /\ listed = {}) \/ Cardinality(stayed) <= lister.pages * ListPage)'
  <2>1. CASE lister.pc = "rest"
    BY <1>3, <2>1, Zenon DEF ListInv
  <2>2. CASE lister.pc = "first"
    <3>1. CASE listed' = listed /\ lister'.pc = "done"
        BY <2>2, <3>1, Zenon DEF ListInv
    <3>2. CASE lister'.pages = PageTotal(Cardinality(people))
      <4>1. /\ Cardinality(people) \in Nat /\ Cardinality(stayed) \in Nat /\ Cardinality(stayed) <= Cardinality(people)
        BY <1>2, PeopleFinite, Zenon
      <4>2. PageTotal(Cardinality(people)) \in Nat /\ Cardinality(people) <= PageTotal(Cardinality(people)) * ListPage
        BY <4>1, PagesHoldAll, Zenon
      <4>3. PICK m \in Nat : m = PageTotal(Cardinality(people)) * ListPage
        BY <1>4, <4>2, SMTT(30)
      <4>4. Cardinality(stayed) <= lister'.pages * ListPage
        BY <3>2, <4>1, <4>2, <4>3, SMTT(30)
      <4> QED BY <1>3, <4>4, Zenon
    <3> QED BY <1>3, <2>2, <3>1, <3>2, Zenon
  <2> QED BY <1>3, <2>1, <2>2, Zenon
<1>14. (lister.pc = "done" => listed = {} \/ lister.page > lister.pages)'
  <2> SUFFICES ASSUME lister'.pc = "done" PROVE listed' = {} \/ lister'.page > lister'.pages
    BY Zenon
  <2>1. CASE lister.pc = "first" /\ listed' = listed
    BY <2>1, Zenon DEF ListInv
  <2>2. CASE lister'.page > lister'.pages
    BY <2>2, Zenon
  <2> QED BY <1>1, <1>3, <2>1, <2>2, SMTT(30) DEF GetUsers
<1> QED BY <1>2, <1>3, <1>10, <1>11, <1>12, <1>13, <1>14, ZenonT(40) DEF ListInv

\* A user is deleted: one at most slips past the reader.
LEMMA UserLeavesInv == ASSUME ListInv, UserLeaves PROVE ListInv'
<1>1. PICK x \in stayed : people' = people \ {x} /\ stayed' = stayed \ {x}
    BY Zenon DEF UserLeaves
<1>2. UNCHANGED <<listed, again, lister, skipped>> /\ leavers' = leavers + 1 /\ lister.pc = "rest"
    BY Zenon DEF UserLeaves
<1>3. ListTypes /\ ListTypes'
  <2>1. ListTypes
    BY Zenon DEF ListInv
  <2>2. x \in 1..MaxListed
    BY <2>1, Zenon DEF ListTypes
  <2> QED BY <1>1, <1>2, <2>1, <2>2, SMTT(30) DEF ListTypes
<1>4. IsFiniteSet(people) /\ people \subseteq Nat /\ stayed \subseteq people /\ x \in people
    BY <1>3, PeopleFinite, Zenon DEF ListTypes
<1>5. PICK R \in Nat : R = ReadTo /\ ReadTo' = R
    BY <1>2, <1>3, ReadOn, Zenon DEF ReadTo
<1>6. ASSUME NEW u \in people
      PROVE  /\ PlaceById(u) = PlaceIn(people, u) /\ PlaceById(u)' = PlaceIn(people \ {x}, u)
             /\ PlaceById(u) \in Nat /\ PlaceById(u)' \in Nat /\ PlaceById(u)' <= PlaceById(u) /\ PlaceById(u) <= PlaceById(u)' + 1
  <2>1. PlaceById(u) = PlaceIn(people, u) /\ PlaceById(u)' = PlaceIn(people \ {x}, u)
    BY <1>1, Zenon DEF PlaceById, PlaceIn
  <2>2. IsFiniteSet(people \ {x}) /\ people \ {x} \subseteq Nat /\ u \in Nat
    BY <1>4, FS_RemoveElement, Zenon
  <2>3. PlaceIn(people, u) \in Nat /\ PlaceIn(people \ {x}, u) \in Nat
    BY <1>4, <2>2, PlaceInBounds, Zenon
  <2>4. PlaceIn(people \ {x}, u) <= PlaceIn(people, u) /\ PlaceIn(people, u) <= PlaceIn(people \ {x}, u) + 1
    BY <1>4, <2>2, PlaceAfterLeave, Zenon
  <2> QED BY <2>1, <2>3, <2>4, Zenon
<1>7. \A u \in (listed \cap people)' : PlaceById(u)' <= ReadTo'
  <2> SUFFICES ASSUME NEW u \in listed, u \in people PROVE PlaceById(u)' <= R
    BY <1>1, <1>2, <1>5, Zenon
  <2>1. PlaceById(u) <= R
    BY <1>5, Zenon DEF ListInv
  <2> QED BY <1>5, <1>6, <2>1, SMTT(30)
<1>8. IsFiniteSet(Missed) /\ Cardinality(Missed) \in Nat
  <2>1. Missed \in SUBSET people
    BY <1>4, Zenon DEF Missed
  <2> QED BY <1>4, <2>1, FS_Subset, FS_CardinalityType, Zenon
<1>9. \E w : Missed' \subseteq Missed \cup {w}
  <2>1. ASSUME NEW u \in Missed', u \notin Missed PROVE u \in people /\ PlaceIn(people, u) = R + 1
    <3>1. u \in stayed /\ u \notin listed /\ PlaceById(u)' <= R
        BY <1>1, <1>2, <1>5, <2>1, Zenon DEF Missed
    <3>2. u \in people /\ ~(PlaceById(u) <= R)
        BY <1>4, <1>5, <2>1, <3>1, Zenon DEF Missed
    <3> QED BY <1>5, <1>6, <3>1, <3>2, SMTT(30)
  <2>2. CASE Missed' \subseteq Missed
    BY <2>2, Zenon
  <2>3. ASSUME NEW w \in Missed', w \notin Missed PROVE Missed' \subseteq Missed \cup {w}
    <3> SUFFICES ASSUME NEW u \in Missed', u \notin Missed PROVE u = w
        BY Zenon
    <3>1. u \in people /\ w \in people /\ PlaceIn(people, u) = PlaceIn(people, w)
        BY <2>1, <2>3, Zenon
    <3> QED BY <1>4, <3>1, PlaceInUnique, Zenon
  <2> QED BY <2>2, <2>3, Zenon
<1>10. Cardinality(Missed') <= leavers' + ListPage * skipped'
  <2>1. PICK w : Missed' \subseteq Missed \cup {w}
    BY <1>9, Zenon
  <2>2. IsFiniteSet(Missed \cup {w}) /\ Cardinality(Missed \cup {w}) <= Cardinality(Missed) + 1 /\ Cardinality(Missed \cup {w}) \in Nat
    BY <1>8, FS_AddElement, SMTT(30)
  <2>3. Cardinality(Missed') <= Cardinality(Missed \cup {w}) /\ Cardinality(Missed') \in Nat
    BY <2>1, <2>2, FS_Subset, FS_CardinalityType, SMTT(30)
  <2>4. leavers \in Nat /\ skipped \in Nat /\ ListPage \in Nat /\ ListPage * skipped \in Nat
    BY <1>3, SummaryConstants DEF ListTypes
  <2>5. Cardinality(Missed) <= leavers + ListPage * skipped
    BY Zenon DEF ListInv
  <2> QED BY <1>2, <1>8, <2>2, <2>3, <2>4, <2>5, SMTT(30)
<1>11. Cardinality(stayed') <= lister'.pages * ListPage
  <2>1. Cardinality(stayed) <= lister.pages * ListPage
    BY <1>2, Zenon DEF ListInv
  <2>2. Cardinality(stayed') <= Cardinality(stayed) /\ Cardinality(stayed') \in Nat /\ Cardinality(stayed) \in Nat
    <3>1. IsFiniteSet(stayed) /\ stayed' \in SUBSET stayed
        BY <1>1, <1>3, PeopleFinite, Zenon
    <3> QED BY <3>1, FS_Subset, FS_CardinalityType
  <2>3. lister.pages * ListPage \in Nat
    BY <1>3, SummaryConstants DEF ListTypes
  <2> QED BY <1>2, <2>1, <2>2, <2>3, SMTT(30)
<1> QED BY <1>2, <1>3, <1>7, <1>10, <1>11, SMTT(30) DEF ListInv

\* A new user comes last: those there from the start keep their places.
LEMMA UserJoinsInv == ASSUME ListInv, UserJoins PROVE ListInv'
<1>1. people' = people \cup {MaxListed + 1} /\ UNCHANGED <<stayed, listed, again, lister, leavers, skipped>>
    BY Zenon DEF UserJoins
<1>2. ListTypes /\ ListTypes' /\ MaxListed \in Nat
    BY <1>1, SummaryConstants, Zenon DEF ListInv, ListTypes
<1>3. ReadTo' = ReadTo
    BY <1>1, Zenon DEF ReadTo
<1>4. ASSUME NEW u \in Nat, u <= MaxListed PROVE PlaceById(u)' = PlaceById(u)
  <2>1. {v \in people' : v <= u} = {v \in people : v <= u}
    BY <1>1, <1>2, <1>4, SMTT(30)
  <2> QED BY <2>1, Zenon DEF PlaceById
<1>5. Missed' = Missed
  <2>1. \A u \in stayed : u \in Nat /\ u <= MaxListed
    BY <1>2, PeopleFinite, Zenon
  <2> QED BY <1>1, <1>3, <1>4, <2>1, Zenon DEF Missed
<1>6. \A u \in (listed \cap people)' : PlaceById(u)' <= ReadTo'
  <2>1. CASE MaxListed + 1 \in people
    <3>1. people' = people
        BY <1>1, <2>1, Zenon
    <3> QED BY <1>1, <1>3, <3>1, Zenon DEF ListInv, PlaceById
  <2>2. CASE MaxListed + 1 \notin people
    <3> SUFFICES ASSUME NEW u \in listed, u \in people' PROVE PlaceById(u)' <= ReadTo
        BY <1>1, <1>3, Zenon
    <3>1. u \in 1..MaxListed \/ u \in people
        BY <1>2, Zenon DEF ListTypes
    <3>2. u \in Nat /\ u <= MaxListed /\ u \in people
        BY <1>1, <1>2, <2>2, <3>1, PeopleFinite, SMTT(30) DEF ListTypes
    <3> QED BY <1>4, <3>2, Zenon DEF ListInv
  <2> QED BY <2>1, <2>2, Zenon
<1> QED BY <1>1, <1>2, <1>5, <1>6, Zenon DEF ListInv

\* Every step of the list preserves its invariant.
LEMMA NextListInv == ListInv /\ [ListNext]_listVars => ListInv'
<1> SUFFICES ASSUME ListInv, [ListNext]_listVars PROVE ListInv'
    BY Zenon
<1>1. CASE GetUsers
    BY <1>1, GetUsersInv, Zenon
<1>2. CASE UserLeaves
    BY <1>2, UserLeavesInv, Zenon
<1>3. CASE UserJoins
    BY <1>3, UserJoinsInv, Zenon
<1>4. CASE UNCHANGED listVars
    BY <1>4, Zenon DEF listVars, ListInv, ListTypes, Missed, ReadTo, PlaceById
<1> QED BY <1>1, <1>2, <1>3, <1>4, Zenon DEF ListNext

\* At the end of the list nobody is behind the reader unseen, except the missed.
LEMMA ListSound == ListInv => ListReachesAll
<1> SUFFICES ASSUME ListInv, lister.pc = "done", listed # {} PROVE Cardinality(stayed \ listed) <= leavers + ListPage * skipped
    BY Zenon DEF ListInv, ListReachesAll
<1>1. ListTypes
    BY Zenon DEF ListInv
<1>2. lister.page \in Nat /\ lister.pages \in Nat /\ lister.page > lister.pages /\ ListPage \in Nat
    BY <1>1, SummaryConstants, Zenon DEF ListInv, ListTypes
<1>3. lister.pages * ListPage <= ReadTo /\ lister.pages * ListPage \in Nat /\ ReadTo \in Nat
  <2>1. \A a \in Nat : \A b \in Nat : \A c \in Nat : a <= b => a * c <= b * c /\ a * c \in Nat /\ b * c \in Nat
    OBVIOUS
  <2>2. lister.page - 1 \in Nat /\ lister.pages <= lister.page - 1
    BY <1>2
  <2> QED BY <1>2, <2>1, <2>2, Zenon DEF ReadTo
<1>4. Cardinality(stayed) <= lister.pages * ListPage
    BY Zenon DEF ListInv
<1>5. \A u \in stayed : PlaceById(u) <= ReadTo
  <2> SUFFICES ASSUME NEW u \in stayed PROVE PlaceById(u) <= ReadTo
    BY Zenon
  <2>1. u \in Nat /\ u <= MaxListed /\ IsFiniteSet(stayed) /\ people \subseteq stayed \cup {MaxListed + 1} /\ stayed \subseteq Nat /\ MaxListed \in Nat
    BY <1>1, PeopleFinite, SummaryConstants, Zenon DEF ListTypes
  <2>2. {v \in people : v <= u} \in SUBSET stayed
    <3> SUFFICES ASSUME NEW v \in people, v <= u PROVE v \in stayed
        BY Zenon
    <3>1. v # MaxListed + 1
        BY <2>1
    <3> QED BY <2>1, <3>1, Zenon
  <2>3. PlaceById(u) <= Cardinality(stayed) /\ PlaceById(u) \in Nat /\ Cardinality(stayed) \in Nat
    BY <2>1, <2>2, FS_Subset, FS_CardinalityType, Zenon DEF PlaceById
  <2> QED BY <1>3, <1>4, <2>3, SMTT(30)
<1>6. Missed = stayed \ listed
    BY <1>5, Zenon DEF Missed
<1> QED BY <1>6, Zenon DEF ListInv

-----------------------------------------------------------------------------
\* The reports respect the user's mail setting and role, a task is worked on once per
\* connection, an acknowledged one has left its report, no place of the prefetch window
\* is held by nobody, and the scheduler's list misses no more than the deletions and the
\* failed pages explain (biz/service/summary.go:60-170, consumer.go:25-60, cron.go:58-95).
THEOREM SummariesSound == SumSpec => []SummariesAreSound
<1>1. SumInit => SumInv
    BY InitSumInv, Zenon
<1>2. ListInit => ListInv
    BY InitListInv, Zenon
<1>3. SumInv /\ [SumNext]_sumVars => SumInv'
    BY NextSumInv, Zenon
<1>4. ListInv /\ [ListNext]_listVars => ListInv'
    BY NextListInv, Zenon
<1>5. SumInv /\ ListInv => SummariesAreSound
    BY AgentSound, ListSound, Zenon DEF SummariesAreSound
<1> QED BY <1>1, <1>2, <1>3, <1>4, <1>5, PTL DEF SumSpec
=============================================================================
