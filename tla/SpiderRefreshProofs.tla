------------------------ MODULE SpiderRefreshProofs ------------------------
(***************************************************************************)
(* Proofs about SpiderRefresh for every set of platforms, callers and      *)
(* goroutines and every bound: type correctness, with what a caller's and  *)
(* a goroutine's step says about its locals; which steps activate a job;   *)
(* no active job without a carrier; what the duplicate-job check keeps     *)
(* apart whatever fails; and, while nothing has failed, that the progress  *)
(* of a job is right and that a full refresh keeps out requests for the    *)
(* platforms it has yet to fetch.                                          *)
(***************************************************************************)
EXTENDS SpiderRefresh, TLAPS, FiniteSetTheorems

Publishing == {"publish", "reconnect", "republish", "fail"}

\* What a caller's step says about its locals.
CallerInv ==
    \A c \in Callers :
        /\ cpc[c] = "save" => carg[c] \in Platforms
        /\ cpc[c] \in Publishing => cjob[c] \in Rows
        /\ cpc[c] \notin Publishing => cjob[c] = 0

\* What a goroutine's step says about its locals.
GoroutineInv ==
    \A w \in Workers :
        /\ wpc[w] = "idle" => wjob[w] = 0 /\ w \notin live
        /\ wpc[w] # "idle" => wjob[w] \in Rows
        /\ wpc[w] = "fetch" => wcur[w] \in Platforms

TypeInv == TypeOK /\ CallerInv /\ GoroutineInv

-----------------------------------------------------------------------------
(* Type correctness.                                                       *)

\* Init establishes the types.
LEMMA InitTypeInv == Init => TypeInv
  BY ConstantsAssumption DEF Init, TypeInv, TypeOK, RowsOK, AccountsOK, CallersOK, BrokerOK, GoroutinesOK,
     HistoryOK, CallerInv, GoroutineInv, Scopes, Status, Publishing

\* A request (Update, Retry, cron, SetSpider) preserves the types.
LEMMA RequestTypeInv ==
  ASSUME TypeInv, NEW c \in Callers, Request(c)
  PROVE  TypeInv'
<1> USE ConstantsAssumption DEF TypeInv, TypeOK, CallDo, Idle
<1>0. njobs \in Nat /\ 0 \in 0..njobs /\ 0 \in 0..TTL + 1
  BY DEF RowsOK
<1>1. CASE \E p \in Scopes : Update(c, p)
  <2>0. PICK p \in Scopes : Update(c, p)
    BY <1>1, Zenon
  <2>1. RowsOK' /\ AccountsOK' /\ BrokerOK' /\ GoroutinesOK' /\ HistoryOK' /\ GoroutineInv'
    BY <2>0, Zenon DEF Update, RowsOK, AccountsOK, BrokerOK, GoroutinesOK, HistoryOK, GoroutineInv, accounts, broker, goroutines, history, rows, Rows
  <2>2. CallersOK'
    BY <2>0, Zenon DEF Update, CallersOK, rows
  <2>3. CallerInv'
    BY <1>0, <2>0, Zenon DEF Update, CallerInv, callers, Publishing, Rows, CallersOK, rows
  <2>4. QED
    BY <2>1, <2>2, <2>3, Zenon
<1>2. CASE \E j \in JobIds : Retry(c, j)
  <2>0. PICK j \in JobIds : Retry(c, j)
    BY <1>2, Zenon
  <2>1. current[j] \in Scopes
    BY <2>0, Zenon DEF RowsOK
  <2>2. RowsOK' /\ AccountsOK' /\ BrokerOK' /\ GoroutinesOK' /\ HistoryOK' /\ GoroutineInv'
    BY <2>0, Zenon DEF Retry, RowsOK, AccountsOK, BrokerOK, GoroutinesOK, HistoryOK, GoroutineInv, accounts, broker, goroutines, history, rows, Rows
  <2>3. CallersOK'
    BY <2>0, <2>1, Zenon DEF Retry, CallersOK, Scopes, rows
  <2>4. CallerInv'
    BY <2>0 DEF Retry, CallerInv, Publishing, Rows, rows
  <2>5. QED
    BY <2>2, <2>3, <2>4, Zenon
<1>3. CASE CronDo(c)
  <2>1. RowsOK' /\ AccountsOK' /\ BrokerOK' /\ GoroutinesOK' /\ HistoryOK' /\ GoroutineInv'
    BY <1>3, Zenon DEF CronDo, RowsOK, AccountsOK, BrokerOK, GoroutinesOK, HistoryOK, GoroutineInv, accounts, broker, goroutines, history, rows, Rows
  <2>2. CallersOK'
    BY <1>3, Zenon DEF CronDo, CallersOK, Scopes, rows
  <2>3. CallerInv'
    BY <1>3 DEF CronDo, CallerInv, Publishing, Rows, rows
  <2>4. QED
    BY <2>1, <2>2, <2>3, Zenon
<1>4. CASE \E p \in Platforms : SetSpider(c, p)
  <2>0. PICK p \in Platforms : SetSpider(c, p)
    BY <1>4, Zenon
  <2>1. RowsOK' /\ BrokerOK' /\ GoroutinesOK' /\ HistoryOK' /\ GoroutineInv'
    BY <2>0, Zenon DEF SetSpider, RowsOK, BrokerOK, GoroutinesOK, HistoryOK, GoroutineInv, broker, goroutines, history, rows, Rows
  <2>2. AccountsOK'
    BY <2>0, Zenon DEF SetSpider, AccountsOK
  <2>3. CallersOK'
    BY <2>0, Zenon DEF SetSpider, CallersOK, Scopes, rows
  <2>4. CallerInv'
    BY <2>0, Zenon DEF SetSpider, CallerInv, Publishing, Rows, CallersOK, rows
  <2>5. QED
    BY <2>1, <2>2, <2>3, <2>4, Zenon
<1>5. CASE RebuildAll(c)
  <2>1. RowsOK' /\ AccountsOK' /\ BrokerOK' /\ GoroutinesOK' /\ HistoryOK' /\ GoroutineInv'
    BY <1>5, Zenon DEF RebuildAll, RowsOK, AccountsOK, BrokerOK, GoroutinesOK, HistoryOK, GoroutineInv, accounts, broker, goroutines, history, rows, Rows
  <2>2. CallersOK'
    BY <1>5, Zenon DEF RebuildAll, CallersOK, Scopes, rows
  <2>3. CallerInv'
    BY <1>5, Zenon DEF RebuildAll, CallerInv, callers, Publishing, Rows, CallersOK, rows
  <2>4. QED
    BY <2>1, <2>2, <2>3, Zenon
<1>6. QED
  BY <1>1, <1>2, <1>3, <1>4, <1>5, Zenon DEF Request

\* A step of SpiderTask.Do preserves the types.
LEMMA DoStepTypeInv ==
  ASSUME TypeInv, NEW c \in Callers, DoStep(c)
  PROVE  TypeInv'
<1> USE ConstantsAssumption DEF TypeInv, TypeOK, Return
<1>0. njobs \in Nat /\ 0 \in 0..njobs /\ 0 \in 0..TTL + 1
  BY DEF RowsOK
<1>1. CASE SaveBinding(c)
  <2>1. carg[c] \in Platforms
    BY <1>1, Zenon DEF CallerInv, SaveBinding
  <2>2. RowsOK' /\ BrokerOK' /\ GoroutinesOK' /\ HistoryOK' /\ GoroutineInv'
    BY <1>1, Zenon DEF SaveBinding, RowsOK, BrokerOK, GoroutinesOK, HistoryOK, GoroutineInv, broker, goroutines, history, rows, Rows
  <2>3. AccountsOK'
    BY <1>1, <2>1, Zenon DEF SaveBinding, AccountsOK, rows
  <2>4. CallersOK'
    BY <1>1, Zenon DEF SaveBinding, CallersOK, callers, Scopes, rows
  <2>5. CallerInv'
    BY <1>1, Zenon DEF SaveBinding, CallerInv, Publishing, Rows, CallersOK, rows
  <2>6. QED
    BY <2>2, <2>3, <2>4, <2>5, Zenon
<1>2. CASE ExpireStaleActiveJobs(c)
  <2>1. AccountsOK' /\ BrokerOK' /\ GoroutinesOK' /\ HistoryOK' /\ GoroutineInv'
    BY <1>2, Zenon DEF ExpireStaleActiveJobs, AccountsOK, BrokerOK, GoroutinesOK, HistoryOK, GoroutineInv, accounts, broker, goroutines, history, rows, Rows
  <2>2. RowsOK'
    BY <1>0, <1>2, Zenon DEF ExpireStaleActiveJobs, RowsOK, rows, JobIds, Scopes, Status, ActiveStatus
  <2>3. CallersOK'
    BY <1>2, Zenon DEF ExpireStaleActiveJobs, CallersOK, Scopes
  <2>4. CallerInv'
    BY <1>2 DEF ExpireStaleActiveJobs, CallerInv, Publishing, Rows
  <2>5. QED
    BY <2>1, <2>2, <2>3, <2>4, Zenon
<1>3. CASE FindActiveJob(c)
  <2>1. RowsOK' /\ AccountsOK' /\ BrokerOK' /\ GoroutinesOK' /\ GoroutineInv'
    BY <1>3, Zenon DEF FindActiveJob, RowsOK, AccountsOK, BrokerOK, GoroutinesOK, GoroutineInv, accounts, broker, goroutines, rows, Rows
  <2>2. CallersOK'
    BY <1>0, <1>3 DEF FindActiveJob, CallersOK, Scopes, rows
  <2>3. HistoryOK'
    BY <1>3, Zenon DEF FindActiveJob, HistoryOK, Rows, rows
  <2>4. CallerInv'
    BY <1>3 DEF FindActiveJob, CallerInv, Publishing, Rows, CallersOK, rows
  <2>5. QED
    BY <2>1, <2>2, <2>3, <2>4, Zenon
<1>4. CASE CreateJob(c)
  <2>1. njobs + 1 \in JobIds /\ njobs' = njobs + 1 /\ Rows \subseteq Rows'
    BY <1>4 DEF CreateJob, RowsOK, Rows, JobIds
  <2>2. scope' \in [JobIds -> Scopes] /\ current' \in [JobIds -> Scopes]
    BY <1>4, Zenon DEF CreateJob, RowsOK, CallersOK
  <2>3. status' \in [JobIds -> Status]
    BY <1>4, Zenon DEF CreateJob, RowsOK, Status, ActiveStatus
  <2>4. total' \in [JobIds -> Nat]
    BY <1>4, Zenon DEF CreateJob, RowsOK
  <2>5. AccountsOK'
    BY <1>4, Zenon DEF CreateJob, Deciding, AccountsOK, accounts, rows
  <2>6. RowsOK'
    BY <1>0, <1>4, <2>2, <2>3 DEF CreateJob, Deciding, RowsOK, rows
  <2>7. CallersOK'
    BY <1>0, <1>4 DEF CreateJob, CallersOK, Scopes
  <2>8. BrokerOK'
    BY <1>4, <2>1, Zenon DEF CreateJob, BrokerOK, broker
  <2>9. GoroutinesOK'
    BY <1>0, <1>4 DEF CreateJob, Deciding, GoroutinesOK, goroutines
  <2>10. HistoryOK'
    <3>1. /\ UNCHANGED <<faults, orphaned, revived>> /\ disturbed' \subseteq Callers
          /\ raced' \subseteq Rows \cup {njobs + 1}
      BY <1>4, Zenon DEF CreateJob, Deciding, HistoryOK
    <3>2. njobs + 1 \in Rows'
      BY <2>1 DEF Rows, JobIds
    <3>3. QED
      BY <2>1, <3>1, <3>2, Zenon DEF HistoryOK
  <2>11. CallerInv'
    BY <1>0, <1>4, <2>1, <2>2, <2>3, <2>4 DEF CreateJob, Deciding, CallerInv, callers, Publishing, Rows, CallersOK, rows
  <2>12. GoroutineInv'
    BY <1>0, <1>4, <2>1, <2>2, <2>3, <2>4, Zenon DEF CreateJob, Deciding, GoroutineInv, goroutines, Rows, GoroutinesOK, rows
  <2>13. QED
    BY <2>5, <2>6, <2>7, <2>8, <2>9, <2>10, <2>11, <2>12, Zenon
<1>5. CASE DoError(c)
  <2>1. RowsOK' /\ AccountsOK' /\ BrokerOK' /\ GoroutinesOK' /\ GoroutineInv'
    BY <1>5, Zenon DEF DoError, RowsOK, AccountsOK, BrokerOK, GoroutinesOK, GoroutineInv, accounts, broker, goroutines, rows, Rows
  <2>2. CallersOK'
    BY <1>0, <1>5, Zenon DEF DoError, CallersOK, callers, Scopes, rows
  <2>3. HistoryOK'
    BY <1>0, <1>5, Zenon DEF DoError, HistoryOK, history, Rows, rows
  <2>4. CallerInv'
    BY <1>0, <1>5, Zenon DEF DoError, CallerInv, callers, Publishing, Rows, CallersOK, rows
  <2>5. QED
    BY <2>1, <2>2, <2>3, <2>4, Zenon
<1>6. CASE Publish(c)
  <2>1. cjob[c] \in Rows
    BY <1>6, Zenon DEF CallerInv, Publishing, Publish
  <2>2. RowsOK' /\ AccountsOK' /\ GoroutinesOK' /\ HistoryOK' /\ GoroutineInv'
    BY <1>6, Zenon DEF Publish, RowsOK, AccountsOK, GoroutinesOK, HistoryOK, GoroutineInv, accounts, goroutines, history, rows, Rows
  <2>3. CallersOK'
    BY <1>0, <1>6, <2>1 DEF Publish, CallersOK, callers, Scopes, rows
  <2>4. BrokerOK'
    BY <1>0, <1>6, <2>1, Zenon DEF Publish, BrokerOK, broker, Rows, rows
  <2>5. CallerInv'
    BY <1>0, <1>6, <2>1 DEF Publish, CallerInv, callers, Publishing, Rows, CallersOK, rows
  <2>6. QED
    BY <2>2, <2>3, <2>4, <2>5, Zenon
<1>7. CASE PublisherReconnect(c)
  <2>1. Unacked \subseteq Rows
    BY Zenon DEF Unacked, GoroutineInv, GoroutinesOK
  <2>2. cjob[c] \in Rows
    BY <1>7, Zenon DEF CallerInv, Publishing, PublisherReconnect
  <2>3. RowsOK' /\ AccountsOK' /\ HistoryOK'
    BY <1>7, Zenon DEF PublisherReconnect, CloseConnection, RowsOK, AccountsOK, HistoryOK, accounts, history, rows, Rows
  <2>4. CallersOK'
    BY <1>0, <1>7, <2>1, <2>2, Zenon DEF PublisherReconnect, CloseConnection, CallersOK, callers, Scopes, rows
  <2>5. BrokerOK'
    BY <1>0, <1>7, <2>1, <2>2, Zenon DEF PublisherReconnect, CloseConnection, BrokerOK, broker, Rows, rows
  <2>6. GoroutinesOK'
    BY <1>0, <1>7, <2>1, <2>2, Zenon DEF PublisherReconnect, CloseConnection, GoroutinesOK, goroutines, rows
  <2>7. CallerInv'
    BY <1>0, <1>7, <2>1, <2>2, Zenon DEF PublisherReconnect, CloseConnection, CallerInv, callers, Publishing, Rows, CallersOK, rows
  <2>8. GoroutineInv'
    BY <1>0, <1>7, <2>1, <2>2, Zenon DEF PublisherReconnect, CloseConnection, GoroutineInv, goroutines, Rows, GoroutinesOK, rows
  <2>9. QED
    BY <2>3, <2>4, <2>5, <2>6, <2>7, <2>8, Zenon
<1>8. CASE Republish(c)
  <2>1. cjob[c] \in Rows
    BY <1>8, Zenon DEF CallerInv, Publishing, Republish
  <2>2. RowsOK' /\ AccountsOK' /\ GoroutinesOK' /\ HistoryOK' /\ GoroutineInv'
    BY <1>8, Zenon DEF Republish, RowsOK, AccountsOK, GoroutinesOK, HistoryOK, GoroutineInv, accounts, goroutines, history, rows, Rows
  <2>3. CallersOK'
    BY <1>0, <1>8, <2>1 DEF Republish, CallersOK, callers, Scopes, rows
  <2>4. BrokerOK'
    BY <1>0, <1>8, <2>1, Zenon DEF Republish, BrokerOK, broker, Rows, rows
  <2>5. CallerInv'
    BY <1>0, <1>8, <2>1 DEF Republish, CallerInv, callers, Publishing, Rows, CallersOK, rows
  <2>6. QED
    BY <2>2, <2>3, <2>4, <2>5, Zenon
<1>9. CASE MarkUnpublished(c)
  <2>1. AccountsOK' /\ BrokerOK' /\ GoroutinesOK' /\ HistoryOK' /\ GoroutineInv'
    BY <1>9, Zenon DEF MarkUnpublished, AccountsOK, BrokerOK, GoroutinesOK, HistoryOK, GoroutineInv, accounts, broker, goroutines, history, rows, Rows
  <2>2. RowsOK'
    BY <1>0, <1>9, Zenon DEF MarkUnpublished, RowsOK, rows, JobIds, Scopes, Status, ActiveStatus
  <2>3. CallersOK'
    BY <1>0, <1>9, Zenon DEF MarkUnpublished, CallersOK, callers, Scopes, rows
  <2>4. CallerInv'
    BY <1>0, <1>9, Zenon DEF MarkUnpublished, CallerInv, callers, Publishing, Rows, CallersOK, rows
  <2>5. QED
    BY <2>1, <2>2, <2>3, <2>4, Zenon
<1>10. QED
  BY <1>1, <1>2, <1>3, <1>4, <1>5, <1>6, <1>7, <1>8, <1>9, Zenon DEF DoStep

\* A delivery or a step of LoadData preserves the types.
LEMMA LoadDataTypeInv ==
  ASSUME TypeInv, NEW w \in Workers, LoadDataStep(w) \/ \E j \in JobIds : Deliver(w, j)
  PROVE  TypeInv'
<1> USE ConstantsAssumption DEF TypeInv, TypeOK
<1>0. njobs \in Nat /\ 0 \in 0..njobs /\ 0 \in 0..TTL + 1
  BY DEF RowsOK
<1>1. CASE \E j \in JobIds : Deliver(w, j)
  <2>0. PICK j \in JobIds : Deliver(w, j)
    BY <1>1, Zenon
  <2>1. j \in Rows /\ j \in 0..njobs
    BY <2>0 DEF BrokerOK, Rows, Deliver
  <2>2. RowsOK' /\ AccountsOK' /\ CallersOK' /\ HistoryOK' /\ CallerInv'
    BY <2>0, Zenon DEF Deliver, RowsOK, AccountsOK, CallersOK, HistoryOK, CallerInv, accounts, callers, history, rows, Rows
  <2>3. BrokerOK'
    BY <1>0, <2>0, <2>1, Zenon DEF Deliver, BrokerOK, broker, Rows, rows
  <2>4. GoroutinesOK'
    BY <1>0, <2>0, <2>1, Zenon DEF Deliver, GoroutinesOK, goroutines, rows
  <2>5. GoroutineInv'
    BY <1>0, <2>0, <2>1, Zenon DEF Deliver, GoroutineInv, goroutines, Rows, GoroutinesOK, rows
  <2>6. QED
    BY <2>2, <2>3, <2>4, <2>5, Zenon
<1>2. CASE LoadPlatforms(w)
  <2>1. BoundIn(scope[wjob[w]]) \subseteq Platforms
    BY Zenon DEF BoundIn, AccountsOK
  <2>2. RowsOK' /\ AccountsOK' /\ CallersOK' /\ BrokerOK' /\ HistoryOK' /\ CallerInv'
    BY <1>2, Zenon DEF LoadPlatforms, RowsOK, AccountsOK, CallersOK, BrokerOK, HistoryOK, CallerInv, accounts, broker, callers, history, rows, Rows
  <2>3. GoroutinesOK'
    BY <1>0, <1>2, <2>1 DEF LoadPlatforms, GoroutinesOK, goroutines, rows
  <2>4. GoroutineInv'
    BY <1>0, <1>2, <2>1, Zenon DEF LoadPlatforms, GoroutineInv, goroutines, Rows, GoroutinesOK, rows
  <2>5. QED
    BY <2>2, <2>3, <2>4, Zenon
<1>3. CASE StartJob(w)
  <2>1. PlatformCount(w) \in Nat
    BY FS_Subset, FS_CardinalityType, Zenon DEF PlatformCount, GoroutinesOK
  <2>2. wjob[w] \in Rows /\ wjob[w] \in JobIds
    BY <1>3 DEF GoroutineInv, GoroutinesOK, RowsOK, Rows, JobIds, StartJob
  <2>3. AccountsOK' /\ CallersOK' /\ BrokerOK' /\ CallerInv'
    BY <1>3, Zenon DEF StartJob, Deciding, IsActive, AccountsOK, CallersOK, BrokerOK, CallerInv, accounts, broker, callers, rows, Rows
  <2>4. RowsOK'
    BY <1>0, <1>3, <2>1, <2>2, Zenon DEF StartJob, Deciding, IsActive, RowsOK, rows, JobIds, Scopes, Status, ActiveStatus
  <2>5. GoroutinesOK'
    BY <1>0, <1>3, <2>1, <2>2, Zenon DEF StartJob, Deciding, IsActive, GoroutinesOK, goroutines, rows
  <2>6. HistoryOK'
    BY <1>0, <1>3, <2>1, <2>2, Zenon DEF StartJob, Deciding, IsActive, HistoryOK, history, Rows, rows
  <2>7. GoroutineInv'
    BY <1>0, <1>3, <2>1, <2>2, Zenon DEF StartJob, Deciding, IsActive, GoroutineInv, goroutines, Rows, GoroutinesOK, rows
  <2>8. QED
    BY <2>3, <2>4, <2>5, <2>6, <2>7, Zenon
<1>4. CASE \E p \in Platforms : NextPlatform(w, p)
  <2>0. PICK p \in Platforms : NextPlatform(w, p)
    BY <1>4, Zenon
  <2>1. CallersOK' /\ BrokerOK' /\ HistoryOK' /\ CallerInv'
    BY <2>0, Zenon DEF NextPlatform, CallersOK, BrokerOK, HistoryOK, CallerInv, broker, callers, history, rows, Rows
  <2>2. RowsOK'
    BY <1>0, <2>0, Zenon DEF NextPlatform, RowsOK, rows, JobIds, Scopes, Status, ActiveStatus
  <2>3. AccountsOK'
    BY <1>0, <2>0, Zenon DEF NextPlatform, AccountsOK, accounts, rows
  <2>4. GoroutinesOK'
    BY <1>0, <2>0, Zenon DEF NextPlatform, GoroutinesOK, goroutines, rows
  <2>5. GoroutineInv'
    BY <1>0, <2>0, Zenon DEF NextPlatform, GoroutineInv, goroutines, Rows, GoroutinesOK, rows
  <2>6. QED
    BY <2>1, <2>2, <2>3, <2>4, <2>5, Zenon
<1>5. CASE FinishPlatform(w)
  <2>0. wjob[w] \in JobIds
    BY <1>5 DEF GoroutineInv, GoroutinesOK, RowsOK, Rows, JobIds, FinishPlatform
  <2>1. finished[wjob[w]] + 1 \in Nat
    BY <2>0 DEF RowsOK
  <2>2. wcur[w] \in Platforms
    BY <1>5, Zenon DEF GoroutineInv, FinishPlatform
  <2>3. AccountsOK' /\ CallersOK' /\ BrokerOK' /\ HistoryOK' /\ CallerInv'
    BY <1>5, Zenon DEF FinishPlatform, AccountsOK, CallersOK, BrokerOK, HistoryOK, CallerInv, accounts, broker, callers, history, rows, Rows
  <2>4. RowsOK'
    BY <1>0, <1>5, <2>1, <2>2, Zenon DEF FinishPlatform, RowsOK, rows, JobIds, Scopes, Status, ActiveStatus
  <2>5. GoroutinesOK'
    BY <1>0, <1>5, <2>1, <2>2, Zenon DEF FinishPlatform, GoroutinesOK, goroutines, rows
  <2>6. GoroutineInv'
    BY <1>0, <1>5, <2>1, <2>2, Zenon DEF FinishPlatform, GoroutineInv, goroutines, Rows, GoroutinesOK, rows
  <2>7. QED
    BY <2>3, <2>4, <2>5, <2>6, Zenon
<1>6. CASE FinishJob(w)
  <2>1. Rows' = Rows
    BY <1>6, Zenon DEF Rows, rows, FinishJob
  <2>2. status' \in [JobIds -> Status] /\ age' \in [JobIds -> 0..TTL + 1]
    BY <1>0, <1>6, SMTT(30) DEF FinishJob, RowsOK, Status, ActiveStatus
  <2>3. wjob[w] \in Rows /\ wjob[w] \in JobIds
    BY <1>6 DEF GoroutineInv, GoroutinesOK, RowsOK, Rows, JobIds, FinishJob
  <2>4. AccountsOK' /\ CallersOK' /\ BrokerOK' /\ CallerInv'
    BY <1>6, Zenon DEF FinishJob, AccountsOK, CallersOK, BrokerOK, CallerInv, accounts, broker, callers, rows, Rows
  <2>5. RowsOK'
    BY <1>0, <1>6, <2>1, <2>2, <2>3, Zenon DEF FinishJob, RowsOK, rows, JobIds, Scopes, Status, ActiveStatus
  <2>6. GoroutinesOK'
    BY <1>0, <1>6, <2>1, <2>2, <2>3, Zenon DEF FinishJob, GoroutinesOK, goroutines, rows
  <2>7. HistoryOK'
    BY <1>0, <1>6, <2>1, <2>2, <2>3 DEF FinishJob, HistoryOK, history, rows
  <2>8. GoroutineInv'
    BY <1>0, <1>6, <2>1, <2>2, <2>3, Zenon DEF FinishJob, GoroutineInv, goroutines, Rows, GoroutinesOK, rows
  <2>9. QED
    BY <2>4, <2>5, <2>6, <2>7, <2>8, Zenon
<1>7. CASE Settle(w)
  <2>1. RowsOK' /\ AccountsOK' /\ CallersOK' /\ BrokerOK' /\ HistoryOK' /\ CallerInv'
    BY <1>7, Zenon DEF Settle, GoroutineEnds, RowsOK, AccountsOK, CallersOK, BrokerOK, HistoryOK, CallerInv, accounts, broker, callers, history, rows, Rows
  <2>2. GoroutinesOK'
    BY <1>0, <1>7, Zenon DEF Settle, GoroutineEnds, GoroutinesOK, goroutines, rows
  <2>3. GoroutineInv'
    BY <1>0, <1>7, Zenon DEF Settle, GoroutineEnds, GoroutineInv, goroutines, Rows, GoroutinesOK, rows
  <2>4. QED
    BY <2>1, <2>2, <2>3, Zenon
<1>8. QED
  BY <1>1, <1>2, <1>3, <1>4, <1>5, <1>6, <1>7, Zenon DEF LoadDataStep

\* A fault, or the passing of time, preserves the types.
LEMMA EnvironmentTypeInv ==
  ASSUME TypeInv, Environment
  PROVE  TypeInv'
<1> USE ConstantsAssumption DEF TypeInv, TypeOK, Fault
<1>0. njobs \in Nat /\ 0 \in 0..njobs /\ 0 \in 0..TTL + 1
  BY DEF RowsOK
<1>1. CASE \E w \in Workers : Panic(w)
  <2>0. PICK w \in Workers : Panic(w)
    BY <1>1, Zenon
  <2>1. Rows' = Rows
    BY <2>0, Zenon DEF Rows, rows, Panic
  <2>2. wjob[w] \in Rows /\ wjob[w] \in JobIds
    BY <2>0 DEF GoroutineInv, GoroutinesOK, RowsOK, Rows, JobIds, Panic
  <2>3. RowsOK' /\ AccountsOK' /\ CallersOK' /\ BrokerOK' /\ CallerInv'
    BY <2>0, Zenon DEF Panic, GoroutineEnds, RowsOK, AccountsOK, CallersOK, BrokerOK, CallerInv, accounts, broker, callers, rows, Rows
  <2>4. GoroutinesOK'
    BY <1>0, <2>0, <2>1, <2>2, Zenon DEF Panic, GoroutineEnds, GoroutinesOK, goroutines, rows
  <2>5. HistoryOK'
    BY <1>0, <2>0, <2>1, <2>2 DEF Panic, GoroutineEnds, HistoryOK, history, rows
  <2>6. GoroutineInv'
    BY <1>0, <2>0, <2>1, <2>2, Zenon DEF Panic, GoroutineEnds, GoroutineInv, goroutines, Rows, GoroutinesOK, rows
  <2>7. QED
    BY <2>3, <2>4, <2>5, <2>6, Zenon
<1>2. CASE ConnectionLost
  <2>1. Unacked \subseteq Rows
    BY Zenon DEF Unacked, GoroutineInv, GoroutinesOK
  <2>2. RowsOK' /\ AccountsOK' /\ CallerInv'
    BY <1>2, Zenon DEF ConnectionLost, CloseConnection, RowsOK, AccountsOK, CallerInv, accounts, callers, rows, Rows
  <2>3. CallersOK'
    BY <1>0, <1>2, <2>1, Zenon DEF ConnectionLost, CloseConnection, CallersOK, callers, Scopes, rows
  <2>4. BrokerOK'
    BY <1>0, <1>2, <2>1, Zenon DEF ConnectionLost, CloseConnection, BrokerOK, broker, Rows, rows
  <2>5. GoroutinesOK'
    BY <1>0, <1>2, <2>1, Zenon DEF ConnectionLost, CloseConnection, GoroutinesOK, goroutines, rows
  <2>6. HistoryOK'
    BY <1>0, <1>2, <2>1 DEF ConnectionLost, CloseConnection, HistoryOK, history, Rows, rows
  <2>7. GoroutineInv'
    BY <1>0, <1>2, <2>1, Zenon DEF ConnectionLost, CloseConnection, GoroutineInv, goroutines, Rows, GoroutinesOK, rows
  <2>8. QED
    BY <2>2, <2>3, <2>4, <2>5, <2>6, <2>7, Zenon
<1>3. CASE \E c \in Callers : PublishLost(c)
  <2>0. PICK c \in Callers : PublishLost(c)
    BY <1>3, Zenon
  <2>1. Rows' = Rows
    BY <2>0, Zenon DEF Rows, rows, PublishLost
  <2>2. Unacked \subseteq Rows
    BY Zenon DEF Unacked, GoroutineInv, GoroutinesOK
  <2>3. cjob[c] \in Rows
    BY <2>0, Zenon DEF CallerInv, Publishing, PublishLost
  <2>4. RowsOK' /\ AccountsOK'
    BY <2>0, Zenon DEF PublishLost, CloseConnection, RowsOK, AccountsOK, accounts, rows
  <2>5. CallersOK'
    BY <1>0, <2>0, <2>1, <2>2, <2>3, Zenon DEF PublishLost, CloseConnection, CallersOK, callers, Scopes, rows
  <2>6. BrokerOK'
    BY <1>0, <2>0, <2>1, <2>2, <2>3, Zenon DEF PublishLost, CloseConnection, BrokerOK, broker, Rows, rows
  <2>7. GoroutinesOK'
    BY <1>0, <2>0, <2>1, <2>2, <2>3, Zenon DEF PublishLost, CloseConnection, GoroutinesOK, goroutines, rows
  <2>8. HistoryOK'
    BY <1>0, <2>0, <2>1, <2>2, <2>3 DEF PublishLost, CloseConnection, HistoryOK, history, rows
  <2>9. CallerInv'
    BY <1>0, <2>0, <2>1, <2>2, <2>3, Zenon DEF PublishLost, CloseConnection, CallerInv, callers, Publishing, Rows, CallersOK, rows
  <2>10. GoroutineInv'
    BY <1>0, <2>0, <2>1, <2>2, <2>3, Zenon DEF PublishLost, CloseConnection, GoroutineInv, goroutines, Rows, GoroutinesOK, rows
  <2>11. QED
    BY <2>4, <2>5, <2>6, <2>7, <2>8, <2>9, <2>10, Zenon
<1>4. CASE BrokerRestart
  <2>1. ready \subseteq Rows
    BY Zenon DEF BrokerOK
  <2>2. RowsOK' /\ AccountsOK' /\ CallerInv'
    BY <1>4, Zenon DEF BrokerRestart, RowsOK, AccountsOK, CallerInv, accounts, callers, rows, Rows
  <2>3. CallersOK'
    BY <1>0, <1>4, <2>1, Zenon DEF BrokerRestart, CallersOK, callers, Scopes, rows
  <2>4. BrokerOK'
    BY <1>0, <1>4, <2>1, Zenon DEF BrokerRestart, BrokerOK, broker, Rows, rows
  <2>5. GoroutinesOK'
    BY <1>0, <1>4, <2>1, Zenon DEF BrokerRestart, GoroutinesOK, goroutines, rows
  <2>6. HistoryOK'
    BY <1>0, <1>4, <2>1 DEF BrokerRestart, HistoryOK, history, Rows, rows
  <2>7. GoroutineInv'
    BY <1>0, <1>4, <2>1, Zenon DEF BrokerRestart, GoroutineInv, goroutines, Rows, GoroutinesOK, rows
  <2>8. QED
    BY <2>2, <2>3, <2>4, <2>5, <2>6, <2>7, Zenon
<1>5. CASE Crash
  <2>1. Unacked \subseteq Rows
    BY Zenon DEF Unacked, GoroutineInv, GoroutinesOK
  <2>2. \A c \in Callers : cjob[c] # 0 => cjob[c] \in Rows
    BY <1>0 DEF CallersOK, Rows
  <2>3. Rows' = Rows
    BY <1>5, Zenon DEF Rows, rows, Crash
  <2>4. orphaned' \subseteq Rows
    BY <1>5, <2>2, Zenon DEF GoroutineInv, HistoryOK, Crash
  <2>5. RowsOK' /\ AccountsOK'
    BY <1>5, Zenon DEF Crash, RowsOK, AccountsOK, accounts, rows
  <2>6. CallersOK'
    BY <1>0, <1>5, <2>1, <2>2, <2>3, <2>4, Zenon DEF Crash, CallersOK, callers, Scopes, rows
  <2>7. BrokerOK'
    BY <1>0, <1>5, <2>1, <2>2, <2>3, <2>4, Zenon DEF Crash, BrokerOK, broker, Rows, rows
  <2>8. GoroutinesOK'
    BY <1>0, <1>5, <2>1, <2>2, <2>3, <2>4, Zenon DEF Crash, GoroutinesOK, goroutines, rows
  <2>9. HistoryOK'
    <3>1. faults' \in 0..MaxFaults
      BY <1>5 DEF Crash, Fault, HistoryOK
    <3>2. QED
      BY <1>5, <2>3, <2>4, <3>1, Zenon DEF Crash, HistoryOK
  <2>10. CallerInv'
    BY <1>0, <1>5, <2>1, <2>2, <2>3, <2>4, Zenon DEF Crash, CallerInv, callers, Publishing, Rows, CallersOK, rows
  <2>11. GoroutineInv'
    BY <1>0, <1>5, <2>1, <2>2, <2>3, <2>4, Zenon DEF Crash, GoroutineInv, goroutines, Rows, GoroutinesOK, rows
  <2>12. QED
    BY <2>5, <2>6, <2>7, <2>8, <2>9, <2>10, <2>11, Zenon
<1>6. CASE Tick
  <2>1. CallersOK' /\ BrokerOK' /\ GoroutinesOK' /\ HistoryOK' /\ CallerInv' /\ GoroutineInv'
    BY <1>6, Zenon DEF Tick, Stale, IsActive, CallersOK, BrokerOK, GoroutinesOK, HistoryOK, CallerInv, GoroutineInv, broker, callers, goroutines, history, rows, Rows
  <2>2. RowsOK'
    BY <1>0, <1>6, SMTT(30) DEF Tick, Stale, IsActive, RowsOK, rows, JobIds, Scopes, Status, ActiveStatus
  <2>3. AccountsOK'
    BY <1>0, <1>6, Zenon DEF Tick, Stale, IsActive, AccountsOK, accounts, rows
  <2>4. QED
    BY <2>1, <2>2, <2>3, Zenon
<1>7. CASE CooldownElapses
  <2>1. RowsOK' /\ CallersOK' /\ BrokerOK' /\ GoroutinesOK' /\ HistoryOK' /\ CallerInv' /\ GoroutineInv'
    BY <1>7, Zenon DEF CooldownElapses, RowsOK, CallersOK, BrokerOK, GoroutinesOK, HistoryOK, CallerInv, GoroutineInv, broker, callers, goroutines, history, rows, Rows
  <2>2. AccountsOK'
    BY <1>0, <1>7, Zenon DEF CooldownElapses, AccountsOK, accounts, rows
  <2>3. QED
    BY <2>1, <2>2, Zenon
<1>8. QED
  BY <1>1, <1>2, <1>3, <1>4, <1>5, <1>6, <1>7, Zenon DEF Environment
\* Every step preserves the types.
LEMMA NextTypeInv == TypeInv /\ [Next]_vars => TypeInv'
<1> SUFFICES ASSUME TypeInv, [Next]_vars PROVE TypeInv'
  BY Zenon
<1>1. CASE UNCHANGED vars
  BY <1>1, Zenon DEF vars, rows, accounts, callers, broker, goroutines, history, TypeInv, TypeOK,
     RowsOK, AccountsOK, CallersOK, BrokerOK, GoroutinesOK, HistoryOK, CallerInv,
     GoroutineInv, Rows
<1>2. CASE ConsumerReconnect
  BY <1>2, Zenon DEF ConsumerReconnect, rows, accounts, goroutines, history, TypeInv, TypeOK,
     RowsOK, AccountsOK, CallersOK, BrokerOK, GoroutinesOK, HistoryOK, CallerInv,
     GoroutineInv, Rows
<1>3. QED
  BY <1>1, <1>2, RequestTypeInv, DoStepTypeInv, LoadDataTypeInv, EnvironmentTypeInv, Zenon
     DEF Next

\* Type correctness of the pipeline.
THEOREM TypeCorrect == Spec => []TypeOK
<1>1. TypeInv => TypeOK
  BY Zenon DEF TypeInv
<1>2. QED
  BY <1>1, InitTypeInv, NextTypeInv, PTL DEF Spec

-----------------------------------------------------------------------------
(* Which steps activate a job.                                             *)

\* A step that inserts nothing and activates no job.
QuietStep ==
    /\ UNCHANGED <<njobs, scope, raced, revived>>
    /\ \A j \in Rows : IsActive(j)' => IsActive(j)

\* A step that leaves the job rows alone is quiet.
LEMMA SameStatusQuiet ==
  ASSUME UNCHANGED <<njobs, scope, status, raced, revived>>
  PROVE  QuietStep
  BY Zenon DEF QuietStep, IsActive

\* The ids in use are ids.
LEMMA RowsAreIds ==
  ASSUME RowsOK
  PROVE  njobs \in Nat /\ \A j \in Rows : j \in JobIds /\ j \in Nat
  BY ConstantsAssumption DEF RowsOK, Rows, JobIds

\* finishJob ends its own job or loses the UPDATE, and touches no other job.
LEMMA FinishEnds ==
  ASSUME RowsOK, NEW w \in Workers, FinishJob(w), NEW j \in Rows
  PROVE  /\ IsActive(j)' => IsActive(j)
         /\ IsActive(j)' /\ j = wjob[w] => j \in orphaned'
<1>1. j \in JobIds
  BY RowsAreIds, Zenon
<1>2. \/ status'[j] = status[j] /\ (j = wjob[w] => j \in orphaned')
      \/ j = wjob[w] /\ status'[j] \in {"failed", "success"}
  BY <1>1, Zenon DEF FinishJob, RowsOK
<1>3. QED
  BY <1>2, Zenon DEF IsActive, ActiveStatus

\* No request is anything but quiet.
LEMMA RequestQuiet ==
  ASSUME NEW c \in Callers, Request(c)
  PROVE  /\ QuietStep
         /\ UNCHANGED <<njobs, scope, status, current, cjob, broker, goroutines, history>>
<1>1. UNCHANGED <<rows, cjob, broker, goroutines, history>>
  BY Zenon DEF Request, Update, Retry, CronDo, RebuildAll, SetSpider, CallDo
<1>2. QED
  BY <1>1, SameStatusQuiet, Zenon DEF rows, history

\* Of the steps of Do only the INSERT activates a job.
LEMMA DoStepQuiet ==
  ASSUME RowsOK, NEW c \in Callers, DoStep(c)
  PROVE  QuietStep \/ CreateJob(c)
<1>1. CASE ExpireStaleActiveJobs(c)
  <2>1. \A j \in Rows : status'[j] \in {"failed", status[j]}
    BY <1>1, RowsAreIds, Zenon DEF ExpireStaleActiveJobs
  <2>2. UNCHANGED <<njobs, scope, raced, revived>>
    BY <1>1, Zenon DEF ExpireStaleActiveJobs, history
  <2>3. QED
    BY <2>1, <2>2, Zenon DEF QuietStep, IsActive, ActiveStatus
<1>2. CASE MarkUnpublished(c)
  <2>1. \A j \in Rows : status'[j] \in {"failed", status[j]}
    BY <1>2, RowsAreIds, Zenon DEF MarkUnpublished, RowsOK
  <2>2. UNCHANGED <<njobs, scope, raced, revived>>
    BY <1>2, Zenon DEF MarkUnpublished, history
  <2>3. QED
    BY <2>1, <2>2, Zenon DEF QuietStep, IsActive, ActiveStatus
<1>3. CASE SaveBinding(c) \/ FindActiveJob(c) \/ DoError(c)
  BY <1>3, SameStatusQuiet, Zenon DEF SaveBinding, FindActiveJob, DoError, rows, history
<1>4. CASE Publish(c) \/ PublisherReconnect(c) \/ Republish(c)
  BY <1>4, SameStatusQuiet, Zenon DEF Publish, PublisherReconnect, Republish, rows, history
<1>5. QED
  BY <1>1, <1>2, <1>3, <1>4, Zenon DEF DoStep

\* Of the steps of a goroutine only startJob activates a job.
LEMMA LoadDataQuiet ==
  ASSUME RowsOK, NEW w \in Workers,
         LoadDataStep(w) \/ \E j \in JobIds : Deliver(w, j)
  PROVE  QuietStep \/ StartJob(w)
<1>1. CASE \E j \in JobIds : Deliver(w, j)
  BY <1>1, SameStatusQuiet, Zenon DEF Deliver, rows, history
<1>2. CASE LoadPlatforms(w) \/ Settle(w)
  BY <1>2, SameStatusQuiet, Zenon DEF LoadPlatforms, Settle, rows, history
<1>3. CASE \E p \in Platforms : NextPlatform(w, p)
  BY <1>3, SameStatusQuiet, Zenon DEF NextPlatform, history
<1>4. CASE FinishPlatform(w)
  BY <1>4, SameStatusQuiet, Zenon DEF FinishPlatform, history
<1>5. CASE FinishJob(w)
  <2>1. UNCHANGED <<njobs, scope, raced, revived>>
    BY <1>5, Zenon DEF FinishJob
  <2>2. \A j \in Rows : IsActive(j)' => IsActive(j)
    BY <1>5, FinishEnds, Zenon
  <2>3. QED
    BY <2>1, <2>2, Zenon DEF QuietStep
<1>6. QED
  BY <1>1, <1>2, <1>3, <1>4, <1>5, Zenon DEF LoadDataStep

\* Faults and time activate no job.
LEMMA EnvironmentQuiet ==
  ASSUME Environment
  PROVE  QuietStep
<1>1. UNCHANGED <<njobs, scope, status, raced, revived>>
  BY Zenon DEF Environment, Panic, ConnectionLost, PublishLost, BrokerRestart, Crash, Tick,
     CooldownElapses, rows, history
<1>2. QED
  BY <1>1, SameStatusQuiet, Zenon

\* Only the INSERT and startJob activate a job.
LEMMA NextQuiet ==
  ASSUME TypeInv, [Next]_vars
  PROVE  \/ QuietStep
         \/ \E c \in Callers : CreateJob(c)
         \/ \E w \in Workers : StartJob(w)
<1>1. RowsOK
  BY Zenon DEF TypeInv, TypeOK
<1>2. CASE UNCHANGED vars
  BY <1>2, SameStatusQuiet, Zenon DEF vars, rows, history
<1>3. CASE ConsumerReconnect
  BY <1>3, SameStatusQuiet, Zenon DEF ConsumerReconnect, rows, history
<1>4. QED
  BY <1>1, <1>2, <1>3, RequestQuiet, DoStepQuiet, LoadDataQuiet, EnvironmentQuiet, Zenon DEF Next

-----------------------------------------------------------------------------
(* No job is left active with nobody behind it.                            *)

\* A quiet step that keeps every carrier keeps the invariant.
LEMMA CarriersStay ==
  ASSUME NoSilentOrphan, QuietStep,
         \A j \in Rows : IsActive(j)' /\ (Carried(j) \/ j \in orphaned)
                             => Carried(j)' \/ j \in orphaned'
  PROVE  NoSilentOrphan'
  BY Zenon DEF NoSilentOrphan, QuietStep, Rows

\* Nothing a carrier consists of changes.
LEMMA SameCarriers ==
  ASSUME NoSilentOrphan, QuietStep, UNCHANGED <<cjob, ready, wjob, wpc, orphaned>>
  PROVE  NoSilentOrphan'
  BY CarriersStay, Zenon DEF Carried

\* The step of a caller or a goroutine that may give up its job.
LEMMA DoStepCarried ==
  ASSUME TypeInv, NoSilentOrphan, NEW c \in Callers, DoStep(c)
  PROVE  NoSilentOrphan'
<1>0. /\ RowsOK /\ cjob \in [Callers -> 0..njobs] /\ wjob \in [Workers -> 0..njobs]
      /\ live \subseteq Workers
  BY Zenon DEF TypeInv, TypeOK, CallersOK, GoroutinesOK
<1>1. cpc[c] \notin Publishing => cjob[c] = 0
  BY Zenon DEF TypeInv, CallerInv
<1>2. \A w \in live : wpc[w] # "idle"
  BY <1>0, Zenon DEF TypeInv, GoroutineInv
<1>3. CASE SaveBinding(c) \/ ExpireStaleActiveJobs(c)
  <2>1. UNCHANGED <<cjob, ready, wjob, wpc, orphaned>>
    BY <1>3, Zenon DEF SaveBinding, ExpireStaleActiveJobs, broker, goroutines, history
  <2>2. QuietStep
    BY <1>0, <1>3, DoStepQuiet, Zenon DEF CreateJob, SaveBinding, ExpireStaleActiveJobs
  <2>3. QED
    BY <2>1, <2>2, SameCarriers, Zenon
<1>4. CASE FindActiveJob(c) \/ DoError(c)
  <2>1. cjob[c] = 0
    BY <1>1, <1>4, Zenon DEF FindActiveJob, DoError, Publishing
  <2>2. UNCHANGED <<cjob, ready, wjob, wpc, orphaned>>
    BY <1>0, <1>4, <2>1, Zenon DEF FindActiveJob, DoError, Return, broker, goroutines
  <2>3. QuietStep
    BY <1>4, SameStatusQuiet, Zenon DEF FindActiveJob, DoError, rows
  <2>4. QED
    BY <2>2, <2>3, SameCarriers, Zenon
<1>5. CASE CreateJob(c)
  <2>1. /\ njobs' = njobs + 1 /\ cjob'[c] = njobs + 1
        /\ \A d \in Callers : d # c => cjob'[d] = cjob[d]
    BY <1>0, <1>5, Zenon DEF CreateJob
  <2>2. cjob[c] = 0
    BY <1>1, <1>5, Zenon DEF CreateJob, Publishing
  <2>3. UNCHANGED <<ready, wjob, wpc, orphaned>>
    BY <1>5, Zenon DEF CreateJob, broker, goroutines
  <2>4. ASSUME NEW j \in Rows', IsActive(j)'
        PROVE  Carried(j)' \/ j \in orphaned'
    <3>1. CASE j = njobs + 1
      BY <2>1, <3>1, Zenon DEF Carried
    <3>2. CASE j # njobs + 1
      <4>1. j \in Rows /\ j # 0 /\ j \in JobIds
        BY <1>0, <2>1, <3>2, RowsAreIds DEF Rows
      <4>2. status'[j] = status[j]
        BY <1>0, <1>5, <3>2, <4>1, Zenon DEF CreateJob, RowsOK
      <4>3. Carried(j) \/ j \in orphaned
        BY <2>4, <4>1, <4>2, Zenon DEF NoSilentOrphan, IsActive
      <4>4. QED
        BY <2>1, <2>2, <2>3, <4>1, <4>3, Zenon DEF Carried
    <3>3. QED
      BY <3>1, <3>2, Zenon
  <2>5. QED
    BY <2>4, Zenon DEF NoSilentOrphan
<1>6. CASE Publish(c) \/ Republish(c)
  <2>1. /\ ready \subseteq ready'
        /\ \A d \in Callers : cjob'[d] = cjob[d] \/ cjob[d] \in ready'
        /\ UNCHANGED <<wjob, wpc, orphaned>>
    BY <1>0, <1>6, Zenon DEF Publish, Republish, Return, goroutines, history
  <2>2. QuietStep
    BY <1>6, SameStatusQuiet, Zenon DEF Publish, Republish, rows, history
  <2>3. QED
    BY <2>1, <2>2, CarriersStay, Zenon DEF Carried
<1>7. CASE PublisherReconnect(c)
  <2>1. ready \subseteq ready' /\ UNCHANGED <<cjob, wjob, wpc, orphaned>>
    BY <1>7, Zenon DEF PublisherReconnect, CloseConnection, history
  <2>2. QuietStep
    BY <1>7, SameStatusQuiet, Zenon DEF PublisherReconnect, rows, history
  <2>3. QED
    BY <2>1, <2>2, CarriersStay, Zenon DEF Carried
<1>8. CASE MarkUnpublished(c)
  <2>1. \A d \in Callers : cjob'[d] = cjob[d] \/ d = c
    BY <1>0, <1>8, Zenon DEF MarkUnpublished, Return
  <2>2. \A j \in Rows : IsActive(j)' => j # cjob[c]
    BY <1>0, <1>8, RowsAreIds, Zenon DEF MarkUnpublished, IsActive, ActiveStatus, RowsOK
  <2>3. UNCHANGED <<ready, wjob, wpc, orphaned>>
    BY <1>8, Zenon DEF MarkUnpublished, broker, goroutines, history
  <2>4. QuietStep
    BY <1>0, <1>8, DoStepQuiet, Zenon DEF CreateJob, MarkUnpublished
  <2>5. QED
    BY <2>1, <2>2, <2>3, <2>4, CarriersStay, Zenon DEF Carried
<1>9. QED
  BY <1>3, <1>4, <1>5, <1>6, <1>7, <1>8, Zenon DEF DoStep

\* A goroutine carries its job until its final UPDATE.
LEMMA LoadDataCarried ==
  ASSUME TypeInv, NoSilentOrphan, NEW w \in Workers,
         LoadDataStep(w) \/ \E j \in JobIds : Deliver(w, j)
  PROVE  NoSilentOrphan'
<1>0. RowsOK /\ wjob \in [Workers -> 0..njobs] /\ DOMAIN wpc = Workers
  BY Zenon DEF TypeInv, TypeOK, GoroutinesOK
<1>1. /\ wpc[w] = "idle" => wjob[w] = 0
      /\ wpc[w] # "idle" => wjob[w] \in Rows
  BY Zenon DEF TypeInv, GoroutineInv
<1>2. \A j \in Rows : j # 0
  BY <1>0, RowsAreIds DEF Rows
<1>3. CASE \E j \in JobIds : Deliver(w, j)
  <2>0. PICK k \in JobIds : Deliver(w, k)
    BY <1>3, Zenon
  <2>1. /\ ready' = ready \ {k} /\ wjob'[w] = k /\ wpc'[w] = "load"
        /\ \A v \in Workers : v # w => wjob'[v] = wjob[v] /\ wpc'[v] = wpc[v]
        /\ UNCHANGED <<cjob, orphaned>>
        /\ wjob[w] = 0
    BY <1>0, <1>1, <2>0, Zenon DEF Deliver, callers, history
  <2>2. QuietStep
    BY <2>0, SameStatusQuiet, Zenon DEF Deliver, rows, history
  <2>3. QED
    BY <1>2, <2>1, <2>2, CarriersStay, Zenon DEF Carried
<1>4. CASE LoadPlatforms(w) \/ StartJob(w) \/ FinishPlatform(w)
           \/ \E p \in Platforms : NextPlatform(w, p)
  <2>1. /\ wpc'[w] # "settle"
        /\ \A v \in Workers : v # w => wpc'[v] = wpc[v]
        /\ UNCHANGED <<cjob, ready, wjob, orphaned>>
    BY <1>0, <1>4, Zenon DEF LoadPlatforms, StartJob, FinishPlatform, NextPlatform, callers, broker,
       history
  <2>2. wpc[w] # "settle" /\ wjob[w] \in Rows
    BY <1>1, <1>4, Zenon DEF LoadPlatforms, StartJob, FinishPlatform, NextPlatform
  <2>3. CASE StartJob(w)
    <3>1. \A j \in Rows : j = wjob[w] \/ status'[j] = status[j]
      BY <1>0, <2>3, RowsAreIds, Zenon DEF StartJob, RowsOK
    <3>2. UNCHANGED njobs
      BY <2>3, Zenon DEF StartJob
    <3>3. QED
      BY <2>1, <2>2, <3>1, <3>2, Zenon DEF NoSilentOrphan, IsActive, Carried, Rows
  <2>4. CASE QuietStep
    BY <2>1, <2>2, <2>4, CarriersStay, Zenon DEF Carried
  <2>5. QED
    BY <1>0, <2>3, <2>4, LoadDataQuiet, Zenon
<1>5. CASE FinishJob(w)
  <2>1. /\ \A v \in Workers : v # w => wpc'[v] = wpc[v]
        /\ orphaned \subseteq orphaned'
        /\ UNCHANGED <<cjob, ready, wjob>>
    BY <1>0, <1>5, Zenon DEF FinishJob, callers, broker
  <2>2. \A j \in Rows : IsActive(j)' => j # wjob[w] \/ j \in orphaned'
    BY <1>0, <1>5, FinishEnds, Zenon
  <2>3. QuietStep
    <3>1. ~StartJob(w)
      BY <1>5, Zenon DEF FinishJob, StartJob
    <3>2. QED
      BY <1>0, <3>1, LoadDataQuiet, Zenon
  <2>4. QED
    BY <2>1, <2>2, <2>3, CarriersStay, Zenon DEF Carried
<1>6. CASE Settle(w)
  <2>1. /\ wpc[w] = "settle"
        /\ \A v \in Workers : v # w => wjob'[v] = wjob[v] /\ wpc'[v] = wpc[v]
        /\ UNCHANGED <<cjob, ready, orphaned>>
    BY <1>0, <1>6, Zenon DEF Settle, GoroutineEnds, callers, broker, history
  <2>2. QuietStep
    BY <1>6, SameStatusQuiet, Zenon DEF Settle, rows, history
  <2>3. QED
    BY <2>1, <2>2, CarriersStay, Zenon DEF Carried
<1>7. QED
  BY <1>3, <1>4, <1>5, <1>6, Zenon DEF LoadDataStep

\* Faults record exactly the jobs they may leave without a carrier.
LEMMA EnvironmentCarried ==
  ASSUME TypeInv, NoSilentOrphan, Environment
  PROVE  NoSilentOrphan'
<1>0. /\ cjob \in [Callers -> 0..njobs] /\ wjob \in [Workers -> 0..njobs]
      /\ live \subseteq Workers /\ DOMAIN wpc = Workers /\ RowsOK
  BY Zenon DEF TypeInv, TypeOK, CallersOK, GoroutinesOK
<1>1. \A j \in Rows : j # 0
  BY <1>0, RowsAreIds DEF Rows
<1>2. \A w \in Workers : wpc[w] = "idle" => wjob[w] = 0
  BY Zenon DEF TypeInv, GoroutineInv
<1>3. QuietStep
  BY EnvironmentQuiet, Zenon
<1>4. CASE \E w \in Workers : Panic(w)
  <2>0. PICK w \in Workers : Panic(w)
    BY <1>4, Zenon
  <2>1. /\ \A v \in Workers : v # w => wjob'[v] = wjob[v] /\ wpc'[v] = wpc[v]
        /\ orphaned' = orphaned \cup {wjob[w]}
        /\ UNCHANGED <<cjob, ready>>
    BY <1>0, <2>0, Zenon DEF Panic, GoroutineEnds, callers, broker
  <2>2. QED
    BY <1>3, <2>1, CarriersStay, Zenon DEF Carried
<1>5. CASE ConnectionLost
  <2>1. ready \subseteq ready' /\ UNCHANGED <<cjob, wjob, wpc, orphaned>>
    BY <1>5, Zenon DEF ConnectionLost, CloseConnection
  <2>2. QED
    BY <1>3, <2>1, CarriersStay, Zenon DEF Carried
<1>6. CASE \E c \in Callers : PublishLost(c)
  <2>0. PICK c \in Callers : PublishLost(c)
    BY <1>6, Zenon
  <2>1. /\ ready \subseteq ready'
        /\ orphaned' = orphaned \cup {cjob[c]}
        /\ \A d \in Callers : d # c => cjob'[d] = cjob[d]
        /\ UNCHANGED <<wjob, wpc>>
    BY <1>0, <2>0, Zenon DEF PublishLost, CloseConnection
  <2>2. QED
    BY <1>3, <2>1, CarriersStay, Zenon DEF Carried
<1>7. CASE BrokerRestart
  <2>1. orphaned' = orphaned \cup ready /\ UNCHANGED <<cjob, wjob, wpc>>
    BY <1>7, Zenon DEF BrokerRestart
  <2>2. QED
    BY <1>3, <2>1, CarriersStay, Zenon DEF Carried
<1>8. CASE Crash
  <2>1. orphaned \subseteq orphaned' /\ ready \subseteq ready'
    BY <1>8, Zenon DEF Crash
  <2>2. \A c \in Callers : cjob[c] # 0 => cjob[c] \in orphaned'
    BY <1>8, Zenon DEF Crash
  <2>3. \A w \in Workers : wpc[w] # "idle" => wjob[w] \in orphaned' \cup ready'
    BY <1>8, Zenon DEF Crash, Unacked
  <2>4. QED
    BY <1>1, <1>2, <1>3, <2>1, <2>2, <2>3, CarriersStay, Zenon DEF Carried
<1>9. CASE Tick \/ CooldownElapses
  <2>1. UNCHANGED <<cjob, ready, wjob, wpc, orphaned>>
    BY <1>9, Zenon DEF Tick, CooldownElapses, callers, broker, goroutines, history
  <2>2. QED
    BY <1>3, <2>1, SameCarriers, Zenon
<1>10. QED
  BY <1>4, <1>5, <1>6, <1>7, <1>8, <1>9, Zenon DEF Environment

\* A queued or running job always has a carrier, or its own event or final UPDATE
\* was lost.
THEOREM NoSilentOrphans == Spec => []NoSilentOrphan
<1>1. Init => NoSilentOrphan
  BY DEF Init, NoSilentOrphan, Rows
<1>2. TypeInv /\ NoSilentOrphan /\ [Next]_vars => NoSilentOrphan'
  <2> SUFFICES ASSUME TypeInv, NoSilentOrphan, [Next]_vars PROVE NoSilentOrphan'
    BY Zenon
  <2>1. CASE UNCHANGED vars
    BY <2>1, SameStatusQuiet, SameCarriers, Zenon
       DEF vars, rows, callers, broker, goroutines, history
  <2>2. CASE ConsumerReconnect
    BY <2>2, SameStatusQuiet, SameCarriers, Zenon DEF ConsumerReconnect, rows, goroutines, history
  <2>3. CASE \E c \in Callers : Request(c)
    BY <2>3, RequestQuiet, SameCarriers, Zenon DEF broker, goroutines, history
  <2>4. QED
    BY <2>1, <2>2, <2>3, DoStepCarried, LoadDataCarried, EnvironmentCarried, Zenon DEF Next
<1>3. QED
  BY <1>1, <1>2, InitTypeInv, NextTypeInv, PTL DEF Spec

-----------------------------------------------------------------------------
(* Single platforms *)

\* A single-platform job keeps its platform in current_platform, and its goroutine
\* fetches nothing else.
ScopeInv ==
    /\ \A j \in Rows : scope[j] # All => current[j] = scope[j]
    /\ \A w \in Workers :
          /\ wpc[w] = "idle" => wtodo[w] = {} /\ wcur[w] = None
          /\ wpc[w] # "idle" /\ scope[wjob[w]] # All =>
                wtodo[w] \subseteq {scope[wjob[w]]} /\ wcur[w] \in {None, scope[wjob[w]]}

\* An undisturbed caller that found no conflict is still right about it.
DecisionInv ==
    \A c \in Callers : cpc[c] = "create" /\ carg[c] # All /\ c \notin disturbed =>
        \A j \in Rows : scope[j] = carg[c] => ~IsActive(j)

\* A step in which no goroutine starts, ends or changes its platforms.
ScopeStays ==
    /\ UNCHANGED <<njobs, scope, current, wjob, wtodo, wcur>>
    /\ \A w \in Workers : wpc'[w] = "idle" <=> wpc[w] = "idle"

\* Such a step preserves ScopeInv.
LEMMA ScopeFrame ==
  ASSUME ScopeInv, ScopeStays
  PROVE  ScopeInv'
  BY Zenon DEF ScopeInv, ScopeStays, Rows

\* Nothing changes at all.
LEMMA ScopeSame ==
  ASSUME ScopeInv, UNCHANGED <<njobs, scope, current, wjob, wtodo, wcur, wpc>>
  PROVE  ScopeInv'
  BY ScopeFrame, Zenon DEF ScopeStays

\* Do writes the platform of a job into the row it inserts.
LEMMA DoStepScope ==
  ASSUME TypeInv, ScopeInv, NEW c \in Callers, DoStep(c)
  PROVE  ScopeInv'
<1>0. RowsOK
  BY Zenon DEF TypeInv, TypeOK
<1>1. CASE CreateJob(c)
  <2>1. njobs' = njobs + 1 /\ UNCHANGED <<wjob, wtodo, wcur, wpc>>
    BY <1>1, Zenon DEF CreateJob, goroutines
  <2>2. \A j \in Rows : scope'[j] = scope[j] /\ current'[j] = current[j]
    BY <1>0, <1>1, RowsAreIds, SMTT(30) DEF CreateJob, RowsOK, Rows
  <2>3. njobs + 1 \in JobIds
    BY <1>0, <1>1, RowsAreIds, ConstantsAssumption DEF CreateJob, JobIds
  <2>4. scope'[njobs + 1] = current'[njobs + 1]
    BY <1>0, <1>1, <2>3, Zenon DEF CreateJob, RowsOK
  <2>5. \A j \in Rows' : j \in Rows \/ j = njobs + 1
    BY <1>0, <2>1, RowsAreIds DEF Rows
  <2>6. \A w \in Workers : wpc[w] # "idle" => scope'[wjob[w]] = scope[wjob[w]]
    BY <2>2, Zenon DEF TypeInv, GoroutineInv
  <2>7. QED
    BY <2>1, <2>2, <2>4, <2>5, <2>6, Zenon DEF ScopeInv
<1>2. CASE SaveBinding(c) \/ FindActiveJob(c) \/ DoError(c)
  BY <1>2, ScopeSame, Zenon DEF SaveBinding, FindActiveJob, DoError, rows, goroutines
<1>3. CASE Publish(c) \/ PublisherReconnect(c) \/ Republish(c)
  BY <1>3, ScopeSame, Zenon DEF Publish, PublisherReconnect, Republish, rows, goroutines
<1>4. CASE ExpireStaleActiveJobs(c) \/ MarkUnpublished(c)
  BY <1>4, ScopeSame, Zenon DEF ExpireStaleActiveJobs, MarkUnpublished, goroutines
<1>5. QED
  BY <1>1, <1>2, <1>3, <1>4, Zenon DEF DoStep

\* LoadData of a single-platform job stays with its platform.
LEMMA LoadDataScope ==
  ASSUME TypeInv, ScopeInv, NEW w \in Workers,
         LoadDataStep(w) \/ \E j \in JobIds : Deliver(w, j)
  PROVE  ScopeInv'
<1>0. /\ RowsOK
      /\ DOMAIN wpc = Workers /\ DOMAIN wjob = Workers
      /\ DOMAIN wtodo = Workers /\ DOMAIN wcur = Workers
  BY Zenon DEF TypeInv, TypeOK, GoroutinesOK
<1>1. CASE \E j \in JobIds : Deliver(w, j)
  <2>0. PICK k \in JobIds : Deliver(w, k)
    BY <1>1, Zenon
  <2>1. /\ wpc[w] = "idle" /\ wpc'[w] # "idle"
        /\ \A v \in Workers : v # w => wpc'[v] = wpc[v] /\ wjob'[v] = wjob[v]
        /\ UNCHANGED <<njobs, scope, current, wtodo, wcur>>
    BY <1>0, <2>0, Zenon DEF Deliver, rows
  <2>2. QED
    BY <2>1, Zenon DEF ScopeInv, Rows
<1>2. CASE LoadPlatforms(w)
  <2>1. scope[wjob[w]] # All => wtodo'[w] \subseteq {scope[wjob[w]]}
    BY <1>0, <1>2 DEF LoadPlatforms, BoundIn, ScopeInv
  <2>2. /\ wpc'[w] # "idle" /\ wpc[w] # "idle"
        /\ \A v \in Workers : v # w => wpc'[v] = wpc[v] /\ wtodo'[v] = wtodo[v]
        /\ UNCHANGED <<njobs, scope, current, wjob, wcur>>
    BY <1>0, <1>2, Zenon DEF LoadPlatforms, rows
  <2>3. QED
    BY <2>1, <2>2, Zenon DEF ScopeInv, Rows
<1>3. CASE StartJob(w) \/ FinishJob(w)
  <2>1. UNCHANGED <<njobs, scope, current, wjob, wtodo, wcur>>
    BY <1>3, Zenon DEF StartJob, FinishJob
  <2>2. \A v \in Workers : wpc'[v] = "idle" <=> wpc[v] = "idle"
    BY <1>0, <1>3, Zenon DEF StartJob, FinishJob
  <2>3. QED
    BY <2>1, <2>2, ScopeFrame, Zenon DEF ScopeStays
<1>4. CASE \E p \in Platforms : NextPlatform(w, p)
  <2>0. PICK p \in Platforms : NextPlatform(w, p)
    BY <1>4, Zenon
  <2>1. scope[wjob[w]] # All => p = scope[wjob[w]]
    BY <2>0, Zenon DEF NextPlatform, ScopeInv
  <2>2. \A j \in Rows : current'[j] = current[j] \/ (j = wjob[w] /\ current'[j] = p)
    BY <1>0, <2>0, RowsAreIds, Zenon DEF NextPlatform, RowsOK
  <2>3. /\ wpc[w] # "idle" /\ wpc'[w] # "idle"
        /\ wtodo'[w] \subseteq wtodo[w] /\ wcur'[w] = p
        /\ \A v \in Workers : v # w => wpc'[v] = wpc[v] /\ wtodo'[v] = wtodo[v] /\ wcur'[v] = wcur[v]
        /\ UNCHANGED <<njobs, scope, wjob>>
    BY <1>0, <2>0, Zenon DEF NextPlatform
  <2>4. QED
    BY <2>1, <2>2, <2>3 DEF ScopeInv, Rows
<1>5. CASE FinishPlatform(w)
  <2>1. scope[wjob[w]] # All => wcur[w] = scope[wjob[w]]
    <3>1. wcur[w] \in Platforms /\ wpc[w] = "fetch"
      BY <1>5, Zenon DEF FinishPlatform, TypeInv, GoroutineInv
    <3>2. QED
      BY <3>1, ConstantsAssumption, Zenon DEF ScopeInv
  <2>2. \A j \in Rows : current'[j] = current[j] \/ (j = wjob[w] /\ current'[j] = wcur[w])
    BY <1>0, <1>5, RowsAreIds, Zenon DEF FinishPlatform, RowsOK
  <2>3. /\ wpc[w] # "idle" /\ wpc'[w] # "idle" /\ wcur'[w] = None
        /\ \A v \in Workers : v # w => wpc'[v] = wpc[v] /\ wcur'[v] = wcur[v]
        /\ UNCHANGED <<njobs, scope, wjob, wtodo>>
    BY <1>0, <1>5, Zenon DEF FinishPlatform
  <2>4. QED
    BY <2>1, <2>2, <2>3 DEF ScopeInv, Rows
<1>6. CASE Settle(w)
  <2>1. /\ wpc'[w] = "idle" /\ wtodo'[w] = {} /\ wcur'[w] = None
        /\ \A v \in Workers : v # w =>
              wpc'[v] = wpc[v] /\ wjob'[v] = wjob[v] /\ wtodo'[v] = wtodo[v] /\ wcur'[v] = wcur[v]
        /\ UNCHANGED <<njobs, scope, current>>
    BY <1>0, <1>6, Zenon DEF Settle, GoroutineEnds, rows
  <2>2. QED
    BY <2>1, Zenon DEF ScopeInv, Rows
<1>7. QED
  BY <1>1, <1>2, <1>3, <1>4, <1>5, <1>6, Zenon DEF LoadDataStep

\* Faults and time change no platform; a goroutine that dies forgets its own.
LEMMA EnvironmentScope ==
  ASSUME TypeInv, ScopeInv, Environment
  PROVE  ScopeInv'
<1>0. /\ DOMAIN wpc = Workers /\ DOMAIN wjob = Workers
      /\ DOMAIN wtodo = Workers /\ DOMAIN wcur = Workers
  BY Zenon DEF TypeInv, TypeOK, GoroutinesOK
<1>1. CASE \E w \in Workers : Panic(w)
  <2>0. PICK w \in Workers : Panic(w)
    BY <1>1, Zenon
  <2>1. /\ wpc'[w] = "idle" /\ wtodo'[w] = {} /\ wcur'[w] = None
        /\ \A v \in Workers : v # w =>
              wpc'[v] = wpc[v] /\ wjob'[v] = wjob[v] /\ wtodo'[v] = wtodo[v] /\ wcur'[v] = wcur[v]
        /\ UNCHANGED <<njobs, scope, current>>
    BY <1>0, <2>0, Zenon DEF Panic, GoroutineEnds, rows
  <2>2. QED
    BY <2>1, Zenon DEF ScopeInv, Rows
<1>2. CASE Crash
  <2>1. /\ \A w \in Workers : wpc'[w] = "idle" /\ wtodo'[w] = {} /\ wcur'[w] = None
        /\ UNCHANGED <<njobs, scope, current>>
    BY <1>2, Zenon DEF Crash, rows
  <2>2. QED
    BY <2>1, Zenon DEF ScopeInv, Rows
<1>3. CASE ConnectionLost \/ BrokerRestart \/ \E c \in Callers : PublishLost(c)
  BY <1>3, ScopeSame, Zenon DEF ConnectionLost, BrokerRestart, PublishLost, rows
<1>4. CASE Tick \/ CooldownElapses
  BY <1>4, ScopeSame, Zenon DEF Tick, CooldownElapses, rows, goroutines
<1>5. QED
  BY <1>1, <1>2, <1>3, <1>4, Zenon DEF Environment

\* Every step keeps a single-platform job on its platform.
LEMMA NextScope ==
  ASSUME TypeInv, ScopeInv, [Next]_vars
  PROVE  ScopeInv'
<1>1. CASE UNCHANGED vars
  BY <1>1, ScopeSame, Zenon DEF vars, rows, goroutines
<1>2. CASE ConsumerReconnect
  BY <1>2, ScopeSame, Zenon DEF ConsumerReconnect, rows, goroutines
<1>3. CASE \E c \in Callers : Request(c)
  BY <1>3, RequestQuiet, ScopeSame, Zenon DEF goroutines
<1>4. QED
  BY <1>1, <1>2, <1>3, DoStepScope, LoadDataScope, EnvironmentScope, Zenon DEF Next

\* Callers between SELECT and INSERT stay there, with what they asked for, and
\* stay disturbed if they were.
DecidersStay ==
    \A c \in Callers : cpc'[c] = "create" =>
        cpc[c] = "create" /\ carg'[c] = carg[c] /\ (c \in disturbed => c \in disturbed')

\* Only findActiveJob makes a caller decide.
LEMMA NextDeciders ==
  ASSUME TypeInv, [Next]_vars
  PROVE  DecidersStay \/ \E c \in Callers : FindActiveJob(c)
<1>0. DOMAIN cpc = Callers /\ DOMAIN carg = Callers /\ disturbed \subseteq Callers
  BY Zenon DEF TypeInv, TypeOK, CallersOK, HistoryOK
<1>1. CASE UNCHANGED vars
  BY <1>1, Zenon DEF vars, callers, history, DecidersStay
<1>2. CASE ConsumerReconnect
  BY <1>2, Zenon DEF ConsumerReconnect, history, DecidersStay
<1>3. ASSUME NEW c \in Callers, Request(c) PROVE DecidersStay
  <2>1. UNCHANGED disturbed
    BY <1>3, RequestQuiet, Zenon DEF history
  <2>2. \A d \in Callers : d # c => cpc'[d] = cpc[d] /\ carg'[d] = carg[d]
    BY <1>0, <1>3, Zenon DEF Request, Update, Retry, CronDo, RebuildAll, SetSpider, CallDo
  <2>3. cpc'[c] # "create"
    BY <1>0, <1>3, Zenon DEF Request, Update, Retry, CronDo, RebuildAll, SetSpider, CallDo
  <2>4. QED
    BY <2>1, <2>2, <2>3, Zenon DEF DecidersStay
<1>4. ASSUME NEW c \in Callers, DoStep(c) PROVE DecidersStay \/ FindActiveJob(c)
  <2>1. CASE CreateJob(c)
    <3>1. cpc'[c] # "create" /\ disturbed' = Deciding \ {c} /\ UNCHANGED carg
          /\ \A d \in Callers : d # c => cpc'[d] = cpc[d]
      BY <1>0, <2>1, Zenon DEF CreateJob
    <3>2. QED
      BY <3>1, Zenon DEF DecidersStay, Deciding
  <2>2. CASE SaveBinding(c) \/ ExpireStaleActiveJobs(c)
    <3>1. cpc'[c] # "create" /\ UNCHANGED disturbed
          /\ \A d \in Callers : d # c => cpc'[d] = cpc[d] /\ carg'[d] = carg[d]
      BY <1>0, <2>2, Zenon DEF SaveBinding, ExpireStaleActiveJobs, history
    <3>2. QED
      BY <3>1, Zenon DEF DecidersStay
  <2>3. CASE DoError(c) \/ MarkUnpublished(c)
    <3>1. cpc'[c] # "create" /\ disturbed \subseteq disturbed' \cup {c}
          /\ \A d \in Callers : d # c => cpc'[d] = cpc[d] /\ carg'[d] = carg[d]
      BY <1>0, <2>3, Zenon DEF DoError, MarkUnpublished, Return, history
    <3>2. QED
      BY <3>1, Zenon DEF DecidersStay
  <2>4. CASE Publish(c) \/ PublisherReconnect(c) \/ Republish(c)
    <3>1. cpc'[c] # "create" /\ UNCHANGED disturbed
          /\ \A d \in Callers : d # c => cpc'[d] = cpc[d] /\ carg'[d] = carg[d]
      BY <1>0, <2>4, Zenon DEF Publish, PublisherReconnect, Republish, Return, history
    <3>2. QED
      BY <3>1, Zenon DEF DecidersStay
  <2>5. QED
    BY <1>4, <2>1, <2>2, <2>3, <2>4, Zenon DEF DoStep
<1>5. ASSUME NEW w \in Workers, LoadDataStep(w) \/ \E j \in JobIds : Deliver(w, j)
      PROVE  DecidersStay
  <2>1. CASE StartJob(w)
    BY <2>1, Zenon DEF StartJob, callers, Deciding, DecidersStay
  <2>2. CASE \E j \in JobIds : Deliver(w, j)
    BY <2>2, Zenon DEF Deliver, callers, history, DecidersStay
  <2>3. CASE LoadPlatforms(w) \/ FinishPlatform(w) \/ Settle(w)
    BY <2>3, Zenon DEF LoadPlatforms, FinishPlatform, Settle, callers, history, DecidersStay
  <2>4. CASE FinishJob(w) \/ \E p \in Platforms : NextPlatform(w, p)
    BY <2>4, Zenon DEF FinishJob, NextPlatform, callers, history, DecidersStay
  <2>5. QED
    BY <1>5, <2>1, <2>2, <2>3, <2>4, Zenon DEF LoadDataStep
<1>6. CASE Environment
  <2>1. CASE \E w \in Workers : Panic(w)
    BY <2>1, Zenon DEF Panic, callers, DecidersStay
  <2>2. CASE ConnectionLost \/ BrokerRestart
    BY <2>2, Zenon DEF ConnectionLost, BrokerRestart, DecidersStay
  <2>3. CASE Tick \/ CooldownElapses
    BY <2>3, Zenon DEF Tick, CooldownElapses, callers, history, DecidersStay
  <2>4. CASE Crash
    BY <2>4, Zenon DEF Crash, DecidersStay
  <2>5. CASE \E c \in Callers : PublishLost(c)
    BY <1>0, <2>5, Zenon DEF PublishLost, DecidersStay
  <2>6. QED
    BY <1>6, <2>1, <2>2, <2>3, <2>4, <2>5, Zenon DEF Environment
<1>7. QED
  BY <1>1, <1>2, <1>3, <1>4, <1>5, <1>6, Zenon DEF Next

\* startJob touches its own job only, and records it when it had ended.
LEMMA StartJobActivates ==
  ASSUME TypeInv, NEW w \in Workers, StartJob(w)
  PROVE  /\ UNCHANGED <<njobs, scope, raced, cpc, carg>>
         /\ revived \subseteq revived'
         /\ \A j \in Rows : IsActive(j)' => IsActive(j) \/ j \in revived'
         /\ \/ \A j \in Rows : IsActive(j)' => IsActive(j)
            \/ Deciding \subseteq disturbed'
<1>1. \A j \in Rows : j # wjob[w] => status'[j] = status[j]
  BY RowsAreIds, Zenon DEF StartJob, TypeInv, TypeOK, RowsOK
<1>2. IF IsActive(wjob[w]) THEN UNCHANGED <<revived, disturbed>>
      ELSE revived' = revived \cup {wjob[w]} /\ disturbed' = Deciding
  BY Zenon DEF StartJob
<1>3. UNCHANGED <<njobs, scope, raced, cpc, carg>>
  BY Zenon DEF StartJob, callers
<1>4. QED
  BY <1>1, <1>2, <1>3, Zenon DEF IsActive

\* The INSERT of a caller.
LEMMA CreateJobInserts ==
  ASSUME TypeInv, NEW c \in Callers, CreateJob(c)
  PROVE  /\ njobs \in Nat /\ njobs' = njobs + 1 /\ scope'[njobs + 1] = carg[c]
         /\ \A j \in Rows : j \in Nat /\ j < njobs + 1
         /\ \A j \in Rows : scope'[j] = scope[j] /\ (IsActive(j)' <=> IsActive(j))
         /\ \A j \in Rows' : j \in Rows \/ j = njobs + 1
         /\ UNCHANGED <<revived, carg>> /\ raced \subseteq raced'
         /\ c \in disturbed => njobs + 1 \in raced'
         /\ cpc[c] = "create" /\ disturbed' = Deciding \ {c}
<1>0. RowsOK
  BY Zenon DEF TypeInv, TypeOK
<1>1. njobs \in Nat /\ njobs' = njobs + 1 /\ \A j \in Rows : j \in Nat /\ j < njobs + 1
  BY <1>0, RowsAreIds, SMTT(30) DEF CreateJob, Rows
<1>2. njobs + 1 \in JobIds
  BY <1>1, ConstantsAssumption DEF CreateJob, JobIds
<1>3. scope'[njobs + 1] = carg[c]
  BY <1>0, <1>2, Zenon DEF CreateJob, RowsOK
<1>4. \A j \in Rows : scope'[j] = scope[j] /\ status'[j] = status[j]
  BY <1>0, <1>1, RowsAreIds, SMTT(30) DEF CreateJob, RowsOK
<1>5. \A j \in Rows' : j \in Rows \/ j = njobs + 1
  BY <1>1 DEF Rows
<1>6. /\ UNCHANGED <<revived, carg>> /\ raced \subseteq raced'
      /\ c \in disturbed => njobs + 1 \in raced'
      /\ cpc[c] = "create" /\ disturbed' = Deciding \ {c}
  BY Zenon DEF CreateJob
<1>7. QED
  BY <1>1, <1>3, <1>4, <1>5, <1>6, Zenon DEF IsActive

\* An undisturbed decision stays right: the SELECT sees every active job of its
\* platform, and whoever activates one disturbs the callers that decide.
LEMMA NextDecision ==
  ASSUME TypeInv, ScopeInv, DecisionInv, [Next]_vars
  PROVE  DecisionInv'
<1>1. CASE \E c \in Callers : FindActiveJob(c)
  <2>0. PICK c \in Callers : FindActiveJob(c)
    BY <1>1, Zenon
  <2>1. DOMAIN cpc = Callers /\ DOMAIN carg = Callers
    BY Zenon DEF TypeInv, TypeOK, CallersOK
  <2>2. cpc'[c] = "create" => carg'[c] = carg[c] /\ Conflicting(carg[c]) = {}
    BY <2>0, <2>1, Zenon DEF FindActiveJob, Return
  <2>3. \A d \in Callers : d # c => cpc'[d] = cpc[d] /\ carg'[d] = carg[d]
                                    /\ (d \in disturbed' <=> d \in disturbed)
    BY <2>0, <2>1, Zenon DEF FindActiveJob, Return
  <2>4. \A j \in Rows : IsActive(j) /\ scope[j] = carg[c] /\ carg[c] # All
                          => j \in Conflicting(carg[c])
    BY Zenon DEF ScopeInv, Conflicting, ConflictCondition
  <2>5. UNCHANGED <<njobs, scope, status>>
    BY <2>0, Zenon DEF FindActiveJob, rows
  <2>6. SUFFICES ASSUME NEW d \in Callers, cpc'[d] = "create", d \notin disturbed',
                        NEW j \in Rows', IsActive(j)', scope'[j] = carg'[d], carg'[d] # All
                 PROVE  FALSE
    BY Zenon DEF DecisionInv
  <2>7. j \in Rows /\ IsActive(j) /\ scope[j] = carg'[d]
    BY <2>5, <2>6, Zenon DEF Rows, IsActive
  <2>8. CASE d = c
    BY <2>2, <2>4, <2>6, <2>7, <2>8, Zenon
  <2>9. CASE d # c
    BY <2>3, <2>6, <2>7, <2>9, Zenon DEF DecisionInv
  <2>10. QED
    BY <2>8, <2>9, Zenon
<1>2. CASE DecidersStay
  <2>1. CASE QuietStep
    BY <1>2, <2>1, Zenon DEF DecidersStay, QuietStep, DecisionInv, Rows
  <2>2. CASE \E w \in Workers : StartJob(w)
    <3>0. PICK w \in Workers : StartJob(w)
      BY <2>2, Zenon
    <3>1. /\ UNCHANGED <<njobs, scope, raced, cpc, carg>>
          /\ \/ \A j \in Rows : IsActive(j)' => IsActive(j)
             \/ Deciding \subseteq disturbed'
      BY <3>0, StartJobActivates, Zenon
    <3>2. QED
      BY <1>2, <3>1, Zenon DEF DecidersStay, DecisionInv, Rows, Deciding
  <2>3. CASE \E c \in Callers : CreateJob(c)
    <3>0. PICK c \in Callers : CreateJob(c)
      BY <2>3, Zenon
    <3>1. cpc'[c] # "create" /\ disturbed' = Deciding \ {c}
      BY <3>0, Zenon DEF CreateJob, TypeInv, TypeOK, CallersOK
    <3>2. QED
      BY <1>2, <3>1, Zenon DEF DecidersStay, DecisionInv, Deciding
  <2>4. QED
    BY <2>1, <2>2, <2>3, NextQuiet, Zenon
<1>3. QED
  BY <1>1, <1>2, NextDeciders, Zenon

\* A job that becomes active next to another of its platform is recorded.
LEMMA NextExclusion ==
  ASSUME TypeInv, DecisionInv, SamePlatformExclusion, [Next]_vars
  PROVE  SamePlatformExclusion'
<1>1. CASE QuietStep
  BY <1>1, Zenon DEF QuietStep, SamePlatformExclusion, Rows
<1>2. CASE \E w \in Workers : StartJob(w)
  <2>0. PICK w \in Workers : StartJob(w)
    BY <1>2, Zenon
  <2>1. /\ UNCHANGED <<njobs, scope, raced>>
        /\ revived \subseteq revived'
        /\ \A j \in Rows : IsActive(j)' => IsActive(j) \/ j \in revived'
    BY <2>0, StartJobActivates, Zenon
  <2>2. QED
    BY <2>1 DEF SamePlatformExclusion, Rows
<1>3. CASE \E c \in Callers : CreateJob(c)
  <2>0. PICK c \in Callers : CreateJob(c)
    BY <1>3, Zenon
  <2>1. /\ njobs \in Nat /\ scope'[njobs + 1] = carg[c]
        /\ \A j \in Rows : j \in Nat /\ j < njobs + 1
        /\ \A j \in Rows : scope'[j] = scope[j] /\ (IsActive(j)' <=> IsActive(j))
        /\ \A j \in Rows' : j \in Rows \/ j = njobs + 1
        /\ UNCHANGED revived /\ raced \subseteq raced'
        /\ c \in disturbed => njobs + 1 \in raced'
        /\ cpc[c] = "create"
    BY <2>0, CreateJobInserts, Zenon
  <2>2. c \notin disturbed /\ carg[c] # All => \A j \in Rows : scope[j] = carg[c] => ~IsActive(j)
    BY <2>1, Zenon DEF DecisionInv
  <2>3. SUFFICES ASSUME NEW j \in Rows', NEW k \in Rows', j < k, IsActive(j)', IsActive(k)',
                        scope'[j] = scope'[k], scope'[j] # All
                 PROVE  k \in raced' \/ {j, k} \cap revived' # {}
    BY Zenon DEF SamePlatformExclusion
  <2>4. j \in Rows
    BY <2>1, <2>3
  <2>5. CASE k \in Rows
    BY <2>1, <2>3, <2>4, <2>5, Zenon DEF SamePlatformExclusion
  <2>6. CASE k = njobs + 1
    BY <2>1, <2>2, <2>3, <2>4, <2>6, Zenon
  <2>7. QED
    BY <2>1, <2>5, <2>6, Zenon
<1>4. QED
  BY <1>1, <1>2, <1>3, NextQuiet, Zenon

\* Two active jobs for one single platform exist only through a race between SELECT
\* and INSERT or through a restarted job.
THEOREM SamePlatformExcluded == Spec => []SamePlatformExclusion
<1>1. Init => ScopeInv /\ DecisionInv /\ SamePlatformExclusion
  BY DEF Init, ScopeInv, DecisionInv, SamePlatformExclusion, Rows
<1>2. QED
  BY <1>1, InitTypeInv, NextTypeInv, NextScope, NextDecision, NextExclusion, PTL DEF Spec

-----------------------------------------------------------------------------
(* While nothing has failed every event is delivered once *)

\* The connection stays up, and with it the channel of every publisher.
LinkInv ==
    /\ link = "consuming"
    /\ \A c \in Callers : /\ cpc[c] \notin {"reconnect", "republish", "fail"}
                          /\ cpc[c] = "publish" => c \in open

\* A job's event is in one place: with its publisher, in the queue, or with one
\* goroutine.
OneCarrier ==
    /\ \A c, d \in Callers : cjob[c] = cjob[d] /\ cjob[c] # 0 => c = d
    /\ \A v, w \in Workers : wjob[v] = wjob[w] /\ wjob[v] # 0 => v = w
    /\ \A c \in Callers : cjob[c] \notin ready
    /\ \A w \in Workers : wjob[w] \notin ready
    /\ \A c \in Callers, w \in Workers : cjob[c] = wjob[w] => wjob[w] = 0

\* A row shows no progress before startJob, and current_platform is what was asked.
Unstarted(j) == finished[j] = 0 /\ current[j] = scope[j] /\ status[j] # "success"
WaitingInv ==
    /\ \A j \in JobIds : j \notin Rows => finished[j] = 0
    /\ \A j \in ready : Unstarted(j)
    /\ \A c \in Callers : cjob[c] # 0 => Unstarted(cjob[c])
    /\ \A w \in Workers : wpc[w] \in {"load", "start"} => Unstarted(wjob[w])

\* In the loop the row accounts for every platform: those finished, the one being
\* fetched, and those to come.
Midway(w) ==
    LET j == wjob[w]
        left == Cardinality(wtodo[w])
    IN  /\ wpc[w] = "next" => /\ wtodo[w] # {} /\ total[j] = finished[j] + left
                              /\ finished[j] = 0 => current[j] = scope[j]
        /\ wpc[w] = "fetch" => total[j] = finished[j] + left + 1 /\ current[j] = wcur[w]
        /\ wpc[w] = "finish" => w \in failing \/ finished[j] = total[j]
        /\ wpc[w] \in {"next", "fetch", "finish"} => status[j] # "success"
MidwayInv == \A w \in Workers : Midway(w)

OnceInv == OneCarrier /\ WaitingInv /\ MidwayInv /\ ProgressConsistent
UntilFault == faults = 0 => LinkInv /\ OnceInv

-----------------------------------------------------------------------------
\* What a goroutine has to fetch is finitely many platforms.
LEMMA TodoFinite ==
  ASSUME TypeInv, NEW w \in Workers
  PROVE  /\ IsFiniteSet(wtodo[w]) /\ Cardinality(wtodo[w]) \in Nat
         /\ Cardinality(wtodo[w]) = 0 <=> wtodo[w] = {}
<1>1. wtodo[w] \subseteq Platforms
  BY Zenon DEF TypeInv, TypeOK, GoroutinesOK
<1>2. IsFiniteSet(wtodo[w])
  BY <1>1, ConstantsAssumption, FS_Subset, Zenon
<1>3. QED
  BY <1>2, FS_CardinalityType, FS_EmptySet, Zenon

\* The counters of rows, and the rows of goroutines, have their types.
LEMMA RowTypes ==
  ASSUME TypeInv
  PROVE  /\ \A j \in JobIds : finished[j] \in Nat /\ total[j] \in Nat
         /\ \A j \in Rows : j \in JobIds /\ j # 0
         /\ ready \subseteq Rows
         /\ \A c \in Callers : cjob[c] # 0 => cjob[c] \in Rows
         /\ \A w \in Workers : wpc[w] # "idle" <=> wjob[w] # 0
         /\ \A w \in Workers : wpc[w] # "idle" => wjob[w] \in Rows
<1>1. \A j \in Rows : j \in JobIds /\ j # 0
  BY RowsAreIds DEF TypeInv, TypeOK, Rows
<1>2. \A c \in Callers : cjob[c] # 0 => cjob[c] \in Rows
  BY RowsAreIds DEF TypeInv, TypeOK, CallersOK, Rows
<1>3. QED
  BY <1>1, <1>2, Zenon DEF TypeInv, TypeOK, RowsOK, BrokerOK, GoroutineInv

\* A goroutine that a step leaves alone, with its row, is where it was.
SameRow(j) ==
    /\ UNCHANGED <<total[j], finished[j], current[j], scope[j]>>
    /\ status'[j] = "success" => status[j] = "success"
SameGoroutine(w) ==
    /\ UNCHANGED <<wpc[w], wjob[w], wtodo[w], wcur[w]>> /\ (w \in failing' <=> w \in failing)
    /\ wpc[w] # "idle" => SameRow(wjob[w])

\* What Midway says of such a goroutine is kept.
LEMMA MidwayKept ==
  ASSUME MidwayInv, NEW w \in Workers, SameGoroutine(w)
  PROVE  Midway(w)'
<1>1. CASE wpc[w] = "idle"
  BY <1>1, Zenon DEF SameGoroutine, Midway
<1>2. CASE wpc[w] # "idle"
  BY <1>2, Zenon DEF SameGoroutine, SameRow, MidwayInv, Midway
<1>3. QED
  BY <1>1, <1>2, Zenon

\* A step that moves no event, makes no progress and completes no job.
LEMMA OnceSame ==
  ASSUME TypeInv, OnceInv, \A j \in Rows : status'[j] = "success" => status[j] = "success",
         UNCHANGED <<njobs, scope, current, total, finished, cjob, ready, wpc, wjob, wtodo, wcur, failing>>
  PROVE  OnceInv'
<1>1. OneCarrier'
  BY Zenon DEF OnceInv, OneCarrier
<1>2. WaitingInv'
  BY RowTypes, Zenon DEF OnceInv, WaitingInv, Unstarted, Rows
<1>3. MidwayInv'
  <2>1. \A w \in Workers : SameGoroutine(w)
    BY RowTypes, Zenon DEF SameGoroutine, SameRow
  <2>2. QED
    BY <2>1, MidwayKept, Zenon DEF OnceInv, MidwayInv
<1>4. ProgressConsistent'
  BY Zenon DEF OnceInv, ProgressConsistent, Rows
<1>5. QED
  BY <1>1, <1>2, <1>3, <1>4, Zenon DEF OnceInv

\* Do inserts a row that shows no progress, and its publisher alone holds the event.
LEMMA CreateJobOnce ==
  ASSUME TypeInv, OnceInv, NEW c \in Callers, CreateJob(c)
  PROVE  OnceInv'
<1> DEFINE n == njobs + 1
<1>0. /\ n \in JobIds /\ n \notin Rows /\ n # 0 /\ Rows' = Rows \cup {n}
      /\ njobs' = n /\ UNCHANGED <<finished, ready, wpc, wjob, wtodo, wcur, failing>>
  <2>1. njobs \in 0..MaxJobs /\ njobs < MaxJobs /\ njobs' = n
    BY Zenon DEF CreateJob, TypeInv, TypeOK, RowsOK
  <2>2. n \in JobIds /\ n \notin Rows /\ n # 0 /\ Rows' = Rows \cup {n}
    BY <2>1, ConstantsAssumption DEF JobIds, Rows
  <2>3. UNCHANGED <<finished, ready, wpc, wjob, wtodo, wcur, failing>>
    BY Zenon DEF CreateJob, broker, goroutines
  <2>4. QED
    BY <2>1, <2>2, <2>3, Zenon
<1>1. /\ scope'[n] = carg[c] /\ current'[n] = carg[c] /\ status'[n] = "queued" /\ total'[n] \in Nat
      /\ \A j \in Rows : /\ scope'[j] = scope[j] /\ current'[j] = current[j]
                         /\ status'[j] = status[j] /\ total'[j] = total[j]
      /\ cjob'[c] = n /\ \A d \in Callers : d # c => cjob'[d] = cjob[d]
  BY <1>0, RowTypes, Zenon DEF CreateJob, TypeInv, TypeOK, RowsOK, CallersOK
<1>2. finished[n] = 0
  BY <1>0, Zenon DEF OnceInv, WaitingInv
<1>3. OneCarrier'
  BY <1>0, <1>1, RowTypes, SMTT(30) DEF OnceInv, OneCarrier
<1>4. WaitingInv'
  BY <1>0, <1>1, <1>2, RowTypes, SMTT(30) DEF OnceInv, WaitingInv, Unstarted
<1>5. MidwayInv'
  <2>1. \A w \in Workers : SameGoroutine(w)
    BY <1>0, <1>1, RowTypes, ZenonT(40) DEF SameGoroutine, SameRow
  <2>2. QED
    BY <2>1, MidwayKept, Zenon DEF OnceInv, MidwayInv
<1>6. ProgressConsistent'
  BY <1>0, <1>1, <1>2 DEF OnceInv, ProgressConsistent
<1>7. QED
  BY <1>3, <1>4, <1>5, <1>6, Zenon DEF OnceInv

\* publish hands the event to the queue.
LEMMA PublishOnce ==
  ASSUME TypeInv, OnceInv, NEW c \in Callers, c \in open, Publish(c)
  PROVE  OnceInv'
<1>0. /\ ready' = ready \cup {cjob[c]} /\ cjob[c] \in Rows
      /\ cjob'[c] = 0 /\ \A d \in Callers : d # c => cjob'[d] = cjob[d]
      /\ UNCHANGED <<njobs, scope, status, current, total, finished, wpc, wjob, wtodo, wcur, failing>>
  BY ZenonT(40) DEF Publish, Return, TypeInv, TypeOK, CallersOK, CallerInv, Publishing, rows, goroutines
<1>1. OneCarrier'
  BY <1>0, RowTypes, SMTT(30) DEF OnceInv, OneCarrier
<1>2. WaitingInv'
  BY <1>0, RowTypes DEF OnceInv, WaitingInv, Unstarted, Rows
<1>3. MidwayInv'
  <2>1. \A w \in Workers : SameGoroutine(w)
    BY <1>0, Zenon DEF SameGoroutine, SameRow
  <2>2. QED
    BY <2>1, MidwayKept, Zenon DEF OnceInv, MidwayInv
<1>4. ProgressConsistent'
  BY <1>0, Zenon DEF OnceInv, ProgressConsistent, Rows
<1>5. QED
  BY <1>1, <1>2, <1>3, <1>4, Zenon DEF OnceInv

\* The steps of Do.
LEMMA DoStepOnce ==
  ASSUME TypeInv, LinkInv, OnceInv, NEW c \in Callers, DoStep(c)
  PROVE  OnceInv'
<1>1. CASE SaveBinding(c)
  BY <1>1, OnceSame, Zenon DEF SaveBinding, rows, broker, goroutines
<1>2. CASE ExpireStaleActiveJobs(c)
  <2>1. \A j \in Rows : status'[j] = "success" => status[j] = "success"
    BY <1>2, RowTypes, Zenon DEF ExpireStaleActiveJobs
  <2>2. QED
    BY <1>2, <2>1, OnceSame, Zenon DEF ExpireStaleActiveJobs, broker, goroutines
<1>3. CASE FindActiveJob(c) \/ DoError(c)
  <2>1. cjob[c] = 0
    BY <1>3, Zenon DEF FindActiveJob, DoError, TypeInv, CallerInv, Publishing
  <2>2. UNCHANGED cjob
    BY <1>3, <2>1, Zenon DEF FindActiveJob, DoError, Return, TypeInv, TypeOK, CallersOK
  <2>3. QED
    BY <1>3, <2>2, OnceSame, Zenon DEF FindActiveJob, DoError, rows, broker, goroutines
<1>4. CASE CreateJob(c)
  BY <1>4, CreateJobOnce, Zenon
<1>5. CASE Publish(c)
  BY <1>5, PublishOnce, Zenon DEF LinkInv, Publish
<1>6. CASE PublisherReconnect(c) \/ Republish(c) \/ MarkUnpublished(c)
  BY <1>6, Zenon DEF LinkInv, PublisherReconnect, Republish, MarkUnpublished
<1>7. QED
  BY <1>1, <1>2, <1>3, <1>4, <1>5, <1>6, Zenon DEF DoStep

-----------------------------------------------------------------------------
\* A delivery takes the event out of the queue.
LEMMA DeliverOnce ==
  ASSUME TypeInv, OnceInv, NEW w \in Workers, NEW j \in JobIds, Deliver(w, j)
  PROVE  OnceInv'
<1>0. /\ j \in ready /\ wpc[w] = "idle" /\ ready' = ready \ {j} /\ wpc'[w] = "load" /\ wjob'[w] = j
      /\ \A v \in Workers : v # w => wpc'[v] = wpc[v] /\ wjob'[v] = wjob[v]
      /\ UNCHANGED <<njobs, scope, status, current, total, finished, cjob, wtodo, wcur, failing>>
  BY ZenonT(40) DEF Deliver, TypeInv, TypeOK, GoroutinesOK, rows, callers
<1>1. OneCarrier'
  BY <1>0, RowTypes, SMTT(30) DEF OnceInv, OneCarrier
<1>2. WaitingInv'
  BY <1>0 DEF OnceInv, WaitingInv, Unstarted, Rows
<1>3. MidwayInv'
  <2>1. Midway(w)'
    BY <1>0, Zenon DEF Midway
  <2>2. \A v \in Workers : v # w => SameGoroutine(v)
    BY <1>0, Zenon DEF SameGoroutine, SameRow
  <2>3. QED
    BY <2>1, <2>2, MidwayKept, Zenon DEF OnceInv, MidwayInv
<1>4. ProgressConsistent'
  BY <1>0, Zenon DEF OnceInv, ProgressConsistent, Rows
<1>5. QED
  BY <1>1, <1>2, <1>3, <1>4, Zenon DEF OnceInv

\* LoadData reads the bindings; a job that fails here has made no progress.
LEMMA LoadPlatformsOnce ==
  ASSUME TypeInv, OnceInv, NEW w \in Workers, LoadPlatforms(w)
  PROVE  OnceInv'
<1>0. /\ wpc[w] = "load" /\ (wpc'[w] = "start" \/ (wpc'[w] = "finish" /\ w \in failing'))
      /\ \A v \in Workers : v # w => wpc'[v] = wpc[v] /\ wtodo'[v] = wtodo[v] /\ (v \in failing' <=> v \in failing)
      /\ UNCHANGED <<njobs, scope, status, current, total, finished, cjob, ready, wjob, wcur>>
  BY Zenon DEF LoadPlatforms, TypeInv, TypeOK, GoroutinesOK, rows, callers, broker
<1>1. OneCarrier'
  BY <1>0, Zenon DEF OnceInv, OneCarrier
<1>2. WaitingInv'
  BY <1>0, Zenon DEF OnceInv, WaitingInv, Unstarted, Rows
<1>3. MidwayInv'
  <2>1. Midway(w)'
    BY <1>0, Zenon DEF OnceInv, WaitingInv, Unstarted, Midway
  <2>2. \A v \in Workers : v # w => SameGoroutine(v)
    BY <1>0, Zenon DEF SameGoroutine, SameRow
  <2>3. QED
    BY <2>1, <2>2, MidwayKept, Zenon DEF OnceInv, MidwayInv
<1>4. ProgressConsistent'
  BY <1>0, Zenon DEF OnceInv, ProgressConsistent, Rows
<1>5. QED
  BY <1>1, <1>2, <1>3, <1>4, Zenon DEF OnceInv

\* Nobody else has the event of a goroutine's job.
LEMMA OwnJob ==
  ASSUME TypeInv, OneCarrier, NEW w \in Workers, wpc[w] # "idle"
  PROVE  /\ wjob[w] \in Rows /\ wjob[w] \in JobIds /\ wjob[w] \notin ready
         /\ \A v \in Workers : v # w => wjob[v] # wjob[w]
         /\ \A c \in Callers : cjob[c] # wjob[w]
  BY RowTypes, Zenon DEF OneCarrier

\* A step of a goroutine on its job leaves the waiting ones untouched.
LEMMA WaitingKept ==
  ASSUME TypeInv, OnceInv, NEW j \in Rows, j \notin ready, \A c \in Callers : cjob[c] # j,
         UNCHANGED <<njobs, ready, cjob, wjob>>, \A i \in JobIds : i # j => SameRow(i),
         \A v \in Workers : wpc'[v] \in {"load", "start"} => wpc[v] = wpc'[v] /\ wjob[v] # j
  PROVE  WaitingInv'
<1>0. Rows' = Rows
  BY Zenon DEF Rows
<1>1. \A i \in JobIds : i # j /\ Unstarted(i) => Unstarted(i)'
  BY Zenon DEF Unstarted, SameRow
<1>2. \A i \in ready : i \in JobIds /\ i # j
  BY RowTypes, Zenon
<1>3. \A c \in Callers : cjob[c] # 0 => cjob[c] \in JobIds /\ cjob[c] # j
  BY RowTypes, Zenon
<1>4. \A v \in Workers : wpc'[v] \in {"load", "start"} => wpc[v] \in {"load", "start"} /\ wjob[v] \in JobIds /\ wjob[v] # j
  BY RowTypes, Zenon
<1>5. \A i \in JobIds : i \notin Rows => finished'[i] = finished[i]
  BY Zenon DEF SameRow
<1>6. QED
  BY <1>0, <1>1, <1>2, <1>3, <1>4, <1>5, Zenon DEF OnceInv, WaitingInv

\* startJob counts what there is to fetch.
LEMMA StartJobOnce ==
  ASSUME TypeInv, OnceInv, NEW w \in Workers, StartJob(w)
  PROVE  OnceInv'
<1> DEFINE j == wjob[w]
<1>0. /\ wpc[w] = "start" /\ wpc'[w] = IF wtodo[w] = {} THEN "finish" ELSE "next"
      /\ \A v \in Workers : v # w => wpc'[v] = wpc[v]
      /\ UNCHANGED <<njobs, scope, current, cjob, ready, wjob, wtodo, wcur, failing>>
  BY Zenon DEF StartJob, TypeInv, TypeOK, GoroutinesOK, callers, broker
<1>1. /\ j \in Rows /\ j \in JobIds /\ j \notin ready
      /\ \A v \in Workers : v # w => wjob[v] # j
      /\ \A c \in Callers : cjob[c] # j
  BY <1>0, OwnJob, Zenon DEF OnceInv
<1>2. /\ status'[j] = "running" /\ finished'[j] = 0 /\ total'[j] = Cardinality(wtodo[w])
      /\ \A i \in JobIds : i # j => status'[i] = status[i] /\ finished'[i] = finished[i] /\ total'[i] = total[i]
  BY <1>1, Zenon DEF StartJob, PlatformCount, TypeInv, TypeOK, RowsOK
<1>3. current[j] = scope[j] /\ (wtodo[w] = {} <=> Cardinality(wtodo[w]) = 0) /\ Cardinality(wtodo[w]) \in Nat
  BY <1>0, TodoFinite, Zenon DEF OnceInv, WaitingInv, Unstarted
<1>4. OneCarrier'
  BY <1>0, ZenonT(40) DEF OnceInv, OneCarrier
<1>5. WaitingInv'
  <2>1. \A i \in JobIds : i # j => SameRow(i)
    BY <1>0, <1>2, Zenon DEF SameRow
  <2>2. \A v \in Workers : wpc'[v] \in {"load", "start"} => wpc[v] = wpc'[v] /\ wjob[v] # j
    BY <1>0, <1>1, Zenon
  <2>3. QED
    BY <1>0, <1>1, <2>1, <2>2, WaitingKept, Zenon
<1>6. MidwayInv'
  <2>1. Midway(w)'
    <3>1. total'[j] = finished'[j] + Cardinality(wtodo[w])
      BY <1>2, <1>3, SMTT(30)
    <3>2. wtodo[w] = {} => finished'[j] = total'[j]
      BY <1>2, <1>3
    <3>3. /\ wtodo'[w] = wtodo[w] /\ wjob'[w] = j /\ current'[j] = scope'[j] /\ status'[j] # "success"
          /\ wpc'[w] = "next" => wtodo[w] # {}
          /\ wpc'[w] = "finish" => wtodo[w] = {}
          /\ wpc'[w] # "fetch"
      BY <1>0, <1>2, <1>3, Zenon
    <3>4. QED
      BY <3>1, <3>2, <3>3, ZenonT(40) DEF Midway
  <2>2. \A v \in Workers : v # w => SameGoroutine(v)
    BY <1>0, <1>1, <1>2, RowTypes, Zenon DEF SameGoroutine, SameRow
  <2>3. QED
    BY <2>1, <2>2, MidwayKept, ZenonT(40) DEF OnceInv, MidwayInv
<1>7. ProgressConsistent'
  <2>1. finished'[j] <= total'[j] /\ (status'[j] = "success" => finished'[j] = total'[j])
    BY <1>2, <1>3
  <2>2. \A i \in Rows : i # j => SameRow(i)
    BY <1>0, <1>2, RowTypes, Zenon DEF SameRow
  <2>3. QED
    BY <1>0, <2>1, <2>2, ZenonT(40) DEF OnceInv, ProgressConsistent, SameRow, Rows
<1>8. QED
  BY <1>4, <1>5, <1>6, <1>7, Zenon DEF OnceInv

\* An iteration begins: one platform fewer to come, one being fetched.
LEMMA NextPlatformOnce ==
  ASSUME TypeInv, OnceInv, NEW w \in Workers, NEW p \in Platforms, NextPlatform(w, p)
  PROVE  OnceInv'
<1> DEFINE j == wjob[w]
<1>0. /\ wpc[w] = "next" /\ p \in wtodo[w] /\ wpc'[w] = "fetch" /\ wcur'[w] = p /\ wtodo'[w] = wtodo[w] \ {p}
      /\ \A v \in Workers : v # w => wpc'[v] = wpc[v] /\ wtodo'[v] = wtodo[v] /\ wcur'[v] = wcur[v]
      /\ UNCHANGED <<njobs, scope, status, total, finished, cjob, ready, wjob, failing>>
  BY Zenon DEF NextPlatform, TypeInv, TypeOK, GoroutinesOK, callers, broker
<1>1. /\ j \in Rows /\ j \in JobIds /\ j \notin ready
      /\ \A v \in Workers : v # w => wjob[v] # j
      /\ \A c \in Callers : cjob[c] # j
  BY <1>0, OwnJob, Zenon DEF OnceInv
<1>2. current'[j] = p /\ \A i \in JobIds : i # j => current'[i] = current[i]
  BY <1>1, Zenon DEF NextPlatform, TypeInv, TypeOK, RowsOK
<1>3. Cardinality(wtodo[w] \ {p}) = Cardinality(wtodo[w]) - 1 /\ Cardinality(wtodo[w]) \in Nat
  BY <1>0, TodoFinite, FS_RemoveElement, ZenonT(40)
<1>4. OneCarrier'
  BY <1>0, SMTT(30) DEF OnceInv, OneCarrier
<1>5. WaitingInv'
  <2>1. \A i \in JobIds : i # j => SameRow(i)
    BY <1>0, <1>2, Zenon DEF SameRow
  <2>2. \A v \in Workers : wpc'[v] \in {"load", "start"} => wpc[v] = wpc'[v] /\ wjob[v] # j
    BY <1>0, <1>1, Zenon
  <2>3. QED
    BY <1>0, <1>1, <2>1, <2>2, WaitingKept, Zenon
<1>6. MidwayInv'
  <2>1. total[j] = finished[j] + Cardinality(wtodo[w]) /\ status[j] # "success" /\ finished[j] \in Nat
    BY <1>0, <1>1, RowTypes, ZenonT(40) DEF OnceInv, MidwayInv, Midway
  <2>2. total[j] = finished[j] + Cardinality(wtodo'[w]) + 1
    BY <1>0, <1>3, <2>1, SMTT(30)
  <2>3. Midway(w)'
    BY <1>0, <1>2, <2>1, <2>2, Zenon DEF Midway
  <2>4. \A v \in Workers : v # w => SameGoroutine(v)
    BY <1>0, <1>1, <1>2, RowTypes, Zenon DEF SameGoroutine, SameRow
  <2>5. QED
    BY <2>3, <2>4, MidwayKept, Zenon DEF OnceInv, MidwayInv
<1>7. ProgressConsistent'
  BY <1>0, Zenon DEF OnceInv, ProgressConsistent, Rows
<1>8. QED
  BY <1>4, <1>5, <1>6, <1>7, Zenon DEF OnceInv

\* finishPlatform counts the platform that was being fetched.
LEMMA FinishPlatformOnce ==
  ASSUME TypeInv, OnceInv, NEW w \in Workers, FinishPlatform(w)
  PROVE  OnceInv'
<1> DEFINE j == wjob[w]
<1>0. /\ wpc[w] = "fetch" /\ wpc'[w] = IF wtodo[w] = {} THEN "finish" ELSE "next"
      /\ \A v \in Workers : v # w => wpc'[v] = wpc[v] /\ wcur'[v] = wcur[v] /\ (v \in failing' <=> v \in failing)
      /\ UNCHANGED <<njobs, scope, status, total, cjob, ready, wjob, wtodo>>
  BY Zenon DEF FinishPlatform, TypeInv, TypeOK, GoroutinesOK, callers, broker
<1>1. /\ j \in Rows /\ j \in JobIds /\ j \notin ready
      /\ \A v \in Workers : v # w => wjob[v] # j
      /\ \A c \in Callers : cjob[c] # j
  BY <1>0, OwnJob, Zenon DEF OnceInv
<1>2. /\ finished'[j] = finished[j] + 1
      /\ \A i \in JobIds : i # j => current'[i] = current[i] /\ finished'[i] = finished[i]
  BY <1>1, Zenon DEF FinishPlatform, TypeInv, TypeOK, RowsOK
<1>3. /\ finished[j] \in Nat /\ total[j] = finished[j] + Cardinality(wtodo[w]) + 1 /\ status[j] # "success"
      /\ Cardinality(wtodo[w]) \in Nat /\ (wtodo[w] = {} <=> Cardinality(wtodo[w]) = 0)
  BY <1>0, <1>1, TodoFinite, RowTypes, Zenon DEF OnceInv, MidwayInv, Midway
<1>4. OneCarrier'
  BY <1>0, ZenonT(40) DEF OnceInv, OneCarrier
<1>5. WaitingInv'
  <2>1. \A i \in JobIds : i # j => SameRow(i)
    BY <1>0, <1>2, Zenon DEF SameRow
  <2>2. \A v \in Workers : wpc'[v] \in {"load", "start"} => wpc[v] = wpc'[v] /\ wjob[v] # j
    BY <1>0, <1>1, Zenon
  <2>3. QED
    BY <1>0, <1>1, <2>1, <2>2, WaitingKept, Zenon
<1>6. MidwayInv'
  <2>1. Midway(w)'
    <3>1. total[j] = finished'[j] + Cardinality(wtodo[w]) /\ finished'[j] # 0
      BY <1>2, <1>3, SMTT(30)
    <3>2. wtodo[w] = {} => finished'[j] = total[j]
      BY <1>2, <1>3
    <3>3. /\ wtodo'[w] = wtodo[w] /\ wjob'[w] = j /\ total'[j] = total[j] /\ status'[j] = status[j]
          /\ wpc'[w] = "next" => wtodo[w] # {}
          /\ wpc'[w] = "finish" => wtodo[w] = {}
          /\ wpc'[w] # "fetch"
      BY <1>0, Zenon
    <3>4. QED
      BY <1>3, <3>1, <3>2, <3>3, ZenonT(40) DEF Midway
  <2>2. \A v \in Workers : v # w => SameGoroutine(v)
    BY <1>0, <1>1, <1>2, RowTypes, Zenon DEF SameGoroutine, SameRow
  <2>3. QED
    BY <2>1, <2>2, MidwayKept, ZenonT(40) DEF OnceInv, MidwayInv
<1>7. ProgressConsistent'
  <2>1. finished'[j] <= total'[j] /\ (status'[j] = "success" => finished'[j] = total'[j])
    BY <1>0, <1>2, <1>3, SMTT(30)
  <2>2. \A i \in Rows : i # j => SameRow(i)
    BY <1>0, <1>2, RowTypes, Zenon DEF SameRow
  <2>3. QED
    BY <1>0, <2>1, <2>2, ZenonT(40) DEF OnceInv, ProgressConsistent, SameRow, Rows
<1>8. QED
  BY <1>4, <1>5, <1>6, <1>7, Zenon DEF OnceInv

\* finishJob: success only after every platform was counted.
LEMMA FinishJobOnce ==
  ASSUME TypeInv, OnceInv, NEW w \in Workers, FinishJob(w)
  PROVE  OnceInv'
<1> DEFINE j == wjob[w]
<1>0. /\ wpc[w] = "finish" /\ wpc'[w] = "settle" /\ \A v \in Workers : v # w => wpc'[v] = wpc[v]
      /\ UNCHANGED <<njobs, scope, current, total, finished, cjob, ready, wjob, wtodo, wcur, failing>>
  BY Zenon DEF FinishJob, TypeInv, TypeOK, GoroutinesOK, callers, broker
<1>1. /\ j \in Rows /\ j \in JobIds /\ j \notin ready
      /\ \A v \in Workers : v # w => wjob[v] # j
      /\ \A c \in Callers : cjob[c] # j
  BY <1>0, OwnJob, Zenon DEF OnceInv
<1>2. /\ status'[j] = "success" => w \notin failing \/ status[j] = "success"
      /\ \A i \in JobIds : i # j => status'[i] = status[i]
  BY <1>1, Zenon DEF FinishJob, TypeInv, TypeOK, RowsOK
<1>3. OneCarrier'
  BY <1>0, Zenon DEF OnceInv, OneCarrier
<1>4. WaitingInv'
  <2>1. \A i \in JobIds : i # j => SameRow(i)
    BY <1>0, <1>2, Zenon DEF SameRow
  <2>2. \A v \in Workers : wpc'[v] \in {"load", "start"} => wpc[v] = wpc'[v] /\ wjob[v] # j
    BY <1>0, <1>1, Zenon
  <2>3. QED
    BY <1>0, <1>1, <2>1, <2>2, WaitingKept, Zenon
<1>5. MidwayInv'
  <2>1. Midway(w)'
    BY <1>0, Zenon DEF Midway
  <2>2. \A v \in Workers : v # w => SameGoroutine(v)
    BY <1>0, <1>1, <1>2, RowTypes, Zenon DEF SameGoroutine, SameRow
  <2>3. QED
    BY <2>1, <2>2, MidwayKept, Zenon DEF OnceInv, MidwayInv
<1>6. ProgressConsistent'
  <2>1. finished'[j] <= total'[j] /\ (status'[j] = "success" => finished'[j] = total'[j])
    BY <1>0, <1>1, <1>2, Zenon DEF OnceInv, MidwayInv, Midway, ProgressConsistent
  <2>2. \A i \in Rows : i # j => SameRow(i)
    BY <1>0, <1>2, RowTypes, Zenon DEF SameRow
  <2>3. QED
    BY <1>0, <2>1, <2>2, Zenon DEF OnceInv, ProgressConsistent, SameRow, Rows
<1>7. QED
  BY <1>3, <1>4, <1>5, <1>6, Zenon DEF OnceInv

\* Ack or Nack: the event is gone.
LEMMA SettleOnce ==
  ASSUME TypeInv, OnceInv, NEW w \in Workers, Settle(w)
  PROVE  OnceInv'
<1>0. /\ wpc'[w] = "idle" /\ wjob'[w] = 0
      /\ \A v \in Workers : v # w => /\ wpc'[v] = wpc[v] /\ wjob'[v] = wjob[v] /\ wtodo'[v] = wtodo[v]
                                     /\ wcur'[v] = wcur[v] /\ (v \in failing' <=> v \in failing)
      /\ UNCHANGED <<njobs, scope, status, current, total, finished, cjob, ready>>
  BY Zenon DEF Settle, GoroutineEnds, TypeInv, TypeOK, GoroutinesOK, rows, callers, broker
<1>1. OneCarrier'
  <2>1. 0 \notin ready
    BY RowTypes, ZenonT(40)
  <2>2. QED
    BY <1>0, <2>1 DEF OnceInv, OneCarrier
<1>2. WaitingInv'
  BY <1>0 DEF OnceInv, WaitingInv, Unstarted, Rows
<1>3. MidwayInv'
  <2>1. Midway(w)'
    BY <1>0, Zenon DEF Midway
  <2>2. \A v \in Workers : v # w => SameGoroutine(v)
    BY <1>0, Zenon DEF SameGoroutine, SameRow
  <2>3. QED
    BY <2>1, <2>2, MidwayKept, Zenon DEF OnceInv, MidwayInv
<1>4. ProgressConsistent'
  BY <1>0, Zenon DEF OnceInv, ProgressConsistent, Rows
<1>5. QED
  BY <1>1, <1>2, <1>3, <1>4, Zenon DEF OnceInv

-----------------------------------------------------------------------------
\* A step that changes the connection, or leaves a caller publishing without an open
\* channel, is a fault or comes after one.
LEMMA NextLink ==
  ASSUME TypeInv, LinkInv, Next, faults' = 0
  PROVE  LinkInv'
<1>0. faults \in Nat /\ DOMAIN cpc = Callers
  BY ConstantsAssumption DEF TypeInv, TypeOK, CallersOK, HistoryOK
<1>1. ASSUME NEW c \in Callers, Request(c) PROVE LinkInv'
  <2>1. /\ UNCHANGED <<link, open>> /\ cpc'[c] \in {"expire", "save"}
        /\ \A d \in Callers : d # c => cpc'[d] = cpc[d]
    BY <1>0, <1>1, Zenon DEF Request, Update, Retry, CronDo, RebuildAll, SetSpider, CallDo, broker
  <2>2. QED
    BY <2>1, Zenon DEF LinkInv
<1>2. ASSUME NEW c \in Callers, DoStep(c) PROVE LinkInv'
  <2>1. CASE SaveBinding(c) \/ ExpireStaleActiveJobs(c)
    <3>1. /\ UNCHANGED <<link, open>> /\ cpc'[c] \in {"expire", "find", "idle"}
          /\ \A d \in Callers : d # c => cpc'[d] = cpc[d]
      BY <1>0, <2>1, Zenon DEF SaveBinding, ExpireStaleActiveJobs, broker
    <3>2. QED
      BY <3>1, Zenon DEF LinkInv
  <2>2. CASE FindActiveJob(c) \/ DoError(c) \/ Publish(c)
    <3>1. /\ UNCHANGED link /\ cpc'[c] \in {"create", "idle"}
          /\ \A d \in Callers : d # c => cpc'[d] = cpc[d] /\ (d \in open => d \in open')
      BY <1>0, <2>2, Zenon DEF FindActiveJob, DoError, Publish, Return, broker, LinkInv
    <3>2. QED
      BY <3>1, Zenon DEF LinkInv
  <2>3. CASE CreateJob(c)
    <3>1. /\ UNCHANGED link /\ cpc'[c] = "publish" /\ open' = open \cup {c}
          /\ \A d \in Callers : d # c => cpc'[d] = cpc[d]
      BY <1>0, <2>3, Zenon DEF CreateJob, broker, LinkInv
    <3>2. QED
      BY <3>1, Zenon DEF LinkInv
  <2>4. CASE PublisherReconnect(c) \/ Republish(c) \/ MarkUnpublished(c)
    BY <2>4, Zenon DEF PublisherReconnect, Republish, MarkUnpublished, LinkInv
  <2>5. QED
    BY <1>2, <2>1, <2>2, <2>3, <2>4, Zenon DEF DoStep
<1>3. CASE ConsumerReconnect
  BY <1>3, Zenon DEF ConsumerReconnect, LinkInv
<1>4. ASSUME NEW w \in Workers, LoadDataStep(w) \/ \E j \in JobIds : Deliver(w, j) PROVE LinkInv'
  <2>1. UNCHANGED <<link, callers>>
    BY <1>4, ZenonT(40) DEF LoadDataStep, LoadPlatforms, StartJob, NextPlatform, FinishPlatform, FinishJob, Settle, Deliver, broker
  <2>2. QED
    BY <2>1, Zenon DEF LinkInv, callers
<1>5. CASE Environment
  <2>1. CASE Tick \/ CooldownElapses
    BY <2>1, Zenon DEF Tick, CooldownElapses, callers, broker, LinkInv
  <2>2. QED
    BY <1>0, <1>5, <2>1, SMTT(30) DEF Environment, Panic, ConnectionLost, PublishLost, BrokerRestart, Crash, Fault
<1>6. QED
  BY <1>1, <1>2, <1>3, <1>4, <1>5, Zenon DEF Next

\* Until the first fault every step keeps the account.
LEMMA NextOnce ==
  ASSUME TypeInv, UntilFault, [Next]_vars
  PROVE  UntilFault'
<1> SUFFICES ASSUME faults' = 0 PROVE LinkInv' /\ OnceInv'
  BY Zenon DEF UntilFault
<1>0. faults = 0
  <2>1. faults \in Nat
    BY ConstantsAssumption DEF TypeInv, TypeOK, HistoryOK
  <2>2. faults' = faults \/ faults' = faults + 1
    <3>1. CASE UNCHANGED vars \/ ConsumerReconnect
      BY <3>1, Zenon DEF vars, ConsumerReconnect, history
    <3>2. CASE \E c \in Callers : Request(c) \/ DoStep(c)
      <4>1. ASSUME NEW c \in Callers, DoStep(c) PROVE UNCHANGED faults
        BY <4>1, ZenonT(40) DEF DoStep, SaveBinding, ExpireStaleActiveJobs, FindActiveJob, CreateJob, DoError, Publish,
                    PublisherReconnect, Republish, MarkUnpublished, history
      <4>2. QED
        BY <3>2, <4>1, RequestQuiet, Zenon DEF history
    <3>3. CASE \E w \in Workers : (\E j \in JobIds : Deliver(w, j)) \/ LoadDataStep(w)
      BY <3>3, Zenon DEF Deliver, LoadDataStep, LoadPlatforms, StartJob, NextPlatform, FinishPlatform, FinishJob, Settle, history
    <3>4. CASE Environment
      BY <3>4, Zenon DEF Environment, Panic, ConnectionLost, PublishLost, BrokerRestart, Crash, Fault, Tick, CooldownElapses, history
    <3>5. QED
      BY <3>1, <3>2, <3>3, <3>4, Zenon DEF Next
  <2>3. QED
    BY <2>1, <2>2
<1>1. LinkInv /\ OnceInv
  BY <1>0, Zenon DEF UntilFault
<1>2. CASE UNCHANGED vars
  BY <1>1, <1>2, OnceSame, Zenon DEF vars, rows, callers, broker, goroutines, LinkInv
<1>3. CASE Next
  <2>1. LinkInv'
    BY <1>1, <1>3, NextLink, Zenon
  <2>2. ASSUME NEW c \in Callers, Request(c) PROVE OnceInv'
    <3>1. UNCHANGED <<rows, cjob, broker, goroutines>>
      BY <2>2, Zenon DEF Request, Update, Retry, CronDo, RebuildAll, SetSpider, CallDo
    <3>2. QED
      BY <1>1, <3>1, OnceSame, Zenon DEF rows, broker, goroutines
  <2>3. ASSUME NEW c \in Callers, DoStep(c) PROVE OnceInv'
    BY <1>1, <2>3, DoStepOnce, Zenon
  <2>4. ASSUME NEW w \in Workers, LoadDataStep(w) \/ \E j \in JobIds : Deliver(w, j) PROVE OnceInv'
    BY <1>1, <2>4, DeliverOnce, LoadPlatformsOnce, StartJobOnce, NextPlatformOnce, FinishPlatformOnce,
       FinishJobOnce, SettleOnce, ZenonT(40) DEF LoadDataStep
  <2>5. CASE ConsumerReconnect
    BY <1>1, <2>1, <2>5, OnceSame, ZenonT(40) DEF ConsumerReconnect, rows, goroutines
  <2>6. CASE Environment
    <3>1. CASE Tick \/ CooldownElapses
      BY <1>1, <2>1, <3>1, OnceSame, Zenon DEF Tick, CooldownElapses, rows, callers, broker, goroutines
    <3>2. QED
      BY <1>0, <2>6, <3>1, SMTT(30) DEF Environment, Panic, ConnectionLost, PublishLost, BrokerRestart, Crash, Fault
  <2>7. QED
    BY <1>3, <2>1, <2>2, <2>3, <2>4, <2>5, <2>6, ZenonT(40) DEF Next
<1>4. QED
  BY <1>2, <1>3, Zenon

\* In the loop of a full refresh the row conflicts with every platform yet to come.
LEMMA MidwayBlocks ==
  ASSUME TypeInv, OnceInv
  PROVE  FullRefreshBlocksItsPlatforms
<1> SUFFICES ASSUME NEW w \in Workers, wpc[w] \in {"load", "start", "next", "fetch"}, scope[wjob[w]] = All,
                    NEW p \in wtodo[w] \cup ({wcur[w]} \ {None})
             PROVE  ConflictCondition(wjob[w], p)
  BY Zenon DEF FullRefreshBlocksItsPlatforms
<1>0. p # All /\ finished[wjob[w]] \in Nat
  BY ConstantsAssumption, RowTypes, Zenon DEF TypeInv, TypeOK, GoroutinesOK
<1>1. CASE wpc[w] \in {"load", "start"}
  BY <1>1, ZenonT(40) DEF OnceInv, WaitingInv, Unstarted, ConflictCondition
<1>2. CASE wpc[w] = "next"
  <2>1. /\ total[wjob[w]] = finished[wjob[w]] + Cardinality(wtodo[w]) /\ wtodo[w] # {}
        /\ finished[wjob[w]] = 0 => current[wjob[w]] = All
    BY <1>2, Zenon DEF OnceInv, MidwayInv, Midway
  <2>2. Cardinality(wtodo[w]) \in Nat /\ Cardinality(wtodo[w]) # 0
    BY <2>1, TodoFinite, ZenonT(40)
  <2>3. total[wjob[w]] = 1 => finished[wjob[w]] = 0
    BY <1>0, <2>1, <2>2, SMTT(30)
  <2>4. QED
    BY <2>1, <2>3, Zenon DEF ConflictCondition
<1>3. CASE wpc[w] = "fetch"
  <2>1. total[wjob[w]] = 1 => wtodo[w] = {}
    BY <1>0, <1>3, TodoFinite, SMTT(30) DEF OnceInv, MidwayInv, Midway
  <2>2. current[wjob[w]] = wcur[w]
    BY <1>3, Zenon DEF OnceInv, MidwayInv, Midway
  <2>3. QED
    BY <1>0, <2>1, <2>2, ZenonT(40) DEF ConflictCondition
<1>4. QED
  BY <1>1, <1>2, <1>3, Zenon

\* The invariant, from Init on.
LEMMA AlwaysUntilFault == Spec => [](TypeInv /\ UntilFault)
<1>1. Init => UntilFault
  BY DEF Init, UntilFault, LinkInv, OnceInv, OneCarrier, WaitingInv, MidwayInv, Midway, ProgressConsistent, Rows
<1>2. QED
  BY <1>1, InitTypeInv, NextTypeInv, NextOnce, PTL DEF Spec

\* Until the first fault a job shows at most its total, and has finished every platform
\* it counted when it succeeds.
THEOREM ProgressIsRight == Spec => [](faults = 0 => ProgressConsistent)
<1>1. TypeInv /\ UntilFault => (faults = 0 => ProgressConsistent)
  BY Zenon DEF UntilFault, OnceInv
<1>2. QED
  BY <1>1, AlwaysUntilFault, PTL

\* Until the first fault Do refuses every platform that a full refresh has yet to fetch.
THEOREM FullRefreshBlocks == Spec => [](faults = 0 => FullRefreshBlocksItsPlatforms)
<1>1. TypeInv /\ UntilFault => (faults = 0 => FullRefreshBlocksItsPlatforms)
  BY MidwayBlocks, Zenon DEF UntilFault
<1>2. QED
  BY <1>1, AlwaysUntilFault, PTL
=============================================================================
