----------------------------- MODULE CoreProofs ------------------------------
(* The tables of core_data, for any number of users, requests, goroutines and rows. *)
(*                                                                              *)
(* Submissions, for any bound on faults and restarts: nobody gets the rows of an *)
(* account they never bound, every residue of an unbound account has one of the *)
(* known causes, and a full load whose count holds does not lose submissions.   *)
(*                                                                              *)
(* The snapshots stay bounded and the oldest go first.  Editors of bulletins stay *)
(* apart, and a reader of the list misses none.                                 *)
EXTENDS SubmitSync, FeatureSnapshots, Bulletins, TLAPS, FiniteSetTheorems

-----------------------------------------------------------------------------
(* The submissions *)

\* What a goroutine's step says about its locals: past the query it has a user and
\* accounts that user has bound, in the loop one account, and after the fetch a batch
\* of that account's submissions.
Loading == {"fetch", "count", "save", "contest", "mark"}
LoaderInv ==
    \A w \in Workers :
        /\ wpc[w] = "idle" => wtodo[w] = {}
        /\ wpc[w] # "idle" => /\ wuser[w] \in SyncUsers /\ wtodo[w] \subseteq everBound[wuser[w]]
        /\ wpc[w] \notin Loading => wacct[w] = NoSync
        /\ wpc[w] \in Loading => wacct[w] \in everBound[wuser[w]]
        /\ wpc[w] \in {"count", "save"} => wtmp[w] \subseteq SubmissionsOf(wacct[w])

\* What a SetSpider call's step says about its locals.
BinderInv ==
    /\ \A b \in Binders : bpc[b] # "idle" => buser[b] \in SyncUsers /\ bacct[b] \in Accounts
    /\ \A u \in SyncUsers : bindings[u] \subseteq everBound[u]

\* A full load that was let through and whose count still is the table's has fetched
\* at least as many submissions as the user has.
CountInv ==
    \A w \in Workers : w \in full /\ w \in counted /\ wpc[w] = "save" =>
        Cardinality(RowsOf(wuser[w])) <= Cardinality(wtmp[w])

SyncInv == SyncTypeOK /\ LoaderInv /\ BinderInv /\ Provenance /\ ResidueExplained /\ CountInv

-----------------------------------------------------------------------------
\* Init establishes the invariant.
LEMMA InitSyncInv == SyncInit => SyncInv
<1> SUFFICES ASSUME SyncInit PROVE SyncInv
  BY Zenon
<1>1. SyncTypeOK
  BY SyncAssumption DEF SyncInit, SyncTypeOK, TablesOK, StatusesOK, LoadersOK, BindersOK, HistoryOK, LoadPCs, BindPCs, MaxAttempts
<1>2. LoaderInv /\ BinderInv /\ CountInv
  BY Zenon DEF SyncInit, LoaderInv, Loading, BinderInv, CountInv
<1>3. Provenance /\ ResidueExplained
  BY SyncAssumption, Zenon DEF SyncInit, Provenance, ResidueExplained, Residue, RowsOf, StaleLoader
<1>4. QED
  BY <1>1, <1>2, <1>3, Zenon DEF SyncInv

\* LoadData's query: the goroutine holds accounts that are bound.
LEMMA ReadBindingsInv ==
  ASSUME SyncInv, NEW w \in Workers, NEW u \in SyncUsers, ReadBindings(w, u),
         full' \in SUBSET Workers,
         \A v \in Workers : v # w => (v \in full' <=> v \in full)
  PROVE  SyncInv'
<1> USE DEF SyncInv, ReadBindings, BoundBy, syncTables, statuses, loaders, binders, syncHistory
<1>1. SyncTypeOK'
  BY Zenon DEF SyncTypeOK, TablesOK, StatusesOK, LoadersOK, BindersOK, HistoryOK, LoadPCs, BindPCs
<1>2. LoaderInv'
  BY SyncAssumption DEF SyncTypeOK, TablesOK, LoadersOK, BindersOK, HistoryOK, LoaderInv, BinderInv, Loading, SubmissionsOf
<1>3. BinderInv'
  BY Zenon DEF BinderInv
<1>4. Provenance'
  BY Zenon DEF Provenance
<1>5. ResidueExplained'
  BY DEF SyncTypeOK, LoadersOK, LoaderInv, Loading, ResidueExplained, Residue, RowsOf, StaleLoader, Holds
<1>6. CountInv'
  BY DEF CountInv, RowsOf
<1>7. QED
  BY <1>1, <1>2, <1>3, <1>4, <1>5, <1>6, Zenon

\* The filter drops accounts.
LEMMA FilterRecentInv ==
  ASSUME SyncInv, NEW w \in Workers, FilterRecent(w)
  PROVE  SyncInv'
<1> USE DEF SyncInv, FilterRecent, syncTables, statuses, loaders, binders, syncHistory
<1>1. SyncTypeOK'
  BY Zenon DEF SyncTypeOK, TablesOK, StatusesOK, LoadersOK, BindersOK, HistoryOK, LoadPCs, BindPCs
<1>2. LoaderInv'
  BY Zenon DEF SyncTypeOK, LoadersOK, LoaderInv, Loading
<1>3. BinderInv'
  BY Zenon DEF BinderInv
<1>4. Provenance'
  BY Zenon DEF Provenance
<1>5. ResidueExplained'
  BY DEF ResidueExplained, Residue, RowsOf, StaleLoader, Holds
<1>6. CountInv'
  BY DEF CountInv, RowsOf
<1>7. QED
  BY <1>1, <1>2, <1>3, <1>4, <1>5, <1>6, Zenon

\* The loop takes an account.
LEMMA MarkRunningInv ==
  ASSUME SyncInv, NEW w \in Workers, NEW a \in Accounts, MarkRunning(w, a)
  PROVE  SyncInv'
<1> USE DEF SyncInv, MarkRunning, Upsert, syncTables, statuses, loaders, binders, syncHistory
<1>1. SyncTypeOK'
  BY SyncAssumption DEF SyncTypeOK, TablesOK, StatusesOK, LoadersOK, BindersOK, HistoryOK, LoadPCs, BindPCs, LoaderInv, BinderInv, Loading, SubmissionsOf, MaxAttempts, TriesAgain
<1>2. LoaderInv'
  BY Zenon DEF SyncTypeOK, LoadersOK, LoaderInv, Loading
<1>3. BinderInv'
  BY Zenon DEF BinderInv
<1>4. Provenance'
  BY Zenon DEF Provenance
<1>5. ResidueExplained'
  BY DEF ResidueExplained, Residue, RowsOf, StaleLoader, Holds
<1>6. CountInv'
  BY DEF CountInv, RowsOf
<1>7. QED
  BY <1>1, <1>2, <1>3, <1>4, <1>5, <1>6, ZenonT(40)

\* The batch is of the account that was asked for.
LEMMA FetchInv ==
  ASSUME SyncInv, NEW w \in Workers, Fetch(w)
  PROVE  SyncInv'
<1> USE DEF SyncInv, Fetch, Fault, syncTables, statuses, loaders, binders, syncHistory
<1>1. SyncTypeOK'
  BY SyncAssumption, SMTT(30) DEF SyncTypeOK, TablesOK, StatusesOK, LoadersOK, BindersOK, HistoryOK, LoadPCs, BindPCs, LoaderInv, BinderInv, Loading, SubmissionsOf, MaxAttempts, TriesAgain
<1>2. LoaderInv'
  BY DEF SyncTypeOK, LoadersOK, LoaderInv, Loading
<1>3. BinderInv'
  BY Zenon DEF BinderInv
<1>4. Provenance'
  BY Zenon DEF Provenance
<1>5. ResidueExplained'
  BY DEF ResidueExplained, Residue, RowsOf, StaleLoader, Holds
<1>6. CountInv'
  BY ZenonT(40) DEF SyncTypeOK, LoadersOK, CountInv, RowsOf
<1>7. QED
  BY <1>1, <1>2, <1>3, <1>4, <1>5, <1>6, ZenonT(40)

\* The fetch fails.
LEMMA FetchErrorInv ==
  ASSUME SyncInv, NEW w \in Workers, FetchError(w)
  PROVE  SyncInv'
<1> USE DEF SyncInv, FetchError, Fails, Fault, syncTables, statuses, loaders, binders, syncHistory
<1>1. SyncTypeOK'
  BY SyncAssumption, SMTT(30) DEF SyncTypeOK, TablesOK, StatusesOK, LoadersOK, BindersOK, HistoryOK, LoadPCs, BindPCs
<1>2. LoaderInv'
  BY DEF SyncTypeOK, LoadersOK, LoaderInv, Loading
<1>3. BinderInv'
  BY Zenon DEF BinderInv
<1>4. Provenance'
  BY Zenon DEF Provenance
<1>5. ResidueExplained'
  BY DEF ResidueExplained, Residue, RowsOf, StaleLoader, Holds
<1>6. CountInv'
  BY DEF CountInv, RowsOf
<1>7. QED
  BY <1>1, <1>2, <1>3, <1>4, <1>5, <1>6, Zenon

\* The count lets the batch through, or rejects it.
LEMMA CountExistingInv ==
  ASSUME SyncInv, NEW w \in Workers, CountExisting(w)
  PROVE  SyncInv'
<1> USE DEF SyncInv, CountExisting, Fails, syncTables, statuses, loaders, binders, syncHistory
<1>1. SyncTypeOK'
  BY SMTT(30) DEF SyncTypeOK, TablesOK, StatusesOK, LoadersOK, BindersOK, HistoryOK, LoadPCs, BindPCs
<1>2. LoaderInv'
  BY DEF SyncTypeOK, LoadersOK, LoaderInv, Loading
<1>3. BinderInv'
  BY Zenon DEF BinderInv
<1>4. Provenance'
  BY Zenon DEF Provenance
<1>5. ResidueExplained'
  BY DEF SyncTypeOK, LoadersOK, ResidueExplained, Residue, RowsOf, StaleLoader, Holds
<1>6. CountInv'
  <2>1. ASSUME NEW v \in Workers, v # w PROVE wpc'[v] = wpc[v] /\ (v \in counted' <=> v \in counted)
    BY <2>1, Zenon DEF SyncTypeOK, LoadersOK, Fails
  <2>2. CASE wpc'[w] = "save"
    <3>1. ~RejectIncomplete(Cardinality(wtmp[w]), Cardinality(RowsOf(wuser[w])))
      BY <2>2, Zenon DEF SyncTypeOK, LoadersOK, Fails
    <3>2. /\ Cardinality(wtmp[w]) \in Nat
          /\ Cardinality(RowsOf(wuser[w])) \in Nat
      BY SyncAssumption, FS_Subset, FS_CardinalityType, Zenon DEF SyncTypeOK, LoadersOK, RowsOf
    <3>3. Cardinality(RowsOf(wuser[w])) <= Cardinality(wtmp[w])
      BY <3>1, <3>2 DEF RejectIncomplete
    <3>4. QED
      BY <2>1, <3>3, Zenon DEF CountInv, RowsOf
  <2>3. CASE wpc'[w] # "save"
    BY <2>1, <2>3, Zenon DEF CountInv, RowsOf
  <2>4. QED
    BY <2>2, <2>3, Zenon
<1>7. QED
  BY <1>1, <1>2, <1>3, <1>4, <1>5, <1>6, Zenon

\* The transaction rolls back.
LEMMA SaveErrorInv ==
  ASSUME SyncInv, NEW w \in Workers, SaveError(w)
  PROVE  SyncInv'
<1> USE DEF SyncInv, SaveError, Fails, Fault, syncTables, statuses, loaders, binders, syncHistory
<1>1. SyncTypeOK'
  BY SyncAssumption, SMTT(30) DEF SyncTypeOK, TablesOK, StatusesOK, LoadersOK, BindersOK, HistoryOK, LoadPCs, BindPCs
<1>2. LoaderInv'
  BY DEF SyncTypeOK, LoadersOK, LoaderInv, Loading
<1>3. BinderInv'
  BY Zenon DEF BinderInv
<1>4. Provenance'
  BY ZenonT(40) DEF Provenance
<1>5. ResidueExplained'
  BY DEF ResidueExplained, Residue, RowsOf, StaleLoader, Holds
<1>6. CountInv'
  BY DEF CountInv, RowsOf
<1>7. QED
  BY <1>1, <1>2, <1>3, <1>4, <1>5, <1>6, ZenonT(40)

\* A retry stays below maxRetries.
LEMMA RetryBound ==
  ASSUME SyncTypeOK, NEW w \in Workers, TriesAgain(w)
  PROVE  wtries[w] + 1 \in 0..MaxAttempts - 1
<1>1. wtries[w] \in 0..MaxAttempts - 1 /\ wtries[w] + 1 < MaxAttempts
  BY Zenon DEF SyncTypeOK, LoadersOK, TriesAgain
<1>2. MaxAttempts \in Nat
  BY SyncAssumption DEF MaxAttempts
<1>3. QED
  BY <1>1, <1>2

\* The contest result is of the account being loaded.
LEMMA SaveContestsInv ==
  ASSUME SyncInv, NEW w \in Workers, SaveContests(w)
  PROVE  SyncInv'
<1> USE DEF SyncInv, SaveContests, syncTables, statuses, loaders, binders, syncHistory
<1>1. SyncTypeOK'
  <2>1. wacct[w] \in Accounts \cup {NoSync}
    BY Zenon DEF SyncTypeOK, LoadersOK
  <2>0. TablesOK'
    BY <2>1, Zenon DEF SyncTypeOK, TablesOK
  <2>2. wpc' \in [Workers -> LoadPCs] /\ werr' \in [Workers -> {"none", "retry", "final"}]
    BY DEF SyncTypeOK, LoadersOK, LoadPCs
  <2>3. wtries' \in [Workers -> 0..MaxAttempts - 1]
    <3>1. wtries \in [Workers -> 0..MaxAttempts - 1]
      BY Zenon DEF SyncTypeOK, LoadersOK
    <3>2. CASE TriesAgain(w)
      <4>1. wtries[w] + 1 \in 0..MaxAttempts - 1
        BY <3>2, RetryBound, Zenon
      <4>2. wtries' = [wtries EXCEPT ![w] = @ + 1]
        BY <3>2, Zenon
      <4>3. QED
        BY <3>1, <4>1, <4>2, Zenon
    <3>3. CASE ~TriesAgain(w)
      BY <3>1, <3>3, Zenon
    <3>4. QED
      BY <3>2, <3>3, Zenon
  <2>4. LoadersOK'
    BY <2>2, <2>3, Zenon DEF SyncTypeOK, LoadersOK
  <2>5. StatusesOK' /\ BindersOK' /\ HistoryOK'
    BY Zenon DEF SyncTypeOK, StatusesOK, BindersOK, HistoryOK
  <2>6. QED
    BY <2>0, <2>4, <2>5, Zenon DEF SyncTypeOK
<1>2. LoaderInv'
  BY DEF SyncTypeOK, LoadersOK, LoaderInv, Loading
<1>3. BinderInv'
  BY ZenonT(40) DEF BinderInv
<1>4. Provenance'
  BY SyncAssumption, SMTT(30) DEF SyncTypeOK, TablesOK, LoadersOK, HistoryOK, LoaderInv, BinderInv, Loading, SubmissionsOf, Provenance, Cleaned
<1>5. ResidueExplained'
  BY DEF SyncTypeOK, LoadersOK, ResidueExplained, Residue, RowsOf, StaleLoader, Holds
<1>6. CountInv'
  BY ZenonT(40) DEF SyncTypeOK, LoadersOK, CountInv, RowsOf
<1>7. QED
  BY <1>1, <1>2, <1>3, <1>4, <1>5, <1>6, Zenon

\* The account is done with.
LEMMA MarkResultInv ==
  ASSUME SyncInv, NEW w \in Workers, MarkResult(w)
  PROVE  SyncInv'
<1> USE DEF SyncInv, MarkResult, MarkOutcome, Upsert, syncTables, statuses, loaders, binders, syncHistory
<1>1. SyncTypeOK'
  BY SyncAssumption DEF SyncTypeOK, TablesOK, StatusesOK, LoadersOK, BindersOK, HistoryOK, LoadPCs, BindPCs, LoaderInv, BinderInv, Loading, SubmissionsOf, MaxAttempts, TriesAgain
<1>2. LoaderInv'
  BY Zenon DEF SyncTypeOK, LoadersOK, LoaderInv, Loading
<1>3. BinderInv'
  BY Zenon DEF BinderInv
<1>4. Provenance'
  BY Zenon DEF Provenance
<1>5. ResidueExplained'
  BY SMTT(30) DEF ResidueExplained, Residue, RowsOf, StaleLoader, Holds
<1>6. CountInv'
  BY DEF CountInv, RowsOf
<1>7. QED
  BY <1>1, <1>2, <1>3, <1>4, <1>5, <1>6, Zenon

\* The goroutine ends with nothing in hand.
LEMMA EndLoadInv ==
  ASSUME SyncInv, NEW w \in Workers, EndLoad(w)
  PROVE  SyncInv'
<1> USE DEF SyncInv, EndLoad, syncTables, statuses, loaders, binders, syncHistory
<1>1. SyncTypeOK'
  BY Zenon DEF SyncTypeOK, TablesOK, StatusesOK, LoadersOK, BindersOK, HistoryOK, LoadPCs, BindPCs
<1>2. LoaderInv'
  BY Zenon DEF SyncTypeOK, LoadersOK, LoaderInv, Loading
<1>3. BinderInv'
  BY Zenon DEF BinderInv
<1>4. Provenance'
  BY Zenon DEF Provenance
<1>5. ResidueExplained'
  BY DEF SyncTypeOK, LoadersOK, ResidueExplained, Residue, RowsOf, StaleLoader, Holds
<1>6. CountInv'
  BY DEF CountInv, RowsOf
<1>7. QED
  BY <1>1, <1>2, <1>3, <1>4, <1>5, <1>6, Zenon

\* A SetSpider call looks up the binding.
LEMMA SetSpiderInv ==
  ASSUME SyncInv, NEW b \in Binders, NEW u \in SyncUsers, NEW a \in Accounts, SetSpider(b, u, a)
  PROVE  SyncInv'
<1> USE DEF SyncInv, SetSpider, syncTables, statuses, loaders, binders, syncHistory
<1>1. SyncTypeOK'
  BY DEF SyncTypeOK, TablesOK, StatusesOK, LoadersOK, BindersOK, HistoryOK, LoadPCs, BindPCs
<1>2. LoaderInv'
  BY Zenon DEF LoaderInv
<1>3. BinderInv'
  BY Zenon DEF SyncTypeOK, BindersOK, BinderInv
<1>4. Provenance'
  BY Zenon DEF Provenance
<1>5. ResidueExplained'
  BY DEF ResidueExplained, Residue, RowsOf, StaleLoader, Holds
<1>6. CountInv'
  BY Zenon DEF CountInv, RowsOf
<1>7. QED
  BY <1>1, <1>2, <1>3, <1>4, <1>5, <1>6, ZenonT(40)

\* The status of the old account is deleted.
LEMMA DeleteStatusInv ==
  ASSUME SyncInv, NEW b \in Binders, DeleteStatus(b)
  PROVE  SyncInv'
<1> USE DEF SyncInv, DeleteStatus, SyncGoto, Fault, syncTables, statuses, loaders, binders, syncHistory
<1>1. SyncTypeOK'
  <2>1. TablesOK' /\ LoadersOK'
    BY Zenon DEF SyncTypeOK, TablesOK, LoadersOK
  <2>2. StatusesOK'
    BY Zenon DEF SyncTypeOK, StatusesOK
  <2>3. BindersOK'
    BY Zenon DEF SyncTypeOK, BindersOK, BindPCs
  <2>4. faults' \in 0..MaxFaults
    BY SyncAssumption DEF SyncTypeOK, HistoryOK
  <2>5. QED
    BY <2>1, <2>2, <2>3, <2>4, Zenon DEF SyncTypeOK, HistoryOK
<1>2. LoaderInv'
  BY Zenon DEF LoaderInv
<1>3. BinderInv'
  BY Zenon DEF SyncTypeOK, BindersOK, BinderInv
<1>4. Provenance'
  BY Zenon DEF Provenance
<1>5. ResidueExplained'
  BY DEF ResidueExplained, Residue, RowsOf, StaleLoader, Holds
<1>6. CountInv'
  BY Zenon DEF CountInv, RowsOf
<1>7. QED
  BY <1>1, <1>2, <1>3, <1>4, <1>5, <1>6, Zenon

\* The binding is deleted: from here on the call is between its two deletions.
LEMMA DeletePlatformInv ==
  ASSUME SyncInv, NEW b \in Binders, DeletePlatform(b)
  PROVE  SyncInv'
<1> USE DEF SyncInv, DeletePlatform, SyncGoto, Fault, syncTables, statuses, loaders, binders, syncHistory
<1>1. SyncTypeOK'
  BY SyncAssumption DEF SyncTypeOK, TablesOK, StatusesOK, LoadersOK, BindersOK, HistoryOK, LoadPCs, BindPCs
<1>2. LoaderInv'
  BY Zenon DEF LoaderInv
<1>3. BinderInv'
  BY ZenonT(40) DEF SyncTypeOK, TablesOK, BindersOK, HistoryOK, BinderInv
<1>4. Provenance'
  BY Zenon DEF Provenance
<1>5. ResidueExplained'
  BY ZenonT(40) DEF SyncTypeOK, TablesOK, BindersOK, ResidueExplained, Residue, RowsOf, StaleLoader, Holds
<1>6. CountInv'
  BY Zenon DEF CountInv, RowsOf
<1>7. QED
  BY <1>1, <1>2, <1>3, <1>4, <1>5, <1>6, ZenonT(40)

\* The rows are deleted, or the clean-up is recorded as overtaken.
LEMMA DeleteSubmitsInv ==
  ASSUME SyncInv, NEW b \in Binders, DeleteSubmits(b)
  PROVE  SyncInv'
<1> USE DEF SyncInv, DeleteSubmits, SyncGoto, Fault, syncTables, statuses, loaders, binders, syncHistory
<1>1. SyncTypeOK'
  BY SyncAssumption DEF SyncTypeOK, TablesOK, StatusesOK, LoadersOK, BindersOK, HistoryOK, LoadPCs, BindPCs, LoaderInv, BinderInv, Loading, SubmissionsOf, MaxAttempts, TriesAgain
<1>2. LoaderInv'
  BY Zenon DEF LoaderInv
<1>3. BinderInv'
  BY DEF BinderInv
<1>4. Provenance'
  BY Zenon DEF Provenance
<1>5. ResidueExplained'
  <2> SUFFICES ASSUME NEW u \in SyncUsers, Residue(u)' # {} \/ StaleLoader(u)', u \notin overtaken'
               PROVE  \E c \in Binders : bpc'[c] = "submits" /\ buser'[c] = u
    BY Zenon DEF ResidueExplained
  <2>1. StaleLoader(u)' <=> StaleLoader(u)
    BY Zenon DEF StaleLoader, Holds
  <2>2. Residue(u)' \subseteq Residue(u)
    BY SyncAssumption, Zenon DEF SyncTypeOK, TablesOK, Residue, RowsOf, Cleaned
  <2>3. buser[b] # u
    <3> SUFFICES ASSUME buser[b] = u PROVE FALSE
      BY Zenon
    <3>1. ~StaleLoader(u) /\ \A s \in Submissions : rowOwner'[s] # u
      BY SyncAssumption, Zenon DEF SyncTypeOK, TablesOK, RowsOf, Cleaned
    <3>2. QED
      BY <2>1, <3>1, Zenon DEF Residue, RowsOf
  <2>4. PICK c \in Binders : bpc[c] = "submits" /\ buser[c] = u
    BY <2>1, <2>2, Zenon DEF ResidueExplained
  <2>5. QED
    BY <2>3, <2>4, Zenon DEF SyncTypeOK, BindersOK
<1>6. CountInv'
  BY Zenon DEF CountInv, RowsOf
<1>7. QED
  BY <1>1, <1>2, <1>3, <1>4, <1>5, <1>6, Zenon

\* The new binding is saved.
LEMMA SavePlatformInv ==
  ASSUME SyncInv, NEW b \in Binders, SavePlatform(b)
  PROVE  SyncInv'
<1> USE DEF SyncInv, SavePlatform, Done, Fault, syncTables, statuses, loaders, binders, syncHistory
<1>1. SyncTypeOK'
  BY SyncAssumption, SMTT(30) DEF SyncTypeOK, TablesOK, StatusesOK, LoadersOK, BindersOK, HistoryOK, LoadPCs, BindPCs, LoaderInv, BinderInv, Loading, SubmissionsOf, MaxAttempts, TriesAgain
<1>2. LoaderInv'
  BY SyncAssumption, SMTT(30) DEF SyncTypeOK, TablesOK, LoadersOK, BindersOK, HistoryOK, LoaderInv, BinderInv, Loading, SubmissionsOf
<1>3. BinderInv'
  BY DEF SyncTypeOK, TablesOK, BindersOK, HistoryOK, BinderInv
<1>4. Provenance'
  BY SMTT(30) DEF SyncTypeOK, TablesOK, HistoryOK, Provenance
<1>5. ResidueExplained'
  BY DEF SyncTypeOK, TablesOK, BindersOK, ResidueExplained, Residue, RowsOf, StaleLoader, Holds
<1>6. CountInv'
  BY Zenon DEF CountInv, RowsOf
<1>7. QED
  BY <1>1, <1>2, <1>3, <1>4, <1>5, <1>6, ZenonT(40)

\* The transaction stores the batch under the goroutine's user.
LEMMA SaveSubmitsInv ==
  ASSUME SyncInv, NEW w \in Workers, SaveSubmits(w)
  PROVE  SyncInv'
<1> USE DEF SyncInv, SaveSubmits, syncTables, statuses, loaders, binders, syncHistory
<1>1. SyncTypeOK'
  BY ZenonT(40) DEF SyncTypeOK, TablesOK, StatusesOK, LoadersOK, BindersOK, HistoryOK, LoadPCs, BindPCs
<1>2. LoaderInv'
  BY DEF SyncTypeOK, LoadersOK, LoaderInv, Loading
<1>3. BinderInv'
  BY ZenonT(40) DEF BinderInv
<1>4. Provenance'
  BY SyncAssumption DEF SyncTypeOK, TablesOK, LoadersOK, HistoryOK, LoaderInv, BinderInv, Loading, SubmissionsOf, Provenance, Cleaned
<1>5. ResidueExplained'
  <2> SUFFICES ASSUME NEW u \in SyncUsers, Residue(u)' # {} \/ StaleLoader(u)'
               PROVE  Residue(u) # {} \/ StaleLoader(u)
    BY Zenon DEF ResidueExplained
  <2>1. StaleLoader(u)' => StaleLoader(u)
    BY Zenon DEF SyncTypeOK, LoadersOK, StaleLoader, Holds
  <2>2. ASSUME NEW s \in Residue(u)' PROVE s \in Residue(u) \/ StaleLoader(u)
    <3>1. s \in Submissions /\ rowOwner'[s] = u /\ AccountOf[s] \notin bindings[u]
      BY <2>2, Zenon DEF Residue, RowsOf
    <3>2. CASE s \in wtmp[w]
      <4>1. wuser[w] = u /\ AccountOf[s] = wacct[w] /\ wacct[w] # NoSync
        BY <3>1, <3>2, SyncAssumption DEF LoaderInv, Loading, SubmissionsOf
      <4>2. QED
        BY <3>1, <4>1, ZenonT(40) DEF StaleLoader, Holds
    <3>3. CASE s \notin wtmp[w]
      BY <3>1, <3>3, SyncAssumption, Zenon DEF Residue, RowsOf
    <3>4. QED
      BY <3>2, <3>3, Zenon
  <2>3. QED
    BY <2>1, <2>2, Zenon
<1>6. CountInv'
  BY Zenon DEF CountInv, RowsOf
<1>7. QED
  BY <1>1, <1>2, <1>3, <1>4, <1>5, <1>6, Zenon

\* Goroutines, batches and calls are gone; a call between its two deletions is
\* recorded as overtaken.
LEMMA SyncRestartInv ==
  ASSUME SyncInv, SyncRestart
  PROVE  SyncInv'
<1> USE DEF SyncInv, SyncRestart, syncTables, statuses
<1>1. SyncTypeOK'
  BY SyncAssumption DEF SyncTypeOK, TablesOK, StatusesOK, LoadersOK, BindersOK, HistoryOK, LoadPCs, BindPCs, MaxAttempts
<1>2. LoaderInv' /\ BinderInv' /\ CountInv'
  BY Zenon DEF LoaderInv, Loading, BinderInv, CountInv
<1>3. Provenance'
  BY Zenon DEF Provenance
<1>4. ResidueExplained'
  BY Zenon DEF ResidueExplained, Residue, RowsOf, StaleLoader
<1>5. QED
  BY <1>1, <1>2, <1>3, <1>4, ZenonT(40)

\* Nothing the invariant speaks of changes when a window passes, or when nothing does.
LEMMA WindowElapsesInv ==
  ASSUME SyncInv, WindowElapses \/ UNCHANGED syncVars
  PROVE  SyncInv'
<1>1. UNCHANGED <<bindings, rowOwner, contest, syncUser, syncStatus, loaders, binders, syncHistory>>
      /\ started' \subseteq started
  BY Zenon DEF WindowElapses, syncVars, syncTables, statuses
<1> USE <1>1 DEF SyncInv, loaders, binders, syncHistory
<1>2. SyncTypeOK'
  BY Zenon DEF SyncTypeOK, TablesOK, StatusesOK, LoadersOK, BindersOK, HistoryOK
<1>3. LoaderInv' /\ BinderInv' /\ CountInv'
  BY Zenon DEF LoaderInv, BinderInv, CountInv, RowsOf
<1>4. Provenance' /\ ResidueExplained'
  BY Zenon DEF Provenance, ResidueExplained, Residue, RowsOf, StaleLoader, Holds
<1>5. QED
  BY <1>2, <1>3, <1>4, Zenon

-----------------------------------------------------------------------------
\* Every step keeps the invariant.
LEMMA NextSyncInv == SyncInv /\ [SyncNext]_syncVars => SyncInv'
<1> SUFFICES ASSUME SyncInv, [SyncNext]_syncVars PROVE SyncInv'
  BY Zenon
<1>1. ASSUME NEW w \in Workers, NEW u \in SyncUsers, LoadData(w, u) \/ LoadAllData(w, u) PROVE SyncInv'
  BY <1>1, ReadBindingsInv, Zenon DEF LoadData, LoadAllData, SyncInv, SyncTypeOK, LoadersOK
<1>2. ASSUME NEW w \in Workers, LoadStep(w) PROVE SyncInv'
  BY <1>2, FilterRecentInv, MarkRunningInv, FetchInv, FetchErrorInv, CountExistingInv, SaveSubmitsInv,
     SaveErrorInv, SaveContestsInv, MarkResultInv, EndLoadInv, Zenon DEF LoadStep
<1>3. ASSUME NEW b \in Binders, BindStep(b) PROVE SyncInv'
  BY <1>3, DeleteStatusInv, DeletePlatformInv, DeleteSubmitsInv, SavePlatformInv, Zenon DEF BindStep
<1>4. QED
  BY <1>1, <1>2, <1>3, SetSpiderInv, SyncRestartInv, WindowElapsesInv, Zenon DEF SyncNext

\* SyncInv is an invariant of the specification.
LEMMA SyncInvariant == SyncSpec => []SyncInv
<1> QED
  BY InitSyncInv, NextSyncInv, PTL DEF SyncSpec

\* However loads and rebindings interleave, fail and restart, fetchAndSave stores
\* under a user only rows and contest results of accounts this user has bound.
THEOREM NoStrangersRows == SyncSpec => []Provenance
<1>1. SyncInv => Provenance
  BY Zenon DEF SyncInv
<1> QED
  BY <1>1, SyncInvariant, PTL

\* Rows of an unbound account, or a goroutine about to write some, exist only during
\* SetSpider's clean-up or after one that failed, was cut short, or was overtaken.
THEOREM ResidueHasACause == SyncSpec => []ResidueExplained
<1>1. SyncInv => ResidueExplained
  BY Zenon DEF SyncInv
<1> QED
  BY <1>1, SyncInvariant, PTL

\* The step of FullLoadKeepsCount, without its box.
KeepsCount ==
    \A w \in Workers :
        w \in full /\ w \in counted /\ wpc[w] = "save" /\ wpc'[w] = "contest" /\ werr'[w] = "none"
            => Cardinality(RowsOf(wuser[w])') >= Cardinality(RowsOf(wuser[w]))

\* A goroutine leaves "save" without an error only by its own transaction.
LEMMA OnlySaveSubmits ==
  ASSUME SyncInv, SyncNext, NEW w \in Workers, wpc[w] = "save", wpc'[w] = "contest", werr'[w] = "none"
  PROVE  SaveSubmits(w)
<1> USE DEF SyncInv, SyncTypeOK, LoadersOK
<1>1. ASSUME NEW v \in Workers, NEW u \in SyncUsers, LoadData(v, u) \/ LoadAllData(v, u) PROVE FALSE
  BY <1>1, Zenon DEF LoadData, LoadAllData, ReadBindings
<1>2. ASSUME NEW v \in Workers, LoadStep(v) PROVE SaveSubmits(w)
  <2>1. CASE FilterRecent(v) \/ (\E a \in Accounts : MarkRunning(v, a)) \/ Fetch(v) \/ FetchError(v) \/ CountExisting(v)
    BY <2>1, Zenon DEF FilterRecent, MarkRunning, Fetch, FetchError, CountExisting, Fails
  <2>2. CASE SaveSubmits(v)
    BY <2>2, Zenon DEF SaveSubmits
  <2>3. CASE SaveError(v)
    BY <2>3, Zenon DEF SaveError, Fails
  <2>4. CASE SaveContests(v) \/ MarkResult(v) \/ EndLoad(v)
    BY <2>4, Zenon DEF SaveContests, MarkResult, EndLoad
  <2>5. QED
    BY <1>2, <2>1, <2>2, <2>3, <2>4, Zenon DEF LoadStep
<1>3. ASSUME NEW b \in Binders, BindStep(b) PROVE FALSE
  BY <1>3, Zenon DEF BindStep, DeleteStatus, DeletePlatform, DeleteSubmits, SavePlatform, loaders
<1>4. ASSUME NEW b \in Binders, NEW u \in SyncUsers, NEW a \in Accounts, SetSpider(b, u, a) PROVE FALSE
  BY <1>4, Zenon DEF SetSpider, loaders
<1>5. ~SyncRestart /\ ~WindowElapses
  BY Zenon DEF SyncRestart, WindowElapses, loaders
<1>6. QED
  BY <1>1, <1>2, <1>3, <1>4, <1>5, Zenon DEF SyncNext

\* The transaction of a full load leaves the user exactly the batch, and the batch is
\* as large as the rows that were counted.
LEMMA SaveKeepsCount == SyncInv /\ [SyncNext]_syncVars => [KeepsCount]_syncVars
<1> SUFFICES ASSUME SyncInv, SyncNext, NEW w \in Workers, w \in full, w \in counted,
                    wpc[w] = "save", wpc'[w] = "contest", werr'[w] = "none"
             PROVE  Cardinality(RowsOf(wuser[w])') >= Cardinality(RowsOf(wuser[w]))
  BY Zenon DEF KeepsCount
<1>1. SaveSubmits(w)
  BY OnlySaveSubmits, Zenon
<1>2. wuser[w] \in SyncUsers /\ wuser[w] # NoSync /\ wtmp[w] \subseteq Submissions
  BY SyncAssumption, Zenon DEF SyncInv, LoaderInv, SyncTypeOK, LoadersOK
<1>3. RowsOf(wuser[w])' = wtmp[w]
  BY <1>1, <1>2, Zenon DEF SaveSubmits, RowsOf
<1>4. /\ Cardinality(wtmp[w]) \in Nat
      /\ Cardinality(RowsOf(wuser[w])) \in Nat
  BY <1>2, SyncAssumption, FS_Subset, FS_CardinalityType, Zenon DEF RowsOf
<1>5. Cardinality(RowsOf(wuser[w])) <= Cardinality(wtmp[w])
  BY Zenon DEF SyncInv, CountInv
<1>6. QED
  BY <1>3, <1>4, <1>5, Zenon

\* A full load whose count is still the table's when its transaction commits leaves
\* the user at least as many submissions as before (rejectIncompleteFullFetch).
THEOREM FullLoadKeeps == SyncSpec => FullLoadKeepsCount
<1>1. SyncInv /\ [SyncNext]_syncVars => [KeepsCount]_syncVars
  BY SaveKeepsCount, Zenon
<1>2. SyncSpec => [][KeepsCount]_syncVars
  BY <1>1, SyncInvariant, PTL DEF SyncSpec
<1> QED
  BY <1>2, Zenon DEF FullLoadKeepsCount, KeepsCount

-----------------------------------------------------------------------------
(* The snapshots *)

SnapTypes ==
    /\ snapClock \in Nat /\ lastCleanup \in 0..snapClock /\ nextId \in Nat \ {0} /\ fresh \in Nat
    /\ snaps \in [Slots -> SUBSET [id : 1..(nextId - 1), gen : 0..snapClock]]
    /\ cleaner \in [pc : {"no", "count", "pick", "delete"}, overflow : Nat, victims : SUBSET Nat, start : 0..snapClock]
    /\ saver \in [Savers -> [pc : {"idle", "write"}, slot : SUBSET Slots, found : SUBSET Nat]]

\* A slot has one row at most, and no id is given twice.
IdsInv ==
    /\ \A s \in Slots : \A x, y \in snaps[s] : x = y
    /\ \A s, t \in Slots : s # t => \A x \in snaps[s], y \in snaps[t] : x.id # y.id

Ids(f) == UNION {{x.id : x \in f[s]} : s \in Slots}

\* What a cleanup has yet to delete: everything above KeepRows, but for the rows that
\* were created since it began.  Saving changes rows, not ids: it is ids that are counted.
KeepInv ==
    /\ cleaner.pc = "no" => Cardinality(Ids(snaps)) <= MaxRows + fresh
    /\ cleaner.pc = "pick" => Cardinality(Ids(snaps)) <= cleaner.overflow + KeepRows + fresh
    /\ cleaner.pc = "delete" =>
          cleaner.victims \subseteq Ids(snaps) /\ Cardinality(Ids(snaps)) <= Cardinality(cleaner.victims) + KeepRows + fresh

\* The ids that were picked are still those of the oldest rows, but for what was saved
\* since the cleanup began.
OldInv ==
    cleaner.pc = "delete" =>
       \A s, t \in Slots : \A d \in snaps[s], k \in snaps[t] :
          d.id \in cleaner.victims /\ k.id \notin cleaner.victims /\ d.gen < cleaner.start => d.gen <= k.gen

SnapInv == SnapTypes /\ IdsInv /\ KeepInv /\ OldInv

-----------------------------------------------------------------------------
\* The smaller one of two numbers.
LEMMA MinOfTwo ==
    ASSUME NEW a \in Nat, NEW b \in Nat PROVE Min({a, b}) = IF a <= b THEN a ELSE b
BY DEF Min

\* The ids are below the next one, and there are as many as rows.
LEMMA IdsFinite ==
    ASSUME SnapTypes PROVE IsFiniteSet(Ids(snaps)) /\ Ids(snaps) \subseteq 1..(nextId - 1)
<1>1. Ids(snaps) \subseteq 1..(nextId - 1)
    BY DEF SnapTypes, Ids
<1>2. nextId - 1 \in Int
    BY DEF SnapTypes
<1>3. IsFiniteSet(1..(nextId - 1))
    BY <1>2, FS_Interval
<1> QED BY <1>1, <1>3, FS_Subset, Zenon

\* There are as many rows as ids.
LEMMA AsManyIds ==
    ASSUME SnapTypes, IdsInv
    PROVE  /\ IsFiniteSet(SnapRows) /\ Cardinality(SnapRows) = Cardinality(Ids(snaps))
           /\ \A V \in SUBSET SnapRows : Cardinality({v.id : v \in V}) = Cardinality(V)
<1> DEFINE idOf(V) == [v \in V |-> v.id]
<1>1. \A x, y \in SnapRows : x.id = y.id => x = y
    BY DEF SnapRows, IdsInv, SnapTypes
<1>2. Ids(snaps) = {v.id : v \in SnapRows}
    BY DEF SnapRows, Ids
<1>3. idOf(SnapRows) \in Injection(SnapRows, Ids(snaps))
    BY <1>1, <1>2, Zenon DEF Injection, IsInjective
<1>4. IsFiniteSet(SnapRows)
    BY <1>3, IdsFinite, FS_Injection, Zenon
<1>5. ASSUME NEW V \in SUBSET SnapRows PROVE Cardinality({v.id : v \in V}) = Cardinality(V)
  <2>1. IsFiniteSet(V)
    BY <1>4, FS_Subset, Zenon
  <2>2. idOf(V) \in Bijection(V, {v.id : v \in V})
    BY <1>1, Zenon DEF Bijection, Injection, Surjection, IsInjective
  <2> QED BY <2>1, <2>2, FS_Bijection, Zenon DEF ExistsBijection
<1> QED BY <1>2, <1>4, <1>5, Zenon

-----------------------------------------------------------------------------
\* The invariant holds on an empty table.
LEMMA InitSnapInv == SnapInit => SnapInv
<1> SUFFICES ASSUME SnapInit PROVE SnapInv
    BY Zenon
<1>1. Ids(snaps) = {}
    BY Zenon DEF SnapInit, Ids
<1>2. SnapTypes
    BY SnapshotConstants, SMTT(30) DEF SnapInit, SnapTypes, NoCleanup, Idle
<1>3. KeepInv
  <2>1. cleaner.pc = "no" /\ Cardinality(Ids(snaps)) = 0 /\ fresh = 0
    BY <1>1, FS_EmptySet, ZenonT(40) DEF SnapInit, NoCleanup
  <2> QED BY <2>1, SnapshotConstants DEF KeepInv
<1> QED BY <1>2, <1>3, Zenon DEF SnapInit, SnapInv, IdsInv, OldInv, NoCleanup

\* A tick.
LEMMA SnapTickInv == ASSUME SnapInv, SnapTick PROVE SnapInv'
<1>1. SnapTypes'
    BY DEF SnapInv, SnapTick, SnapTypes
<1> QED BY <1>1 DEF SnapInv, SnapTick, IdsInv, KeepInv, OldInv, Ids

\* The cleanup begins and deletes the expired rows.
LEMMA CleanupInv == ASSUME SnapInv, Cleanup PROVE SnapInv'
<1>0. cleaner' = [pc |-> "count", overflow |-> 0, victims |-> {}, start |-> snapClock]
    BY Zenon DEF Cleanup, NoCleanup
<1>1. SnapTypes'
    BY <1>0 DEF SnapInv, Cleanup, SnapTypes
<1> QED BY <1>1 DEF SnapInv, Cleanup, IdsInv, KeepInv, OldInv, Ids, SnapTypes, NoCleanup

\* It counts: what is above the limit is to go down to KeepRows.
LEMMA CountRowsInv == ASSUME SnapInv, CountRows PROVE SnapInv'
<1>1. Cardinality(SnapRows) = Cardinality(Ids(snaps)) /\ Cardinality(Ids(snaps)) \in Nat
    BY AsManyIds, IdsFinite, FS_CardinalityType, Zenon DEF SnapInv
<1>0. Overflow(Cardinality(SnapRows)) \in Nat
    BY <1>1, SnapshotConstants DEF Overflow
<1>2. SnapTypes'
  <2> DEFINE n == Overflow(Cardinality(SnapRows))
  <2> HIDE DEF n
  <2>1. cleaner' = IF n = 0 THEN NoCleanup ELSE [cleaner EXCEPT !.pc = "pick", !.overflow = n]
    BY Zenon DEF CountRows, n
  <2>2. n \in Nat
    BY <1>0, Zenon DEF n
  <2>3. cleaner' \in [pc : {"no", "count", "pick", "delete"}, overflow : Nat, victims : SUBSET Nat, start : 0..snapClock]
    <3>1. CASE n = 0
        BY <2>1, <3>1 DEF SnapInv, SnapTypes, NoCleanup
    <3>2. CASE n # 0
        BY <2>1, <2>2, <3>2, Zenon DEF SnapInv, SnapTypes
    <3> QED BY <3>1, <3>2, Zenon
  <2> QED BY <2>3, Zenon DEF SnapInv, CountRows, SnapTypes
<1>3. KeepInv'
    BY <1>1, SnapshotConstants DEF SnapInv, SnapTypes, CountRows, KeepInv, NoCleanup, Overflow, Ids
<1> QED BY <1>2, <1>3 DEF SnapInv, CountRows, IdsInv, OldInv, SnapTypes, NoCleanup

\* It picks the oldest.
LEMMA PickOverflowInv == ASSUME SnapInv, PickOverflow PROVE SnapInv'
<1>0. PICK V \in SUBSET SnapRows :
          /\ Cardinality(V) = Min({cleaner.overflow, Cardinality(SnapRows)}) /\ Oldest(V)
          /\ cleaner' = [cleaner EXCEPT !.pc = "delete", !.victims = {v.id : v \in V}]
    BY Zenon DEF PickOverflow
<1>1. /\ Cardinality(SnapRows) = Cardinality(Ids(snaps)) /\ Cardinality(Ids(snaps)) \in Nat
      /\ Cardinality({v.id : v \in V}) = Cardinality(V)
    BY AsManyIds, IdsFinite, FS_CardinalityType, Zenon DEF SnapInv
<1>2. {v.id : v \in V} \subseteq Ids(snaps) /\ Ids(snaps) \subseteq Nat
    BY IdsFinite DEF SnapInv, SnapRows, Ids
<1>3. SnapTypes'
    BY <1>0, <1>2, Zenon DEF SnapInv, PickOverflow, SnapTypes
<1>4. KeepInv'
  <2>1. Cardinality(V) = IF cleaner.overflow <= Cardinality(SnapRows) THEN cleaner.overflow ELSE Cardinality(SnapRows)
    BY <1>0, <1>1, MinOfTwo, Zenon DEF SnapInv, SnapTypes
  <2>2. cleaner.pc = "pick" /\ UNCHANGED <<snaps, fresh>>
    BY Zenon DEF PickOverflow
  <2>3. cleaner'.pc = "delete" /\ cleaner'.victims = {v.id : v \in V}
    BY <1>0, Zenon DEF SnapInv, SnapTypes
  <2>4. Cardinality(Ids(snaps)) <= Cardinality(V) + KeepRows + fresh
    BY <1>1, <2>1, <2>2, SnapshotConstants DEF SnapInv, SnapTypes, KeepInv
  <2> QED BY <1>1, <1>2, <2>2, <2>3, <2>4, Zenon DEF KeepInv
<1>5. OldInv'
  <2>1. cleaner'.victims = {v.id : v \in V} /\ snaps' = snaps
    BY <1>0, Zenon DEF SnapInv, SnapTypes, PickOverflow
  <2>2. ASSUME NEW s \in Slots, NEW t \in Slots, NEW d \in snaps[s], NEW k \in snaps[t],
               d.id \in cleaner'.victims, k.id \notin cleaner'.victims PROVE d.gen <= k.gen
    <3>1. PICK v \in V : v.id = d.id
        BY <2>1, <2>2, Zenon
    <3>2. d \in SnapRows /\ k \in SnapRows /\ k \notin V
        BY <2>1, <2>2, Zenon DEF SnapRows
    <3>3. v = d
        BY <3>1, <3>2 DEF SnapInv, IdsInv, SnapRows
    <3> QED BY <3>2, <3>3, <1>0, Zenon DEF Oldest
  <2> QED BY <2>1, <2>2, Zenon DEF OldInv
<1> QED BY <1>3, <1>4, <1>5, SMTT(30) DEF SnapInv, PickOverflow, IdsInv

\* It deletes what it picked.
LEMMA DeleteOverflowInv == ASSUME SnapInv, DeleteOverflow PROVE SnapInv'
<1>1. SnapTypes'
    BY SnapshotConstants, SMTT(30) DEF SnapInv, DeleteOverflow, SnapTypes, NoCleanup
<1>2. Ids(snaps') = Ids(snaps) \ cleaner.victims
    BY DEF DeleteOverflow, Ids, SnapInv, SnapTypes
<1>3. /\ IsFiniteSet(Ids(snaps)) /\ cleaner.victims \subseteq Ids(snaps)
      /\ Cardinality(Ids(snaps)) <= Cardinality(cleaner.victims) + KeepRows + fresh
    BY IdsFinite, Zenon DEF SnapInv, KeepInv, DeleteOverflow
<1>4. IsFiniteSet(cleaner.victims) /\ IsFiniteSet(Ids(snaps) \ cleaner.victims)
    BY <1>3, FS_Subset, ZenonT(40)
<1>5. Cardinality(Ids(snaps)) = Cardinality(cleaner.victims) + Cardinality(Ids(snaps) \ cleaner.victims)
  <2>1. Ids(snaps) = cleaner.victims \cup (Ids(snaps) \ cleaner.victims) /\ cleaner.victims \cap (Ids(snaps) \ cleaner.victims) = {}
    BY <1>3, Zenon
  <2>2. Cardinality(cleaner.victims \cup (Ids(snaps) \ cleaner.victims)) =
           Cardinality(cleaner.victims) + Cardinality(Ids(snaps) \ cleaner.victims) - Cardinality(cleaner.victims \cap (Ids(snaps) \ cleaner.victims))
    BY <1>4, FS_Union, Zenon
  <2>3. Cardinality(cleaner.victims) \in Nat /\ Cardinality(Ids(snaps) \ cleaner.victims) \in Nat
    BY <1>4, FS_CardinalityType, Zenon
  <2>4. Cardinality(cleaner.victims \cap (Ids(snaps) \ cleaner.victims)) = 0
    BY <2>1, FS_EmptySet, Zenon
  <2>5. Cardinality(Ids(snaps)) = Cardinality(cleaner.victims \cup (Ids(snaps) \ cleaner.victims))
    BY <2>1, Zenon
  <2> QED BY <2>2, <2>3, <2>4, <2>5, SMTT(30)
<1>6. Cardinality(Ids(snaps')) <= KeepRows + fresh
    BY <1>2, <1>3, <1>4, <1>5, FS_CardinalityType, SnapshotConstants, SMTT(30) DEF SnapInv, SnapTypes
<1>7. KeepInv'
  <2>1. cleaner'.pc = "no" /\ fresh' = fresh /\ Cardinality(Ids(snaps')) \in Nat
    BY <1>2, <1>4, FS_CardinalityType, Zenon DEF DeleteOverflow, NoCleanup
  <2> QED BY <1>6, <2>1, SnapshotConstants, SMTT(30) DEF KeepInv, SnapInv, SnapTypes
<1>8. IdsInv' /\ OldInv'
  <2>1. \A s \in Slots : snaps'[s] \subseteq snaps[s]
    BY Zenon DEF DeleteOverflow
  <2>2. cleaner'.pc # "delete"
    BY Zenon DEF DeleteOverflow, NoCleanup
  <2>3. IdsInv
    BY Zenon DEF SnapInv
  <2>4. IdsInv'
    BY <2>1, <2>3 DEF IdsInv
  <2> QED BY <2>2, <2>4, Zenon DEF OldInv
<1> QED BY <1>1, <1>7, <1>8, ZenonT(40) DEF SnapInv

\* A step that leaves the rows and the cleanup alone.
LEMMA SnapStays ==
    ASSUME SnapInv, SnapTypes', UNCHANGED <<snaps, cleaner, fresh>> PROVE SnapInv'
<1>1. IdsInv /\ KeepInv /\ OldInv
    BY Zenon DEF SnapInv
<1>2. IdsInv'
    BY <1>1, SMTT(30) DEF IdsInv
<1>3. OldInv'
    BY <1>1 DEF OldInv
<1>4. Ids(snaps)' = Ids(snaps)
    BY Zenon DEF Ids
<1>5. KeepInv'
    BY <1>1, <1>4, Zenon DEF KeepInv
<1> QED BY <1>2, <1>3, <1>5, Zenon DEF SnapInv

\* A look-up changes no row.
LEMMA SaveLooksUpInv ==
    ASSUME SnapInv, NEW r \in Savers, NEW s \in Slots, SaveLooksUp(r, s) PROVE SnapInv'
<1>1. {x.id : x \in snaps[s]} \subseteq Nat
    BY DEF SnapInv, SnapTypes
<1>2. SnapTypes'
    BY <1>1, Zenon DEF SnapInv, SaveLooksUp, SnapTypes
<1>3. UNCHANGED <<snaps, cleaner, fresh>>
    BY Zenon DEF SaveLooksUp
<1> QED BY <1>2, <1>3, SnapStays, Zenon

\* A row is created with a new id, counted in fresh.
LEMMA CreateRowInv ==
    ASSUME SnapInv, NEW r \in Savers, NEW s \in Slots, SaveWrites(r), CreateRow(r, s) PROVE SnapInv'
<1>0. saver' \in [Savers -> [pc : {"idle", "write"}, slot : SUBSET Slots, found : SUBSET Nat]]
    BY Zenon DEF SnapInv, SnapTypes, SaveWrites, Idle
<1>1. CASE snaps[s] # {}
  <2>1. SnapTypes'
    BY <1>0, <1>1, Zenon DEF SnapInv, SnapTypes, SaveWrites, CreateRow
  <2>2. UNCHANGED <<snaps, cleaner, fresh>>
    BY <1>1, Zenon DEF SaveWrites, CreateRow
  <2> QED BY <2>1, <2>2, SnapStays, Zenon
<1>2. CASE snaps[s] = {}
  <2>1. /\ snaps' = [snaps EXCEPT ![s] = {[id |-> nextId, gen |-> snapClock]}]
        /\ nextId' = nextId + 1 /\ fresh' = fresh + 1 /\ UNCHANGED <<snapClock, lastCleanup, cleaner>>
    BY <1>2, Zenon DEF CreateRow, SaveWrites
  <2>2. SnapTypes'
    BY <1>0, <2>1 DEF SnapInv, SnapTypes
  <2>3. Ids(snaps') = Ids(snaps) \cup {nextId} /\ nextId \notin Ids(snaps)
    <3>1. \A t \in Slots : {x.id : x \in snaps'[t]} = IF t = s THEN {nextId} ELSE {x.id : x \in snaps[t]}
      <4>1. \A t \in Slots : snaps'[t] = IF t = s THEN {[id |-> nextId, gen |-> snapClock]} ELSE snaps[t]
        BY <2>1, Zenon DEF SnapInv, SnapTypes
      <4>2. {x.id : x \in {[id |-> nextId, gen |-> snapClock]}} = {nextId}
        OBVIOUS
      <4> QED BY <4>1, <4>2, Zenon
    <3>2. {x.id : x \in snaps[s]} = {}
        BY <1>2, Zenon
    <3>3. nextId \notin 1..(nextId - 1)
        BY DEF SnapInv, SnapTypes
    <3>4. nextId \notin Ids(snaps)
        BY <3>3, IdsFinite, Zenon DEF SnapInv
    <3>5. \A x : x \in Ids(snaps') => x \in Ids(snaps) \/ x = nextId
        BY <3>1, Zenon DEF Ids
    <3>6. \A x : x \in Ids(snaps) \/ x = nextId => x \in Ids(snaps')
        BY <3>1, <3>2, Zenon DEF Ids
    <3> QED BY <3>4, <3>5, <3>6, Zenon
  <2>4. /\ Cardinality(Ids(snaps')) = Cardinality(Ids(snaps)) + 1 /\ Cardinality(Ids(snaps)) \in Nat
    BY <2>3, IdsFinite, FS_AddElement, FS_CardinalityType, Zenon DEF SnapInv
  <2>5. KeepInv'
    <3>1. CASE cleaner.pc \in {"no", "count", "pick"}
        BY <3>1, <2>1, <2>4, SnapshotConstants, SMTT(30) DEF SnapInv, SnapTypes, KeepInv
    <3>2. CASE cleaner.pc = "delete"
      <4>1. Cardinality(cleaner.victims) \in Nat
        BY <3>2, IdsFinite, FS_Subset, FS_CardinalityType, Zenon DEF SnapInv, KeepInv
      <4>2. cleaner'.victims \subseteq Ids(snaps') /\ cleaner'.pc = "delete"
        BY <3>2, <2>1, <2>3, ZenonT(40) DEF SnapInv, KeepInv
      <4>3. Cardinality(Ids(snaps')) <= Cardinality(cleaner.victims) + KeepRows + fresh'
        BY <3>2, <4>1, <2>1, <2>4, SnapshotConstants, SMTT(30) DEF SnapInv, SnapTypes, KeepInv
      <4> QED BY <4>2, <4>3, <2>1, Zenon DEF KeepInv
    <3> QED BY <3>1, <3>2, Zenon DEF SnapInv, SnapTypes
  <2>6. IdsInv'
    BY <1>2, <2>1, SMTT(30) DEF SnapInv, SnapTypes, IdsInv
  <2>7. OldInv'
    BY <1>2, <2>1, IdsFinite DEF SnapInv, SnapTypes, OldInv, KeepInv
  <2> QED BY <2>2, <2>5, <2>6, <2>7, Zenon DEF SnapInv
<1> QED BY <1>1, <1>2, Zenon

\* A row is rewritten: its id stays, and its time is now.
LEMMA UpdateRowInv ==
    ASSUME SnapInv, NEW r \in Savers, NEW s \in Slots, SaveWrites(r), UpdateRow(r, s) PROVE SnapInv'
<1> DEFINE New(x) == IF x.id \in saver[r].found THEN [x EXCEPT !.gen = snapClock] ELSE x
<1>0. saver' \in [Savers -> [pc : {"idle", "write"}, slot : SUBSET Slots, found : SUBSET Nat]]
    BY Zenon DEF SnapInv, SnapTypes, SaveWrites, Idle
<1>1. /\ snaps' = [snaps EXCEPT ![s] = {New(x) : x \in snaps[s]}]
      /\ UNCHANGED <<snapClock, lastCleanup, cleaner, nextId, fresh>>
    BY Zenon DEF UpdateRow, SaveWrites, SnapInv, SnapTypes
<1>2. \A x \in snaps[s] : /\ New(x) \in [id : 1..(nextId - 1), gen : 0..snapClock] /\ New(x).id = x.id
                          /\ New(x).gen = x.gen \/ New(x).gen = snapClock
    BY SMTT(30) DEF SnapInv, SnapTypes
<1> HIDE DEF New
<1>3. SnapTypes'
    BY <1>0, <1>1, <1>2, SMTT(30) DEF SnapInv, SnapTypes
<1>4. Ids(snaps') = Ids(snaps)
  <2>1. \A t \in Slots : {x.id : x \in snaps'[t]} = {x.id : x \in snaps[t]}
    BY <1>1, <1>2 DEF SnapInv, SnapTypes
  <2> QED BY <2>1, ZenonT(40) DEF Ids
<1>5. KeepInv'
    BY <1>1, <1>4, ZenonT(40) DEF SnapInv, KeepInv
<1>6. \A t \in Slots : \A y \in snaps'[t] : \E x \in snaps[t] :
         y.id = x.id /\ (y = x \/ y.gen = snapClock) /\ (t = s => y = New(x)) /\ (t # s => y = x)
    BY <1>1, <1>2, SMTT(30) DEF SnapInv, SnapTypes
<1>7. IdsInv'
    BY <1>1, <1>2, SMTT(30) DEF SnapInv, SnapTypes, IdsInv
<1>8. OldInv'
    BY <1>1, <1>6 DEF SnapInv, SnapTypes, OldInv
<1> QED BY <1>3, <1>5, <1>7, <1>8, Zenon DEF SnapInv

\* Every step preserves the invariant.
LEMMA SnapStepInv == ASSUME SnapInv, [SnapNext]_snapVars PROVE SnapInv'
<1>1. ASSUME NEW r \in Savers, SaveWrites(r) PROVE SnapInv'
  <2>1. PICK s \in saver[r].slot : IF saver[r].found = {} THEN CreateRow(r, s) ELSE UpdateRow(r, s)
    BY <1>1, Zenon DEF SaveWrites
  <2>2. s \in Slots
    BY <2>1, ZenonT(40) DEF SnapInv, SnapTypes
  <2> QED BY <1>1, <2>1, <2>2, CreateRowInv, UpdateRowInv, Zenon
<1>2. ASSUME UNCHANGED snapVars PROVE SnapInv'
  <2>1. SnapTypes'
    BY <1>2, Zenon DEF SnapInv, SnapTypes, snapVars
  <2> QED BY <1>2, <2>1 DEF SnapInv, snapVars, IdsInv, KeepInv, OldInv, Ids
<1> QED BY <1>1, <1>2, SnapTickInv, CleanupInv, CountRowsInv, PickOverflowInv, DeleteOverflowInv, SaveLooksUpInv, ZenonT(40) DEF SnapNext

\* Between cleanups the table holds no more than MaxRows rows and those created since
\* the last one began, with any number of requests saving meanwhile
\* (statistic_ops.go:216).
THEOREM SnapshotsStayBounded == SnapSpec => []SnapshotsBounded
<1>1. SnapInv => SnapshotsBounded
  <2> SUFFICES ASSUME SnapInv PROVE SnapshotsBounded
    BY Zenon
  <2>1. \A s \in Slots : Cardinality(snaps[s]) <= 1
    <3> SUFFICES ASSUME NEW s \in Slots PROVE Cardinality(snaps[s]) <= 1
        BY Zenon
    <3>1. CASE snaps[s] = {}
        BY <3>1, FS_EmptySet, SMTT(30)
    <3>2. ASSUME NEW x \in snaps[s] PROVE Cardinality(snaps[s]) <= 1
      <4>1. snaps[s] = {x}
        BY <3>2 DEF SnapInv, IdsInv
      <4> QED BY <4>1, FS_Singleton, SMTT(30)
    <3> QED BY <3>1, <3>2, Zenon
  <2>2. \A x, y \in SnapRows : x.id = y.id => x = y
    BY DEF SnapInv, IdsInv, SnapRows
  <2> QED BY <2>1, <2>2, AsManyIds DEF SnapInv, KeepInv, SnapshotsBounded, SnapTypeOK, SnapTypes
<1> QED BY <1>1, InitSnapInv, SnapStepInv, PTL DEF SnapSpec

\* A cleanup deletes no snapshot that is newer than one it leaves, unless it was saved
\* while the cleanup was running (statistic_ops.go:219-225).
THEOREM OldestGoFirst == SnapSpec => CleanupTakesOldest
<1> DEFINE Fair ==
        cleaner.pc = "delete" /\ cleaner'.pc = "no" =>
          \A d \in SnapRows, s \in Slots :
              d.id \in cleaner.victims /\ d.gen < cleaner.start => \A k \in snaps'[s] : d.gen <= k.gen
<1>1. SnapInv /\ [SnapNext]_snapVars => [Fair]_snapVars
  <2> SUFFICES ASSUME SnapInv, SnapNext, cleaner.pc = "delete", cleaner'.pc = "no" PROVE Fair
    BY Zenon
  <2>1. DeleteOverflow
    BY Zenon DEF SnapNext, SnapTick, Cleanup, CountRows, PickOverflow, SaveLooksUp, SaveWrites
  <2> QED BY <2>1 DEF DeleteOverflow, SnapInv, SnapTypes, OldInv, SnapRows
<1> QED BY <1>1, InitSnapInv, SnapStepInv, PTL DEF SnapSpec, CleanupTakesOldest

-----------------------------------------------------------------------------
(* The bulletins *)

Edits(n) ==
    [pc : {"idle", "refused", "update", "again", "delete", "success", "error"}, op : {"none", "update", "delete"},
     id : 0..n, sent : Revisions \cup {NoText}, role : EditorRoles \cup {0}, hit : {"yes", "no"}]
Views == [pc : {"idle", "page", "next", "read"}, page : Nat, total : Nat, unseen : SUBSET (DOMAIN board)]
BoardTypes ==
    /\ bnext \in 0..MaxBulletins /\ edits \in 0..MaxEdits
    /\ board = [i \in DOMAIN board |-> board[i]] /\ DOMAIN board \subseteq 1..bnext
    /\ edit \in [Editors -> Edits(bnext)]
    /\ view \in Views

\* An update that hit nothing is about to look again for a bulletin that is gone, and
\* stays gone: ids are not given twice.
HitInv ==
    \A e \in Editors :
       /\ edit[e].pc = "update" => edit[e].op = "update"
       /\ edit[e].pc = "delete" => edit[e].op = "delete"
       /\ edit[e].pc = "again" => edit[e].hit = "yes" \/ edit[e].id \notin DOMAIN board
       /\ edit[e].pc = "success" /\ edit[e].op = "update" => edit[e].hit = "yes"

\* What the reader has yet to see is behind the pages it has turned, and the total it
\* was told is still right when it turns the next.
ViewInv ==
    /\ view.pc = "page" => \A i \in view.unseen : (view.page - 1) * BoardPage < Place(i) /\ view.total = Cardinality(DOMAIN board)
    /\ view.pc = "next" => \A i \in view.unseen : view.page * BoardPage < Place(i)
    /\ view.pc \in {"idle", "read"} => view.unseen = {}

BoardInv == BoardTypes /\ HitInv /\ ViewInv

-----------------------------------------------------------------------------
\* The places of the bulletins there are: 1 to their number.
LEMMA PlaceBounds ==
    ASSUME BoardTypes
    PROVE  /\ IsFiniteSet(DOMAIN board) /\ Cardinality(DOMAIN board) \in Nat
           /\ \A i \in DOMAIN board : Place(i) \in Nat /\ Place(i) <= Cardinality(DOMAIN board)
<1>1. IsFiniteSet(DOMAIN board)
  <2>1. bnext \in Int /\ DOMAIN board \subseteq 1..bnext
    BY BoardConstants, SMTT(30) DEF BoardTypes, Edits, Views
  <2>2. IsFiniteSet(1..bnext)
    BY <2>1, FS_Interval
  <2> QED BY <2>1, <2>2, FS_Subset, Zenon
<1>2. ASSUME NEW i \in DOMAIN board PROVE Place(i) \in Nat /\ Place(i) <= Cardinality(DOMAIN board)
  <2> DEFINE before == {j \in DOMAIN board : j = i \/ Order(j, i)}
  <2>1. IsFiniteSet(before) /\ Cardinality(before) <= Cardinality(DOMAIN board) /\ Cardinality(before) \in Nat
    BY <1>1, FS_Subset, FS_CardinalityType, Zenon
  <2> QED BY <2>1, Zenon DEF Place
<1> QED BY <1>1, <1>2, FS_CardinalityType, Zenon

\* A step that takes no bulletin away and changes no pin moves nobody forward.
LEMMA PlacesGrow ==
    ASSUME BoardTypes, BoardTypes', DOMAIN board \subseteq DOMAIN board',
           \A i \in DOMAIN board : board'[i].pinned = board[i].pinned
    PROVE  \A i \in DOMAIN board : Place(i) <= Place(i)' /\ Place(i) \in Nat /\ Place(i)' \in Nat
<1> SUFFICES ASSUME NEW i \in DOMAIN board PROVE Place(i) <= Place(i)' /\ Place(i) \in Nat /\ Place(i)' \in Nat
    BY Zenon
<1> DEFINE before == {j \in DOMAIN board : j = i \/ Order(j, i)}
           later == {j \in DOMAIN board' : j = i \/ Order(j, i)'}
<1>1. before \subseteq later
    BY Zenon DEF Order
<1>2. IsFiniteSet(later)
  <2>1. bnext' \in Int /\ later \subseteq 1..bnext'
    BY BoardConstants, SMTT(30) DEF BoardTypes, Edits, Views
  <2>2. IsFiniteSet(1..bnext')
    BY <2>1, FS_Interval
  <2> QED BY <2>1, <2>2, FS_Subset, ZenonT(40)
<1>3. Cardinality(before) <= Cardinality(later) /\ Cardinality(before) \in Nat /\ Cardinality(later) \in Nat
    BY <1>1, <1>2, FS_Subset, FS_CardinalityType, ZenonT(40)
<1> QED BY <1>3, Zenon DEF Place

-----------------------------------------------------------------------------
\* The invariant holds on an empty board.
LEMMA InitBoardInv == BoardInit => BoardInv
BY BoardConstants DEF BoardInit, BoardInv, BoardTypes, Edits, Views, HitInv, ViewInv, Quiescent, Unread

\* A step that leaves the table and the reader alone.
LEMMA ViewStays ==
    ASSUME ViewInv, UNCHANGED <<board, view>> PROVE ViewInv'
BY Zenon DEF ViewInv, Place, Order

\* A caller is refused.
LEMMA RefusedInv ==
    ASSUME BoardInv, NEW e \in Editors, NEW role \in EditorRoles, Refused(e, role) PROVE BoardInv'
<1>1. BoardTypes'
  <2>0. [edit[e] EXCEPT !.pc = "refused", !.role = role] \in Edits(bnext)
    <3>1. edit[e] \in Edits(bnext)
      BY Zenon DEF BoardInv, BoardTypes
    <3> QED BY <3>1, Zenon DEF Edits
  <2>1. edit' \in [Editors -> Edits(bnext)]
    BY <2>0, Zenon DEF BoardInv, BoardTypes, Refused
  <2> QED BY <2>1, Zenon DEF BoardInv, BoardTypes, Views, Refused
<1>2. HitInv'
    BY DEF BoardInv, BoardTypes, Edits, Views, HitInv, Refused
<1> QED BY <1>1, <1>2, ViewStays, Zenon DEF BoardInv, Refused

\* A bulletin is published: a row more, and none of the others moves forward.
LEMMA CreateInv ==
    ASSUME BoardInv, NEW e \in Editors, NEW role \in EditorRoles, NEW draft \in Drafts, Create(e, role, draft) PROVE BoardInv'
<1>1. /\ DOMAIN board' = DOMAIN board \cup {bnext + 1} /\ \A i \in DOMAIN board : board'[i] = board[i]
      /\ board' = [i \in DOMAIN board' |-> board'[i]]
    BY DEF Create, BoardInv, BoardTypes, Edits, Views
<1>2. view' \in Views
    BY ZenonT(40) DEF Create, Upsets, BoardInv, BoardTypes, Edits, Views
<1>3. BoardTypes'
    BY <1>1, <1>2, BoardConstants, SMTT(30) DEF Create, BoardInv, BoardTypes, Edits, Views
<1>4. HitInv'
    BY <1>1 DEF BoardInv, BoardTypes, Edits, Views, HitInv, Create
<1>5. \A i \in DOMAIN board : Place(i) <= Place(i)' /\ Place(i) \in Nat /\ Place(i)' \in Nat
    BY <1>1, <1>3, PlacesGrow, Zenon DEF BoardInv
<1>6. ViewInv'
  <2>1. CASE view.pc = "page"
    BY <2>1, ZenonT(40) DEF Create, Upsets, BoardInv, BoardTypes, Edits, Views, ViewInv
  <2>2. CASE view.pc # "page"
    <3>1. view' = view
        BY <2>2, Zenon DEF Create, Upsets, BoardInv, BoardTypes, Edits, Views
    <3>2. view.page * BoardPage \in Int
        BY BoardConstants DEF BoardInv, BoardTypes, Edits, Views
    <3> QED BY <2>2, <3>1, <3>2, <1>5, SMTT(30) DEF BoardInv, BoardTypes, Edits, Views, ViewInv
  <2> QED BY <2>1, <2>2, Zenon
<1> QED BY <1>3, <1>4, <1>6, ZenonT(40) DEF BoardInv

\* A bulletin is looked for.
LEMMA LookInv ==
    ASSUME BoardInv, NEW e \in Editors, NEW role \in EditorRoles, NEW o \in {"update", "delete"}, NEW i \in 1..MaxBulletins,
           NEW sent \in Revisions \cup {NoText}, Look(e, role, o, i, sent)
    PROVE  BoardInv'
<1>1. BoardTypes'
    BY BoardConstants, SMTT(30) DEF BoardInv, BoardTypes, Edits, Views, Look
<1>2. HitInv'
    BY DEF BoardInv, BoardTypes, Edits, Views, HitInv, Look
<1> QED BY <1>1, <1>2, ViewStays, ZenonT(40) DEF BoardInv, Look

\* The UPDATE: a row is hit, or there is none.
LEMMA UpdateBulletinInv ==
    ASSUME BoardInv, NEW e \in Editors, UpdateBulletin(e) PROVE BoardInv'
<1> DEFINE q == edit[e]
<1>0. q.id \in 0..bnext
    BY Zenon DEF BoardInv, BoardTypes, Edits, Views
<1>1. /\ DOMAIN board' = DOMAIN board /\ board' = [i \in DOMAIN board' |-> board'[i]]
      /\ \A i \in DOMAIN board : i # q.id => board'[i] = board[i]
      /\ q.id \in DOMAIN board => board'[q.id].pinned = q.sent.pinned
    BY Zenon DEF UpdateBulletin, BoardInv, BoardTypes, Edits, Views, Updated
<1>2. view' \in Views
    BY Zenon DEF UpdateBulletin, Upsets, BoardInv, BoardTypes, Edits, Views
<1>3. edit' = [edit EXCEPT ![e].pc = "again", ![e].sent = NoText, ![e].hit = IF q.id \in DOMAIN board THEN "yes" ELSE "no"]
    BY Zenon DEF UpdateBulletin
<1>4. BoardTypes'
  <2>0. [edit[e] EXCEPT !.pc = "again", !.sent = NoText, !.hit = IF q.id \in DOMAIN board THEN "yes" ELSE "no"] \in Edits(bnext)
    <3>1. edit[e] \in Edits(bnext)
      BY Zenon DEF BoardInv, BoardTypes
    <3> QED BY <3>1, Zenon DEF Edits
  <2>1. edit' \in [Editors -> Edits(bnext)]
    BY <1>3, <2>0, Zenon DEF BoardInv, BoardTypes
  <2>2. Views' = Views
    BY <1>1, Zenon DEF Views
  <2> QED BY <1>1, <1>2, <2>1, <2>2, Zenon DEF UpdateBulletin, BoardInv, BoardTypes
<1>5. HitInv'
    BY <1>1, <1>3 DEF BoardInv, BoardTypes, Edits, Views, HitInv
<1>6. ViewInv'
  <2>1. CASE q.id \in DOMAIN board /\ board[q.id].pinned # q.sent.pinned
    BY <2>1, <1>1, ZenonT(40) DEF UpdateBulletin, Upsets, BoardInv, BoardTypes, Edits, Views, ViewInv
  <2>2. CASE ~(q.id \in DOMAIN board /\ board[q.id].pinned # q.sent.pinned)
    <3>1. view' = view
        BY <2>2, Zenon DEF UpdateBulletin, Upsets, BoardInv, BoardTypes, Edits, Views
    <3>2. \A i \in DOMAIN board : board'[i].pinned = board[i].pinned
        BY <1>1, <2>2, Zenon
    <3>3. \A i \in DOMAIN board : Place(i) <= Place(i)' /\ Place(i) \in Nat /\ Place(i)' \in Nat
        BY <1>1, <1>4, <3>2, PlacesGrow, Zenon DEF BoardInv
    <3>4. view.page * BoardPage \in Int /\ (view.page - 1) * BoardPage \in Int
        BY BoardConstants DEF BoardInv, BoardTypes, Edits, Views
    <3> QED BY <1>1, <3>1, <3>3, <3>4, SMTT(30) DEF BoardInv, BoardTypes, Edits, Views, ViewInv
  <2> QED BY <2>1, <2>2, Zenon
<1> QED BY <1>4, <1>5, <1>6, Zenon DEF BoardInv

\* The second look, a failed statement, an answer.
LEMMA RestInv ==
    ASSUME BoardInv, NEW e \in Editors, ReadAgain(e) \/ StatementFails(e) \/ Answered(e) PROVE BoardInv'
<1>1. BoardTypes'
  <2>1. CASE ReadAgain(e)
    BY <2>1 DEF BoardInv, BoardTypes, Edits, Views, ReadAgain, Goes, Ends, Quiescent
  <2>2. CASE StatementFails(e)
    BY <2>2, SMTT(30) DEF BoardInv, BoardTypes, Edits, Views, StatementFails, Goes, Ends, Quiescent
  <2>3. CASE Answered(e)
    BY <2>3, SMTT(30) DEF BoardInv, BoardTypes, Edits, Views, Answered, Goes, Ends, Quiescent
  <2> QED BY <2>1, <2>2, <2>3, Zenon
<1>2. HitInv'
    BY DEF BoardInv, BoardTypes, Edits, Views, HitInv, ReadAgain, StatementFails, Answered, Goes, Ends, Quiescent
<1> QED BY <1>1, <1>2, ViewStays, Zenon DEF BoardInv, ReadAgain, StatementFails, Answered

\* The DELETE: the reader is excused, or there was no row.
LEMMA DeleteBulletinInv ==
    ASSUME BoardInv, NEW e \in Editors, DeleteBulletin(e) PROVE BoardInv'
<1>1. /\ DOMAIN board' = DOMAIN board \ {edit[e].id} /\ board' = [i \in DOMAIN board' |-> board'[i]]
      /\ edit[e].id \notin DOMAIN board => board' = board
    BY DEF DeleteBulletin, BoardInv, BoardTypes, Edits, Views
<1>2. view' = IF edit[e].id \in DOMAIN board THEN [view EXCEPT !.unseen = {}] ELSE view
    BY Zenon DEF DeleteBulletin, Upsets, BoardInv, BoardTypes, Edits, Views
<1>3. BoardTypes'
    BY <1>1, <1>2, SMTT(30) DEF DeleteBulletin, Goes, BoardInv, BoardTypes, Edits, Views
<1>4. HitInv'
    BY <1>1 DEF BoardInv, BoardTypes, Edits, Views, HitInv, DeleteBulletin, Goes
<1>5. CASE edit[e].id \in DOMAIN board
    BY <1>2, <1>3, <1>4, <1>5, SMTT(30) DEF BoardInv, BoardTypes, Edits, Views, ViewInv
<1>6. CASE edit[e].id \notin DOMAIN board
    BY <1>1, <1>2, <1>3, <1>4, <1>6, ViewStays, Zenon DEF BoardInv
<1> QED BY <1>5, <1>6, ZenonT(40)

\* The reader counts.
LEMMA CountBulletinsInv ==
    ASSUME BoardInv, CountBulletins PROVE BoardInv'
<1>1. Cardinality(DOMAIN board) \in Nat /\ \A i \in DOMAIN board : Place(i) \in Nat /\ 0 < Place(i)
  <2>1. ASSUME NEW i \in DOMAIN board PROVE 0 < Place(i)
    <3> DEFINE before == {j \in DOMAIN board : j = i \/ Order(j, i)}
    <3>1. IsFiniteSet(before) /\ i \in before
        BY PlaceBounds, FS_Subset, Zenon DEF BoardInv
    <3>2. Cardinality(before) # 0 /\ Cardinality(before) \in Nat
        BY <3>1, FS_EmptySet, FS_CardinalityType, Zenon
    <3> QED BY <3>2 DEF Place
  <2> QED BY <2>1, PlaceBounds, Zenon DEF BoardInv
<1>2. BoardTypes'
  <2>1. view' \in Views
    <3>1. CASE view.pc = "idle"
        BY <1>1, <3>1, Zenon DEF CountBulletins, Views, Unread
    <3>2. CASE view.pc # "idle"
      <4>1. view' = [view EXCEPT !.pc = "page", !.page = view.page + 1, !.total = Cardinality(DOMAIN board)]
        BY <3>2, Zenon DEF CountBulletins
      <4>2. view \in Views /\ view.page + 1 \in Nat
        BY DEF BoardInv, BoardTypes, Views
      <4> QED BY <1>1, <4>1, <4>2, Zenon DEF Views
    <3> QED BY <3>1, <3>2, Zenon
  <2> QED BY <2>1, Zenon DEF CountBulletins, BoardInv, BoardTypes, Views
<1>3. HitInv'
    BY Zenon DEF BoardInv, HitInv, CountBulletins
<1>4. \A i \in DOMAIN board : Place(i)' = Place(i)
    BY Zenon DEF CountBulletins, Place, Order
<1>5. ViewInv'
  <2>1. CASE view.pc = "idle"
    <3>1. view'.pc = "page" /\ view'.page = 1 /\ view'.total = Cardinality(DOMAIN board) /\ view'.unseen = DOMAIN board
        BY <2>1, Zenon DEF CountBulletins, Unread
    <3>2. (view'.page - 1) * BoardPage = 0
        BY <3>1, BoardConstants, SMTT(30)
    <3> QED BY <1>1, <1>4, <3>1, <3>2, Zenon DEF CountBulletins, ViewInv
  <2>2. CASE view.pc = "next"
    <3>1. view'.pc = "page" /\ view'.page = view.page + 1 /\ view'.total = Cardinality(DOMAIN board) /\ view'.unseen = view.unseen
        BY <2>2, Zenon DEF CountBulletins, BoardInv, BoardTypes, Edits, Views
    <3>2. view'.page - 1 = view.page
        BY <3>1 DEF BoardInv, BoardTypes, Edits, Views
    <3> QED BY <1>4, <2>2, <3>1, <3>2, SMTT(30) DEF CountBulletins, BoardInv, BoardTypes, Edits, Views, ViewInv
  <2> QED BY <2>1, <2>2, Zenon DEF CountBulletins
<1> QED BY <1>2, <1>3, <1>5, Zenon DEF BoardInv

\* The reader gets a page: what is left is behind it, and nothing is behind the last.
LEMMA FindPageInv ==
    ASSUME BoardInv, FindPage PROVE BoardInv'
<1>1. BoardTypes'
    BY Zenon DEF FindPage, BoardInv, BoardTypes, Edits, Views
<1>2. HitInv'
    BY Zenon DEF BoardInv, HitInv, FindPage
<1>3. \A i \in DOMAIN board : Place(i)' = Place(i) /\ Place(i) \in Nat /\ Place(i) <= Cardinality(DOMAIN board)
    BY PlaceBounds, Zenon DEF FindPage, Place, Order, BoardInv
<1>4. \A i \in view'.unseen : i \in view.unseen /\ i \in DOMAIN board /\ i \notin BulletinPage(view.page)
    BY Zenon DEF FindPage, BoardInv, BoardTypes, Edits, Views
<1>5. view.page * BoardPage \in Int /\ (view.page - 1) * BoardPage \in Int
    BY BoardConstants DEF BoardInv, BoardTypes, Edits, Views
<1>6. \A i \in view'.unseen : view.page * BoardPage < Place(i) /\ view.total = Cardinality(DOMAIN board)
    BY <1>3, <1>4, <1>5, SMTT(30) DEF FindPage, BoardInv, ViewInv, BulletinPage
<1>7. /\ view'.page = view.page
      /\ view'.pc = IF view.page * BoardPage < view.total THEN "next" ELSE "read"
    BY Zenon DEF FindPage, BoardInv, BoardTypes, Edits, Views
<1>8. view'.pc = "read" => view'.unseen = {}
    BY <1>3, <1>4, <1>5, <1>6, <1>7, SMTT(30) DEF BoardInv, BoardTypes, Edits, Views
<1>9. ViewInv'
    BY <1>3, <1>4, <1>6, <1>7, <1>8, Zenon DEF ViewInv
<1> QED BY <1>1, <1>2, <1>9, Zenon DEF BoardInv

\* Every step preserves the invariant.
LEMMA BoardStepInv == ASSUME BoardInv, [BoardNext]_boardVars PROVE BoardInv'
<1>1. ASSUME CloseList PROVE BoardInv'
    BY <1>1 DEF CloseList, BoardInv, BoardTypes, Edits, Views, HitInv, ViewInv, Unread
<1>2. ASSUME UNCHANGED boardVars PROVE BoardInv'
  <2>1. BoardTypes' /\ HitInv'
    BY <1>2 DEF BoardInv, BoardTypes, Edits, Views, HitInv, boardVars
  <2> QED BY <1>2, <2>1, ViewStays, ZenonT(40) DEF BoardInv, boardVars
<1> QED BY <1>1, <1>2, RefusedInv, CreateInv, LookInv, UpdateBulletinInv, RestInv, DeleteBulletinInv, CountBulletinsInv, FindPageInv, ZenonT(40) DEF BoardNext

\* A success is in the table, and a reader who turns the pages to the end has seen all
\* that was there at the beginning, however many editors write and whatever the page
\* size (bulletin.go:99-133, dal/bulletin.go:44-66).
THEOREM BulletinsSound == BoardSpec => []BulletinsAreSound
<1>1. BoardInv => BulletinsAreSound
  <2> SUFFICES ASSUME BoardInv PROVE BulletinsAreSound
    BY Zenon
  <2>1. BoardTypeOK
    BY Zenon DEF BoardInv, BoardTypes, Edits, Views, BoardTypeOK
  <2>2. SuccessIsApplied /\ PagesShowAll
    BY Zenon DEF BoardInv, BoardTypes, Edits, Views, HitInv, ViewInv, SuccessIsApplied, PagesShowAll
  <2> QED BY <2>1, <2>2, Zenon DEF BulletinsAreSound
<1> QED BY <1>1, InitBoardInv, BoardStepInv, PTL DEF BoardSpec

\* A title or a content changes only in the UPDATE of a request that sent it
\* (bulletin.go:99-126).
THEOREM EditorsStayApart == BoardSpec => EditsStayApart
<1> DEFINE Apart ==
        \A i \in DOMAIN board \cap DOMAIN board', text \in {"title", "content"} :
         board'[i][text] # board[i][text] =>
            \E e \in Editors : /\ edit[e].pc = "update" /\ edit[e].id = i
                              /\ edit[e].sent[text] = board'[i][text] /\ edit[e].sent[text] # Blank
<1>1. BoardInv /\ [BoardNext]_boardVars => [Apart]_boardVars
  <2> SUFFICES ASSUME BoardInv, BoardNext PROVE Apart
    BY ZenonT(40)
  <2>1. ASSUME NEW e \in Editors, UpdateBulletin(e) PROVE Apart
    BY <2>1 DEF UpdateBulletin, Updated
  <2>2. ASSUME \A i \in DOMAIN board \cap DOMAIN board' : board'[i] = board[i] PROVE Apart
    BY <2>2, ZenonT(40)
  <2>3. ASSUME NEW e \in Editors, NEW role \in EditorRoles, NEW draft \in Drafts, Create(e, role, draft) PROVE Apart
    BY <2>2, <2>3 DEF Create, BoardInv, BoardTypes, Edits, Views
  <2>4. ASSUME NEW e \in Editors, DeleteBulletin(e) PROVE Apart
    BY <2>2, <2>4, Zenon DEF DeleteBulletin
  <2>5. CASE board' = board
    BY <2>2, <2>5, Zenon
  <2> QED BY <2>1, <2>3, <2>4, <2>5, Zenon DEF BoardNext, ReadAgain, StatementFails, Answered, Refused, Look, CountBulletins, FindPage, CloseList
<1> QED BY <1>1, InitBoardInv, BoardStepInv, PTL DEF BoardSpec, EditsStayApart
=============================================================================
