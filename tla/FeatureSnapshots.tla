-------------------------- MODULE FeatureSnapshots --------------------------
(* The snapshots of weekly reports and achievements (service/statistic_ops.go):   *)
(* one row per user and kind, saved by FirstOrCreate, and a cleanup that the        *)
(* handlers run first, at most once an hour.  A slot is a user and a kind; the       *)
(* statements do not fail.                                                      *)
EXTENDS Integers, FiniteSets, FiniteSetsExt

CONSTANTS Slots,       \* users and kinds under check
          Savers,      \* requests running at the same time
          Retention,   \* ticks a snapshot is kept (30 days)
          CleanupInterval,  \* ticks between cleanups (one hour)
          MaxRows, KeepRows,  \* featureSnapshotMaxRows, featureSnapshotKeepRows
          MaxSnapClock, MaxSnapId   \* bounds: ticks, rows created

ASSUME SnapshotConstants ==
    /\ Retention \in Nat \ {0} /\ CleanupInterval \in Nat \ {0} /\ MaxSnapClock \in Nat /\ MaxSnapId \in Nat
    /\ KeepRows \in Nat /\ MaxRows \in Nat /\ KeepRows <= MaxRows

VARIABLES
    snapClock,
    snaps,        \* slot -> a set of at most one row [id, gen, by]
    nextId,
    lastCleanup,
    cleaner,      \* the cleanup in progress: [pc, overflow, victims, start]
    saver,        \* per request: [pc, slot, found]
    fresh         \* rows created since the last cleanup began
snapVars == <<snapClock, snaps, nextId, lastCleanup, cleaner, saver, fresh>>

SnapRows == UNION {snaps[s] : s \in Slots}
Idle == [pc |-> "idle", slot |-> {}, found |-> {}]
NoCleanup == [pc |-> "no", overflow |-> 0, victims |-> {}, start |-> 0]

SnapInit ==
    /\ snapClock = CleanupInterval /\ snaps = [s \in Slots |-> {}] /\ nextId = 1 /\ lastCleanup = 0
    /\ cleaner = NoCleanup /\ saver = [r \in Savers |-> Idle] /\ fresh = 0

SnapTick ==
    /\ snapClock < MaxSnapClock /\ snapClock' = snapClock + 1
    /\ UNCHANGED <<snaps, nextId, lastCleanup, cleaner, saver, fresh>>

\* cleanupExpiredFeatureSnapshots, the first part of every handler: at most once an
\* hour it deletes the expired rows ...
Cleanup ==
    /\ snapClock - lastCleanup >= CleanupInterval /\ lastCleanup' = snapClock
    /\ cleaner.pc = "no" /\ cleaner' = [NoCleanup EXCEPT !.pc = "count", !.start = snapClock]
    /\ snaps' = [s \in Slots |-> {x \in snaps[s] : x.gen >= snapClock - Retention}]
    /\ fresh' = 0
    /\ UNCHANGED <<snapClock, nextId, saver>>

\* Mutant: the limit is off by one.
MutLimitOff(n) == IF n > MaxRows + 1 THEN n - KeepRows ELSE 0

\* ... counts the others ...
Overflow(n) == IF n > MaxRows THEN n - KeepRows ELSE 0
CountRows ==
    /\ cleaner.pc = "count"
    /\ LET n == Overflow(Cardinality(SnapRows))
       IN  cleaner' = IF n = 0 THEN NoCleanup ELSE [cleaner EXCEPT !.pc = "pick", !.overflow = n]
    /\ UNCHANGED <<snapClock, snaps, nextId, lastCleanup, saver, fresh>>

\* ... reads the ids of the overflow, oldest rows first ...
Oldest(V) == \A v \in V, k \in SnapRows \ V : v.gen <= k.gen
PickOverflow ==
    /\ cleaner.pc = "pick"
    /\ \E V \in SUBSET SnapRows :
          /\ Cardinality(V) = Min({cleaner.overflow, Cardinality(SnapRows)}) /\ Oldest(V)
          /\ cleaner' = [cleaner EXCEPT !.pc = "delete", !.victims = {v.id : v \in V}]
    /\ UNCHANGED <<snapClock, snaps, nextId, lastCleanup, saver, fresh>>

\* ... and deletes the rows of these ids, whatever has been saved in them meanwhile, and
\* the operation is logged.
DeleteOverflow ==
    /\ cleaner.pc = "delete" /\ cleaner' = NoCleanup
    /\ snaps' = [s \in Slots |-> {x \in snaps[s] : x.id \notin cleaner.victims}]
    /\ UNCHANGED <<snapClock, nextId, lastCleanup, saver, fresh>>

\* SaveFeatureSnapshot, FirstOrCreate: the row is looked up ...
SaveLooksUp(r, s) ==
    /\ saver[r].pc = "idle" /\ nextId <= MaxSnapId
    /\ saver' = [saver EXCEPT ![r] = [pc |-> "write", slot |-> {s}, found |-> {x.id : x \in snaps[s]}]]
    /\ UNCHANGED <<snapClock, snaps, nextId, lastCleanup, cleaner, fresh>>

\* ... not found: created, unless the unique index finds another request's row (an
\* error to the caller) ...
CreateRow(r, s) ==
    IF snaps[s] # {} THEN UNCHANGED <<snaps, nextId, fresh>>
    ELSE /\ snaps' = [snaps EXCEPT ![s] = {[id |-> nextId, gen |-> snapClock]}]
         /\ nextId' = nextId + 1 /\ fresh' = fresh + 1

\* ... found: updated, which changes nothing and reports nothing when the row has
\* been deleted since.
UpdateRow(r, s) ==
    /\ snaps' = [snaps EXCEPT ![s] = {IF x.id \in saver[r].found THEN [x EXCEPT !.gen = snapClock] ELSE x : x \in @}]
    /\ UNCHANGED <<nextId, fresh>>

SaveWrites(r) ==
    /\ saver[r].pc = "write" /\ saver' = [saver EXCEPT ![r] = Idle]
    /\ \E s \in saver[r].slot : IF saver[r].found = {} THEN CreateRow(r, s) ELSE UpdateRow(r, s)
    /\ UNCHANGED <<snapClock, lastCleanup, cleaner>>

SnapNext ==
    \/ SnapTick \/ Cleanup \/ CountRows \/ PickOverflow \/ DeleteOverflow
    \/ \E r \in Savers : SaveWrites(r) \/ \E s \in Slots : SaveLooksUp(r, s)

SnapSpec == SnapInit /\ [][SnapNext]_snapVars

-----------------------------------------------------------------------------
SnapTypeOK ==
    /\ \A s \in Slots : Cardinality(snaps[s]) <= 1
    /\ \A x, y \in SnapRows : x.id = y.id => x = y
    /\ lastCleanup <= snapClock /\ fresh \in Nat

\* Between cleanups the table holds no more than MaxRows rows and those created
\* since the last one began: a cleanup leaves KeepRows as soon as MaxRows is
\* exceeded (statistic_ops.go:216).
SnapshotsBounded == SnapTypeOK /\ (cleaner.pc = "no" => Cardinality(SnapRows) <= MaxRows + fresh)

\* A cleanup deletes no snapshot that is newer than one it leaves, unless it was
\* saved while the cleanup was running: the ids are read first and deleted later
\* (statistic_ops.go:219-225).
CleanupTakesOldest ==
    [][cleaner.pc = "delete" /\ cleaner'.pc = "no" =>
          \A d \in SnapRows, s \in Slots :
              d.id \in cleaner.victims /\ d.gen < cleaner.start => \A k \in snaps'[s] : d.gen <= k.gen]_snapVars
=============================================================================
