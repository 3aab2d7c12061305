---------------------------- MODULE GatewayReload ----------------------------
(* How a release of the control service becomes the configuration the gateway  *)
(* routes with: the control loader (config/config-loader/ctrl-loader.go) that   *)
(* writes the files, the file loader (config/config.go) that polls their        *)
(* digests, and the reloader of cmd/gateway/main.go that rebuilds the proxy.    *)
(*                                                                              *)
(* Three goroutines and a disk: the control loader and the file loader share    *)
(* nothing but the files.  A configuration is named by the release it came      *)
(* from (0: the file shipped with the gateway); the priority directory holds    *)
(* one file per key, Absent when there is none.  A digest is the content it     *)
(* digests.  The control service is external; it answers 304 exactly when the   *)
(* version reported to it is its current release.                               *)
EXTENDS Integers, FiniteSets

CONSTANTS Keys,          \* names of priority files
          Leftovers,     \* the keys of the files an earlier run of the gateway left
          Carries,       \* release -> the keys of its priority files
          Broken,        \* releases whose main file does not build a router
          MaxRelease,    \* bound: releases published
          MaxFaults,     \* bound: failed requests, reads and writes
          Servers        \* number of control service addresses

ASSUME ReloadConstants ==
    /\ MaxRelease \in Nat /\ MaxFaults \in Nat /\ Servers \in Nat \ {0}
    /\ Carries \in [0..MaxRelease -> SUBSET Keys] /\ Leftovers \subseteq Keys
    /\ Broken \subseteq 1..MaxRelease

Absent == -1
Unread == -2
Releases == 0..MaxRelease
Nothing == [k \in Keys |-> Absent]
Contents == [main : Releases, prio : [Keys -> Releases \cup {Absent, Unread}]]

VARIABLES
    release,      \* the control service's current release
    down,         \* the addresses of it that do not answer
    faults,       \* faults so far
    disk,         \* the files: [main, prio]
    cpc,          \* control loader: "load", "main", "prio", "features", "sleep"
    answer,       \* the release it is writing
    todo,         \* the priority files it has still to write
    lastVersion,  \* the version it reports in its next request
    svc, nextSvc, \* ctrlServiceIdx, nextCtrlService
    bpc,          \* main: "ctrl", "digest", "priority", "load", "merge", "update",
                  \* "serving", "exited"
    slowBoot,     \* "yes": the first Update may take longer than a poll interval
    fpc,          \* file loader: "wait", "digest", "compare", "load", "merge", "update"
    seen,         \* the digest it took in this poll
    digest,       \* confSHA256 and priorityConfigHash
    loaded,       \* the configuration being loaded, [main, prio, skipped]
    running       \* the configuration of the current router

ctrlVars == <<cpc, answer, todo, lastVersion, svc, nextSvc>>
fileVars == <<fpc, seen, digest, loaded>>
reloadVars == <<release, down, faults, disk, bpc, slowBoot, running, ctrlVars, fileVars>>

Empty == [main |-> 0, prio |-> Nothing]
Load0 == [main |-> 0, prio |-> Nothing, skipped |-> {}]

ReloadInit ==
    /\ release = 0 /\ down = {} /\ faults = 0
    /\ disk = [main |-> 0, prio |-> [k \in Keys |-> IF k \in Leftovers THEN 0 ELSE Absent]]
    /\ cpc = "load" /\ answer = 0 /\ todo = {} /\ lastVersion = 0
    /\ svc = 0 /\ nextSvc = "no"
    /\ bpc = "ctrl" /\ slowBoot \in {"yes", "no"}
    /\ fpc = "wait" /\ seen = Empty /\ digest = Empty
    /\ loaded = Load0 /\ running = Load0

\* The control service publishes a release; an address of it fails or recovers.
Publish ==
    /\ release < MaxRelease /\ release' = release + 1
    /\ UNCHANGED <<down, faults, disk, bpc, slowBoot, running, ctrlVars, fileVars>>

ServerFails(i) ==
    /\ down = {} /\ Servers > 1 /\ down' = {i}
    /\ UNCHANGED <<release, faults, disk, bpc, slowBoot, running, ctrlVars, fileVars>>

Fault == faults < MaxFaults /\ faults' = faults + 1

-----------------------------------------------------------------------------
(* The control loader *)

\* Mutant: always the same address.
MutSameAddress == svc

\* choseCtrlService: the next address after a failed Load.
choseCtrlService == IF nextSvc = "yes" THEN (svc + 1) % Servers ELSE svc

\* Load ends in an error: the next request goes to another address, at once
\* (Run), or after the features were asked for (main's own first round).
LoadFailed ==
    /\ cpc' = (IF bpc = "ctrl" THEN "features" ELSE "load") /\ nextSvc' = "yes"
    /\ answer' = 0 /\ UNCHANGED <<todo, lastVersion>>

\* load: the request reports lastVersion; 304 Not Modified ends the round.
RequestRelease ==
    /\ cpc = "load"
    /\ svc' = choseCtrlService
    /\ \/ /\ svc' \in down /\ LoadFailed /\ UNCHANGED faults
       \/ /\ svc' \notin down /\ Fault /\ LoadFailed
       \/ /\ svc' \notin down /\ nextSvc' = "no"
          /\ IF release = lastVersion
             THEN cpc' = "features" /\ UNCHANGED answer
             ELSE cpc' = "main" /\ answer' = release
          /\ UNCHANGED <<faults, todo, lastVersion>>
    /\ UNCHANGED <<release, down, disk, bpc, slowBoot, running, fileVars>>

\* Load, second half: the main file is replaced by a rename, then the version is
\* remembered, then the priority files are written.
WriteMain ==
    /\ cpc = "main"
    /\ \/ /\ Fault /\ LoadFailed /\ UNCHANGED <<disk, svc>>
       \/ /\ disk' = [disk EXCEPT !.main = answer]
          /\ lastVersion' = answer
          /\ cpc' = "prio" /\ todo' = Carries[answer]
          /\ UNCHANGED <<faults, answer, svc, nextSvc>>
    /\ UNCHANGED <<release, down, bpc, slowBoot, running, fileVars>>

\* writePriorityConfigs: one file; a failure is only logged and ends the writing,
\* cleanup included.
WritePriority(k) ==
    /\ cpc = "prio" /\ k \in todo
    /\ \/ Fault /\ cpc' = "features" /\ todo' = {} /\ answer' = 0 /\ UNCHANGED disk
       \/ /\ disk' = [disk EXCEPT !.prio[k] = answer] /\ todo' = todo \ {k}
          /\ UNCHANGED <<faults, cpc, answer>>
    /\ UNCHANGED <<release, down, bpc, slowBoot, running, lastVersion, svc, nextSvc, fileVars>>

\* cleanUpPriorityConfigs: the files that the release does not carry are removed.
CleanUpPriority ==
    /\ cpc = "prio" /\ todo = {}
    /\ disk' = [disk EXCEPT !.prio = [k \in Keys |-> IF k \in Carries[answer] THEN @[k] ELSE Absent]]
    /\ cpc' = "features" /\ answer' = 0
    /\ UNCHANGED <<release, down, faults, bpc, slowBoot, running, todo, lastVersion,
                   svc, nextSvc, fileVars>>

\* LoadFeatures: a request too, so it uses up a pending change of address; its
\* failures neither end the round nor ask for another address.
LoadFeatures ==
    /\ cpc = "features" /\ cpc' = "sleep"
    /\ svc' = choseCtrlService /\ nextSvc' = "no"
    /\ UNCHANGED <<release, down, faults, disk, bpc, slowBoot, running, answer, todo,
                   lastVersion, fileVars>>

\* Run: five seconds later the next round starts, once main has started Run.
NextRound ==
    /\ cpc = "sleep" /\ bpc # "ctrl"
    /\ cpc' = "load"
    /\ UNCHANGED <<release, down, faults, disk, bpc, slowBoot, running, answer, todo,
                   lastVersion, svc, nextSvc, fileVars>>

-----------------------------------------------------------------------------
(* main and the file loader *)

\* main does one synchronous round of the control loader and starts Run; then
\* NewFileLoader takes the digest of what is on disk, the main file first (without
\* it the process ends), and starts polling.
NewFileLoader ==
    /\ \/ bpc = "ctrl" /\ cpc = "sleep" /\ bpc' = "digest" /\ UNCHANGED <<faults, digest>>
       \/ bpc = "digest" /\ Fault /\ bpc' = "exited" /\ UNCHANGED digest
       \/ /\ bpc = "digest" /\ bpc' = "priority"
          /\ digest' = [digest EXCEPT !.main = disk.main] /\ UNCHANGED faults
       \/ /\ bpc = "priority" /\ bpc' = "load"
          /\ \/ Fault /\ digest' = [digest EXCEPT !.prio = [k \in Keys |-> Unread]]
             \/ digest' = [digest EXCEPT !.prio = disk.prio] /\ UNCHANGED faults
    /\ UNCHANGED <<release, down, disk, slowBoot, running, ctrlVars, fpc, seen, loaded>>

\* Load: the main file is read, then the priority files as they are by then; a
\* priority file or the directory that cannot be read is skipped with a warning.
ReadMain == loaded' = [loaded EXCEPT !.main = disk.main]

mergePriorityConfig ==
    \E skip \in SUBSET {k \in Keys : disk.prio[k] # Absent} :
        /\ IF skip = {} THEN UNCHANGED faults ELSE Fault
        /\ loaded' = [loaded EXCEPT !.skipped = skip,
                         !.prio = [k \in Keys |-> IF k \in skip THEN Absent ELSE disk.prio[k]]]

\* The first Load and Update are main's own; an error of either ends the process.
\* Only when they are done is the reloader registered.
BootLoad ==
    /\ \/ bpc = "load" /\ Fault /\ bpc' = "exited" /\ UNCHANGED loaded
       \/ bpc = "load" /\ ReadMain /\ bpc' = "merge" /\ UNCHANGED faults
       \/ bpc = "merge" /\ mergePriorityConfig /\ bpc' = "update"
    /\ UNCHANGED <<release, down, disk, slowBoot, running, ctrlVars, fpc, seen, digest>>

BootUpdate ==
    /\ bpc = "update"
    /\ IF loaded.main \in Broken
       THEN bpc' = "exited" /\ UNCHANGED running
       ELSE bpc' = "serving" /\ running' = loaded
    /\ loaded' = Load0
    /\ UNCHANGED <<release, down, faults, disk, slowBoot, ctrlVars, fpc, seen, digest>>

\* watchproc, every five seconds: configSHA256 reads the main file, then the
\* priority files (a read error there leaves an empty digest) ...
PollDigest ==
    /\ \/ /\ fpc = "wait"
          /\ bpc = "serving" \/ (slowBoot = "yes" /\ bpc \in {"load", "merge", "update"})
          /\ \/ Fault /\ UNCHANGED <<fpc, seen>>
             \/ seen' = [seen EXCEPT !.main = disk.main] /\ fpc' = "digest" /\ UNCHANGED faults
       \/ /\ fpc = "digest" /\ fpc' = "compare"
          /\ \/ Fault /\ seen' = [seen EXCEPT !.prio = [k \in Keys |-> Unread]]
             \/ seen' = [seen EXCEPT !.prio = disk.prio] /\ UNCHANGED faults
    /\ UNCHANGED <<release, down, disk, bpc, slowBoot, running, ctrlVars, digest, loaded>>

\* ... and compared with the last ones.  On a change the registered handlers run:
\* before main has registered the reloader there is none, and none fails.
CompareDigest ==
    /\ fpc = "compare"
    /\ CASE seen = digest -> fpc' = "wait" /\ seen' = Empty /\ UNCHANGED digest
         [] seen # digest /\ bpc = "serving" -> fpc' = "load" /\ UNCHANGED <<seen, digest>>
         [] OTHER -> fpc' = "wait" /\ digest' = seen /\ seen' = Empty
    /\ UNCHANGED <<release, down, faults, disk, bpc, slowBoot, running, ctrlVars, loaded>>

\* The reloader's Load.
Reload ==
    /\ \/ fpc = "load" /\ Fault /\ fpc' = "wait" /\ seen' = Empty /\ UNCHANGED loaded
       \/ fpc = "load" /\ ReadMain /\ fpc' = "merge" /\ UNCHANGED <<faults, seen>>
       \/ fpc = "merge" /\ mergePriorityConfig /\ fpc' = "update" /\ UNCHANGED seen
    /\ UNCHANGED <<release, down, disk, bpc, slowBoot, running, ctrlVars, digest>>

\* Mutant: the digest is taken after the load.
MutDigestAfterLoad ==
    /\ fpc = "update"
    /\ IF loaded.main \in Broken THEN UNCHANGED <<running, digest>> ELSE running' = loaded /\ digest' = disk
    /\ fpc' = "wait" /\ seen' = Empty /\ loaded' = Load0
    /\ UNCHANGED <<release, down, faults, disk, bpc, slowBoot, ctrlVars>>

\* The reloader's Update: the router is swapped only when every endpoint was
\* built, and the digest is remembered only when Update succeeded.
Update ==
    /\ fpc = "update"
    /\ IF loaded.main \in Broken
       THEN UNCHANGED <<running, digest>>
       ELSE running' = loaded /\ digest' = seen
    /\ fpc' = "wait" /\ seen' = Empty /\ loaded' = Load0
    /\ UNCHANGED <<release, down, faults, disk, bpc, slowBoot, ctrlVars>>

CtrlStep == /\ bpc # "exited"
            /\ \/ RequestRelease \/ WriteMain \/ CleanUpPriority \/ LoadFeatures \/ NextRound
               \/ \E k \in Keys : WritePriority(k)
FileStep == PollDigest \/ CompareDigest \/ Reload \/ Update
BootStep == NewFileLoader \/ BootLoad \/ BootUpdate

ReloadNext == Publish \/ (\E i \in 0..(Servers - 1) : ServerFails(i)) \/ CtrlStep \/ FileStep \/ BootStep

\* The three goroutines run; nothing is assumed of the control service.
ReloadFairness == WF_reloadVars(CtrlStep) /\ WF_reloadVars(FileStep) /\ WF_reloadVars(BootStep)
ReloadSpec == ReloadInit /\ [][ReloadNext]_reloadVars /\ ReloadFairness

-----------------------------------------------------------------------------
ReloadTypeOK ==
    /\ release \in Releases /\ down \subseteq 0..(Servers - 1) /\ faults \in 0..MaxFaults
    /\ disk \in Contents /\ seen \in Contents /\ digest \in Contents
    /\ cpc \in {"load", "main", "prio", "features", "sleep"}
    /\ answer \in Releases /\ todo \subseteq Keys /\ lastVersion \in Releases
    /\ svc \in 0..(Servers - 1) /\ nextSvc \in {"yes", "no"}
    /\ bpc \in {"ctrl", "digest", "priority", "load", "merge", "update", "serving", "exited"}
    /\ slowBoot \in {"yes", "no"}
    /\ fpc \in {"wait", "digest", "compare", "load", "merge", "update"}
    /\ {loaded.main, running.main} \subseteq Releases

\* What is on disk is what the proxy routes with, whenever the poller is at rest
\* and the digest it keeps is the one of the disk: the digest is taken before the
\* files are read, and both sides take the main file first, so a file replaced in
\* between is noticed by the next poll.  Excepted are
\* priority files that could not be read (config.go:134-136, 157-161), which the
\* digest counts as loaded, and a boot whose first Update is slow: a poll before the
\* reloader is registered keeps the new digest, although "config digest will not be
\* changed until all loaders are succeeded" (config.go:243).
DigestIsRunning ==
    slowBoot = "no" /\ fpc = "wait" /\ bpc = "serving" /\ digest = disk /\ running.skipped = {} =>
        running.main = disk.main /\ running.prio = disk.prio

\* A configuration that does not build never becomes the running one.
KeepsLastGood == running.main \notin Broken

\* A release that stays reaches the router although requests, reads and writes
\* fail now and then and one address of the control service is gone for good,
\* unless main met a release it cannot build before it had one.
ReleaseReachesRouter ==
    \A r \in Releases \ (Broken \cup {0}) :
        slowBoot = "no" /\ <>[](release = r) => <>[](running.main = r \/ bpc = "exited")

\* The priority files follow too, in the runs without a failed write: lastVersion
\* is remembered before they are written, so a failed one is not asked for again
\* (ctrl-loader.go:146-151).
PriorityFollows ==
    \A r \in Releases \ (Broken \cup {0}) :
        slowBoot = "no" /\ <>[](release = r /\ faults = 0) =>
            <>[](running.prio = [k \in Keys |-> IF k \in Carries[r] THEN r ELSE Absent]
                 \/ bpc = "exited")

\* A poll neither forgets a change nor gives up what runs for what cannot
\* (config.go:215-290).
ReloadIsSound == ReloadTypeOK /\ DigestIsRunning /\ KeepsLastGood
=============================================================================
