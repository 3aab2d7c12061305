------------------------ MODULE GatewayRequestProofs -------------------------
(* The gateway's configuration and one request through it, for any number of    *)
(* releases, files, faults, attempts and backends.                              *)
(*                                                                              *)
(* The file loader: what is at work was in the files, and a file that cannot be *)
(* read does not replace it.  A request: its attempts, what it holds, and what the *)
(* client is told.                                                              *)
EXTENDS GatewayReload, ProxyRequest, TLAPS

-----------------------------------------------------------------------------
(* The configuration at work, and the files it was loaded from *)

\* What a release leaves in a priority file once it has been written.
Final(r, k) == IF k \in Carries[r] THEN r ELSE Absent

Configs == [main : Releases, prio : [Keys -> Releases \cup {Absent, Unread}], skipped : SUBSET Keys]

\* The control loader writes releases in their order, each one once: the main file
\* first, then files that the release carries.
LoaderInv ==
    /\ lastVersion = disk.main /\ disk.main <= release
    /\ cpc = "main" => disk.main < answer /\ answer <= release
    /\ cpc = "prio" => answer = disk.main /\ todo \subseteq Carries[answer]
    /\ \A k \in Keys : disk.prio[k] # Unread

\* The files f were c, or newer: while the main file has not been replaced, a priority
\* file is as it was or has got what the release leaves in it.
Observed(f, c) ==
    /\ c.main <= f.main
    /\ c.main = f.main => \A k \in Keys : c.prio[k] \in {f.prio[k], Unread} \/ f.prio[k] = Final(f.main, k)

\* The configuration c was read after the digest d had been taken, of files that are f now.
Follows(f, d, c) ==
    /\ d.main <= c.main /\ c.main <= f.main
    /\ d.main = f.main /\ c.skipped = {} =>
          \A k \in Keys : /\ c.prio[k] = f.prio[k] \/ f.prio[k] = Final(f.main, k)
                          /\ d.prio[k] \in {c.prio[k], Unread} \/ c.prio[k] = Final(f.main, k)

\* main's own first round, from the digest to the router that serves.
BootInv ==
    /\ fpc # "wait" => bpc = "serving"
    /\ bpc = "priority" => digest.main <= disk.main
    /\ bpc \in {"load", "merge"} => Observed(disk, digest)
    /\ bpc = "merge" => digest.main <= loaded.main /\ loaded.main <= disk.main
    /\ bpc = "update" => Follows(disk, digest, loaded)
    /\ bpc = "serving" => Follows(disk, digest, running)

\* The poller, from the digest to the router that replaces the one in use.
PollInv ==
    /\ fpc = "digest" => seen.main <= disk.main
    /\ fpc \in {"compare", "load", "merge"} => Observed(disk, seen)
    /\ fpc = "merge" => seen.main <= loaded.main /\ loaded.main <= disk.main
    /\ fpc = "update" => Follows(disk, seen, loaded)

ReloadTypes == ReloadTypeOK /\ loaded \in Configs /\ running \in Configs
ReloadInv == ReloadTypes /\ KeepsLastGood /\ LoaderInv /\ (slowBoot = "no" => BootInv /\ PollInv)

\* A step of the control loader: a newer main file, or what a release leaves.
Grown(f, g) ==
    \/ f.main < g.main
    \/ f.main = g.main /\ \A k \in Keys : g.prio[k] \in {f.prio[k], Final(f.main, k)}

-----------------------------------------------------------------------------
\* What was seen before the files grew still was.
LEMMA GrownObserved ==
  ASSUME NEW f \in Contents, NEW g \in Contents, NEW c \in Contents, Grown(f, g), Observed(f, c)
  PROVE  Observed(g, c)
<1>1. f.main \in Int /\ g.main \in Int /\ c.main \in Int
  BY ReloadConstants DEF Contents, Releases
<1>2. QED
  BY <1>1 DEF Grown, Observed

\* So is what was read after it.
LEMMA GrownFollows ==
  ASSUME NEW f \in Contents, NEW g \in Contents, NEW d \in Contents, NEW c \in Configs, Grown(f, g), Follows(f, d, c)
  PROVE  Follows(g, d, c)
<1>1. f.main \in Int /\ g.main \in Int /\ d.main \in Int /\ c.main \in Int
  BY ReloadConstants DEF Contents, Configs, Releases
<1>2. QED
  BY <1>1 DEF Grown, Follows

\* Reading the priority files last of all completes both.
LEMMA ReadObserved ==
  ASSUME NEW f \in Contents, NEW d \in Contents, d.main <= f.main, d.prio = f.prio \/ d.prio = [k \in Keys |-> Unread]
  PROVE  Observed(f, d)
  BY Zenon DEF Observed
\* What is read between the digest's contents and the files' follows them.
LEMMA ReadFollows ==
  ASSUME NEW f \in Contents, NEW d \in Contents, NEW c \in Configs, Observed(f, d), d.main <= c.main, c.main <= f.main,
         c.skipped = {} => c.prio = f.prio
  PROVE  Follows(f, d, c)
  BY Zenon DEF Observed, Follows

\* With the digest of the files themselves the two agree.
LEMMA FollowsAgrees ==
  ASSUME NEW f \in Contents, NEW c \in Configs, Follows(f, f, c), c.skipped = {}, \A k \in Keys : f.prio[k] # Unread
  PROVE  c.main = f.main /\ c.prio = f.prio
<1>1. f.main \in Int /\ c.main \in Int /\ f.prio = [k \in Keys |-> f.prio[k]] /\ c.prio = [k \in Keys |-> c.prio[k]]
  BY ReloadConstants DEF Contents, Configs, Releases
<1>2. c.main = f.main
  BY <1>1 DEF Follows
<1>3. \A k \in Keys : c.prio[k] = f.prio[k]
  BY Zenon DEF Follows
<1>4. QED
  BY <1>1, <1>2, <1>3

-----------------------------------------------------------------------------
\* ReloadInit establishes the invariant.
LEMMA InitReloadInv == ReloadInit => ReloadInv
<1> SUFFICES ASSUME ReloadInit PROVE ReloadInv
  BY Zenon
<1>1. 0 \in Releases /\ Absent \notin Releases /\ Unread \notin Releases /\ 0 \notin Broken
  BY ReloadConstants DEF Releases, Absent, Unread
<1>2. disk \in Contents /\ Empty \in Contents /\ Load0 \in Configs
  BY <1>1, Zenon DEF ReloadInit, Contents, Configs, Empty, Load0, Nothing
<1>3. ReloadTypes
  BY <1>1, <1>2, ReloadConstants DEF ReloadInit, ReloadTypes, ReloadTypeOK, Load0
<1>4. KeepsLastGood
  BY <1>1 DEF ReloadInit, KeepsLastGood, Load0
<1>5. LoaderInv
  BY DEF ReloadInit, LoaderInv, Absent, Unread
<1>6. BootInv /\ PollInv
  BY Zenon DEF ReloadInit, BootInv, PollInv
<1>7. QED
  BY <1>3, <1>4, <1>5, <1>6 DEF ReloadInv

\* The control loader touches nothing of main and the poller, and the files grow.
LEMMA CtrlGrows ==
  ASSUME ReloadTypes, LoaderInv, CtrlStep
  PROVE  /\ ReloadTypes' /\ LoaderInv' /\ Grown(disk, disk')
         /\ UNCHANGED <<bpc, slowBoot, running, fileVars>>
<1> USE DEF ReloadTypes, ReloadTypeOK
<1>0. disk.main \in Int /\ release \in Int /\ answer \in Int /\ Absent # Unread /\ Unread \notin Releases
  BY ReloadConstants DEF Contents, Releases, Absent, Unread
<1>1. CASE RequestRelease
  <2>1. UNCHANGED <<release, down, disk, bpc, slowBoot, running, fileVars>>
    BY <1>1, Zenon DEF RequestRelease
  <2>2. svc' \in 0..(Servers - 1)
    BY <1>1, ReloadConstants DEF RequestRelease, choseCtrlService
  <2>3. ReloadTypes'
    BY <1>1, <2>1, <2>2, ReloadConstants, SMTT(30) DEF RequestRelease, LoadFailed, Fault, fileVars, Releases
  <2>4. LoaderInv'
    BY <1>0, <1>1, <2>1 DEF RequestRelease, LoadFailed, LoaderInv
  <2>5. QED
    BY <2>1, <2>3, <2>4 DEF Grown
<1>2. CASE WriteMain
  <2>1. UNCHANGED <<release, down, svc, bpc, slowBoot, running, fileVars>>
    BY <1>2, Zenon DEF WriteMain
  <2>2. CASE Fault /\ LoadFailed /\ UNCHANGED <<disk, svc>>
    <3>1. ReloadTypes'
      BY <2>1, <2>2, ReloadConstants DEF LoadFailed, Fault, fileVars, Releases
    <3>2. LoaderInv'
      BY <2>1, <2>2 DEF LoadFailed, LoaderInv
    <3>3. QED
      BY <2>1, <2>2, <3>1, <3>2, Zenon DEF Grown
  <2>3. CASE /\ disk' = [disk EXCEPT !.main = answer] /\ lastVersion' = answer
             /\ cpc' = "prio" /\ todo' = Carries[answer] /\ UNCHANGED <<faults, answer, svc, nextSvc>>
    <3>1. disk' \in Contents /\ disk'.main = answer /\ disk'.prio = disk.prio
      BY <2>3, Zenon DEF Contents
    <3>2. ReloadTypes'
      BY <2>1, <2>3, <3>1, ReloadConstants, Zenon DEF fileVars, Releases
    <3>3. disk.main < disk'.main /\ answer <= release
      BY <1>2, <3>1, Zenon DEF WriteMain, LoaderInv
    <3>4. LoaderInv'
      BY <1>2, <2>1, <2>3, <3>1, <3>3 DEF LoaderInv
    <3>5. QED
      BY <2>1, <3>2, <3>3, <3>4 DEF Grown
  <2>4. QED
    BY <1>2, <2>2, <2>3, Zenon DEF WriteMain
<1>3. ASSUME NEW k \in Keys, WritePriority(k)
      PROVE  ReloadTypes' /\ LoaderInv' /\ Grown(disk, disk') /\ UNCHANGED <<bpc, slowBoot, running, fileVars>>
  <2>1. UNCHANGED <<release, down, svc, nextSvc, lastVersion, bpc, slowBoot, running, fileVars>>
    BY <1>3, Zenon DEF WritePriority
  <2>2. answer = disk.main /\ k \in Carries[answer]
    BY <1>3, Zenon DEF WritePriority, LoaderInv
  <2>3. CASE Fault /\ cpc' = "features" /\ todo' = {} /\ answer' = 0 /\ UNCHANGED disk
    <3>1. ReloadTypes'
      BY <2>1, <2>3, ReloadConstants DEF Fault, fileVars, Releases
    <3>2. LoaderInv'
      BY <2>1, <2>3, Zenon DEF LoaderInv
    <3>3. QED
      BY <2>1, <2>3, <3>1, <3>2, Zenon DEF Grown
  <2>4. CASE disk' = [disk EXCEPT !.prio[k] = answer] /\ todo' = todo \ {k} /\ UNCHANGED <<faults, cpc, answer>>
    <3>1. /\ disk' \in Contents /\ disk'.main = disk.main
          /\ \A h \in Keys : disk'.prio[h] = IF h = k THEN answer ELSE disk.prio[h]
      BY <2>4, Zenon DEF Contents
    <3>2. ReloadTypes'
      BY <2>1, <2>4, <3>1 DEF fileVars
    <3>3. LoaderInv'
      BY <1>0, <2>1, <2>4, <3>1, Zenon DEF LoaderInv
    <3>4. Grown(disk, disk')
      BY <2>2, <3>1 DEF Grown, Final
    <3>5. QED
      BY <2>1, <3>2, <3>3, <3>4, Zenon
  <2>5. QED
    BY <1>3, <2>3, <2>4, Zenon DEF WritePriority
<1>4. CASE CleanUpPriority
  <2>1. UNCHANGED <<release, down, faults, svc, nextSvc, todo, lastVersion, bpc, slowBoot, running, fileVars>>
    BY <1>4, Zenon DEF CleanUpPriority
  <2>2. /\ disk' \in Contents /\ disk'.main = disk.main
        /\ \A h \in Keys : disk'.prio[h] = IF h \in Carries[answer] THEN disk.prio[h] ELSE Absent
    BY <1>4, Zenon DEF CleanUpPriority, Contents
  <2>3. ReloadTypes'
    BY <1>4, <2>1, <2>2, ReloadConstants DEF CleanUpPriority, fileVars, Releases
  <2>4. LoaderInv'
    BY <1>0, <1>4, <2>1, <2>2 DEF CleanUpPriority, LoaderInv
  <2>5. Grown(disk, disk')
    BY <1>4, <2>2 DEF CleanUpPriority, LoaderInv, Grown, Final
  <2>6. QED
    BY <2>1, <2>3, <2>4, <2>5, Zenon
<1>5. CASE LoadFeatures
  <2>1. svc' \in 0..(Servers - 1)
    BY <1>5, ReloadConstants DEF LoadFeatures, choseCtrlService
  <2>2. QED
    BY <1>5, <2>1, Zenon DEF LoadFeatures, LoaderInv, Grown, fileVars
<1>6. CASE NextRound
  BY <1>6 DEF NextRound, LoaderInv, Grown, fileVars
<1>7. QED
  BY <1>1, <1>2, <1>3, <1>4, <1>5, <1>6, Zenon DEF CtrlStep

\* So every digest and every configuration keeps its place in the order.
LEMMA GrownKeeps ==
  ASSUME ReloadTypes, ReloadTypes', BootInv, PollInv, Grown(disk, disk'), UNCHANGED <<bpc, running, fileVars>>
  PROVE  BootInv' /\ PollInv'
<1>0. /\ disk \in Contents /\ disk' \in Contents /\ digest \in Contents /\ seen \in Contents
      /\ loaded \in Configs /\ running \in Configs
  BY Zenon DEF ReloadTypes, ReloadTypeOK
<1>1. /\ disk.main \in Int /\ disk'.main \in Int /\ digest.main \in Int /\ seen.main \in Int /\ loaded.main \in Int
      /\ disk.main <= disk'.main
  BY <1>0, ReloadConstants DEF Contents, Configs, Releases, Grown
<1>2. /\ Observed(disk, digest) => Observed(disk', digest)
      /\ Observed(disk, seen) => Observed(disk', seen)
  BY <1>0, GrownObserved
<1>3. /\ Follows(disk, digest, loaded) => Follows(disk', digest, loaded)
      /\ Follows(disk, digest, running) => Follows(disk', digest, running)
      /\ Follows(disk, seen, loaded) => Follows(disk', seen, loaded)
  BY <1>0, GrownFollows, Zenon
<1>4. BootInv'
  BY <1>1, <1>2, <1>3 DEF BootInv, fileVars
<1>5. PollInv'
  BY <1>1, <1>2, <1>3 DEF PollInv, fileVars
<1>6. QED
  BY <1>4, <1>5, Zenon

\* A step of the control loader only adds to the files: a reader mid-way stays sound.
LEMMA CtrlStepInv ==
  ASSUME ReloadInv, CtrlStep
  PROVE  ReloadInv'
<1>1. ReloadTypes' /\ LoaderInv' /\ Grown(disk, disk') /\ UNCHANGED <<bpc, slowBoot, running, fileVars>>
  BY CtrlGrows, Zenon DEF ReloadInv
<1>2. KeepsLastGood'
  BY <1>1, Zenon DEF ReloadInv, KeepsLastGood
<1>3. slowBoot' = "no" => BootInv' /\ PollInv'
  BY <1>1, GrownKeeps, Zenon DEF ReloadInv
<1>4. QED
  BY <1>1, <1>2, <1>3, Zenon DEF ReloadInv

\* A merge reads the priority files as they are, or leaves some out.
LEMMA MergeReads ==
  ASSUME ReloadTypes, mergePriorityConfig
  PROVE  /\ loaded' \in Configs /\ loaded'.main = loaded.main
         /\ loaded'.skipped = {} => loaded'.prio = disk.prio
         /\ faults' \in 0..MaxFaults
<1>1. PICK skip \in SUBSET {k \in Keys : disk.prio[k] # Absent} :
        /\ IF skip = {} THEN UNCHANGED faults ELSE Fault
        /\ loaded' = [loaded EXCEPT !.skipped = skip, !.prio = [k \in Keys |-> IF k \in skip THEN Absent ELSE disk.prio[k]]]
  BY Zenon DEF mergePriorityConfig
<1>2. disk.prio \in [Keys -> Releases \cup {Absent, Unread}] /\ disk.prio = [k \in Keys |-> disk.prio[k]]
  BY Zenon DEF ReloadTypes, ReloadTypeOK, Contents
<1>3. /\ loaded' \in Configs /\ loaded'.main = loaded.main /\ loaded'.skipped = skip
      /\ loaded'.prio = [k \in Keys |-> IF k \in skip THEN Absent ELSE disk.prio[k]]
  BY <1>1, <1>2, Zenon DEF ReloadTypes, Configs
<1>4. faults' \in 0..MaxFaults
  BY <1>1, ReloadConstants DEF ReloadTypes, ReloadTypeOK, Fault
<1>5. QED
  BY <1>2, <1>3, <1>4, Zenon

\* The main file is read.
LEMMA MainReads ==
  ASSUME ReloadTypes, ReadMain
  PROVE  loaded' \in Configs /\ loaded'.main = disk.main
  BY Zenon DEF ReloadTypes, ReloadTypeOK, ReadMain, Configs, Contents

\* A step that leaves the files and the control loader alone.
CtrlStays == UNCHANGED <<release, down, disk, slowBoot, ctrlVars>>

\* What the file loader does leaves the control loader alone.
LEMMA LoaderStays ==
  ASSUME LoaderInv, CtrlStays
  PROVE  LoaderInv'
  BY Zenon DEF LoaderInv, CtrlStays, ctrlVars

\* The file loader is made, with the digest of what it finds.
LEMMA NewFileLoaderInv ==
  ASSUME ReloadInv, NewFileLoader
  PROVE  ReloadInv'
<1> USE DEF ReloadInv, ReloadTypes, ReloadTypeOK
<1>0. CtrlStays /\ UNCHANGED <<running, fpc, seen, loaded>>
  BY Zenon DEF NewFileLoader, CtrlStays
<1>1. LoaderInv' /\ KeepsLastGood'
  BY <1>0, LoaderStays, Zenon DEF KeepsLastGood
<1>2. disk.main \in Int /\ digest.main \in Int /\ Unread \notin Releases
  BY ReloadConstants DEF Contents, Releases, Unread
<1>3. CASE bpc = "ctrl" /\ cpc = "sleep" /\ bpc' = "digest" /\ UNCHANGED <<faults, digest>>
  BY <1>0, <1>1, <1>3, Zenon DEF CtrlStays, ctrlVars, BootInv, PollInv
<1>4. CASE bpc = "digest" /\ Fault /\ bpc' = "exited" /\ UNCHANGED digest
  BY <1>0, <1>1, <1>4, ReloadConstants DEF Fault, CtrlStays, ctrlVars, BootInv, PollInv
<1>5. CASE bpc = "digest" /\ bpc' = "priority" /\ digest' = [digest EXCEPT !.main = disk.main] /\ UNCHANGED faults
  <2>1. digest' \in Contents /\ digest'.main = disk.main
    BY <1>5, Zenon DEF Contents
  <2>2. QED
    BY <1>0, <1>1, <1>2, <1>5, <2>1 DEF CtrlStays, ctrlVars, BootInv, PollInv
<1>6. CASE /\ bpc = "priority" /\ bpc' = "load"
           /\ \/ Fault /\ digest' = [digest EXCEPT !.prio = [k \in Keys |-> Unread]]
              \/ digest' = [digest EXCEPT !.prio = disk.prio] /\ UNCHANGED faults
  <2>1. /\ digest' \in Contents /\ digest'.main = digest.main /\ faults' \in 0..MaxFaults
        /\ digest'.prio = disk.prio \/ digest'.prio = [k \in Keys |-> Unread]
    BY <1>6, ReloadConstants DEF Contents, Fault
  <2>2. slowBoot = "no" => digest'.main <= disk.main
    BY <1>6, <2>1 DEF BootInv
  <2>3. slowBoot = "no" => Observed(disk, digest')
    BY <2>1, <2>2, ReadObserved
  <2>4. QED
    BY <1>0, <1>1, <1>2, <1>6, <2>1, <2>3, Zenon DEF CtrlStays, ctrlVars, BootInv, PollInv
<1>7. QED
  BY <1>3, <1>4, <1>5, <1>6, Zenon DEF NewFileLoader

\* The configuration is loaded for the first time.
LEMMA BootLoadInv ==
  ASSUME ReloadInv, BootLoad
  PROVE  ReloadInv'
<1> USE DEF ReloadInv, ReloadTypes, ReloadTypeOK
<1>0. CtrlStays /\ UNCHANGED <<running, fpc, seen, digest>>
  BY Zenon DEF BootLoad, CtrlStays
<1>1. LoaderInv' /\ KeepsLastGood'
  BY <1>0, LoaderStays, Zenon DEF KeepsLastGood
<1>2. disk.main \in Int /\ digest.main \in Int /\ loaded.main \in Int
  BY ReloadConstants DEF Contents, Configs, Releases
<1>3. CASE bpc = "load" /\ Fault /\ bpc' = "exited" /\ UNCHANGED loaded
  BY <1>0, <1>1, <1>3, ReloadConstants, SMTT(30) DEF Fault, CtrlStays, ctrlVars, BootInv, PollInv
<1>4. CASE bpc = "load" /\ ReadMain /\ bpc' = "merge" /\ UNCHANGED faults
  <2>1. loaded' \in Configs /\ loaded'.main = disk.main
    BY <1>4, MainReads, Zenon
  <2>2. slowBoot = "no" => Observed(disk, digest) /\ digest.main <= disk.main
    BY <1>4 DEF BootInv, Observed
  <2>3. loaded'.main \in Releases
    BY <2>1, Zenon DEF Contents
  <2>4. QED
    BY <1>0, <1>1, <1>2, <1>4, <2>1, <2>2, <2>3 DEF CtrlStays, ctrlVars, BootInv, PollInv
<1>5. CASE bpc = "merge" /\ mergePriorityConfig /\ bpc' = "update"
  <2>1. loaded' \in Configs /\ loaded'.main = loaded.main /\ (loaded'.skipped = {} => loaded'.prio = disk.prio) /\ faults' \in 0..MaxFaults
    BY <1>5, MergeReads
  <2>2. slowBoot = "no" => Observed(disk, digest) /\ digest.main <= loaded'.main /\ loaded'.main <= disk.main
    BY <1>5, <2>1, Zenon DEF BootInv
  <2>3. slowBoot = "no" => Follows(disk, digest, loaded')
    BY <2>1, <2>2, ReadFollows, Zenon
  <2>4. QED
    BY <1>0, <1>1, <1>5, <2>1, <2>3, Zenon DEF CtrlStays, ctrlVars, BootInv, PollInv
<1>6. QED
  BY <1>3, <1>4, <1>5, Zenon DEF BootLoad

\* The first configuration is put to work.
LEMMA BootUpdateInv ==
  ASSUME ReloadInv, BootUpdate
  PROVE  ReloadInv'
<1> USE DEF ReloadInv, ReloadTypes, ReloadTypeOK
<1>0. CtrlStays /\ UNCHANGED <<fpc, seen, digest, faults>> /\ loaded' = Load0 /\ bpc = "update"
  BY Zenon DEF BootUpdate, CtrlStays
<1>1. LoaderInv'
  BY <1>0, LoaderStays, Zenon
<1>2. Load0 \in Configs /\ Load0.main \in Releases
  BY ReloadConstants DEF Configs, Load0, Nothing, Releases
<1>3. CASE bpc' = "exited" /\ UNCHANGED running
  BY <1>0, <1>1, <1>2, <1>3, Zenon DEF CtrlStays, ctrlVars, BootInv, PollInv, KeepsLastGood
<1>4. CASE loaded.main \notin Broken /\ bpc' = "serving" /\ running' = loaded
  BY <1>0, <1>1, <1>2, <1>4, Zenon DEF CtrlStays, ctrlVars, BootInv, PollInv, KeepsLastGood
<1>5. QED
  BY <1>3, <1>4, Zenon DEF BootUpdate

\* The files are read for a new digest, one after the other.
LEMMA PollDigestInv ==
  ASSUME ReloadInv, PollDigest
  PROVE  ReloadInv'
<1> USE DEF ReloadInv, ReloadTypes, ReloadTypeOK
<1>0. CtrlStays /\ UNCHANGED <<bpc, running, digest, loaded>>
  BY Zenon DEF PollDigest, CtrlStays
<1>1. LoaderInv' /\ KeepsLastGood'
  BY <1>0, LoaderStays, Zenon DEF KeepsLastGood
<1>2. disk.main \in Int /\ seen.main \in Int
  BY ReloadConstants, SMTT(30) DEF Contents, Releases
<1>3. CASE /\ fpc = "wait" /\ (bpc = "serving" \/ (slowBoot = "yes" /\ bpc \in {"load", "merge", "update"}))
           /\ Fault /\ UNCHANGED <<fpc, seen>>
  BY <1>0, <1>1, <1>3, ReloadConstants DEF Fault, CtrlStays, ctrlVars, BootInv, PollInv
<1>4. CASE /\ fpc = "wait" /\ (bpc = "serving" \/ (slowBoot = "yes" /\ bpc \in {"load", "merge", "update"}))
           /\ seen' = [seen EXCEPT !.main = disk.main] /\ fpc' = "digest" /\ UNCHANGED faults
  <2>1. seen' \in Contents /\ seen'.main = disk.main
    BY <1>4 DEF Contents
  <2>2. QED
    BY <1>0, <1>1, <1>2, <1>4, <2>1 DEF CtrlStays, ctrlVars, BootInv, PollInv
<1>5. CASE /\ fpc = "digest" /\ fpc' = "compare"
           /\ \/ Fault /\ seen' = [seen EXCEPT !.prio = [k \in Keys |-> Unread]]
              \/ seen' = [seen EXCEPT !.prio = disk.prio] /\ UNCHANGED faults
  <2>1. /\ seen' \in Contents /\ seen'.main = seen.main /\ faults' \in 0..MaxFaults
        /\ seen'.prio = disk.prio \/ seen'.prio = [k \in Keys |-> Unread]
    BY <1>5, ReloadConstants DEF Contents, Fault
  <2>2. slowBoot = "no" => seen'.main <= disk.main
    BY <1>5, <2>1, Zenon DEF PollInv
  <2>3. slowBoot = "no" => Observed(disk, seen')
    BY <2>1, <2>2, ReadObserved, Zenon
  <2>4. QED
    BY <1>0, <1>1, <1>5, <2>1, <2>3, Zenon DEF CtrlStays, ctrlVars, BootInv, PollInv
<1>6. QED
  BY <1>3, <1>4, <1>5, Zenon DEF PollDigest

\* The digest is compared with the one kept.
LEMMA CompareDigestInv ==
  ASSUME ReloadInv, CompareDigest
  PROVE  ReloadInv'
<1> USE DEF ReloadInv, ReloadTypes, ReloadTypeOK
<1>0. CtrlStays /\ UNCHANGED <<bpc, running, loaded, faults>> /\ fpc = "compare"
  BY Zenon DEF CompareDigest, CtrlStays
<1>1. LoaderInv' /\ KeepsLastGood'
  BY <1>0, LoaderStays, Zenon DEF KeepsLastGood
<1>2. Empty \in Contents
  BY ReloadConstants DEF Contents, Empty, Nothing, Releases
<1>3. CASE fpc' = "wait" /\ seen' = Empty /\ UNCHANGED digest
  BY <1>0, <1>1, <1>2, <1>3, Zenon DEF CtrlStays, ctrlVars, BootInv, PollInv
<1>4. CASE fpc' = "load" /\ UNCHANGED <<seen, digest>>
  BY <1>0, <1>1, <1>4, Zenon DEF CtrlStays, ctrlVars, BootInv, PollInv
<1>5. CASE bpc # "serving" /\ fpc' = "wait" /\ digest' = seen /\ seen' = Empty
  BY <1>0, <1>1, <1>2, <1>5, Zenon DEF CtrlStays, ctrlVars, BootInv, PollInv
<1>6. QED
  BY <1>3, <1>4, <1>5, Zenon DEF CompareDigest

\* The configuration is loaded anew, one file after the other.
LEMMA ReloadLoadInv ==
  ASSUME ReloadInv, Reload
  PROVE  ReloadInv'
<1> USE DEF ReloadInv, ReloadTypes, ReloadTypeOK
<1>0. CtrlStays /\ UNCHANGED <<bpc, running, digest>>
  BY Zenon DEF Reload, CtrlStays
<1>1. LoaderInv' /\ KeepsLastGood'
  BY <1>0, LoaderStays, Zenon DEF KeepsLastGood
<1>2. disk.main \in Int /\ seen.main \in Int /\ loaded.main \in Int /\ Empty \in Contents
  BY ReloadConstants, SMTT(30) DEF Contents, Configs, Releases, Empty, Nothing
<1>3. CASE fpc = "load" /\ Fault /\ fpc' = "wait" /\ seen' = Empty /\ UNCHANGED loaded
  BY <1>0, <1>1, <1>2, <1>3, ReloadConstants, SMTT(30) DEF Fault, CtrlStays, ctrlVars, BootInv, PollInv
<1>4. CASE fpc = "load" /\ ReadMain /\ fpc' = "merge" /\ UNCHANGED <<faults, seen>>
  <2>1. loaded' \in Configs /\ loaded'.main = disk.main
    BY <1>4, MainReads, Zenon
  <2>2. slowBoot = "no" => Observed(disk, seen) /\ seen.main <= disk.main
    BY <1>4, Zenon DEF PollInv, Observed
  <2>3. loaded'.main \in Releases
    BY <2>1, Zenon DEF Contents
  <2>4. slowBoot = "no" => bpc = "serving"
    BY <1>4, Zenon DEF BootInv
  <2>5. QED
    BY <1>0, <1>1, <1>2, <1>4, <2>1, <2>2, <2>3, <2>4 DEF CtrlStays, ctrlVars, BootInv, PollInv
<1>5. CASE fpc = "merge" /\ mergePriorityConfig /\ fpc' = "update" /\ UNCHANGED seen
  <2>1. loaded' \in Configs /\ loaded'.main = loaded.main /\ (loaded'.skipped = {} => loaded'.prio = disk.prio) /\ faults' \in 0..MaxFaults
    BY <1>5, MergeReads, Zenon
  <2>2. slowBoot = "no" => Observed(disk, seen) /\ seen.main <= loaded'.main /\ loaded'.main <= disk.main
    BY <1>5, <2>1, Zenon DEF PollInv
  <2>3. slowBoot = "no" => Follows(disk, seen, loaded')
    BY <2>1, <2>2, ReadFollows, Zenon
  <2>4. slowBoot = "no" => bpc = "serving"
    BY <1>5, Zenon DEF BootInv
  <2>5. QED
    BY <1>0, <1>1, <1>5, <2>1, <2>3, <2>4, ZenonT(40) DEF CtrlStays, ctrlVars, BootInv, PollInv
<1>6. QED
  BY <1>3, <1>4, <1>5, Zenon DEF Reload

\* The new configuration replaces the one at work, or is refused.
LEMMA UpdateInv ==
  ASSUME ReloadInv, Update
  PROVE  ReloadInv'
<1> USE DEF ReloadInv, ReloadTypes, ReloadTypeOK
<1>0. CtrlStays /\ UNCHANGED <<bpc, faults>> /\ fpc = "update" /\ fpc' = "wait" /\ seen' = Empty /\ loaded' = Load0
  BY Zenon DEF Update, CtrlStays
<1>1. LoaderInv'
  BY <1>0, LoaderStays, Zenon
<1>2. Load0 \in Configs /\ Load0.main \in Releases /\ Empty \in Contents
  BY ReloadConstants, SMTT(30) DEF Configs, Contents, Load0, Empty, Nothing, Releases
<1>3. CASE UNCHANGED <<running, digest>>
  BY <1>0, <1>1, <1>2, <1>3 DEF CtrlStays, ctrlVars, BootInv, PollInv, KeepsLastGood
<1>4. CASE loaded.main \notin Broken /\ running' = loaded /\ digest' = seen
  BY <1>0, <1>1, <1>2, <1>4, Zenon DEF CtrlStays, ctrlVars, BootInv, PollInv, KeepsLastGood
<1>5. QED
  BY <1>3, <1>4, Zenon DEF Update

\* Each step of ReloadNext preserves the invariant.
LEMMA ReloadStepInv == ReloadInv /\ [ReloadNext]_reloadVars => ReloadInv'
<1> SUFFICES ASSUME ReloadInv, [ReloadNext]_reloadVars PROVE ReloadInv'
  BY Zenon
<1>1. CASE Publish
  <2>1. UNCHANGED <<down, faults, disk, bpc, slowBoot, running, ctrlVars, fileVars>> /\ release' \in Releases /\ release' = release + 1
    BY <1>1, ReloadConstants DEF Publish, ReloadInv, ReloadTypes, ReloadTypeOK, Releases
  <2>2. ReloadTypes'
    BY <2>1 DEF ReloadInv, ReloadTypes, ReloadTypeOK, ctrlVars, fileVars
  <2>3. LoaderInv'
    BY <2>1, ReloadConstants, SMTT(30) DEF ReloadInv, ReloadTypes, ReloadTypeOK, LoaderInv, ctrlVars, Contents, Releases
  <2>4. QED
    BY <2>1, <2>2, <2>3, Zenon DEF ReloadInv, BootInv, PollInv, KeepsLastGood, fileVars
<1>2. CASE (\E a \in 0..(Servers - 1) : ServerFails(a)) \/ UNCHANGED reloadVars
  <2>1. UNCHANGED <<release, faults, disk, bpc, slowBoot, running, ctrlVars, fileVars>> /\ down' \subseteq 0..(Servers - 1)
    BY <1>2, Zenon DEF ServerFails, reloadVars, ReloadInv, ReloadTypes, ReloadTypeOK
  <2>2. ReloadTypes'
    BY <2>1 DEF ReloadInv, ReloadTypes, ReloadTypeOK, ctrlVars, fileVars
  <2>3. QED
    BY <2>1, <2>2 DEF ReloadInv, BootInv, PollInv, KeepsLastGood, LoaderInv, ctrlVars, fileVars
<1>3. QED
  BY <1>1, <1>2, CtrlStepInv, NewFileLoaderInv, BootLoadInv, BootUpdateInv, PollDigestInv, CompareDigestInv,
     ReloadLoadInv, UpdateInv, Zenon DEF ReloadNext, FileStep, BootStep

\* A configuration that does not build never runs, and when the poller rests with the
\* digest of the files, the router was built from these files (config.go:215-290).
THEOREM ReloadSound == ReloadSpec => []ReloadIsSound
<1>1. ReloadInv => ReloadIsSound
  <2> SUFFICES ASSUME ReloadInv PROVE ReloadIsSound
    BY Zenon
  <2>1. DigestIsRunning
    BY FollowsAgrees, Zenon DEF DigestIsRunning, ReloadInv, ReloadTypes, ReloadTypeOK, LoaderInv, BootInv
  <2>2. QED
    BY <2>1, Zenon DEF ReloadInv, ReloadTypes, ReloadIsSound
<1>2. QED
  BY <1>1, InitReloadInv, ReloadStepInv, PTL DEF ReloadSpec

-----------------------------------------------------------------------------
(* One request and its attempts *)

\* The endpoint is one of those built, and the counters have a place per attempt.
RequestTypes ==
    /\ ep \in Settings /\ RequestTypeOK /\ calcAttempts(ep) \in Nat \ {0}
    /\ released \in [1..calcAttempts(ep) -> Nat] /\ marks \in Nat /\ passes \in Nat
    /\ resp.body \in {"open", "closed"} /\ doneFunc \in Nat

\* A response was closed exactly when its attempt is to be retried, and what the client
\* has got is of it.
ResponseInv ==
    /\ qpc = "begin" => i = 0 /\ err = "nil" /\ resp = NoResponse
    /\ qpc \in {"trip", "client", "backup"} => i > 0 /\ i \notin picked \cup rejected
    /\ qpc = "judge" => i > 0 /\ i \notin rejected
    /\ qpc \in {"judge", "copy"} => err = "nil"
    /\ qpc \notin {"trip", "client", "backup"} /\ err = "nil" => (resp.body = "closed" <=> i \in rejected)
    /\ qpc = "copy" => client.status = resp.status
    /\ ep.stream = "yes" => rejected = {}

\* done was called for the nodes that failed and for nobody else, until the handler
\* calls the one it kept.
Over == qpc = "done" \/ (qpc = "copy" /\ ep.stream = "yes")
Kept == doneFunc \in rejected \/ (doneFunc = i /\ err = "nil" /\ qpc \in {"judge", "answer", "copy", "done"})
DoneInv ==
    /\ doneFunc # 0 => doneFunc \in picked /\ Kept
    /\ \A a \in 1..calcAttempts(ep) :
          /\ a \notin picked => released[a] = 0
          /\ a \in picked /\ a \notin rejected /\ a # doneFunc => released[a] = 1
          /\ a # doneFunc => released[a] \in {0, 1}
    /\ doneFunc # 0 /\ ~Over => released[doneFunc] = 0
    /\ doneFunc # 0 => released[doneFunc] \in {0, 1}
    /\ doneFunc # 0 /\ Over /\ doneFunc \notin rejected => released[doneFunc] = 1

\* The breaker owes a mark only while the client is asked.
MarkInv ==
    IF qpc = "client" /\ ep.breaker # "none" THEN passes = marks + 1 ELSE passes = marks

RequestInv == RequestTypes /\ ResponseInv /\ DoneInv /\ MarkInv /\ FreshNodesFirst /\ AcceptedArrivesWhole

-----------------------------------------------------------------------------
\* There is at least one attempt.
LEMMA AttemptsPositive ==
  ASSUME NEW e \in Settings
  PROVE  calcAttempts(e) \in Nat \ {0}
  BY RequestConstants DEF calcAttempts

\* RequestInit establishes the invariant.
LEMMA InitRequestInv == RequestInit => RequestInv
<1> SUFFICES ASSUME RequestInit PROVE RequestInv
  BY Zenon
<1>1. ep \in Settings /\ calcAttempts(ep) \in Nat \ {0}
  BY AttemptsPositive, Zenon DEF RequestInit
<1>2. RequestTypes
  BY <1>1 DEF RequestInit, RequestTypes, RequestTypeOK, NoResponse
<1>3. ResponseInv
  BY Zenon DEF RequestInit, ResponseInv, NoResponse
<1>4. DoneInv
  BY <1>1, Zenon DEF RequestInit, DoneInv
<1>5. MarkInv /\ FreshNodesFirst /\ AcceptedArrivesWhole
  BY SMTT(30) DEF RequestInit, MarkInv, FreshNodesFirst, AcceptedArrivesWhole
<1>6. QED
  BY <1>2, <1>3, <1>4, <1>5, Zenon DEF RequestInv

\* The request's context ends.
LEMMA ExpireInv ==
  ASSUME RequestInv, NEW e \in {"canceled", "deadline"}, Expire(e)
  PROVE  RequestInv'
<1>1. UNCHANGED <<ep, qpc, i, err, resp, backends, doneFunc, released, marks, passes, client, picked, rejected, broken>>
  BY Zenon DEF Expire, hist
<1>2. cerr' \in {"nil", "canceled", "deadline"}
  BY Zenon DEF Expire
<1>3. RequestTypes'
  BY <1>1, <1>2, Zenon DEF RequestInv, RequestTypes, RequestTypeOK
<1>4. QED
  BY <1>1, <1>3 DEF RequestInv, ResponseInv, DoneInv, Over, Kept, MarkInv, FreshNodesFirst, AcceptedArrivesWhole

\* The body is read before the first attempt.
LEMMA ReadBodyInv ==
  ASSUME RequestInv, ReadBody
  PROVE  RequestInv'
<1>0. /\ UNCHANGED <<ep, cerr, err, resp, backends, doneFunc, released, marks, passes, picked, rejected, broken>>
      /\ qpc = "begin" /\ i = 0 /\ err = "nil" /\ resp = NoResponse /\ ep \in Settings
      /\ ep.stream \in {"yes", "no"}
  BY RequestConstants, Zenon DEF ReadBody, RequestInv, RequestTypes, ResponseInv, hist
<1>1. /\ qpc' \in {"attempt", "trip", "done"} /\ i' \in {0, 1} /\ (qpc' = "trip" <=> i' = 1)
  BY <1>0 DEF ReadBody, writeError
<1>2. picked = {} /\ rejected = {} /\ doneFunc = 0 /\ calcAttempts(ep) \in Nat \ {0}
  BY <1>0, AttemptsPositive DEF RequestInv, RequestTypes, RequestTypeOK
<1>3. RequestTypes'
  BY <1>0, <1>1, <1>2 DEF RequestInv, RequestTypes, RequestTypeOK
<1>4. ResponseInv'
  BY <1>0, <1>1, <1>2 DEF ResponseInv, NoResponse
<1>5. DoneInv'
  BY <1>0, <1>2, Zenon DEF RequestInv, DoneInv
<1>6. MarkInv' /\ FreshNodesFirst' /\ AcceptedArrivesWhole'
  BY <1>0, <1>1 DEF RequestInv, MarkInv, FreshNodesFirst, AcceptedArrivesWhole, NoResponse
<1>7. QED
  BY <1>3, <1>4, <1>5, <1>6, Zenon DEF RequestInv

\* An attempt begins, or the last one has been made.
LEMMA NextAttemptInv ==
  ASSUME RequestInv, NextAttempt
  PROVE  RequestInv'
<1>0. /\ UNCHANGED <<ep, cerr, resp, backends, doneFunc, released, marks, passes, client, picked, rejected, broken>>
      /\ qpc = "attempt" /\ i \in Nat /\ picked \cup rejected \subseteq 1..i /\ doneFunc \in 0..i
      /\ i <= calcAttempts(ep) /\ calcAttempts(ep) \in Nat
  BY DEF NextAttempt, RequestInv, RequestTypes, RequestTypeOK, hist
<1>1. \/ qpc' = "answer" /\ i' = i /\ (err' = err \/ (err' = cerr /\ cerr # "nil"))
      \/ qpc' = "trip" /\ i' = i + 1 /\ i < calcAttempts(ep) /\ err' = err
  BY Zenon DEF NextAttempt
<1>2. err' \in {"nil", "canceled", "deadline", "other"}
  BY <1>1, Zenon DEF RequestInv, RequestTypes, RequestTypeOK
<1>3. RequestTypes'
  BY <1>0, <1>1, <1>2 DEF RequestInv, RequestTypes, RequestTypeOK
<1>4. ResponseInv'
  BY <1>0, <1>1 DEF RequestInv, ResponseInv
<1>5. DoneInv'
  BY <1>0, <1>1, Zenon DEF RequestInv, DoneInv, Over, Kept
<1>6. MarkInv' /\ FreshNodesFirst' /\ AcceptedArrivesWhole'
  BY <1>0, <1>1 DEF RequestInv, MarkInv, FreshNodesFirst, AcceptedArrivesWhole
<1>7. QED
  BY <1>3, <1>4, <1>5, <1>6, Zenon DEF RequestInv

\* What a tripper returns: an answer to be judged, or an error.
LEMMA ReturnGives ==
  ASSUME NEW e, NEW r, Return(e, r)
  PROVE  /\ err' = e /\ resp' = r /\ qpc' \in {"judge", "answer", "attempt"}
         /\ e = "nil" <=> qpc' = "judge"
  BY Zenon DEF Return

\* A response arrives with its body open.
LEMMA AnswersOpen ==
  ASSUME NEW a, NEW r \in Answers(a)
  PROVE  r.body = "open"
  BY DEF Answers

\* The breaker lets the attempt pass or answers for it.
LEMMA BreakerInv ==
  ASSUME RequestInv, Breaker
  PROVE  RequestInv'
<1>0. /\ UNCHANGED <<ep, i, cerr, backends, doneFunc, released, client, picked, rejected, broken>>
      /\ qpc = "trip" /\ i > 0 /\ i \notin picked \cup rejected /\ marks = passes /\ marks \in Nat
  BY Zenon DEF Breaker, RequestInv, RequestTypes, ResponseInv, MarkInv, hist
<1>1. CASE qpc' = "client" /\ UNCHANGED <<err, resp, marks>>
  <2>1. passes' = IF ep.breaker = "none" THEN passes ELSE passes + 1
    BY Zenon DEF Breaker
  <2>2. RequestTypes'
    BY <1>0, <1>1, <2>1, SMTT(30) DEF RequestInv, RequestTypes, RequestTypeOK
  <2>3. QED
    BY <1>0, <1>1, <2>1, <2>2 DEF RequestInv, ResponseInv, DoneInv, Over, Kept, MarkInv, FreshNodesFirst, AcceptedArrivesWhole
<1>2. CASE ep.breaker = "data" /\ marks' = marks + 1 /\ \E r \in Answers(0) : Return("nil", r)
  <2>1. err' = "nil" /\ qpc' = "judge" /\ resp'.body = "open"
    BY <1>2, ReturnGives, AnswersOpen
  <2>2. passes' = passes + 1
    BY <1>2, Zenon DEF Breaker
  <2>3. RequestTypes'
    BY <1>0, <1>2, <2>1, <2>2, SMTT(30) DEF RequestInv, RequestTypes, RequestTypeOK
  <2>4. DoneInv'
    BY <1>0, <2>1, SMTT(30) DEF RequestInv, DoneInv, Over, Kept
  <2>5. QED
    BY <1>0, <1>2, <2>1, <2>2, <2>3, <2>4 DEF RequestInv, ResponseInv, MarkInv, FreshNodesFirst, AcceptedArrivesWhole
<1>3. CASE ep.breaker = "backup" /\ marks' = marks + 1 /\ qpc' = "backup" /\ UNCHANGED <<err, resp>>
  <2>1. passes' = passes + 1
    BY <1>3, Zenon DEF Breaker
  <2>2. RequestTypes'
    BY <1>0, <1>3, <2>1 DEF RequestInv, RequestTypes, RequestTypeOK
  <2>3. QED
    BY <1>0, <1>3, <2>1, <2>2 DEF RequestInv, ResponseInv, DoneInv, Over, Kept, MarkInv, FreshNodesFirst, AcceptedArrivesWhole
<1>4. QED
  BY <1>1, <1>2, <1>3, Zenon DEF Breaker

\* A node is tried again only when all of its service have been tried.
LEMMA PickedFresh ==
  ASSUME NEW ns \in {Nodes, BackupNodes}, NEW n \in Filter(ns), backends \in Seq(Nodes \cup BackupNodes),
         backends' = Append(backends, n), FreshNodesFirst
  PROVE  FreshNodesFirst' /\ backends' \in Seq(Nodes \cup BackupNodes)
<1>0. n \in ns /\ (n \in Tried => ns \subseteq Tried)
  BY Zenon DEF Filter
<1>1. /\ Len(backends') = Len(backends) + 1 /\ backends'[Len(backends) + 1] = n /\ Len(backends) \in Nat
      /\ \A k \in 1..Len(backends) : backends'[k] = backends[k]
      /\ backends' \in Seq(Nodes \cup BackupNodes)
  BY <1>0
<1>2. ASSUME NEW k \in 1..Len(backends'), NEW m \in 1..Len(backends'), k < m, backends'[k] = backends'[m]
      PROVE  \E ms \in {Nodes, BackupNodes} : backends'[m] \in ms /\ ms \subseteq {backends'[j] : j \in 1..(m - 1)}
  <2>1. CASE m \in 1..Len(backends)
    <3>1. backends[k] = backends[m] /\ k \in 1..Len(backends)
      BY <1>1, <1>2, <2>1, SMTT(30)
    <3>2. PICK ms \in {Nodes, BackupNodes} : backends[m] \in ms /\ ms \subseteq {backends[j] : j \in 1..(m - 1)}
      BY <1>2, <2>1, <3>1, Zenon DEF FreshNodesFirst
    <3>3. {backends[j] : j \in 1..(m - 1)} = {backends'[j] : j \in 1..(m - 1)}
      BY <1>1, <2>1, SMTT(30)
    <3>4. QED
      BY <1>1, <2>1, <3>2, <3>3, Zenon
  <2>2. CASE m = Len(backends) + 1
    <3>1. k \in 1..Len(backends) /\ backends[k] = n
      BY <1>1, <1>2, <2>2
    <3>2. ns \subseteq Tried
      BY <1>0, <3>1, Zenon DEF Tried
    <3>3. Tried = {backends'[j] : j \in 1..(m - 1)}
      BY <1>1, <2>2 DEF Tried
    <3>4. QED
      BY <1>0, <1>1, <2>2, <3>2, <3>3, Zenon
  <2>3. m \in 1..Len(backends) \/ m = Len(backends) + 1
    BY <1>1
  <2>4. QED
    BY <2>1, <2>2, <2>3, Zenon
<1>3. QED
  BY <1>1, <1>2, Zenon DEF FreshNodesFirst

\* client.RoundTrip gives a failed node back at once and keeps the other one's done.
LEMMA RoundTripInv ==
  ASSUME RequestInv, NEW ns \in {Nodes, BackupNodes}, RoundTrip(ns), qpc \in {"client", "backup"},
         UNCHANGED <<ep, i, cerr, passes, client, rejected, broken>>, marks' \in Nat, passes' = marks'
  PROVE  RequestInv'
<1>0. /\ i \in 1..calcAttempts(ep) /\ i \notin picked /\ i \notin rejected /\ released[i] = 0
      /\ i # doneFunc /\ doneFunc \in 0..i /\ calcAttempts(ep) \in Nat /\ i \in Nat
      /\ released \in [1..calcAttempts(ep) -> Nat]
  BY DEF RequestInv, RequestTypes, RequestTypeOK, ResponseInv, DoneInv
<1>1. CASE Return("other", NoResponse) /\ UNCHANGED <<backends, doneFunc, released, picked>>
  <2>1. err' = "other" /\ qpc' \in {"answer", "attempt"} /\ resp' = NoResponse
    BY <1>1, ReturnGives
  <2>2. RequestTypes'
    BY <1>0, <1>1, <2>1, Zenon DEF RequestInv, RequestTypes, RequestTypeOK, NoResponse
  <2>3. DoneInv'
    BY <1>0, <1>1, <2>1, Zenon DEF RequestInv, DoneInv, Over, Kept
  <2>4. ResponseInv'
    BY <2>1, Zenon DEF RequestInv, ResponseInv
  <2>5. MarkInv' /\ AcceptedArrivesWhole'
    BY <2>1, ZenonT(40) DEF MarkInv, AcceptedArrivesWhole
  <2>6. FreshNodesFirst'
    BY <1>1 DEF RequestInv, FreshNodesFirst
  <2>7. QED
    BY <2>2, <2>3, <2>4, <2>5, <2>6, Zenon DEF RequestInv
<1>2. CASE \E n \in Filter(ns) :
             /\ backends' = Append(backends, n) /\ picked' = picked \cup {i}
             /\ \E e \in TripErrors : Return(e, NoResponse)
             /\ released' = [released EXCEPT ![i] = @ + 1] /\ UNCHANGED doneFunc
  <2>1. FreshNodesFirst' /\ backends' \in Seq(Nodes \cup BackupNodes)
    BY <1>2, PickedFresh, Zenon DEF RequestInv, RequestTypes, RequestTypeOK
  <2>2. /\ picked' = picked \cup {i} /\ released' = [released EXCEPT ![i] = 1] /\ doneFunc' = doneFunc
        /\ resp' = NoResponse
    BY <1>0, <1>2, ReturnGives
  <2>3. err' \in {"canceled", "deadline", "other"} /\ qpc' \in {"answer", "attempt"}
    <3>1. PICK e \in TripErrors : Return(e, NoResponse)
      BY <1>2, Zenon
    <3>2. e \in {"canceled", "deadline", "other"}
      BY Zenon DEF TripErrors, RequestInv, RequestTypes, RequestTypeOK
    <3>3. QED
      BY <3>1, <3>2, ReturnGives
  <2>4. RequestTypes'
    BY <1>0, <2>1, <2>2, <2>3, SMTT(30) DEF RequestInv, RequestTypes, RequestTypeOK, NoResponse
  <2>5. DoneInv'
    BY <1>0, <2>2, <2>3 DEF RequestInv, DoneInv, Over, Kept
  <2>6. ResponseInv'
    BY <2>3, Zenon DEF RequestInv, ResponseInv
  <2>7. QED
    BY <2>1, <2>3, <2>4, <2>5, <2>6, Zenon DEF RequestInv, MarkInv, AcceptedArrivesWhole
<1>3. CASE \E n \in Filter(ns) :
             /\ backends' = Append(backends, n) /\ picked' = picked \cup {i}
             /\ \E r \in Answers(i) : Return("nil", r)
             /\ doneFunc' = i /\ UNCHANGED released
  <2>1. FreshNodesFirst' /\ backends' \in Seq(Nodes \cup BackupNodes)
    BY <1>3, PickedFresh DEF RequestInv, RequestTypes, RequestTypeOK
  <2>2. /\ picked' = picked \cup {i} /\ released' = released /\ doneFunc' = i
        /\ resp'.body = "open" /\ err' = "nil" /\ qpc' = "judge"
    BY <1>3, ReturnGives, AnswersOpen, SMTT(30)
  <2>3. RequestTypes'
    BY <1>0, <2>1, <2>2 DEF RequestInv, RequestTypes, RequestTypeOK
  <2>4. doneFunc # 0 => doneFunc \in rejected
    BY <1>0, SMTT(30) DEF RequestInv, DoneInv, Kept
  <2>5. DoneInv'
    BY <1>0, <2>2, <2>4, SMTT(30) DEF RequestInv, DoneInv, Over, Kept
  <2>6. ResponseInv'
    BY <1>0, <2>2 DEF RequestInv, ResponseInv
  <2>7. QED
    BY <2>1, <2>2, <2>3, <2>5, <2>6, Zenon DEF RequestInv, MarkInv, AcceptedArrivesWhole
<1>4. QED
  BY <1>1, <1>2, <1>3, Zenon DEF RoundTrip

\* The attempt goes to a backend, or to the backup.
LEMMA TripsInv ==
  ASSUME RequestInv, ClientTrip \/ BackupTrip
  PROVE  RequestInv'
<1>0. marks \in Nat /\ passes \in Nat /\ MarkInv
  BY Zenon DEF RequestInv, RequestTypes
<1>1. CASE ClientTrip
  <2>1. marks' \in Nat /\ passes' = marks'
    BY <1>0, <1>1, Zenon DEF ClientTrip, MarkInv
  <2>2. QED
    BY <1>1, <2>1, RoundTripInv DEF ClientTrip
<1>2. CASE BackupTrip
  <2>1. marks' \in Nat /\ passes' = marks'
    BY <1>0, <1>2, Zenon DEF BackupTrip, MarkInv
  <2>2. QED
    BY <1>2, <2>1, RoundTripInv, Zenon DEF BackupTrip
<1>3. QED
  BY <1>1, <1>2, Zenon

\* The response is judged: it is the answer, or one more attempt is made.
LEMMA JudgeInv ==
  ASSUME RequestInv, JudgeResponse
  PROVE  RequestInv'
<1>0. /\ UNCHANGED <<ep, i, cerr, err, backends, doneFunc, released, marks, passes, client, picked, broken>>
      /\ qpc = "judge" /\ i > 0 /\ i \notin rejected /\ err = "nil" /\ resp.body # "closed" /\ i \in Nat
  BY DEF JudgeResponse, RequestInv, RequestTypes, RequestTypeOK, ResponseInv
<1>1. CASE ep.stream = "no" /\ resp' = [resp EXCEPT !.body = "closed"] /\ qpc' = "attempt" /\ rejected' = rejected \cup {i}
  <2>1. resp'.body = "closed"
    BY <1>1
  <2>2. RequestTypes'
    BY <1>0, <1>1, <2>1 DEF RequestInv, RequestTypes, RequestTypeOK
  <2>3. DoneInv'
    BY <1>0, <1>1, Zenon DEF RequestInv, DoneInv, Over, Kept
  <2>4. QED
    BY <1>0, <1>1, <2>1, <2>2, <2>3 DEF RequestInv, ResponseInv, MarkInv, FreshNodesFirst, AcceptedArrivesWhole
<1>2. CASE qpc' = "answer" /\ UNCHANGED <<resp, rejected>>
  <2>1. RequestTypes'
    BY <1>0, <1>2 DEF RequestInv, RequestTypes, RequestTypeOK
  <2>2. DoneInv'
    BY <1>0, <1>2, Zenon DEF RequestInv, DoneInv, Over, Kept
  <2>3. QED
    BY <1>0, <1>2, <2>1, <2>2, SMTT(30) DEF RequestInv, ResponseInv, MarkInv, FreshNodesFirst, AcceptedArrivesWhole
<1>3. QED
  BY <1>1, <1>2, Zenon DEF JudgeResponse

\* The answer of a tried request: an error, or the header of a response.
LEMMA AnswerInv ==
  ASSUME RequestInv, Answer
  PROVE  RequestInv'
<1>0. /\ UNCHANGED <<ep, i, cerr, err, resp, backends, doneFunc, released, marks, passes, picked, rejected, broken>>
      /\ qpc = "answer" /\ ep.stream = "no"
  BY Zenon DEF Answer, hist
<1>1. \/ err # "nil" /\ qpc' = "done"
      \/ err = "nil" /\ qpc' = "copy" /\ client'.status = resp.status
  BY DEF Answer, writeError
<1>2. RequestTypes'
  BY <1>0, <1>1, Zenon DEF RequestInv, RequestTypes, RequestTypeOK
<1>3. DoneInv'
  BY <1>0, <1>1, Zenon DEF RequestInv, DoneInv, Over, Kept
<1>4. ResponseInv'
  BY <1>0, <1>1, Zenon DEF RequestInv, ResponseInv
<1>5. QED
  BY <1>0, <1>1, <1>2, <1>3, <1>4 DEF RequestInv, MarkInv, FreshNodesFirst, AcceptedArrivesWhole

\* Release calls the done that was kept, and no other.
LEMMA ReleaseOnce ==
  ASSUME RequestTypes, Release
  PROVE  /\ released' \in [1..calcAttempts(ep) -> Nat]
         /\ \A a \in 1..calcAttempts(ep) : released'[a] = IF a = doneFunc THEN released[a] + 1 ELSE released[a]
<1>1. released \in [1..calcAttempts(ep) -> Nat] /\ DOMAIN released = 1..calcAttempts(ep)
  BY Zenon DEF RequestTypes
<1>2. \A a \in 1..calcAttempts(ep) : released[a] + 0 = released[a] /\ released[a] + 1 \in Nat
  BY <1>1
<1>3. released' = [a \in 1..calcAttempts(ep) |-> released[a] + (IF a = doneFunc THEN 1 ELSE 0)]
  BY <1>1, Zenon DEF Release
<1>4. \A a \in 1..calcAttempts(ep) : released'[a] = IF a = doneFunc THEN released[a] + 1 ELSE released[a]
  BY <1>1, <1>2, <1>3
<1>5. QED
  BY <1>1, <1>2, <1>3, <1>4, Zenon

\* A stream is handed over to the client.
LEMMA StreamInv ==
  ASSUME RequestInv, proxyStream
  PROVE  RequestInv'
<1>0. /\ UNCHANGED <<ep, i, cerr, err, resp, backends, doneFunc, marks, passes, picked, rejected, broken>>
      /\ qpc = "answer" /\ ep.stream = "yes" /\ rejected = {}
  BY Zenon DEF proxyStream, hist, RequestInv, ResponseInv
<1>1. \/ err # "nil" /\ qpc' = "done"
      \/ err = "nil" /\ qpc' = "copy" /\ client'.status = resp.status
  BY DEF proxyStream, writeError
<1>2. /\ released' \in [1..calcAttempts(ep) -> Nat]
      /\ \A a \in 1..calcAttempts(ep) : released'[a] = IF a = doneFunc THEN released[a] + 1 ELSE released[a]
  BY ReleaseOnce, Zenon DEF proxyStream, RequestInv
<1>3. RequestTypes'
  BY <1>0, <1>1, <1>2, Zenon DEF RequestInv, RequestTypes, RequestTypeOK
<1>4. doneFunc # 0 => doneFunc \in 1..calcAttempts(ep)
  BY DEF RequestInv, RequestTypes, RequestTypeOK
<1>5. DoneInv'
  <2>1. ~Over /\ Over' /\ calcAttempts(ep') = calcAttempts(ep)
    BY <1>0, <1>1, Zenon DEF Over
  <2>2. doneFunc # 0 => doneFunc \in picked /\ Kept'
    BY <1>0, <1>1, Zenon DEF RequestInv, DoneInv, Kept
  <2>3. \A a \in 1..calcAttempts(ep) : a # doneFunc => released'[a] = released[a]
    BY <1>2, Zenon
  <2>4. doneFunc # 0 => released'[doneFunc] = 1 /\ doneFunc \in picked
    <3>1. doneFunc # 0 => released[doneFunc] = 0 /\ doneFunc \in picked
      BY <1>0, <2>1, Zenon DEF RequestInv, DoneInv
    <3>2. QED
      BY <1>2, <1>4, <3>1
  <2>5. \A a \in 1..calcAttempts(ep) : a \notin picked => a # doneFunc
    <3>1. 0 \notin 1..calcAttempts(ep)
      OBVIOUS
    <3>2. QED
      BY <2>4, <3>1, Zenon
  <2>6. QED
    BY <1>0, <2>1, <2>2, <2>3, <2>4, <2>5, Zenon DEF RequestInv, DoneInv
<1>6. ResponseInv'
  BY <1>0, <1>1, Zenon DEF RequestInv, ResponseInv
<1>7. MarkInv' /\ FreshNodesFirst'
  <2>1. FreshNodesFirst /\ MarkInv
    BY Zenon DEF RequestInv
  <2>2. FreshNodesFirst'
    BY <1>0, <2>1 DEF FreshNodesFirst
  <2>3. MarkInv'
    BY <1>0, <1>1, <2>1, Zenon DEF MarkInv
  <2>4. QED
    BY <2>2, <2>3, Zenon
<1>8. AcceptedArrivesWhole'
  BY <1>0, <1>1, Zenon DEF AcceptedArrivesWhole
<1>9. QED
  BY <1>3, <1>5, <1>6, <1>7, <1>8, Zenon DEF RequestInv

\* The body is copied to the client, all of it or a part.
LEMMA CopyBodyInv ==
  ASSUME RequestInv, CopyBody
  PROVE  RequestInv'
<1>0. /\ UNCHANGED <<ep, i, cerr, err, resp, backends, doneFunc, marks, passes, picked, rejected>>
      /\ qpc = "copy" /\ qpc' = "done" /\ broken' \in {"yes", "no"} /\ err = "nil" /\ client.status = resp.status
      /\ ep.stream \in {"yes", "no"}
  BY RequestConstants, Zenon DEF CopyBody, RequestInv, ResponseInv, RequestTypes
<1>1. \A a \in 1..calcAttempts(ep) :
        released'[a] = IF ep.stream = "no" /\ a = doneFunc THEN released[a] + 1 ELSE released[a]
  BY <1>0, ReleaseOnce DEF CopyBody, RequestInv
<1>2. released' \in [1..calcAttempts(ep) -> Nat]
  BY <1>0, ReleaseOnce DEF CopyBody, RequestInv, RequestTypes
<1>3. RequestTypes'
  BY <1>0, <1>2, Zenon DEF RequestInv, RequestTypes, RequestTypeOK
<1>4. doneFunc # 0 => doneFunc \in 1..calcAttempts(ep)
  BY SMTT(30) DEF RequestInv, RequestTypes, RequestTypeOK
<1>5. DoneInv'
  BY <1>0, <1>1, <1>4 DEF RequestInv, DoneInv, Over, Kept
<1>6. ResponseInv'
  BY <1>0, Zenon DEF RequestInv, ResponseInv
<1>7. AcceptedArrivesWhole'
  <2>1. client' = [client EXCEPT !.body = IF resp.body = "closed" \/ broken' = "yes" THEN "part" ELSE "full"]
    BY Zenon DEF CopyBody
  <2>2. resp.body = "closed" <=> i \in rejected
    BY <1>0, Zenon DEF RequestInv, ResponseInv
  <2>3. QED
    BY <1>0, <2>1, <2>2 DEF AcceptedArrivesWhole
<1>8. QED
  BY <1>0, <1>3, <1>5, <1>6, <1>7 DEF RequestInv, MarkInv, FreshNodesFirst

\* Every step of a request preserves the invariant.
LEMMA RequestStepInv == RequestInv /\ [RequestNext]_requestVars => RequestInv'
<1> SUFFICES ASSUME RequestInv, [RequestNext]_requestVars PROVE RequestInv'
  BY ZenonT(40)
<1>1. CASE UNCHANGED requestVars
  <2>1. UNCHANGED <<ep, qpc, i, cerr, err, resp, backends, doneFunc, released, marks, passes, client, picked, rejected, broken>>
    BY <1>1, Zenon DEF requestVars, hist
  <2>2. QED
    BY <2>1 DEF RequestInv, RequestTypes, RequestTypeOK, ResponseInv, DoneInv, Over, Kept, MarkInv, FreshNodesFirst, AcceptedArrivesWhole
<1>2. QED
  BY <1>1, ExpireInv, ReadBodyInv, NextAttemptInv, BreakerInv, TripsInv, JudgeInv, AnswerInv, StreamInv, CopyBodyInv, Zenon
     DEF RequestNext, HandlerStep

\* Whatever fails and is retried, each node is given back, each pass of the breaker is
\* marked, and the client gets the response that was accepted (proxy.go:195-290).
THEOREM RequestSound == RequestSpec => []RequestIsSound
<1>1. RequestInv => RequestIsSound
  <2> SUFFICES ASSUME RequestInv PROVE RequestIsSound
    BY Zenon
  <2>1. DOMAIN released = 1..calcAttempts(ep) /\ picked \subseteq 1..calcAttempts(ep)
    BY DEF RequestInv, RequestTypes, RequestTypeOK
  <2>2. NodesGivenBack
    BY <2>1 DEF RequestInv, NodesGivenBack, DoneInv, Over
  <2>3. BreakerMarksEachPass
    BY Zenon DEF RequestInv, RequestTypes, BreakerMarksEachPass, MarkInv
  <2>4. QED
    BY <2>2, <2>3, Zenon DEF RequestInv, RequestTypes, RequestIsSound
<1>2. QED
  BY <1>1, InitRequestInv, RequestStepInv, PTL DEF RequestSpec
=============================================================================
