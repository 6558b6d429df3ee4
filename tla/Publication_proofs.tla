--------------------------- MODULE Publication_proofs ---------------------------
(***************************************************************************)
(* What an operator publishes is what a gateway enforces: no edit of a     *)
(* policy file escapes the data plane (PolicyFiles), the topology that is  *)
(* served, the store and the configuration file agree (Topology), and a    *)
(* deleted policy stays deleted while an import's answer says what became  *)
(* of the stored set (PolicyWrites), and a data plane enforces the set it  *)
(* accepted, whole, or closes its admission (PolicySync), in whatever way  *)
(* edits, reloads, writes, syncs, restarts and crashes overlap.  The data  *)
(* planes that lease a budget together stay within it (BudgetLeases).      *)
(***************************************************************************)
EXTENDS PolicyFiles, Topology, PolicyWrites, PolicySync, BudgetLeases, FiniteSetTheorems, TLAPS

-----------------------------------------------------------------------------
(* Policy files *)

Versions == 0 .. MaxEdits

Reloads == [step : {"idle", "stat", "read", "install"}, listed : SUBSET Files,
           todo : SUBSET Files, done : BOOLEAN,
           read : [Files -> Versions], stat : [Files -> Versions]]

FilesTypes ==
    /\ FilesTypeOK
    /\ edits \in Versions
    /\ reload \in [Watchers -> Reloads]

\* Every version was written once, so a file that still has the version it had
\* at an earlier moment has had it ever since.
VersionsWritten ==
    \A f \in Files :
        /\ disk[f] <= edits
        /\ known["data"][f] <= edits
        /\ reload["data"].stat[f] <= edits

\* A file is still as it was when its time was noted.
StillAs(f, version) == version # 0 /\ disk[f] = version

\* What is recorded of a file that has not changed since is what is in force.
RecordedInForce ==
    \A f \in Files :
        StillAs(f, known["data"][f]) => loaded["data"][f] = disk[f]

\* A reload notes the times first, and reads a file after that.
StatBeforeRead ==
    LET r == reload["data"] IN
        /\ r.step = "stat" => ~r.done
        /\ r.step \in {"read", "install"} =>
            \A f \in Files : StillAs(f, r.stat[f]) =>
                \/ r.step = "read" /\ f \in r.todo
                \/ r.read[f] = disk[f]

\* DataEditsSeen speaks of a moment without differences only; file by file the
\* argument is inductive.
FilesInv == FilesTypes /\ VersionsWritten /\ RecordedInForce /\ StatBeforeRead

\* No file, nothing recorded, nothing in force.
LEMMA FilesInitInv == FilesInit => FilesInv
<1> SUFFICES ASSUME FilesInit PROVE FilesInv
  OBVIOUS
<1>1. FilesTypes
  BY PolicyFilesAssumption
     DEF FilesInit, FilesTypes, FilesTypeOK, Versions, Reloads, NoReload, Absent
<1>2. VersionsWritten /\ RecordedInForce /\ StatBeforeRead
  BY PolicyFilesAssumption
     DEF FilesInit, VersionsWritten, RecordedInForce, StatBeforeRead, StillAs,
         NoReload, Absent
<1> QED
  BY <1>1, <1>2 DEF FilesInv

\* A new version is a version that nobody has noted, and a removed file has none.
LEMMA EditKeeps ==
  ASSUME FilesInv, NEW f \in Files, Edit(f)
  PROVE  FilesInv'
<1>1. /\ edits \in Versions /\ edits < MaxEdits /\ edits' = edits + 1
      /\ UNCHANGED <<known, loaded, reload>>
      /\ disk \in [Files -> Versions]
  BY DEF FilesInv, FilesTypes, FilesTypeOK, Edit, Versions
<1>2. PICK version \in {0, edits'} : disk' = [disk EXCEPT ![f] = version]
  BY DEF Edit
<1>3. FilesTypes'
  BY <1>1, <1>2, PolicyFilesAssumption
     DEF FilesInv, FilesTypes, FilesTypeOK, Versions
<1>4. \A g \in Files :
        /\ disk'[g] = IF g = f THEN version ELSE disk[g]
        /\ disk[g] \in Nat /\ disk[g] <= edits
        /\ known["data"][g] \in Nat /\ known["data"][g] <= edits
        /\ reload["data"].stat[g] \in Nat /\ reload["data"].stat[g] <= edits
  BY <1>1, <1>2, PolicyFilesAssumption
     DEF FilesInv, FilesTypes, FilesTypeOK, VersionsWritten, Reloads, Versions
<1>5. VersionsWritten'
  BY <1>1, <1>2, <1>4, PolicyFilesAssumption DEF VersionsWritten, Versions
<1>6. \A g \in Files, v \in Nat : v <= edits /\ StillAs(g, v)' =>
        StillAs(g, v) /\ disk'[g] = disk[g]
  BY <1>1, <1>2, <1>4, PolicyFilesAssumption DEF StillAs, Versions
<1>7. RecordedInForce'
  <2> SUFFICES ASSUME NEW g \in Files, StillAs(g, known["data"][g])'
               PROVE  loaded'["data"][g] = disk'[g]
    BY DEF RecordedInForce
  <2>1. StillAs(g, known["data"][g]) /\ disk'[g] = disk[g]
    BY <1>1, <1>4, <1>6 DEF StillAs
  <2> QED
    BY <1>1, <2>1 DEF FilesInv, RecordedInForce
<1>8. StatBeforeRead'
  <2>1. ASSUME NEW g \in Files, StillAs(g, reload["data"].stat[g])'
        PROVE  StillAs(g, reload["data"].stat[g]) /\ disk'[g] = disk[g]
    BY <1>1, <1>4, <1>6, <2>1 DEF StillAs
  <2> QED
    BY <1>1, <2>1 DEF FilesInv, StatBeforeRead, StillAs
<1> QED
  BY <1>3, <1>5, <1>7, <1>8 DEF FilesInv

\* A step of a watcher that leaves the disk and what is recorded of it alone:
\* it is enough to look at the data plane's own reload.
LEMMA WatcherKeeps ==
  ASSUME FilesInv, NEW w \in Watchers, NEW r \in Reloads,
         reload' = [reload EXCEPT ![w] = r],
         UNCHANGED <<disk, broken, edits, known, loaded>>,
         w = "data" => /\ \A f \in Files : r.stat[f] <= edits
                       /\ r.step = "stat" => ~r.done
                       /\ r.step \in {"read", "install"} =>
                            \A f \in Files : StillAs(f, r.stat[f]) =>
                              \/ r.step = "read" /\ f \in r.todo
                              \/ r.read[f] = disk[f]
  PROVE  FilesInv'
<1>1. reload'["data"] = IF w = "data" THEN r ELSE reload["data"]
  BY PolicyFilesAssumption DEF FilesInv, FilesTypes
<1>2. FilesTypes'
  BY DEF FilesInv, FilesTypes, FilesTypeOK
<1>3. VersionsWritten'
  BY <1>1 DEF FilesInv, VersionsWritten
<1>4. RecordedInForce'
  BY DEF FilesInv, RecordedInForce, StillAs
<1>5. StatBeforeRead'
  BY <1>1 DEF FilesInv, StatBeforeRead, StillAs
<1> QED
  BY <1>2, <1>3, <1>4, <1>5 DEF FilesInv

\* The watcher without a reload in progress.
LEMMA NoReloadType ==
  /\ NoReload \in Reloads /\ NoReload.step = "idle"
  /\ ~NoReload.done /\ NoReload.stat = Absent
<1>1. Absent \in [Files -> Versions]
  BY PolicyFilesAssumption DEF Absent, Versions
<1> QED
  BY <1>1 DEF NoReload, Reloads

\* changed() and the listing: nothing is noted of a file yet.
LEMMA PollKeeps ==
  ASSUME FilesInv, NEW w \in Watchers, Poll(w)
  PROVE  FilesInv'
<1> DEFINE r == [NoReload EXCEPT !.step = IF w = "data" THEN "stat" ELSE "read",
                                 !.listed = Listed, !.todo = Listed]
<1>1. /\ reload' = [reload EXCEPT ![w] = r]
      /\ UNCHANGED <<disk, broken, edits, known, loaded>>
  BY DEF Poll
<1>2. /\ r \in Reloads /\ ~r.done /\ r.stat = Absent
      /\ w = "data" => r.step = "stat"
  <2>1. /\ NoReload \in Reloads /\ ~NoReload.done /\ NoReload.stat = Absent
    BY NoReloadType
  <2>2. Listed \in SUBSET Files
    BY DEF Listed
  <2> QED
    BY <2>1, <2>2 DEF Reloads
<1> HIDE DEF r
<1>3. \A f \in Files : r.stat[f] <= edits
  BY <1>2, PolicyFilesAssumption DEF FilesInv, FilesTypes, Versions, Absent
<1>4. w = "data" => r.step \notin {"read", "install"}
  BY <1>2
<1> QED
  BY <1>1, <1>2, <1>3, <1>4, WatcherKeeps

\* The times are noted and the files listed at one moment: whatever has a time
\* is going to be read.
LEMMA StatKeeps ==
  ASSUME FilesInv, NEW w \in Watchers, Stat(w)
  PROVE  FilesInv'
<1> DEFINE r == reload[w]
           stat == [f \in Files |-> IF f \in r.listed THEN disk[f] ELSE 0]
           n == [r EXCEPT !.stat = stat,
                          !.todo = IF r.done THEN {} ELSE Listed,
                          !.step = IF r.done THEN "install" ELSE "read"]
<1>1. /\ reload' = [reload EXCEPT ![w] = n] /\ r.step = "stat"
      /\ UNCHANGED <<disk, broken, edits, known, loaded>>
  BY DEF Stat
<1>2. r \in Reloads /\ disk \in [Files -> Versions]
  BY DEF FilesInv, FilesTypes, FilesTypeOK, Versions
<1>3. stat \in [Files -> Versions]
  BY <1>2, PolicyFilesAssumption DEF Versions
<1>4. \A f \in Files : stat[f] = 0 \/ stat[f] = disk[f]
  OBVIOUS
<1> HIDE DEF r, stat
<1>5. /\ n \in Reloads /\ n.stat = stat
      /\ n.step = (IF r.done THEN "install" ELSE "read")
      /\ n.todo = (IF r.done THEN {} ELSE Listed)
  BY <1>2, <1>3 DEF Reloads, Listed
<1> HIDE DEF n
<1>6. w = "data" => ~r.done
  BY <1>1 DEF FilesInv, StatBeforeRead, r
<1>7. \A f \in Files : n.stat[f] <= edits
  BY <1>2, <1>4, <1>5, PolicyFilesAssumption
     DEF FilesInv, FilesTypes, VersionsWritten, Versions
<1>8. \A f \in Files : StillAs(f, n.stat[f]) => f \in Listed
  BY <1>4, <1>5 DEF StillAs, Listed
<1> QED
  BY <1>1, <1>5, <1>6, <1>7, <1>8, WatcherKeeps

\* A file is read after its time was noted: as it was then, or changed since.
LEMMA ReadKeeps ==
  ASSUME FilesInv, NEW w \in Watchers, Read(w)
  PROVE  FilesInv'
<1> DEFINE r == reload[w]
<1>1. PICK g \in r.todo :
        reload' = [reload EXCEPT ![w] =
                     IF disk[g] = 0 THEN NoReload
                     ELSE [r EXCEPT !.read[g] = disk[g], !.todo = r.todo \ {g}]]
  BY DEF Read
<1> DEFINE n == [r EXCEPT !.read[g] = disk[g], !.todo = r.todo \ {g}]
<1>2. /\ r.step = "read" /\ UNCHANGED <<disk, broken, edits, known, loaded>>
      /\ r \in Reloads /\ disk \in [Files -> Versions] /\ edits \in Nat
  BY PolicyFilesAssumption DEF Read, FilesInv, FilesTypes, FilesTypeOK, Versions
<1>3. CASE disk[g] = 0
  <2>1. /\ NoReload \in Reloads /\ NoReload.step \notin {"stat", "read", "install"}
        /\ \A f \in Files : NoReload.stat[f] <= edits
    BY <1>2, NoReloadType DEF Absent
  <2>2. reload' = [reload EXCEPT ![w] = NoReload]
    BY <1>1, <1>3
  <2> QED
    BY <1>2, <2>1, <2>2, WatcherKeeps
<1>4. CASE disk[g] # 0
  <2>1. g \in Files
    BY <1>2 DEF Reloads
  <2> HIDE DEF r
  <2>2. /\ n \in Reloads /\ n.step = "read" /\ n.stat = r.stat
        /\ n.todo = r.todo \ {g}
        /\ \A f \in Files : n.read[f] = IF f = g THEN disk[g] ELSE r.read[f]
    BY <1>2, <2>1 DEF Reloads
  <2> HIDE DEF n
  <2>3. reload' = [reload EXCEPT ![w] = n]
    BY <1>1, <1>4 DEF n
  <2>4. w = "data" =>
          \A f \in Files : /\ r.stat[f] <= edits
                           /\ StillAs(f, r.stat[f]) =>
                                f \in r.todo \/ r.read[f] = disk[f]
    BY <1>2 DEF FilesInv, VersionsWritten, StatBeforeRead, r
  <2>5. w = "data" =>
          \A f \in Files : StillAs(f, n.stat[f]) =>
            f \in n.todo \/ n.read[f] = disk[f]
    BY <2>2, <2>4
  <2> QED
    BY <1>2, <2>2, <2>3, <2>4, <2>5, WatcherKeeps
<1> QED
  BY <1>3, <1>4

\* After the last file the data plane installs, the control plane notes times.
LEMMA ReadAllKeeps ==
  ASSUME FilesInv, NEW w \in Watchers, ReadAll(w)
  PROVE  FilesInv'
<1> DEFINE r == reload[w]
           n == [r EXCEPT !.step = AfterReading(w), !.done = TRUE]
<1>1. /\ r.step = "read" /\ r.todo = {}
      /\ UNCHANGED <<disk, broken, edits, known, loaded>>
      /\ r \in Reloads
  BY DEF ReadAll, FilesInv, FilesTypes
<1>2. reload' = [reload EXCEPT ![w] = n]
  BY DEF ReadAll, FilesInv, FilesTypes
<1> HIDE DEF r
<1>3. /\ n \in Reloads /\ n.stat = r.stat /\ n.read = r.read
      /\ w = "data" => n.step = "install"
  BY <1>1 DEF Reloads, AfterReading
<1> HIDE DEF n
<1>4. w = "data" =>
        \A f \in Files : /\ r.stat[f] <= edits
                         /\ StillAs(f, r.stat[f]) => r.read[f] = disk[f]
  BY <1>1 DEF FilesInv, VersionsWritten, StatBeforeRead, r
<1> QED
  BY <1>1, <1>2, <1>3, <1>4, WatcherKeeps

\* What is installed was read after the times that are recorded with it; a
\* refused set changes neither.
LEMMA InstallKeeps ==
  ASSUME FilesInv, NEW w \in Watchers, InstallFiles(w)
  PROVE  FilesInv'
<1> DEFINE r == reload[w]
           good == \A f \in Files : r.read[f] \notin broken
<1>1. /\ r.step = "install" /\ r \in Reloads
      /\ reload' = [reload EXCEPT ![w] = NoReload]
      /\ UNCHANGED <<disk, broken, edits>>
      /\ loaded' = IF good THEN [loaded EXCEPT ![w] = r.read] ELSE loaded
      /\ known' = IF good THEN [known EXCEPT ![w] = r.stat] ELSE known
  BY DEF InstallFiles, FilesInv, FilesTypes
<1> HIDE DEF r, good
<1>2. FilesTypes'
  <2>1. /\ known \in [Watchers -> [Files -> Versions]]
        /\ loaded \in [Watchers -> [Files -> Versions]]
        /\ r.read \in [Files -> Versions] /\ r.stat \in [Files -> Versions]
    BY <1>1 DEF FilesInv, FilesTypes, FilesTypeOK, Reloads, Versions
  <2>2. /\ known' \in [Watchers -> [Files -> Versions]]
        /\ loaded' \in [Watchers -> [Files -> Versions]]
    BY <1>1, <2>1
  <2>3. reload' \in [Watchers -> Reloads]
    BY <1>1, NoReloadType DEF FilesInv, FilesTypes
  <2> QED
    BY <1>1, <2>2, <2>3 DEF FilesInv, FilesTypes, FilesTypeOK, Versions
<1>3. /\ known'["data"] = IF w = "data" /\ good THEN r.stat ELSE known["data"]
      /\ loaded'["data"] = IF w = "data" /\ good THEN r.read ELSE loaded["data"]
      /\ reload'["data"] = IF w = "data" THEN NoReload ELSE reload["data"]
  BY <1>1, PolicyFilesAssumption DEF FilesInv, FilesTypes, FilesTypeOK
<1>4. w = "data" =>
        \A f \in Files : /\ r.stat[f] <= edits
                         /\ StillAs(f, r.stat[f]) => r.read[f] = disk[f]
  BY <1>1 DEF FilesInv, VersionsWritten, StatBeforeRead, r
<1>5. \A f \in Files : 0 <= edits /\ NoReload.stat[f] <= edits
  BY NoReloadType, PolicyFilesAssumption
     DEF FilesInv, FilesTypes, Versions, Absent
<1>6. VersionsWritten'
  BY <1>1, <1>3, <1>4, <1>5 DEF FilesInv, VersionsWritten
<1>7. RecordedInForce'
  BY <1>1, <1>3, <1>4 DEF FilesInv, RecordedInForce, StillAs
<1>8. StatBeforeRead'
  BY <1>1, <1>3, NoReloadType DEF FilesInv, StatBeforeRead, StillAs
<1> QED
  BY <1>2, <1>6, <1>7, <1>8 DEF FilesInv

\* FilesInv is inductive: an edit, or a step of a watcher.
LEMMA FilesStep == FilesInv /\ [FilesNext]_fileVars => FilesInv'
<1> SUFFICES ASSUME FilesInv, [FilesNext]_fileVars PROVE FilesInv'
  OBVIOUS
<1>1. CASE UNCHANGED fileVars
  BY <1>1 DEF fileVars, FilesInv, FilesTypes, FilesTypeOK, VersionsWritten,
              RecordedInForce, StatBeforeRead, StillAs
<1> QED
  BY <1>1, EditKeeps, PollKeeps, StatKeeps, ReadKeeps, ReadAllKeeps,
     InstallKeeps DEF FilesNext

\* No edit of a policy file is lost on the data plane: when its watcher sees no
\* difference, every file that is there is enforced as it stands, even if edits
\* landed in the middle of a reload (policy.Store's watch and reload).
THEOREM NoEditIsLost == FilesSpec => []DataEditsSeen
<1>1. FilesInv => DataEditsSeen
  <2> SUFFICES ASSUME FilesInv, ~Changed("data"), NEW f \in Listed
               PROVE  loaded["data"][f] = disk[f]
    BY DEF DataEditsSeen, FilesInv, FilesTypes
  <2>1. f \in Files /\ StillAs(f, known["data"][f])
    BY DEF Listed, Changed, StillAs
  <2> QED
    BY <2>1 DEF FilesInv, RecordedInForce
<1> QED
  BY <1>1, FilesInitInv, FilesStep, PTL DEF FilesSpec

-----------------------------------------------------------------------------
(* The topology *)

\* What Starts asks of a topology besides that its references resolve now.
Sound(cfg) ==
    /\ Faultless(cfg.providers, {"boundary", "header"})
    /\ Faultless(cfg.providers, {"boundary", "type"})
    /\ \A p \in DOMAIN cfg.providers :
        cfg.providers[p].mode = "broker" => cfg.brokerToken # NoRef
    /\ ValidateModelAliases(cfg.models)
    /\ \A t \in Targets(cfg) : t[1] \in DOMAIN cfg.providers
    /\ ValidatePricingCoverage(cfg)
    /\ ValidateDurableModels(cfg)

\* File versions only grow, and nothing is served from a file not yet saved.
VersionsGrow ==
    /\ saved.n \in Nat \ {0} /\ newest \in Nat /\ vetted \in Nat
    /\ newest <= saved.n /\ vetted <= saved.n

\* Nothing is served, vetted or written before the store is seeded.
SeededFirst ==
    /\ serving # Down => dbRows.seeded
    /\ ~dbRows.seeded => vetted = 0 /\ written = {}

\* A write in progress was validated for the store as it is, and for the file
\* unless that was saved again; nothing newer was published meanwhile.
WriteIsCurrent ==
    /\ pending.step \in {"idle", "valid", "stored"}
    /\ pending.step # "idle" =>
        /\ serving # Down
        /\ pending.n \in Nat /\ newest <= pending.n /\ pending.n <= saved.n
        /\ pending.write.table \in {"providers", "models"}
        /\ Sound(pending.cfg)
    /\ pending.step = "valid" =>
        /\ pending.cfg.providers = Applied(dbRows, pending.write).providers
        /\ pending.cfg.models = Applied(dbRows, pending.write).models
        /\ pending.n = saved.n => pending.cfg = OverlayFrom(saved.body, Applied(dbRows, pending.write))
    /\ pending.step = "stored" =>
        /\ pending.cfg.providers = dbRows.providers
        /\ pending.cfg.models = dbRows.models
        /\ pending.n = saved.n => pending.cfg = OverlayFrom(saved.body, dbRows)

\* The stored rows are sound with the file they were last vetted with.
VettedIsSound == vetted = saved.n => Sound(OverlayFrom(saved.body, dbRows))

TablesWritten == \A w \in written : w.table \in {"providers", "models"}

TopologyInv ==
    /\ saved.body \in Contents
    /\ VersionsGrow /\ SeededFirst /\ WriteIsCurrent /\ VettedIsSound /\ TablesWritten
    /\ PublishedIsStored /\ FilesNeverGoBack /\ WrittenStays

\* A topology that passed a start's or a write's validation is sound.
LEMMA ValidatedIsSound ==
    \A cfg : Starts(cfg) \/ Validated(cfg) => Sound(cfg)
  BY DEF Starts, Validated, Sound, ResolveProviders, BuildState

\* A sound topology starts as soon as its references resolve.
LEMMA SoundStarts ==
    \A cfg : Sound(cfg) /\ References(cfg) \subseteq secrets \cup {NoRef} => Starts(cfg)
<1> TAKE cfg
<1> HAVE Sound(cfg) /\ References(cfg) \subseteq secrets \cup {NoRef}
<1>1. ResolveProviders(cfg)
  BY DEF Sound, References, ResolveProviders
<1>2. BuildState(cfg, BrokerAuthConfigured(cfg))
  BY DEF Sound, References, BuildState, BuildClassifiers, BrokerAuthConfigured
<1> QED
  BY <1>1, <1>2 DEF Sound, Starts

\* The overlay takes providers and models from the store.
LEMMA OverlayTopology ==
    ASSUME NEW file \in Contents, NEW store
    PROVE  /\ OverlayFrom(file, store).providers = store.providers
           /\ OverlayFrom(file, store).models = store.models
  BY TopologyAssumption DEF OverlayFrom, Sections

\* A write leaves its own row and every other resource alone.
LEMMA AppliedRow ==
    ASSUME NEW store, NEW w, w.table \in {"providers", "models"}
    PROVE  Stored(Applied(store, w), w) = w.row
<1>1. ASSUME NEW table PROVE StoredRow(SetRow(table, w.name, w.row), w.name) = w.row
  BY DEF StoredRow, SetRow, Restrict
<1> QED
  BY <1>1 DEF Stored, Applied

LEMMA AppliedFrame ==
    ASSUME NEW store, NEW w, NEW o,
           w.table \in {"providers", "models"}, o.table \in {"providers", "models"},
           <<o.table, o.name>> # <<w.table, w.name>>
    PROVE  Stored(Applied(store, w), o) = Stored(store, o)
<1>1. ASSUME NEW table, o.name # w.name
      PROVE  StoredRow(SetRow(table, w.name, w.row), o.name) = StoredRow(table, o.name)
  BY <1>1 DEF StoredRow, SetRow, Restrict
<1>2. CASE o.table = w.table
  BY <1>1, <1>2 DEF Stored, Applied
<1>3. CASE o.table # w.table
  BY <1>3 DEF Stored, Applied
<1> QED
  BY <1>2, <1>3

LEMMA TopologyInitInv == TopologyInit => TopologyInv
<1> SUFFICES ASSUME TopologyInit PROVE TopologyInv
  OBVIOUS
<1>1. saved.n = 1 /\ saved.body \in Contents
  BY DEF TopologyInit
<1> QED
  BY <1>1 DEF TopologyInit, TopologyInv, VersionsGrow, SeededFirst, WriteIsCurrent,
     VettedIsSound, TablesWritten, PublishedIsStored, FilesNeverGoBack, WrittenStays, Idle, NoRows

\* Saving the file makes the stored rows unvetted; secrets play no part.
LEMMA EnvironmentKeeps == TopologyInv /\ (SaveFile \/ SecretsChange) => TopologyInv'
<1> SUFFICES ASSUME TopologyInv, SaveFile \/ SecretsChange PROVE TopologyInv'
  OBVIOUS
<1>1. UNCHANGED <<dbRows, serving, pending, written, newest, vetted>>
  BY DEF SaveFile, SecretsChange
<1>2. saved' = saved \/ (saved'.n = saved.n + 1 /\ saved'.body \in Contents)
  BY DEF SaveFile, SecretsChange
<1>3. saved'.body \in Contents /\ VersionsGrow'
  BY <1>1, <1>2 DEF TopologyInv, VersionsGrow
<1>4. WriteIsCurrent'
  BY <1>1, <1>2 DEF TopologyInv, VersionsGrow, WriteIsCurrent
<1>5. VettedIsSound'
  BY <1>1, <1>2 DEF TopologyInv, VersionsGrow, VettedIsSound
<1>6. /\ SeededFirst' /\ TablesWritten' /\ PublishedIsStored'
      /\ FilesNeverGoBack' /\ WrittenStays'
  BY <1>1 DEF TopologyInv, SeededFirst, TablesWritten, PublishedIsStored,
              FilesNeverGoBack, WrittenStays
<1> QED
  BY <1>3, <1>4, <1>5, <1>6 DEF TopologyInv

\* A generation made of the file and the store as they are keeps the
\* invariant when no write is in progress and the store is seeded.
LEMMA SwapKeeps ==
    ASSUME TopologyInv, pending.step = "idle", UNCHANGED <<saved, pending, written>>,
           dbRows'.seeded, WrittenStays',
           Sound(OverlayFrom(saved.body, dbRows')),
           SwapGeneration(saved.n, OverlayFrom(saved.body, dbRows'))
    PROVE  TopologyInv'
<1>1. /\ newest' = saved.n /\ vetted' = saved.n
      /\ serving'.n = saved.n
      /\ serving'.cfg = OverlayFrom(saved.body, dbRows')
  BY DEF SwapGeneration, TopologyInv, VersionsGrow
<1>2. saved'.body \in Contents /\ VersionsGrow' /\ FilesNeverGoBack'
  BY <1>1 DEF TopologyInv, VersionsGrow, FilesNeverGoBack
<1>3. SeededFirst' /\ WriteIsCurrent' /\ VettedIsSound' /\ TablesWritten'
  BY <1>1 DEF TopologyInv, SeededFirst, WriteIsCurrent, VettedIsSound, TablesWritten
<1>4. PublishedIsStored'
  <2>1. saved.body \in Contents
    BY DEF TopologyInv
  <2>2. /\ serving'.cfg.providers = dbRows'.providers
        /\ serving'.cfg.models = dbRows'.models
    BY <1>1, <2>1, OverlayTopology
  <2> QED
    BY <2>2 DEF PublishedIsStored
<1> QED
  BY <1>2, <1>3, <1>4 DEF TopologyInv

\* A start seeds the store at most once, and serves what builds.
LEMMA BootKeeps == TopologyInv /\ Boot => TopologyInv'
<1> SUFFICES ASSUME TopologyInv, Boot PROVE TopologyInv'
  OBVIOUS
<1>1. /\ pending.step = "idle"
      /\ serving = Down
      /\ UNCHANGED <<saved, pending, written>>
  BY DEF Boot, TopologyInv, WriteIsCurrent
<1>2. /\ dbRows'.seeded
      /\ dbRows.seeded => dbRows' = dbRows
      /\ ~dbRows.seeded => vetted = 0 /\ written = {}
  BY DEF Boot, Seed, TopologyInv, SeededFirst
<1>3. WrittenStays'
  BY <1>1, <1>2 DEF TopologyInv, WrittenStays
<1>4. CASE Starts(OverlayFrom(saved.body, dbRows'))
  <2>1. SwapGeneration(saved.n, OverlayFrom(saved.body, dbRows'))
    BY <1>4 DEF Boot
  <2>2. Sound(OverlayFrom(saved.body, dbRows'))
    BY <1>4, ValidatedIsSound
  <2> QED
    BY <1>1, <1>2, <1>3, <2>1, <2>2, SwapKeeps
<1>5. CASE ~Starts(OverlayFrom(saved.body, dbRows'))
  <2>1. UNCHANGED <<serving, newest, vetted>>
    BY <1>5 DEF Boot
  <2>2. VersionsGrow' /\ saved'.body \in Contents
    BY <1>1, <2>1 DEF TopologyInv, VersionsGrow
  <2>3. VettedIsSound'
    BY <1>1, <1>2, <2>1 DEF TopologyInv, VersionsGrow, VettedIsSound
  <2>4. /\ SeededFirst' /\ WriteIsCurrent' /\ TablesWritten'
        /\ PublishedIsStored' /\ FilesNeverGoBack'
    BY <1>1, <1>2, <2>1 DEF TopologyInv, SeededFirst, WriteIsCurrent, TablesWritten,
       PublishedIsStored, FilesNeverGoBack
  <2> QED
    BY <1>3, <2>2, <2>3, <2>4 DEF TopologyInv
<1> QED
  BY <1>4, <1>5

LEMMA ReloadKeeps == TopologyInv /\ Reload => TopologyInv'
<1> SUFFICES ASSUME TopologyInv, Reload PROVE TopologyInv'
  OBVIOUS
<1>1. /\ pending.step = "idle"
      /\ UNCHANGED <<saved, pending, written, dbRows>>
  BY DEF Reload, Idle
<1>2. dbRows.seeded /\ WrittenStays'
  BY <1>1 DEF Reload, TopologyInv, SeededFirst, WrittenStays
<1>3. /\ Validated(OverlayFrom(saved.body, dbRows))
      /\ SwapGeneration(saved.n, OverlayFrom(saved.body, dbRows))
  BY DEF Reload
<1>4. Sound(OverlayFrom(saved.body, dbRows))
  BY <1>3, ValidatedIsSound
<1> QED
  BY <1>1, <1>2, <1>3, <1>4, SwapKeeps

\* A write is validated for the store and the file as they are.
LEMMA ValidateWriteKeeps ==
    ASSUME TopologyInv, NEW w \in Requests, ValidateWrite(w) PROVE TopologyInv'
<1> DEFINE cfg == OverlayFrom(saved.body, Applied(dbRows, w))
<1>1. /\ UNCHANGED <<saved, dbRows, serving, written, newest, vetted>>
      /\ serving # Down /\ pending.step = "idle"
      /\ pending' = [step |-> "valid", write |-> w, n |-> saved.n, cfg |-> cfg]
      /\ Validated(cfg)
  BY DEF ValidateWrite, Idle
<1>2. w.table \in {"providers", "models"}
  BY DEF Requests
<1>3. Sound(cfg)
  BY <1>1, ValidatedIsSound
<1>4. /\ cfg.providers = Applied(dbRows, w).providers
      /\ cfg.models = Applied(dbRows, w).models
  BY OverlayTopology DEF TopologyInv
<1>5. WriteIsCurrent'
  <2> HIDE DEF cfg
  <2>1. /\ pending'.step = "valid" /\ pending'.write = w
        /\ pending'.n = saved.n /\ pending'.cfg = cfg
    BY <1>1
  <2>2. cfg = OverlayFrom(saved.body, Applied(dbRows, w))
    BY DEF cfg
  <2> QED
    BY <1>1, <1>2, <1>3, <1>4, <2>1, <2>2 DEF WriteIsCurrent, TopologyInv, VersionsGrow
<1>6. /\ saved'.body \in Contents /\ VersionsGrow' /\ SeededFirst' /\ VettedIsSound'
      /\ TablesWritten' /\ PublishedIsStored' /\ FilesNeverGoBack' /\ WrittenStays'
  BY <1>1 DEF TopologyInv, VersionsGrow, SeededFirst, VettedIsSound, TablesWritten,
     PublishedIsStored, FilesNeverGoBack, WrittenStays
<1> QED
  BY <1>5, <1>6 DEF TopologyInv

\* A write that fails, or a process that dies, leaves the store as it is.
LEMMA FailureKeeps == TopologyInv /\ (WriteFails \/ CrashGateway) => TopologyInv'
<1> SUFFICES ASSUME TopologyInv, WriteFails \/ CrashGateway PROVE TopologyInv'
  OBVIOUS
<1>1. /\ UNCHANGED <<saved, dbRows, written, vetted>>
      /\ pending'.step = "idle"
      /\ \/ UNCHANGED <<serving, newest>> /\ pending.step = "valid"
         \/ serving' = Down /\ newest' = 0
  BY DEF WriteFails, CrashGateway, Idle
<1>2. saved'.body \in Contents /\ VersionsGrow'
  BY <1>1 DEF TopologyInv, VersionsGrow
<1>3. SeededFirst' /\ WriteIsCurrent' /\ VettedIsSound' /\ TablesWritten'
  BY <1>1 DEF TopologyInv, SeededFirst, WriteIsCurrent, VettedIsSound, TablesWritten
<1>4. PublishedIsStored' /\ FilesNeverGoBack' /\ WrittenStays'
  BY <1>1 DEF TopologyInv, PublishedIsStored, FilesNeverGoBack, WrittenStays
<1> QED
  BY <1>2, <1>3, <1>4 DEF TopologyInv

\* The committed row is the one that was validated.
LEMMA PersistKeeps == TopologyInv /\ PersistWrite => TopologyInv'
<1> SUFFICES ASSUME TopologyInv, PersistWrite PROVE TopologyInv'
  OBVIOUS
<1>1. /\ UNCHANGED <<saved, serving, newest>>
      /\ pending.step = "valid"
      /\ dbRows' = Applied(dbRows, pending.write)
      /\ vetted' = pending.n
      /\ written' = {w \in written : <<w.table, w.name>> # <<pending.write.table, pending.write.name>>}
                     \cup {pending.write}
  BY DEF PersistWrite
<1>2. /\ pending'.step = "stored" /\ pending'.write = pending.write
      /\ pending'.n = pending.n /\ pending'.cfg = pending.cfg
  BY DEF PersistWrite
<1>3. /\ serving # Down /\ pending.n \in Nat /\ newest <= pending.n /\ pending.n <= saved.n
      /\ pending.write.table \in {"providers", "models"}
      /\ Sound(pending.cfg)
      /\ pending.n = saved.n => pending.cfg = OverlayFrom(saved.body, Applied(dbRows, pending.write))
  BY <1>1 DEF TopologyInv, WriteIsCurrent
<1>4. dbRows'.seeded
  BY <1>1, <1>3 DEF Applied, TopologyInv, SeededFirst
<1>5. saved'.body \in Contents /\ VersionsGrow' /\ FilesNeverGoBack' /\ PublishedIsStored'
  BY <1>1, <1>2, <1>3 DEF TopologyInv, VersionsGrow, FilesNeverGoBack, PublishedIsStored
<1>6. SeededFirst' /\ VettedIsSound'
  BY <1>1, <1>3, <1>4 DEF SeededFirst, VettedIsSound
<1>7. WriteIsCurrent'
  BY <1>1, <1>2, <1>3 DEF TopologyInv, WriteIsCurrent
<1>8. TablesWritten'
  BY <1>1, <1>3 DEF TopologyInv, TablesWritten
<1>9. WrittenStays'
  <2> SUFFICES ASSUME NEW w \in written' PROVE Stored(dbRows', w) = w.row
    BY DEF WrittenStays
  <2>1. CASE w = pending.write
    BY <1>1, <1>3, <2>1, AppliedRow
  <2>2. CASE w # pending.write
    BY <1>1, <1>3, <2>2, AppliedFrame DEF TopologyInv, TablesWritten, WrittenStays
  <2> QED
    BY <2>1, <2>2
<1> QED
  BY <1>5, <1>6, <1>7, <1>8, <1>9 DEF TopologyInv

\* The generation that is swapped in is the stored one, and no older.
LEMMA SwapWriteKeeps == TopologyInv /\ SwapWrite => TopologyInv'
<1> SUFFICES ASSUME TopologyInv, SwapWrite PROVE TopologyInv'
  OBVIOUS
<1>1. /\ UNCHANGED <<saved, dbRows, written>>
      /\ pending.step = "stored" /\ pending'.step = "idle"
      /\ SwapGeneration(pending.n, pending.cfg)
  BY DEF SwapWrite, Idle
<1>2. /\ serving # Down /\ pending.n \in Nat /\ newest <= pending.n /\ pending.n <= saved.n
      /\ Sound(pending.cfg)
      /\ pending.cfg.providers = dbRows.providers
      /\ pending.cfg.models = dbRows.models
      /\ pending.n = saved.n => pending.cfg = OverlayFrom(saved.body, dbRows)
  BY <1>1 DEF TopologyInv, WriteIsCurrent
<1>3. /\ newest' = pending.n /\ vetted' = pending.n
      /\ serving'.n = pending.n /\ serving'.cfg = pending.cfg
  BY <1>1, <1>2 DEF SwapGeneration, TopologyInv, VersionsGrow
<1>4. saved'.body \in Contents /\ VersionsGrow' /\ FilesNeverGoBack' /\ PublishedIsStored'
  BY <1>1, <1>2, <1>3 DEF TopologyInv, VersionsGrow, FilesNeverGoBack, PublishedIsStored
<1>5. SeededFirst' /\ WriteIsCurrent' /\ VettedIsSound'
  BY <1>1, <1>2, <1>3 DEF TopologyInv, SeededFirst, WriteIsCurrent, VettedIsSound
<1>6. TablesWritten' /\ WrittenStays'
  BY <1>1 DEF TopologyInv, TablesWritten, WrittenStays
<1> QED
  BY <1>4, <1>5, <1>6 DEF TopologyInv

\* TopologyInv is inductive: one case per action.
LEMMA TopologyStep == TopologyInv /\ [TopologyNext]_topologyVars => TopologyInv'
<1> SUFFICES ASSUME TopologyInv, [TopologyNext]_topologyVars PROVE TopologyInv'
  OBVIOUS
<1>1. CASE UNCHANGED topologyVars
  BY <1>1 DEF topologyVars, TopologyInv, VersionsGrow, SeededFirst, WriteIsCurrent,
     VettedIsSound, TablesWritten, PublishedIsStored, FilesNeverGoBack, WrittenStays
<1> QED
  BY <1>1, EnvironmentKeeps, BootKeeps, ReloadKeeps, FailureKeeps, ValidateWriteKeeps,
     PersistKeeps, SwapWriteKeeps DEF TopologyNext

\* Through reloads, console writes, failures between their steps and restarts,
\* what is served is what is stored, no older file returns, what the console
\* wrote stays and the stored rows build again (gateway.reload and writeMutation
\* under reloadMu, providerstore.Seed behind its marker), for any files,
\* secrets, rows and routes.
THEOREM TopologyIsKept == TopologySpec => []TopologyHolds
<1>1. TopologyInv => TopologyHolds
  <2> SUFFICES ASSUME TopologyInv PROVE StoredBuilds
    BY DEF TopologyInv, TopologyHolds
  <2> QED
    BY SoundStarts DEF TopologyInv, VettedIsSound, StoredBuilds
<1> QED
  BY <1>1, TopologyInitInv, TopologyStep, PTL DEF TopologySpec

-----------------------------------------------------------------------------
(* Policy store *)

OpKinds == {"idle", "attach", "put", "delete", "import"}
Ops == [kind : OpKinds, step : {"idle", "seed", "reload", "store", "reconcile", "replace", "readback", "install"},
        docs : PolicySets, expected : PolicySets, committed : BOOLEAN, held : BOOLEAN,
        foreign : BOOLEAN, rejected : BOOLEAN]
Reports == [result : {"none", "ok", "error"}, committed : BOOLEAN, held : BOOLEAN, excused : BOOLEAN]

WritesTypes ==
    /\ WritesTypeOK
    /\ op \in [Replicas -> Ops] /\ last \in [Replicas -> Reports]
    /\ preview \in [known : BOOLEAN, gen : PolicySets]

\* Nothing is written before the store is seeded: a replica serves from it,
\* and so takes writes, only afterwards.
SeedComesFirst ==
    ~seeded => /\ removed = {} /\ rows = {} /\ attached = {}
               /\ \A r \in Replicas : op[r].kind = "idle" \/ (op[r].kind = "attach" /\ op[r].step = "seed")

\* What an import in progress knows of the store, unless another replica wrote.
ImportTracks(r) ==
    /\ op[r].step \in {"reconcile", "replace", "readback", "install"} => op[r].kind = "import"
    /\ op[r].kind = "import" => Acceptable(r, op[r].docs)
    /\ op[r].step \in {"reconcile", "replace"} => ~op[r].committed
    /\ op[r].step = "replace" /\ ~op[r].foreign /\ ~op[r].rejected => rows = op[r].expected
    /\ op[r].step = "install" => op[r].held
    /\ op[r].step = "readback" /\ op[r].committed /\ ~op[r].foreign => rows = op[r].docs

WritesInv ==
    /\ WritesTypes /\ SeedComesFirst /\ DeletedStaysDeleted /\ ImportReported
    /\ \A r \in Replicas : ImportTracks(r)

LEMMA IdleIsAnOp == IdleOp \in Ops /\ IdleOp.kind = "idle" /\ IdleOp.step = "idle"
<1>1. {} \in PolicySets
    BY DEF PolicySets
<1> QED
    BY <1>1 DEF IdleOp, Ops, OpKinds

LEMMA NoReportIsAReport == NoReport \in Reports /\ NoReport.result = "none"
    BY DEF NoReport, Reports

LEMMA WritesInitInv == WritesInit => WritesInv
<1> SUFFICES ASSUME WritesInit PROVE WritesInv
    OBVIOUS
<1>1. {} \in PolicySets
    BY DEF PolicySets
<1>2. WritesTypes
    BY <1>1, IdleIsAnOp, NoReportIsAReport, PolicyWritesAssumption
       DEF WritesInit, WritesTypes, WritesTypeOK, Ops
<1>3. SeedComesFirst /\ DeletedStaysDeleted
    BY IdleIsAnOp DEF WritesInit, SeedComesFirst, DeletedStaysDeleted
<1>4. ImportReported
    BY NoReportIsAReport DEF WritesInit, ImportReported
<1>5. \A r \in Replicas : ImportTracks(r)
    BY IdleIsAnOp DEF WritesInit, ImportTracks
<1> QED
    BY <1>2, <1>3, <1>4, <1>5 DEF WritesInv

\* A step that changes the operation of one replica and no row.
LEMMA OpStep ==
    ASSUME WritesInv, NEW r \in Replicas, NEW o \in Ops, op' = [op EXCEPT ![r] = o],
           UNCHANGED <<rows, seeded, removed>>,
           wire' \in [Replicas -> PolicySets], attached' \subseteq Replicas,
           last' \in [Replicas -> Reports], preview' \in [known : BOOLEAN, gen : PolicySets],
           ImportReported',
           ImportTracks(r)',
           ~seeded => /\ attached' = {}
                      /\ o.kind = "idle" \/ (o.kind = "attach" /\ o.step = "seed")
    PROVE  WritesInv'
<1>1. op' \in [Replicas -> Ops] /\ op'[r] = o /\ \A q \in Replicas : q # r => op'[q] = op[q]
    BY DEF WritesInv, WritesTypes
<1>2. WritesTypes'
    <2>1. \A q \in Replicas : op'[q].docs \in PolicySets
        BY <1>1 DEF Ops
    <2> QED
        BY <1>1, <2>1 DEF WritesInv, WritesTypes, WritesTypeOK
<1>3. SeedComesFirst' /\ DeletedStaysDeleted'
    BY <1>1 DEF WritesInv, SeedComesFirst, DeletedStaysDeleted
<1>4. \A q \in Replicas : ImportTracks(q)'
    BY <1>1 DEF WritesInv, ImportTracks, Acceptable
<1> QED
    BY <1>2, <1>3, <1>4 DEF WritesInv

\* A transaction of one replica that writes the rows.
LEMMA WriteStep ==
    ASSUME WritesInv, NEW r \in Replicas, NEW o \in Ops, op' = Touch(r, o),
           rows' \in PolicySets, removed' \subseteq Docs, rows' \cap removed' = {}, seeded',
           UNCHANGED <<wire, attached, preview, last>>,
           ImportTracks(r)'
    PROVE  WritesInv'
<1>1. /\ op'[r] = o
      /\ \A q \in Replicas : q # r => IF op[q].kind = "import" THEN op'[q] = [op[q] EXCEPT !.foreign = TRUE]
                                      ELSE op'[q] = op[q]
    BY DEF Touch
<1>2. ASSUME NEW q \in Replicas, q # r
      PROVE  /\ op'[q] \in Ops /\ op'[q].kind = op[q].kind /\ op'[q].step = op[q].step
             /\ op'[q].docs = op[q].docs /\ op'[q].committed = op[q].committed /\ op'[q].held = op[q].held
             /\ op[q].kind = "import" => op'[q].foreign
    <2>1. op[q] \in Ops
        BY DEF WritesInv, WritesTypes
    <2> QED
        BY <1>1, <1>2, <2>1 DEF Ops
<1>3. op' \in [Replicas -> Ops]
    BY <1>1, <1>2 DEF Touch
<1>4. WritesTypes'
    <2>1. \A q \in Replicas : op'[q].docs \in PolicySets
        BY <1>3 DEF Ops
    <2> QED
        BY <1>3, <2>1 DEF WritesInv, WritesTypes, WritesTypeOK
<1>5. SeedComesFirst' /\ DeletedStaysDeleted' /\ ImportReported'
    BY DEF WritesInv, SeedComesFirst, DeletedStaysDeleted, ImportReported
<1>6. \A q \in Replicas : ImportTracks(q)'
    <2> SUFFICES ASSUME NEW q \in Replicas, q # r PROVE ImportTracks(q)'
        OBVIOUS
    <2>1. ImportTracks(q)
        BY DEF WritesInv
    <2> QED
        BY <1>2, <2>1 DEF ImportTracks, Acceptable
<1> QED
    BY <1>4, <1>5, <1>6 DEF WritesInv

\* An operation that ends with its replica idle keeps everything about imports.
LEMMA EndStep ==
    ASSUME WritesInv, NEW r \in Replicas, EndOp(r), UNCHANGED <<rows, seeded, removed, preview>>,
           wire' \in [Replicas -> PolicySets], attached' \subseteq Replicas,
           ~seeded => attached' = {},
           last' \in [Replicas -> Reports], ImportReported'
    PROVE  WritesInv'
<1>1. op' = [op EXCEPT ![r] = IdleOp] /\ op'[r] = IdleOp
    BY DEF EndOp, WritesInv, WritesTypes
<1>2. ImportTracks(r)'
    BY <1>1, IdleIsAnOp DEF ImportTracks
<1> QED
    BY <1>1, <1>2, IdleIsAnOp, OpStep DEF WritesInv, WritesTypes

LEMMA ReloadedIsASet ==
    ASSUME WritesInv, NEW r \in Replicas
    PROVE  /\ Reloaded(r) \in [Replicas -> PolicySets]
           /\ Acceptable(r, rows) => Reloaded(r)[r] = rows
    BY DEF Reloaded, WritesInv, WritesTypes, WritesTypeOK

\* A replica that serves from the store, or has an operation on it, finds it seeded.
LEMMA SeededBefore ==
    ASSUME WritesInv, NEW r \in Replicas,
           r \in attached \/ op[r].kind \in {"put", "delete", "import"}
             \/ (op[r].kind = "attach" /\ op[r].step = "reload")
    PROVE  seeded
    BY DEF WritesInv, SeedComesFirst

LEMMA RestartStep ==
    ASSUME WritesInv, NEW r \in Replicas, RestartReplica(r)
    PROVE  WritesInv'
<1>1. wire' \in [Replicas -> PolicySets] /\ attached' \subseteq Replicas /\ (~seeded => attached' = {})
    BY PolicyWritesAssumption DEF RestartReplica, WritesInv, WritesTypes, WritesTypeOK, SeedComesFirst
<1>2. last' \in [Replicas -> Reports] /\ ImportReported'
    BY NoReportIsAReport DEF RestartReplica, WritesInv, WritesTypes, ImportReported
<1> QED
    BY <1>1, <1>2, EndStep DEF RestartReplica

LEMMA AttachStep ==
    ASSUME WritesInv, NEW r \in Replicas, AttachCheck(r)
    PROVE  WritesInv'
<1> DEFINE o == [IdleOp EXCEPT !.kind = "attach", !.step = IF seeded THEN "reload" ELSE "seed"]
<1>1. o \in Ops /\ o.kind = "attach" /\ o.step = IF seeded THEN "reload" ELSE "seed"
    BY IdleIsAnOp DEF Ops, OpKinds
<1>2. /\ op' = [op EXCEPT ![r] = o]
      /\ UNCHANGED <<rows, seeded, removed, wire, attached, preview, last>>
    BY DEF AttachCheck
<1> HIDE DEF o
<1>3. ImportTracks(r)'
    BY <1>1, <1>2 DEF ImportTracks, WritesInv, WritesTypes
<1>4. ImportReported'
    BY <1>2 DEF WritesInv, ImportReported
<1> QED
    BY <1>1, <1>2, <1>3, <1>4, OpStep DEF WritesInv, WritesTypes, WritesTypeOK, SeedComesFirst

\* Only the transaction that finds no marker inserts the files, and then
\* nothing has been removed.
LEMMA SeedStoreStep ==
    ASSUME WritesInv, NEW r \in Replicas, SeedStore(r)
    PROVE  WritesInv'
<1>1. PICK outcome \in Outcomes :
        /\ seeded' = (seeded \/ outcome # "failed")
        /\ rows' = IF outcome # "failed" THEN SeededRows(r) ELSE rows
        /\ op' = [op EXCEPT ![r] = IF outcome = "ack" THEN [op[r] EXCEPT !.step = "reload"] ELSE IdleOp]
    BY DEF SeedStore
<1> DEFINE o == IF outcome = "ack" THEN [op[r] EXCEPT !.step = "reload"] ELSE IdleOp
<1>2. /\ o \in Ops /\ o.step \in {"reload", "idle"} /\ o.kind \in {"attach", "idle"}
      /\ outcome = "failed" => o.kind = "idle"
    BY IdleIsAnOp DEF WritesInv, WritesTypes, Ops, SeedStore
<1>3. op' = [op EXCEPT ![r] = o]
    BY <1>1
<1> HIDE DEF o
<1>4. op'[r] = o
    BY <1>3 DEF WritesInv, WritesTypes
<1>5. ImportTracks(r)'
    BY <1>2, <1>4 DEF ImportTracks
<1>6. UNCHANGED <<removed, wire, attached, preview, last>>
    BY DEF SeedStore
<1>7. CASE ~seeded /\ outcome # "failed"
    <2>1. rows' = SeedFiles[r] /\ seeded' /\ removed' = {}
        BY <1>1, <1>6, <1>7 DEF SeededRows, WritesInv, SeedComesFirst
    <2>2. SeedFiles[r] \in PolicySets
        BY PolicyWritesAssumption
    <2>3. op' = Touch(r, o)
        <3>1. \A q \in Replicas : op[q].kind # "import"
            BY <1>7 DEF WritesInv, SeedComesFirst
        <3> QED
            BY <1>3, <3>1 DEF Touch, WritesInv, WritesTypes
    <2> QED
        BY <1>2, <1>5, <1>6, <2>1, <2>2, <2>3, WriteStep
<1>8. CASE seeded \/ outcome = "failed"
    <2>1. UNCHANGED <<rows, seeded, removed>>
        BY <1>1, <1>6, <1>8 DEF SeededRows, WritesInv, WritesTypes, WritesTypeOK
    <2>2. ImportReported'
        BY <1>6 DEF WritesInv, ImportReported
    <2>3. ~seeded => attached' = {} /\ o.kind = "idle"
        BY <1>2, <1>6, <1>8 DEF WritesInv, SeedComesFirst
    <2> QED
        BY <1>2, <1>3, <1>5, <1>6, <2>1, <2>2, <2>3, OpStep DEF WritesInv, WritesTypes, WritesTypeOK
<1> QED
    BY <1>7, <1>8

LEMMA ReloadStep ==
    ASSUME WritesInv, NEW r \in Replicas, AttachReload(r) \/ WriteReload(r) \/ ReconcileFails(r)
    PROVE  WritesInv'
<1>1. EndOp(r) /\ UNCHANGED <<rows, seeded, removed, preview, last>>
    BY DEF AttachReload, WriteReload, ReconcileFails
<1>2. wire' \in [Replicas -> PolicySets] /\ attached' \subseteq Replicas
    BY ReloadedIsASet DEF AttachReload, WriteReload, ReconcileFails, WritesInv, WritesTypes, WritesTypeOK
<1>3. seeded
    BY SeededBefore DEF AttachReload, WriteReload, ReconcileFails
<1>4. ImportReported'
    BY <1>1 DEF WritesInv, ImportReported
<1> QED
    BY <1>1, <1>2, <1>3, <1>4, EndStep DEF WritesInv, WritesTypes

\* A new operation, with its options accepted.
LEMMA BeginStep ==
    ASSUME WritesInv, NEW r \in attached, NEW o \in Ops, StartOp(r, o),
           UNCHANGED <<rows, seeded, removed, wire, attached, preview>>,
           o.step \in {"store", "reconcile"}, ~o.committed,
           o.step = "reconcile" => o.kind = "import",
           o.kind = "import" => Acceptable(r, o.docs)
    PROVE  WritesInv'
<1>1. r \in Replicas /\ seeded
    BY SeededBefore DEF WritesInv, WritesTypes, WritesTypeOK
<1>2. op' = [op EXCEPT ![r] = o] /\ op'[r] = o
    BY <1>1 DEF StartOp, WritesInv, WritesTypes
<1>3. last' \in [Replicas -> Reports] /\ ImportReported'
    BY <1>1, NoReportIsAReport DEF StartOp, WritesInv, WritesTypes, ImportReported
<1>4. ImportTracks(r)'
    BY <1>2 DEF ImportTracks, Acceptable
<1> QED
    BY <1>1, <1>2, <1>3, <1>4, OpStep DEF WritesInv, WritesTypes, WritesTypeOK

LEMMA BeginWriteStep ==
    ASSUME WritesInv, NEW r \in Replicas, NEW d \in Docs, BeginPut(r, d) \/ BeginDelete(r, d)
    PROVE  WritesInv'
<1> DEFINE o(kind) == [IdleOp EXCEPT !.kind = kind, !.step = "store", !.docs = {d}]
<1>1. {d} \in PolicySets
    BY DEF PolicySets
<1>2. \A kind \in {"put", "delete"} :
        /\ o(kind) \in Ops /\ o(kind).step = "store" /\ o(kind).kind # "import" /\ ~o(kind).committed
    BY <1>1, IdleIsAnOp DEF Ops, OpKinds, IdleOp
<1>3. \E kind \in {"put", "delete"} : StartOp(r, o(kind))
    BY DEF BeginPut, BeginDelete
<1> HIDE DEF o
<1> QED
    BY <1>2, <1>3, BeginStep DEF BeginPut, BeginDelete

LEMMA BeginImportStep ==
    ASSUME WritesInv, NEW r \in Replicas, NEW docs \in PolicySets, BeginImport(r, docs)
    PROVE  WritesInv'
<1> DEFINE o == [IdleOp EXCEPT !.kind = "import", !.step = "reconcile", !.docs = docs, !.expected = preview.gen]
<1>1. o \in Ops /\ o.step = "reconcile" /\ o.kind = "import" /\ ~o.committed /\ o.docs = docs
    BY IdleIsAnOp DEF Ops, OpKinds, IdleOp, WritesInv, WritesTypes
<1>2. StartOp(r, o)
    BY DEF BeginImport
<1> HIDE DEF o
<1> QED
    BY <1>1, <1>2, BeginStep DEF BeginImport

\* Putting or deleting by name leaves one document per name.
LEMMA AfterWrite ==
    ASSUME WritesInv, NEW docs \in PolicySets
    PROVE  AfterPut(docs) \in PolicySets /\ AfterDelete(docs) \in PolicySets
    BY DEF AfterPut, AfterDelete, PolicySets, WritesInv, WritesTypes, WritesTypeOK

LEMMA StoreWriteStep ==
    ASSUME WritesInv, NEW r \in Replicas, StoreWrite(r)
    PROVE  WritesInv'
<1>1. seeded /\ op[r].kind \in {"put", "delete"} /\ op[r] \in Ops /\ op[r].docs \in PolicySets
    BY SeededBefore DEF StoreWrite, WritesInv, WritesTypes, Ops
<1>2. UNCHANGED <<seeded, wire, attached, preview, last>> /\ ImportReported'
    BY DEF StoreWrite, WritesInv, ImportReported
<1>3. CASE UNCHANGED <<rows, removed>> /\ EndOp(r)
    BY <1>1, <1>2, <1>3, EndStep DEF WritesInv, WritesTypes, WritesTypeOK
<1>4. ASSUME NEW o \in {[op[r] EXCEPT !.step = "reload"], IdleOp},
             NEW after \in {AfterPut(op[r].docs), AfterDelete(op[r].docs)},
             WriteRows(r, after), op' = Touch(r, o)
      PROVE  WritesInv'
    <2>1. o \in Ops /\ o.kind # "import" /\ o.step \in {"reload", "idle"}
        BY <1>1, <1>4, IdleIsAnOp DEF Ops
    <2>2. after \in PolicySets
        BY <1>1, AfterWrite
    <2>3. rows' \in PolicySets /\ removed' \subseteq Docs /\ rows' \cap removed' = {}
        BY <1>4, <2>2 DEF WriteRows, WritesInv, WritesTypes, WritesTypeOK, PolicySets
    <2>4. op'[r] = o
        BY <1>4 DEF Touch
    <2>5. ImportTracks(r)'
        BY <2>1, <2>4 DEF ImportTracks
    <2> QED
        BY <1>1, <1>2, <1>4, <2>1, <2>3, <2>5, WriteStep
<1>5. \/ UNCHANGED <<rows, removed>> /\ EndOp(r)
      \/ \E o \in {[op[r] EXCEPT !.step = "reload"], IdleOp},
            after \in {AfterPut(op[r].docs), AfterDelete(op[r].docs)} :
              WriteRows(r, after) /\ op' = Touch(r, o)
    <2>1. PICK outcome \in Outcomes :
            IF outcome = "failed"
            THEN UNCHANGED <<rows, removed>> /\ EndOp(r)
            ELSE /\ WriteRows(r, IF op[r].kind = "put" THEN AfterPut(op[r].docs) ELSE AfterDelete(op[r].docs))
                 /\ op' = Touch(r, IF outcome = "ack" THEN [op[r] EXCEPT !.step = "reload"] ELSE IdleOp)
        BY DEF StoreWrite
    <2> QED
        BY <2>1, Zenon
<1> QED
    BY <1>3, <1>4, <1>5

LEMMA DryRunStep ==
    ASSUME WritesInv, NEW r \in Replicas, DryRun(r)
    PROVE  WritesInv'
<1>1. op' = [op EXCEPT ![r] = op[r]] /\ op[r] \in Ops /\ op'[r] = op[r] /\ UNCHANGED <<rows, seeded, removed, attached, last>>
    BY DEF DryRun, WritesInv, WritesTypes
<1>2. wire' \in [Replicas -> PolicySets] /\ preview' \in [known : BOOLEAN, gen : PolicySets]
    BY ReloadedIsASet DEF DryRun, Reconciled
<1>3. seeded
    BY SeededBefore DEF DryRun
<1>4. ImportReported' /\ ImportTracks(r)'
    BY <1>1 DEF WritesInv, ImportReported, ImportTracks, Acceptable
<1> QED
    BY <1>1, <1>2, <1>3, <1>4, OpStep DEF WritesInv, WritesTypes, WritesTypeOK

\* The generation found is the previewed one, so the rows are, unless this
\* replica refuses them.
LEMMA ReconcileStep ==
    ASSUME WritesInv, NEW r \in Replicas, Reconcile(r)
    PROVE  WritesInv'
<1> DEFINE o == IF wire'[r] = op[r].expected
                THEN [op[r] EXCEPT !.step = "replace", !.foreign = FALSE, !.rejected = ~Acceptable(r, rows)]
                ELSE IdleOp
<1>1. /\ op[r].kind = "import" /\ op[r].step = "reconcile" /\ wire' = Reloaded(r)
      /\ op' = [op EXCEPT ![r] = o] /\ UNCHANGED <<rows, seeded, removed, attached, preview, last>>
    BY DEF Reconcile, Reconciled
<1>2. op[r] \in Ops /\ ImportTracks(r) /\ seeded
    BY <1>1, SeededBefore DEF WritesInv, WritesTypes
<1>3. wire' \in [Replicas -> PolicySets] /\ (Acceptable(r, rows) => wire'[r] = rows)
    BY <1>1, ReloadedIsASet
<1>4. /\ o \in Ops
      /\ \/ o.kind = "idle" /\ o.step = "idle"
         \/ /\ o.kind = "import" /\ o.step = "replace" /\ o.docs = op[r].docs /\ ~o.committed
            /\ ~o.rejected => rows = o.expected
    <2>1. CASE wire'[r] = op[r].expected
        <3> DEFINE refused == ~Acceptable(r, rows)
        <3>1. refused \in BOOLEAN /\ (~refused => rows = op[r].expected)
            BY <1>3, <2>1
        <3> HIDE DEF refused
        <3>2. o = [op[r] EXCEPT !.step = "replace", !.foreign = FALSE, !.rejected = refused]
            BY <2>1 DEF refused
        <3>3. ~op[r].committed
            BY <1>1, <1>2 DEF ImportTracks
        <3> QED
            BY <1>1, <1>2, <3>1, <3>2, <3>3 DEF Ops
    <2>2. CASE wire'[r] # op[r].expected
        BY <2>2, IdleIsAnOp
    <2> QED
        BY <2>1, <2>2
<1> HIDE DEF o
<1>5. op'[r] = o
    BY <1>1 DEF WritesInv, WritesTypes
<1>6. ImportTracks(r)' /\ ImportReported'
    BY <1>1, <1>2, <1>4, <1>5 DEF ImportTracks, Acceptable, WritesInv, ImportReported
<1> QED
    BY <1>1, <1>2, <1>3, <1>4, <1>6, OpStep DEF WritesInv, WritesTypes, WritesTypeOK

LEMMA ReplaceStep ==
    ASSUME WritesInv, NEW r \in Replicas, ReplaceAll(r)
    PROVE  WritesInv'
<1>1. /\ op[r].kind = "import" /\ op[r].step = "replace" /\ op[r] \in Ops /\ ImportTracks(r) /\ seeded
      /\ op[r].docs \in PolicySets
    BY SeededBefore DEF ReplaceAll, WritesInv, WritesTypes, Ops
<1>2. UNCHANGED <<wire, attached, preview, last>>
    BY DEF ReplaceAll
<1>3. CASE Goto(r, "readback") /\ UNCHANGED <<rows, seeded, removed>>
    <2> DEFINE o == [op[r] EXCEPT !.step = "readback"]
    <2>1. /\ op' = [op EXCEPT ![r] = o]
          /\ o \in Ops /\ o.kind = "import" /\ o.step = "readback" /\ o.docs = op[r].docs /\ ~o.committed
        BY <1>1, <1>3 DEF Goto, Ops, ImportTracks
    <2> HIDE DEF o
    <2>2. op'[r] = o
        BY <2>1 DEF WritesInv, WritesTypes
    <2>3. ImportTracks(r)' /\ ImportReported'
        BY <1>1, <1>2, <2>1, <2>2 DEF ImportTracks, Acceptable, WritesInv, ImportReported
    <2> QED
        BY <1>1, <1>2, <1>3, <2>1, <2>3, OpStep DEF WritesInv, WritesTypes, WritesTypeOK
<1>4. ASSUME NEW step \in {"install", "readback"}, WriteRows(r, op[r].docs), seeded' = TRUE,
             op' = Touch(r, [op[r] EXCEPT !.committed = TRUE, !.held = TRUE, !.foreign = FALSE, !.step = step])
      PROVE  WritesInv'
    <2> DEFINE o == [op[r] EXCEPT !.committed = TRUE, !.held = TRUE, !.foreign = FALSE, !.step = step]
    <2>1. o \in Ops /\ o.kind = "import" /\ o.step = step /\ o.docs = op[r].docs /\ o.held
        BY <1>1 DEF Ops
    <2>2. op' = Touch(r, o)
        BY <1>4
    <2> HIDE DEF o
    <2>3. op'[r] = o
        BY <2>2 DEF Touch
    <2>4. /\ rows' = op[r].docs /\ rows' \in PolicySets /\ removed' \subseteq Docs /\ rows' \cap removed' = {}
        BY <1>1, <1>4 DEF WriteRows, WritesInv, WritesTypes, WritesTypeOK, PolicySets
    <2>5. ImportTracks(r)'
        BY <1>1, <2>1, <2>3, <2>4 DEF ImportTracks, Acceptable
    <2> QED
        BY <1>2, <1>4, <2>1, <2>2, <2>4, <2>5, WriteStep
<1>5. \/ Goto(r, "readback") /\ UNCHANGED <<rows, seeded, removed>>
      \/ \E step \in {"install", "readback"} :
           /\ WriteRows(r, op[r].docs) /\ seeded' = TRUE
           /\ op' = Touch(r, [op[r] EXCEPT !.committed = TRUE, !.held = TRUE, !.foreign = FALSE, !.step = step])
    BY Zenon DEF ReplaceAll
<1> QED
    BY <1>3, <1>4, <1>5

\* An import ends: success only with the bundle held, failure of a committed
\* one only when excused.
LEMMA ReportStep ==
    ASSUME WritesInv, NEW r \in Replicas, NEW result \in {"ok", "error"}, NEW allowed \in BOOLEAN,
           ReportImport(r, result, allowed), op[r].kind = "import",
           UNCHANGED <<rows, seeded, removed, attached, preview>>, wire' \in [Replicas -> PolicySets],
           result = "ok" => op[r].held \/ rows = op[r].docs,
           result = "error" /\ op[r].committed => allowed
    PROVE  WritesInv'
<1> DEFINE held == op[r].held \/ rows = op[r].docs
           report == [result |-> result, committed |-> op[r].committed, held |-> held, excused |-> allowed]
<1>1. EndOp(r) /\ last' = [last EXCEPT ![r] = report]
    BY DEF ReportImport
<1>2. op[r].committed \in BOOLEAN /\ held \in BOOLEAN
    BY DEF WritesInv, WritesTypes, Ops
<1>3. (result = "ok" => held)
    OBVIOUS
<1> HIDE DEF held
<1>4. /\ report \in Reports /\ (report.result = "ok" => report.held)
      /\ report.result = "error" /\ report.committed => report.excused
    BY <1>2, <1>3 DEF Reports
<1> HIDE DEF report
<1>5. last' \in [Replicas -> Reports] /\ ImportReported'
    BY <1>1, <1>4 DEF WritesInv, WritesTypes, ImportReported
<1>6. seeded
    BY SeededBefore
<1> QED
    BY <1>1, <1>5, <1>6, EndStep DEF WritesInv, WritesTypes, WritesTypeOK

LEMMA FinishStep ==
    ASSUME WritesInv, NEW r \in Replicas, InstallImport(r) \/ ReadBack(r)
    PROVE  WritesInv'
<1>1. op[r] \in Ops /\ op[r].docs \in PolicySets /\ op[r].foreign \in BOOLEAN /\ ImportTracks(r)
    BY DEF WritesInv, WritesTypes, Ops
<1>2. CASE InstallImport(r)
    <2>1. op[r].held /\ wire' \in [Replicas -> PolicySets]
        BY <1>1, <1>2 DEF InstallImport, ImportTracks, WritesInv, WritesTypes, WritesTypeOK
    <2> QED
        BY <1>2, <2>1, ReportStep DEF InstallImport
<1>3. CASE ReadBack(r)
    <2>1. op[r].kind = "import" /\ op[r].step = "readback" /\ UNCHANGED <<rows, seeded, removed, attached, preview>>
        BY <1>3 DEF ReadBack
    <2>2. CASE UNCHANGED wire /\ ReportImport(r, "error", TRUE)
        BY <2>1, <2>2, ReportStep DEF WritesInv, WritesTypes, WritesTypeOK
    <2>3. CASE wire' = Reloaded(r) /\ ReportImport(r, IF ReadBackCommitted(r) THEN "ok" ELSE "error", op[r].foreign)
        <3>1. ~ReadBackCommitted(r) /\ op[r].committed => op[r].foreign
            BY <1>1, <2>1 DEF ReadBackCommitted, ImportTracks
        <3>2. ReadBackCommitted(r) => rows = op[r].docs
            BY DEF ReadBackCommitted
        <3>3. wire' \in [Replicas -> PolicySets]
            BY <2>3, ReloadedIsASet
        <3>4. CASE ReadBackCommitted(r)
            BY <1>1, <2>1, <2>3, <3>2, <3>3, <3>4, ReportStep
        <3>5. CASE ~ReadBackCommitted(r)
            BY <1>1, <2>1, <2>3, <3>1, <3>3, <3>5, ReportStep
        <3> QED
            BY <3>4, <3>5
    <2> QED
        BY <1>3, <2>2, <2>3 DEF ReadBack
<1> QED
    BY <1>2, <1>3

LEMMA WritesStep == WritesInv /\ [WritesNext]_writeVars => WritesInv'
<1> SUFFICES ASSUME WritesInv, [WritesNext]_writeVars PROVE WritesInv'
    OBVIOUS
<1>1. CASE WritesNext
    <2>1. PICK r \in Replicas :
            \/ RestartReplica(r) \/ AttachCheck(r) \/ SeedStore(r) \/ AttachReload(r)
            \/ \E d \in Docs : BeginPut(r, d) \/ BeginDelete(r, d)
            \/ StoreWrite(r) \/ WriteReload(r)
            \/ DryRun(r)
            \/ \E docs \in PolicySets : BeginImport(r, docs)
            \/ Reconcile(r) \/ ReconcileFails(r) \/ ReplaceAll(r) \/ InstallImport(r) \/ ReadBack(r)
        BY <1>1 DEF WritesNext
    <2> QED
        BY <2>1, RestartStep, AttachStep, SeedStoreStep, ReloadStep, BeginWriteStep, StoreWriteStep, DryRunStep,
           BeginImportStep, ReconcileStep, ReplaceStep, FinishStep
<1>2. CASE UNCHANGED writeVars
    BY <1>2 DEF writeVars, WritesInv, WritesTypes, WritesTypeOK, SeedComesFirst, DeletedStaysDeleted,
                ImportReported, ImportTracks, Acceptable
<1> QED
    BY <1>1, <1>2

\* Whatever replicas seed, put, delete and import against one database, with
\* acknowledgements lost and replicas restarted: no deletion is undone by a
\* seed, no import destroys rows its operator was not shown, and what an
\* import reports is what happened (policystore Seed and Replace,
\* controlplane import.go).
THEOREM PoliciesStayAsWritten == WritesSpec => []StoredAsWritten
<1>1. WritesInv => StoredAsWritten
    BY DEF WritesInv, WritesTypes, StoredAsWritten, ImportTracks, ImportSeesTheStore
<1> QED
    BY <1>1, WritesInitInv, WritesStep, PTL DEF WritesSpec


-----------------------------------------------------------------------------
(* Distribution to a data plane *)

\* An optional bundle.
Optional == {None} \cup {Some(b) : b \in Bundles}
SyncCalls == [step : {"idle", "sent", "answered", "install", "finish"}, asked : Optional,
              gen : Bundles, policies : Optional]

SyncTypes ==
    /\ deployment \in {"legacy", "identity", "authority"}
    /\ published \in [Servers -> Bundles]
    /\ generation \in Optional /\ accepted \in Bundles /\ offered \in Optional
    /\ rejected \in [PolicyNames -> SUBSET Governed]
    /\ journal \in Optional
    /\ identityInvalid \in BOOLEAN /\ authorityInvalid \in BOOLEAN /\ synced \in BOOLEAN
    /\ call \in SyncCalls

\* The visible policies are the claimed generation, whole; under an authority
\* the journal's constraints come from it too.
InForce ==
    /\ offered = generation /\ generation = Some(accepted)
    /\ deployment = "authority" => journal = generation

\* What the sync call in progress carries is the set it names.
CallCarries ==
    call.step \in {"answered", "install", "finish"} =>
        /\ call.policies \in {None, Some(call.gen)}
        /\ deployment = "authority" => call.policies = Some(call.gen)

\* Under an authority the gate is shut from the journal's write to the end of
\* the call; under a required identity an answer without documents is taken only
\* while the gate is open.
CallGuards ==
    /\ deployment = "authority" /\ call.step \in {"install", "finish"} =>
        authorityInvalid /\ journal = Some(call.gen)
    /\ deployment = "identity" /\ call.step = "install" /\ call.policies = None =>
        ~identityInvalid /\ generation = Some(call.gen)
    /\ deployment # "legacy" /\ call.step = "finish" => InForce

\* A gate that has been opened stands before a set in force.
OpenInForce ==
    /\ deployment = "authority" /\ ~authorityInvalid /\ synced => InForce
    /\ deployment = "identity" /\ ~identityInvalid /\ (synced \/ generation # None) => InForce

SyncInv == SyncTypes /\ CallCarries /\ CallGuards /\ OpenInForce /\ StrictOrClosed

LEMMA OptionalFacts ==
    /\ None \in Optional
    /\ \A b \in Bundles : Some(b) \in Optional /\ Some(b) # None
    /\ \A b, c : Some(b) = Some(c) => b = c
    /\ {} \in Bundles
BY DEF Optional, None, Some, Bundles

LEMMA SyncStarts == SyncInit => SyncInv
<1> SUFFICES ASSUME SyncInit PROVE SyncInv
  OBVIOUS
<1>1. call = NoCall /\ call \in SyncCalls /\ call.step = "idle"
  BY OptionalFacts DEF SyncInit, NoCall, SyncCalls
<1>2. SyncTypes
  BY <1>1, OptionalFacts, PolicySyncAssumption DEF SyncInit, SyncTypes
<1>3. CallCarries /\ CallGuards /\ OpenInForce
  BY <1>1 DEF SyncInit, CallCarries, CallGuards, OpenInForce
<1>4. StrictOrClosed
  BY DEF SyncInit, StrictOrClosed, None
<1> QED
  BY <1>2, <1>3, <1>4 DEF SyncInv

\* The control plane and an answer under way leave the data plane alone.
LEMMA StrictKept ==
  ASSUME StrictOrClosed, UNCHANGED <<accepted, offered, rejected>>
  PROVE  StrictOrClosed'
BY DEF StrictOrClosed, FailsClosed

LEMMA NoCallFacts ==
  /\ NoCall \in SyncCalls /\ NoCall.step = "idle" /\ NoCall.policies = None
BY OptionalFacts DEF NoCall, SyncCalls

LEMMA SyncOtherSteps ==
  ASSUME SyncInv,
         \/ \E s \in Servers : Serve(s) \/ \E b \in Bundles : Publish(s, b)
         \/ SendSync \/ NoAnswer \/ Refused \/ Incomplete
         \/ ApplyAuthority \/ SkipAuthority \/ Unchanged \/ FinishSync
  PROVE  SyncInv' /\ UNCHANGED <<accepted, offered, rejected>>
<1> USE DEF SyncInv
<1>1. ASSUME NEW s \in Servers, NEW b \in Bundles, Publish(s, b)
      PROVE  SyncInv' /\ UNCHANGED <<accepted, offered, rejected>>
  <2>1. UNCHANGED <<deployment, generation, accepted, offered, rejected, journal, identityInvalid,
                    authorityInvalid, synced, call>>
    BY <1>1 DEF Publish, dataVars
  <2>2. published' \in [Servers -> Bundles]
    BY <1>1 DEF Publish, SyncTypes
  <2>3. SyncTypes' /\ CallCarries' /\ CallGuards' /\ OpenInForce'
    BY <2>1, <2>2 DEF SyncTypes, CallCarries, CallGuards, OpenInForce, InForce
  <2> QED
    BY <2>1, <2>3, StrictKept
<1>2. ASSUME NEW s \in Servers, Serve(s)
      PROVE  SyncInv' /\ UNCHANGED <<accepted, offered, rejected>>
  <2>1. UNCHANGED <<deployment, published, generation, accepted, offered, rejected, journal, identityInvalid,
                    authorityInvalid, synced>>
    BY <1>2 DEF Serve, dataVars
  <2> DEFINE p == SentPolicies(published[s], call.asked)
             b == published[s]
  <2>2. b \in Bundles /\ p \in {None, Some(b)} /\ (deployment = "authority" => p = Some(b))
    BY DEF SyncTypes, SentPolicies
  <2>3. call' = [call EXCEPT !.step = "answered", !.gen = b, !.policies = p]
    BY <1>2 DEF Serve
  <2> HIDE DEF p, b
  <2>4. p \in Optional
    BY <2>2, OptionalFacts
  <2>5. call' \in SyncCalls /\ call'.step = "answered" /\ call'.gen = b /\ call'.policies = p
    BY <2>2, <2>3, <2>4 DEF SyncCalls, SyncTypes
  <2>6. SyncTypes' /\ CallCarries' /\ CallGuards' /\ OpenInForce'
    BY <2>1, <2>2, <2>5 DEF SyncTypes, CallCarries, CallGuards, OpenInForce, InForce
  <2> QED
    BY <2>1, <2>6, StrictKept
<1>3. ASSUME SendSync PROVE SyncInv' /\ UNCHANGED <<accepted, offered, rejected>>
  <2>1. UNCHANGED <<deployment, published, generation, accepted, offered, rejected, journal, identityInvalid,
                    authorityInvalid, synced>>
    BY <1>3 DEF SendSync, dataVars
  <2> DEFINE a == IF deployment = "identity" /\ identityInvalid THEN None ELSE generation
  <2>2. a \in Optional
    BY OptionalFacts DEF SyncTypes
  <2>3. call' = [NoCall EXCEPT !.step = "sent", !.asked = a]
    BY <1>3 DEF SendSync
  <2> HIDE DEF a
  <2>4. call' \in SyncCalls /\ call'.step = "sent"
    BY <2>2, <2>3, NoCallFacts DEF SyncCalls
  <2>5. SyncTypes' /\ CallCarries' /\ CallGuards' /\ OpenInForce'
    BY <2>1, <2>4 DEF SyncTypes, CallCarries, CallGuards, OpenInForce, InForce
  <2> QED
    BY <2>1, <2>5, StrictKept
<1>4. ASSUME NoAnswer \/ Refused \/ Incomplete
      PROVE SyncInv' /\ UNCHANGED <<accepted, offered, rejected>>
  <2>1. UNCHANGED <<deployment, published, generation, accepted, offered, rejected, journal, synced>>
    BY <1>4 DEF NoAnswer, Refused, Incomplete, dataVars
  <2>2. call' = NoCall
    BY <1>4 DEF NoAnswer, Refused, Incomplete
  <2>3. /\ identityInvalid' \in BOOLEAN /\ authorityInvalid' \in BOOLEAN
        /\ identityInvalid => identityInvalid'
        /\ authorityInvalid => authorityInvalid'
    BY <1>4 DEF NoAnswer, Refused, Incomplete, dataVars, SyncTypes
  <2>4. SyncTypes' /\ CallCarries' /\ CallGuards' /\ OpenInForce'
    BY <2>1, <2>2, <2>3, NoCallFacts DEF SyncTypes, CallCarries, CallGuards, OpenInForce, InForce
  <2> QED
    BY <2>1, <2>4, StrictKept
<1>5. ASSUME ApplyAuthority PROVE SyncInv' /\ UNCHANGED <<accepted, offered, rejected>>
  <2>1. /\ UNCHANGED <<deployment, published, generation, accepted, offered, rejected, identityInvalid, synced>>
        /\ deployment = "authority" /\ authorityInvalid' = TRUE /\ call.step = "answered"
    BY <1>5 DEF ApplyAuthority
  <2>2. CASE journal' = Some(call.gen) /\ call' = [call EXCEPT !.step = "install"]
    <3>1. /\ call' \in SyncCalls /\ call'.step = "install" /\ call'.gen = call.gen
          /\ call'.policies = call.policies /\ journal' \in Optional
      BY <2>2, OptionalFacts DEF SyncCalls, SyncTypes
    <3>2. SyncTypes' /\ CallCarries' /\ CallGuards' /\ OpenInForce'
      BY <2>1, <2>2, <3>1 DEF SyncTypes, CallCarries, CallGuards, OpenInForce
    <3> QED
      BY <2>1, <3>2, StrictKept
  <2>3. CASE UNCHANGED journal /\ call' = NoCall
    <3>1. SyncTypes' /\ CallCarries' /\ CallGuards' /\ OpenInForce'
      BY <2>1, <2>3, NoCallFacts DEF SyncTypes, CallCarries, CallGuards, OpenInForce
    <3> QED
      BY <2>1, <3>1, StrictKept
  <2> QED
    BY <1>5, <2>2, <2>3 DEF ApplyAuthority
<1>6. ASSUME SkipAuthority PROVE SyncInv' /\ UNCHANGED <<accepted, offered, rejected>>
  <2>1. /\ UNCHANGED <<deployment, published, generation, accepted, offered, rejected, journal, identityInvalid,
                       authorityInvalid, synced>>
        /\ call.step = "answered" /\ deployment # "authority" /\ Complete
        /\ call' = [call EXCEPT !.step = "install"]
    BY <1>6 DEF SkipAuthority, dataVars
  <2>2. call' \in SyncCalls /\ call'.step = "install" /\ call'.gen = call.gen /\ call'.policies = call.policies
    BY <2>1 DEF SyncCalls, SyncTypes
  <2>3. SyncTypes' /\ CallCarries' /\ CallGuards' /\ OpenInForce'
    BY <2>1, <2>2 DEF SyncTypes, CallCarries, CallGuards, OpenInForce, InForce, Complete
  <2> QED
    BY <2>1, <2>3, StrictKept
<1>7. ASSUME Unchanged PROVE SyncInv' /\ UNCHANGED <<accepted, offered, rejected>>
  <2>1. /\ UNCHANGED <<deployment, published, generation, accepted, offered, rejected, journal, identityInvalid,
                       authorityInvalid, synced>>
        /\ call.step = "install" /\ call.policies = None
        /\ call' = [call EXCEPT !.step = "finish"]
    BY <1>7 DEF Unchanged, dataVars
  <2>2. call' \in SyncCalls /\ call'.step = "finish" /\ call'.gen = call.gen /\ call'.policies = call.policies
    BY <2>1 DEF SyncCalls, SyncTypes
  <2>3. call.gen \in Bundles /\ Some(call.gen) # None /\ deployment # "authority"
    BY <2>1, OptionalFacts DEF SyncTypes, SyncCalls, CallCarries
  <2>4. SyncTypes' /\ CallCarries' /\ CallGuards' /\ OpenInForce'
    BY <2>1, <2>2, <2>3 DEF SyncTypes, CallCarries, CallGuards, OpenInForce, InForce
  <2> QED
    BY <2>1, <2>4, StrictKept
<1>8. ASSUME FinishSync PROVE SyncInv' /\ UNCHANGED <<accepted, offered, rejected>>
  <2>1. /\ UNCHANGED <<deployment, published, generation, accepted, offered, rejected, journal>>
        /\ call.step = "finish" /\ call' = NoCall /\ synced' = TRUE
        /\ identityInvalid' = FALSE /\ authorityInvalid' = FALSE
    BY <1>8 DEF FinishSync
  <2>2. SyncTypes' /\ CallCarries' /\ CallGuards' /\ OpenInForce'
    BY <2>1, NoCallFacts DEF SyncTypes, CallCarries, CallGuards, OpenInForce, InForce
  <2> QED
    BY <2>1, <2>2, StrictKept
<1> QED
  BY <1>1, <1>2, <1>3, <1>4, <1>5, <1>6, <1>7, <1>8

-----------------------------------------------------------------------------
(* A set is installed. *)

\* A document left out of the set leaves its pending subjects behind: its own,
\* those refused before under its name, and that of the version in force.
LEMMA PendingRemembers ==
  ASSUME SyncTypes, NEW docs \in Bundles, NEW d \in docs, d.kind \in Unenforceable
  PROVE  /\ Pending(docs)[d.name] = Remember(d.name, d)
         /\ rejected[d.name] \subseteq Pending(docs)[d.name]
         /\ d.kind \in Strict => Governs[d.kind] \in Pending(docs)[d.name]
         /\ \A p \in accepted : p.name = d.name /\ p.kind \in Strict => Governs[p.kind] \in Pending(docs)[d.name]
<1>1. d \in Policies /\ d.name \in PolicyNames
  BY DEF Bundles, Policies
<1> DEFINE n == d.name
           ofN == {x \in docs : x.name = n}
<1>2. ofN = {d}
  BY DEF Bundles
<1>3. ~(ofN \subseteq Enforceable(docs))
  BY <1>2 DEF Enforceable
<1>4. (CHOOSE x \in ofN : TRUE) = d
  BY <1>2
<1>5. Pending(docs)[n] = Remember(n, d)
  BY <1>1, <1>2, <1>3, <1>4 DEF Pending
<1> QED
  BY <1>5 DEF Remember

LEMMA PendingTyped ==
  ASSUME SyncTypes, NEW docs \in Bundles
  PROVE  Pending(docs) \in [PolicyNames -> SUBSET Governed] /\ Enforceable(docs) \in Bundles
<1>1. Enforceable(docs) \in Bundles
  BY DEF Enforceable, Bundles
<1>2. ASSUME NEW n \in PolicyNames, NEW d \in docs PROVE Remember(n, d) \subseteq Governed
  <2>1. rejected[n] \subseteq Governed
    BY DEF SyncTypes
  <2>2. \A x \in docs \cup accepted : x.kind \in Kinds
    BY DEF Bundles, Policies, SyncTypes
  <2>3. {Governs[k] : k \in {d.kind} \cap Strict} \subseteq Governed
    BY <2>2 DEF Governed
  <2>4. {Governs[p.kind] : p \in {q \in accepted : q.name = n /\ q.kind \in Strict}} \subseteq Governed
    BY <2>2 DEF Governed
  <2> QED
    BY <2>1, <2>3, <2>4 DEF Remember
<1>3. ASSUME NEW n \in PolicyNames PROVE Pending(docs)[n] \subseteq Governed
  <2> DEFINE ofN == {d \in docs : d.name = n}
  <2>1. ofN # {} => (CHOOSE d \in ofN : TRUE) \in docs
    OBVIOUS
  <2>2. Pending(docs)[n] = IF ofN = {} THEN rejected[n]
                           ELSE IF ofN \subseteq Enforceable(docs) THEN {} ELSE Remember(n, CHOOSE d \in ofN : TRUE)
    BY DEF Pending
  <2>3. rejected[n] \subseteq Governed
    BY DEF SyncTypes
  <2> HIDE DEF ofN
  <2> QED
    BY <1>2, <2>1, <2>2, <2>3
<1>4. \E f : Pending(docs) = [n \in PolicyNames |-> f[n]]
  <2> DEFINE f == Pending(docs)
  <2>1. f = [n \in PolicyNames |-> f[n]]
    BY DEF Pending
  <2> QED
    BY <2>1
<1> QED
  BY <1>1, <1>3, <1>4

LEMMA InstallStep ==
  ASSUME SyncInv, InstallBundle
  PROVE  SyncInv' /\ NoSilentRelease
<1> DEFINE docs == CHOOSE d \in call.policies : TRUE
           refused == Enforceable(docs) # docs
<1>1. call.step = "install" /\ call.policies = Some(call.gen) /\ call.gen \in Bundles
  BY DEF SyncInv, SyncTypes, SyncCalls, CallCarries, InstallBundle
<1>2. docs = call.gen /\ docs \in Bundles
  BY <1>1 DEF Some
<1>3. /\ IF Installs(docs)
         THEN accepted' = Enforceable(docs) /\ offered' = Some(docs) /\ rejected' = Pending(docs)
         ELSE UNCHANGED <<accepted, offered, rejected>>
      /\ identityInvalid' = (identityInvalid \/ deployment = "identity")
      /\ IF refused /\ deployment # "legacy"
         THEN call' = NoCall /\ UNCHANGED generation
         ELSE generation' = Some(call.gen) /\ call' = [call EXCEPT !.step = "finish"]
      /\ UNCHANGED <<deployment, published, publications, journal, authorityInvalid, synced>>
  BY DEF InstallBundle
<1> HIDE DEF docs
<1>4. Pending(docs) \in [PolicyNames -> SUBSET Governed] /\ Enforceable(docs) \in Bundles
  BY <1>2, PendingTyped DEF SyncInv
<1>5. /\ NoCall \in SyncCalls /\ NoCall.step = "idle"
      /\ [call EXCEPT !.step = "finish"] \in SyncCalls /\ [call EXCEPT !.step = "finish"].step = "finish"
      /\ [call EXCEPT !.step = "finish"].policies = call.policies /\ [call EXCEPT !.step = "finish"].gen = call.gen
  BY NoCallFacts DEF SyncInv, SyncTypes, SyncCalls
<1>6. SyncTypes'
  BY <1>1, <1>2, <1>3, <1>4, <1>5, OptionalFacts DEF SyncInv, SyncTypes
<1>7. CallCarries'
  BY <1>1, <1>3, <1>5 DEF CallCarries
<1>8. deployment = "authority" => authorityInvalid /\ journal = Some(call.gen)
  BY <1>1 DEF SyncInv, CallGuards
<1>9. CallGuards'
  BY <1>1, <1>2, <1>3, <1>5, <1>8 DEF CallGuards, InForce, Installs
<1>10. OpenInForce'
  BY <1>3, <1>8 DEF OpenInForce
<1>11. StrictOrClosed'
  <2>1. CASE Installs(docs)
    <3> SUFFICES ASSUME NEW d \in docs, d.kind \in Strict, d \notin Enforceable(docs)
                 PROVE  \E n \in PolicyNames : Governs[d.kind] \in Pending(docs)[n]
      BY <1>3, <2>1 DEF StrictOrClosed, FailsClosed, Some
    <3>1. d.kind \in Unenforceable /\ d.name \in PolicyNames
      BY <1>2 DEF Enforceable, Bundles, Policies
    <3> QED
      BY <1>2, <3>1, PendingRemembers DEF SyncInv
  <2>2. CASE ~Installs(docs)
    BY <1>3, <2>2, StrictKept DEF SyncInv
  <2> QED
    BY <2>1, <2>2
<1>12. NoSilentRelease
  <2> SUFFICES ASSUME NEW n \in PolicyNames, NEW set \in offered', offered' # offered,
                      NEW d \in set, d.name = n, d.kind \in Unenforceable
               PROVE  /\ \A subject \in rejected[n] : FailsClosed(subject)'
                      /\ \A p \in accepted : p.name = n /\ p.kind \in Strict => FailsClosed(Governs[p.kind])'
    BY DEF NoSilentRelease
  <2>1. set = docs /\ rejected' = Pending(docs)
    BY <1>3 DEF Some
  <2>2. /\ \A subject \in rejected[n] : subject \in rejected'[n]
        /\ \A p \in accepted : p.name = n /\ p.kind \in Strict => Governs[p.kind] \in rejected'[n]
    BY <1>2, <2>1, PendingRemembers DEF SyncInv
  <2> QED
    BY <2>2 DEF FailsClosed
<1> QED
  BY <1>6, <1>7, <1>9, <1>10, <1>11, <1>12 DEF SyncInv

LEMMA SyncStep ==
  ASSUME SyncInv, [SyncNext]_syncVars
  PROVE  SyncInv' /\ [NoSilentRelease]_syncVars
<1>1. CASE InstallBundle
  BY <1>1, InstallStep
<1>2. CASE UNCHANGED syncVars
  BY <1>2 DEF syncVars, SyncInv, SyncTypes, CallCarries, CallGuards, OpenInForce, InForce, StrictOrClosed, FailsClosed
<1>3. ASSUME SyncInv', UNCHANGED <<accepted, offered, rejected>> PROVE SyncInv' /\ [NoSilentRelease]_syncVars
  BY <1>3 DEF NoSilentRelease
<1> QED
  BY <1>1, <1>2, <1>3, SyncOtherSteps DEF SyncNext

LEMMA SyncInvHolds == SyncInv => SyncTypeOK /\ ReadyInForce /\ StrictOrClosed
<1> SUFFICES ASSUME SyncInv PROVE SyncTypeOK /\ ReadyInForce
  BY DEF SyncInv
<1>1. generation \in SUBSET Bundles /\ Cardinality(generation) <= 1
  <2>1. CASE generation = None
    BY <2>1, FS_EmptySet DEF None
  <2>2. CASE generation # None
    <3>1. PICK b \in Bundles : generation = {b}
      BY <2>2 DEF SyncInv, SyncTypes, Optional, Some
    <3>2. Cardinality({b}) = 1
      BY FS_Singleton
    <3> QED
      BY <3>1, <3>2
  <2> QED
    BY <2>1, <2>2
<1>2. SyncTypeOK
  BY <1>1 DEF SyncTypeOK, SyncInv, SyncTypes, SyncCalls
<1>3. ReadyInForce
  BY DEF ReadyInForce, GovernanceReady, SyncInv, OpenInForce, InForce
<1> QED
  BY <1>2, <1>3

(* Policies are enforced or their subjects are refused: a data plane that  *)
(* is ready enforces one complete set, no mandatory document is left out   *)
(* silently and no rejected update releases anybody, for any replicas that *)
(* serve any sets, any kinds of policy and any deployment (sync.go         *)
(* syncOnce, store.go ApplyWire).                                          *)
THEOREM PoliciesStayInForce == SyncSpec => PoliciesEnforced
<1>1. SyncInv /\ [SyncNext]_syncVars =>
        SyncInv' /\ [SyncTypeOK' /\ ReadyInForce' /\ StrictOrClosed' /\ NoSilentRelease]_syncVars
  <2> SUFFICES ASSUME SyncInv, [SyncNext]_syncVars
               PROVE  SyncInv' /\ [SyncTypeOK' /\ ReadyInForce' /\ StrictOrClosed' /\ NoSilentRelease]_syncVars
    OBVIOUS
  <2>1. SyncInv' /\ [NoSilentRelease]_syncVars
    BY SyncStep
  <2>2. (SyncTypeOK /\ ReadyInForce /\ StrictOrClosed)'
    BY <2>1, SyncInvHolds, PTL
  <2> QED
    BY <2>1, <2>2
<1> QED
  BY <1>1, SyncStarts, PTL DEF SyncSpec, PoliciesEnforced

-----------------------------------------------------------------------------
(* The leases *)

\* What a data plane may have spent at most, as the ledger sees it: its last
\* report, or the allowance while it may still be spent.
Bound(sp, al, seen, d) == sp[d] + Unspent(sp, al, seen, d)
Bounds == [d \in Dataplanes |-> Bound(spent, allowance, lastSeen, d)]

Optionals(S) == {{}} \cup {{x} : x \in S}

LeaseTypes ==
    /\ ticks \in Nat /\ limit \in Nat /\ peak \in Nat /\ limit <= peak
    /\ spent \in [Dataplanes -> Nat] /\ allowance \in [Dataplanes -> Nat]
    /\ used \in [Dataplanes -> Nat] /\ total \in [Dataplanes -> Nat]
    /\ lastSeen \in [Dataplanes -> Optionals(Nat)]
    /\ lease \in [Dataplanes -> Optionals([allow : Nat, until : Nat])]
    /\ heartbeat \in [Dataplanes -> SUBSET Nat]
    /\ tiers \in Nat /\ latch \in Nat /\ excused \in BOOLEAN
    /\ \A d \in Dataplanes : used[d] <= total[d] /\ \A t \in lastSeen[d] : t <= ticks

\* A report on its way says no more than its sender has counted.
ReportsTrail == \A d \in Dataplanes : \A r \in heartbeat[d] : r <= used[d]

\* A lease runs out before the ledger stops counting its allowance.
LeasesSeen ==
    \A d \in Dataplanes : \A l \in lease[d] :
        ticks > l.until \/ \E t \in lastSeen[d] : l.until <= t + 3 * Renew

\* While the ledger has not lost sight of money: no data plane spent more than
\* its lease, no running lease is larger than the ledger's allowance, every
\* data plane is within its bound, and the bounds together within the peak.
InSight(d) ==
    /\ total[d] = used[d]
    /\ used[d] = 0 \/ \E l \in lease[d] : used[d] <= l.allow
    /\ \A l \in lease[d] : ticks > l.until \/ l.allow <= allowance[d]
    /\ total[d] <= Bounds[d]
NothingHidden == ~excused => (\A d \in Dataplanes : InSight(d)) /\ Total(Bounds) <= peak

LeasesInv == LeaseTypes /\ ReportsTrail /\ LeasesSeen /\ NothingHidden

LEMMA SeenBefore ==
    ASSUME LeaseTypes, NEW d \in Dataplanes, NEW t \in lastSeen[d]
    PROVE  t \in Nat /\ t <= ticks
<1>1. lastSeen[d] \in Optionals(Nat) /\ t <= ticks
    BY DEF LeaseTypes
<1> QED
    BY <1>1 DEF Optionals

\* A bound is a number.
LEMMA BoundIsNat ==
    ASSUME NEW sp \in [Dataplanes -> Nat], NEW al \in [Dataplanes -> Nat], NEW seen, NEW d \in Dataplanes
    PROVE  /\ Unspent(sp, al, seen, d) \in Nat /\ Bound(sp, al, seen, d) \in Nat
           /\ sp[d] <= Bound(sp, al, seen, d)
           /\ Fresh(seen[d], ticks) => al[d] <= Bound(sp, al, seen, d)
           /\ ~Fresh(seen[d], ticks) => Bound(sp, al, seen, d) = sp[d]
    BY DEF Unspent, Bound

LEMMA LeasesStart == LeasesInit => LeasesInv
<1> SUFFICES ASSUME LeasesInit PROVE LeasesInv
    OBVIOUS
<1>1. LeaseTypes
    <2>1. limit \in Nat /\ peak = limit /\ tiers \in Nat /\ ticks = 0 /\ latch = 0 /\ excused = FALSE
        BY BudgetLeasesAssumption DEF LeasesInit
    <2>2. {} \in Optionals([allow : Nat, until : Nat]) /\ {} \in Optionals(Nat)
        BY DEF Optionals
    <2>3. lease \in [Dataplanes -> Optionals([allow : Nat, until : Nat])] /\ lastSeen \in [Dataplanes -> Optionals(Nat)]
        BY <2>2 DEF LeasesInit
    <2>4. /\ spent \in [Dataplanes -> Nat] /\ allowance \in [Dataplanes -> Nat]
          /\ used \in [Dataplanes -> Nat] /\ total \in [Dataplanes -> Nat]
          /\ heartbeat \in [Dataplanes -> SUBSET Nat]
          /\ \A d \in Dataplanes : used[d] = total[d] /\ used[d] \in Nat /\ lastSeen[d] = {}
        BY DEF LeasesInit
    <2>5. excused \in BOOLEAN
        BY DEF LeasesInit
    <2>6. limit <= peak /\ \A d \in Dataplanes : used[d] <= total[d] /\ \A t \in lastSeen[d] : t <= ticks
        BY <2>1, <2>4
    <2> QED
        BY <2>1, <2>3, <2>4, <2>5, <2>6 DEF LeaseTypes
<1>2. ReportsTrail /\ LeasesSeen
    BY DEF LeasesInit, ReportsTrail, LeasesSeen
<1>3. \A d \in Dataplanes : Bounds[d] = 0
    BY DEF LeasesInit, Bounds, Bound, Unspent, Fresh
<1>4. Bounds \in [Dataplanes -> Nat]
    BY <1>3 DEF Bounds
<1>5. Total(Bounds) = 0
    BY <1>3, <1>4, TotalOfZero
<1>6. \A d \in Dataplanes : InSight(d)
    BY <1>3 DEF LeasesInit, InSight
<1> QED
    BY <1>1, <1>2, <1>5, <1>6 DEF LeasesInv, NothingHidden, LeaseTypes

-----------------------------------------------------------------------------
(* The steps of the data planes, of time and of the operator. *)

LEMMA ReportKeeps ==
    ASSUME LeasesInv, NEW d \in Dataplanes, ReportSpend(d)
    PROVE  LeasesInv'
<1>1. LeaseTypes' /\ ReportsTrail'
    BY DEF LeasesInv, ReportSpend, LeaseTypes, ReportsTrail
<1>2. Bounds' = Bounds
    BY DEF ReportSpend, Bounds, Bound, Unspent, Fresh
<1> QED
    BY <1>1, <1>2 DEF LeasesInv, ReportSpend, LeasesSeen, NothingHidden, InSight

LEMMA SpendKeeps ==
    ASSUME LeasesInv, NEW d \in Dataplanes, Spend(d)
    PROVE  LeasesInv'
<1>1. LeaseTypes' /\ ReportsTrail'
    BY DEF LeasesInv, Spend, LeaseTypes, ReportsTrail
<1>2. Bounds' = Bounds
    BY DEF Spend, Bounds, Bound, Unspent, Fresh
<1>3. LeasesSeen'
    BY DEF LeasesInv, Spend, LeasesSeen
<1>4. ASSUME ~excused', NEW e \in Dataplanes PROVE InSight(e)'
    <2>1. ~excused /\ InSight(e)
        BY <1>4 DEF Spend, LeasesInv, NothingHidden
    <2>2. CASE e # d
        BY <1>2, <2>1, <2>2 DEF LeasesInv, LeaseTypes, Spend, InSight
    <2>3. CASE e = d
        <3>1. PICK l \in lease[d] : used[d] < l.allow
            BY DEF Spend
        <3>2. lease[d] = {l} /\ l.allow \in Nat /\ l.until \in Nat
            <4>1. lease[d] \in Optionals([allow : Nat, until : Nat])
                BY DEF LeasesInv, LeaseTypes
            <4>2. PICK m \in [allow : Nat, until : Nat] : lease[d] = {m}
                BY <3>1, <4>1 DEF Optionals
            <4> QED
                BY <3>1, <4>2
        <3>3. ~(ticks > l.until)
            BY <3>1 DEF Spend, Blocked
        <3>4. l.allow <= allowance[d]
            BY <2>1, <2>3, <3>1, <3>3 DEF InSight
        <3>5. Fresh(lastSeen[d], ticks)
            <4>1. PICK t \in lastSeen[d] : l.until <= t + 3 * Renew
                BY <3>1, <3>3 DEF LeasesInv, LeasesSeen
            <4>2. t \in Nat /\ t <= ticks /\ ticks \in Nat /\ Renew \in Nat
                BY <4>1, SeenBefore, BudgetLeasesAssumption DEF LeasesInv, LeaseTypes
            <4>3. ticks - t <= 3 * Renew
                BY <3>2, <3>3, <4>1, <4>2
            <4> QED
                BY <4>1, <4>3 DEF Fresh
        <3>6. /\ used[d] \in Nat /\ total[d] \in Nat /\ allowance[d] \in Nat /\ Bounds[d] \in Nat
              /\ allowance[d] <= Bounds[d]
            BY <3>5, BoundIsNat DEF LeasesInv, LeaseTypes, Bounds
        <3>7. used'[d] = used[d] + 1 /\ total'[d] = total[d] + 1
            BY DEF Spend, LeasesInv, LeaseTypes
        <3>8. total[d] = used[d]
            BY <2>1, <2>3 DEF InSight
        <3>9. used'[d] <= l.allow /\ total'[d] <= Bounds[d] /\ total'[d] = used'[d]
            BY <3>1, <3>2, <3>4, <3>6, <3>7, <3>8
        <3>10. UNCHANGED <<ticks, lease, allowance>>
            BY DEF Spend
        <3>11. \A m \in lease[d] : ticks > m.until \/ m.allow <= allowance[d]
            BY <2>1, <2>3 DEF InSight
        <3> QED
            BY <1>2, <2>3, <3>1, <3>9, <3>10, <3>11 DEF InSight
    <2> QED
        BY <2>2, <2>3
<1>5. ~excused' => Total(Bounds') <= peak'
    BY <1>2 DEF Spend, LeasesInv, NothingHidden
<1> QED
    BY <1>1, <1>3, <1>4, <1>5 DEF LeasesInv, NothingHidden

LEMMA RestartKeeps ==
    ASSUME LeasesInv, NEW d \in Dataplanes, RestartDataplane(d)
    PROVE  LeasesInv'
<1>1. LeaseTypes' /\ ReportsTrail' /\ LeasesSeen'
    BY DEF LeasesInv, RestartDataplane, LeaseTypes, ReportsTrail, LeasesSeen, Optionals
<1>2. Bounds' = Bounds
    BY DEF RestartDataplane, Bounds, Bound, Unspent, Fresh
<1>3. ASSUME ~excused', NEW e \in Dataplanes PROVE InSight(e)'
    <2>1. ~excused /\ InSight(e) /\ ~(used[d] > 0)
        BY <1>3 DEF RestartDataplane, LeasesInv, NothingHidden
    <2>2. used[d] = 0
        BY <2>1 DEF LeasesInv, LeaseTypes
    <2> QED
        BY <1>2, <2>1, <2>2 DEF LeasesInv, LeaseTypes, RestartDataplane, InSight
<1>4. ~excused' => Total(Bounds') <= peak'
    BY <1>2 DEF RestartDataplane, LeasesInv, NothingHidden
<1> QED
    BY <1>1, <1>3, <1>4 DEF LeasesInv, NothingHidden

LEMMA EditRuleKeeps ==
    ASSUME LeasesInv, EditRule
    PROVE  LeasesInv'
<1>1. LeaseTypes'
    BY BudgetLeasesAssumption DEF LeasesInv, EditRule, LeaseTypes
<1>2. Bounds' = Bounds
    BY DEF EditRule, Bounds, Bound, Unspent, Fresh
<1>3. ReportsTrail' /\ LeasesSeen'
    BY DEF LeasesInv, EditRule, ReportsTrail, LeasesSeen
<1>4. ~excused' => \A d \in Dataplanes : InSight(d)'
    BY <1>2 DEF LeasesInv, NothingHidden, EditRule, InSight
<1>5. ~excused' => Total(Bounds') <= peak'
    <2>1. Bounds \in [Dataplanes -> Nat] /\ IsFiniteSet(Dataplanes)
        BY BoundIsNat, BudgetLeasesAssumption DEF LeasesInv, LeaseTypes, Bounds
    <2>2. Total(Bounds) \in Nat
        BY <2>1, UnitsFinite
    <2>3. peak \in Nat /\ peak' \in Nat /\ peak <= peak'
        BY <1>1 DEF LeasesInv, LeaseTypes, EditRule
    <2> QED
        BY <1>2, <2>2, <2>3 DEF LeasesInv, NothingHidden, EditRule
<1> QED
    BY <1>1, <1>3, <1>4, <1>5 DEF LeasesInv, NothingHidden

\* Bounds only shrink as time passes, and a bound that does gave its money back.
LEMMA TickShrinks ==
    ASSUME LeasesInv, LeaseTick
    PROVE  LeasesInv'
<1>1. LeaseTypes'
    <2>1. \A d \in Dataplanes : \A t \in lastSeen[d] : t <= ticks + 1
        <3>1. \A d \in Dataplanes : \A t \in lastSeen[d] : t \in Nat /\ t <= ticks
            BY SeenBefore DEF LeasesInv
        <3> QED
            BY <3>1 DEF LeasesInv, LeaseTypes
    <2>2. excused' \in BOOLEAN
        BY DEF LeaseTick
    <2> QED
        BY <2>1, <2>2 DEF LeasesInv, LeaseTick, LeaseTypes
<1>2. ReportsTrail'
    BY DEF LeasesInv, LeaseTick, ReportsTrail
<1>3. LeasesSeen'
    <2>1. \A d \in Dataplanes : \A l \in lease[d] : l.until \in Nat
        BY DEF LeasesInv, LeaseTypes, Optionals
    <2>2. ticks \in Nat /\ ticks' = ticks + 1
        BY DEF LeasesInv, LeaseTypes, LeaseTick
    <2> QED
        BY <2>1, <2>2 DEF LeasesInv, LeasesSeen, LeaseTick
<1>4. \A d \in Dataplanes : Fresh(lastSeen[d], ticks + 1) => Fresh(lastSeen[d], ticks)
    <2>1. \A d \in Dataplanes : \A t \in lastSeen[d] : t \in Nat /\ t <= ticks
        BY SeenBefore DEF LeasesInv
    <2>2. ticks \in Nat /\ Renew \in Nat
        BY BudgetLeasesAssumption DEF LeasesInv, LeaseTypes
    <2>3. \A t \in Nat : (ticks + 1) - t <= 3 * Renew => ticks - t <= 3 * Renew
        BY <2>2
    <2> QED
        BY <2>1, <2>3 DEF Fresh
<1>5. ASSUME NEW d \in Dataplanes
      PROVE  /\ Bounds[d] \in Nat /\ Bounds'[d] \in Nat /\ Bounds'[d] <= Bounds[d]
             /\ Bounds'[d] = Bounds[d] \/ (Bounds'[d] = spent[d] /\ Fresh(lastSeen[d], ticks) /\ ~Fresh(lastSeen[d], ticks + 1))
    <2>1. spent[d] \in Nat /\ allowance[d] \in Nat
        BY DEF LeasesInv, LeaseTypes
    <2>2. ticks' = ticks + 1 /\ UNCHANGED <<spent, allowance, lastSeen>>
        BY DEF LeaseTick
    <2>3. Fresh(lastSeen[d], ticks + 1) => Fresh(lastSeen[d], ticks)
        BY <1>4
    <2>4. Bounds[d] = spent[d] + (IF Fresh(lastSeen[d], ticks) /\ allowance[d] > spent[d] THEN allowance[d] - spent[d] ELSE 0)
        BY DEF Bounds, Bound, Unspent
    <2>5. Bounds'[d] = spent[d] + (IF Fresh(lastSeen[d], ticks + 1) /\ allowance[d] > spent[d] THEN allowance[d] - spent[d] ELSE 0)
        BY <2>2 DEF Bounds, Bound, Unspent
    <2> QED
        BY <2>1, <2>3, <2>4, <2>5
<1>6. ASSUME ~excused', NEW d \in Dataplanes PROVE InSight(d)'
    <2>1. ~excused /\ InSight(d)
        BY <1>6 DEF LeaseTick, LeasesInv, NothingHidden
    <2>2. total[d] <= Bounds'[d]
        <3>1. Fresh(lastSeen[d], ticks) /\ ~Fresh(lastSeen[d], ticks + 1) => ~(total[d] > spent[d])
            BY <1>6 DEF LeaseTick
        <3>2. total[d] \in Nat /\ spent[d] \in Nat /\ total[d] <= Bounds[d]
            BY <2>1 DEF LeasesInv, LeaseTypes, InSight
        <3> QED
            BY <1>5, <3>1, <3>2
    <2>3. \A l \in lease[d] : l.until \in Nat
        BY DEF LeasesInv, LeaseTypes, Optionals
    <2>4. ticks \in Nat /\ ticks' = ticks + 1 /\ UNCHANGED <<total, used, lease, allowance>>
        BY DEF LeasesInv, LeaseTypes, LeaseTick
    <2>5. \A l \in lease[d] : ticks + 1 > l.until \/ l.allow <= allowance[d]
        BY <2>1, <2>3, <2>4 DEF InSight
    <2> QED
        BY <2>1, <2>2, <2>4, <2>5 DEF InSight
<1>7. ~excused' => Total(Bounds') <= peak'
    <2>1. Bounds \in [Dataplanes -> Nat] /\ Bounds' \in [Dataplanes -> Nat] /\ IsFiniteSet(Dataplanes)
        <3>1. Bounds = [d \in Dataplanes |-> Bounds[d]] /\ Bounds' = [d \in Dataplanes |-> Bounds'[d]]
            BY DEF Bounds
        <3> QED
            BY <1>5, <3>1, BudgetLeasesAssumption
    <2>2. Total(Bounds') <= Total(Bounds)
        BY <1>5, <2>1, TotalMonotone
    <2>3. Total(Bounds) \in Nat /\ Total(Bounds') \in Nat
        BY <2>1, UnitsFinite
    <2>4. peak' = peak /\ peak \in Nat
        BY DEF LeaseTick, LeasesInv, LeaseTypes
    <2>5. ~excused' => Total(Bounds) <= peak
        BY DEF LeasesInv, NothingHidden, LeaseTick
    <2> HIDE DEF Bounds
    <2> QED
        BY <2>2, <2>3, <2>4, <2>5
<1> QED
    BY <1>1, <1>2, <1>3, <1>6, <1>7 DEF LeasesInv, NothingHidden

-----------------------------------------------------------------------------
(* The heartbeat *)

\* The sum of what is spent and what is outstanding, with one summand apart.
Parts(S, x, f, g, h, r) ==
    /\ IsFiniteSet(S) /\ x \in S
    /\ f \in [S -> Nat] /\ g \in [S -> Nat] /\ h \in [S -> Nat] /\ r \in [S \ {x} -> Nat]
    /\ \A y \in S : h[y] = f[y] + g[y]
    /\ \A y \in S \ {x} : r[y] = g[y]
LEMMA SumApart ==
    ASSUME NEW S, NEW x, NEW f, NEW g, NEW h, NEW r, Parts(S, x, f, g, h, r)
    PROVE  Total(h) = (Total(f) + Total(r)) + g[x]
<1> USE DEF Parts
<1> DEFINE g0 == [g EXCEPT ![x] = 0]
<1>1. g0 \in [S -> Nat] /\ g0[x] = 0 /\ \A y \in S \ {x} : r[y] = g0[y] /\ g[y] = g0[y]
    OBVIOUS
<1> HIDE DEF g0
<1>2. Total(h) = Total(f) + Total(g)
    BY TotalOfSum
<1>3. Total(r) = Total(g0)
    BY <1>1, TotalWithout
<1>4. Total(g) = Total(g0) - g0[x] + g[x]
    BY <1>1, TotalChangeOne
<1>5. Total(f) \in Nat /\ Total(g0) \in Nat /\ g[x] \in Nat
    BY <1>1, UnitsFinite
<1> QED
    BY <1>1, <1>2, <1>3, <1>4, <1>5

\* What is left is the limit without all that is spent or outstanding elsewhere.
LEMMA LeftIsNat ==
    ASSUME limit \in Nat, NEW d \in Dataplanes, NEW sp \in [Dataplanes -> Nat], NEW al \in [Dataplanes -> Nat], NEW seen
    PROVE  LET R == [e \in Dataplanes \ {d} |-> Unspent(sp, al, seen, e)]
               left == LeaseLeft(d, sp, al, seen)
           IN  /\ R \in [Dataplanes \ {d} -> Nat] /\ Total(R) \in Nat /\ Total(sp) \in Nat
               /\ left \in Nat /\ (left = 0 \/ (Total(sp) + Total(R)) + left = limit)
<1> DEFINE R == [e \in Dataplanes \ {d} |-> Unspent(sp, al, seen, e)]
           gone == Total(sp) + Total(R)
<1>1. IsFiniteSet(Dataplanes) /\ IsFiniteSet(Dataplanes \ {d})
    BY BudgetLeasesAssumption, FS_RemoveElement
<1>2. R \in [Dataplanes \ {d} -> Nat]
    BY BoundIsNat
<1>3. LeaseLeft(d, sp, al, seen) = IF gone < limit THEN limit - gone ELSE 0
    BY DEF LeaseLeft, LedgerTotal, Outstanding
<1> HIDE DEF R
<1>4. Total(sp) \in Nat /\ Total(R) \in Nat
    BY <1>1, <1>2, UnitsFinite
<1>5. LET left == LeaseLeft(d, sp, al, seen)
      IN  left \in Nat /\ (left = 0 \/ (Total(sp) + Total(R)) + left = limit)
    BY <1>3, <1>4
<1> QED
    BY <1>2, <1>4, <1>5 DEF R

\* A grant fits under the limit with all that is spent or outstanding, or it
\* is nothing beyond the report.
Granting(d, sp, al, seen, grant, granted, B) ==
    /\ sp \in [Dataplanes -> Nat] /\ al \in [Dataplanes -> Nat] /\ Fresh(seen[d], ticks)
    /\ grant \in Nat /\ sp[d] <= grant /\ grant - sp[d] <= LeaseLeft(d, sp, al, seen)
    /\ granted \in [Dataplanes -> Nat] /\ granted[d] = grant
    /\ \A e \in Dataplanes \ {d} : granted[e] = al[e]
    /\ B \in [Dataplanes -> Nat] /\ \A e \in Dataplanes : B[e] = Bound(sp, granted, seen, e)
LEMMA GrantFits ==
    ASSUME limit \in Nat, ticks \in Nat, NEW d \in Dataplanes, NEW sp, NEW al, NEW seen,
           NEW grant, NEW granted, NEW B, Granting(d, sp, al, seen, grant, granted, B)
    PROVE  /\ B[d] = grant
           /\ \A e \in Dataplanes \ {d} : B[e] = Bound(sp, al, seen, e)
           /\ Total(B) <= limit \/ grant = sp[d]
<1> USE DEF Granting
<1> DEFINE O == [e \in Dataplanes |-> Unspent(sp, granted, seen, e)]
           R == [e \in Dataplanes \ {d} |-> Unspent(sp, al, seen, e)]
           left == LeaseLeft(d, sp, al, seen)
<1>1. /\ R \in [Dataplanes \ {d} -> Nat] /\ Total(R) \in Nat /\ Total(sp) \in Nat
      /\ left \in Nat /\ (left = 0 \/ (Total(sp) + Total(R)) + left = limit)
    BY LeftIsNat
<1>2. O \in [Dataplanes -> Nat]
    BY BoundIsNat
<1>3. B[d] = grant /\ O[d] = grant - sp[d] /\ sp[d] \in Nat
    BY DEF Bound, Unspent
<1>4. \A e \in Dataplanes \ {d} : B[e] = Bound(sp, al, seen, e) /\ R[e] = O[e]
    BY DEF Bound, Unspent
<1>5. \A e \in Dataplanes : B[e] = sp[e] + O[e]
    BY DEF Bound
<1>6. IsFiniteSet(Dataplanes)
    BY BudgetLeasesAssumption
<1> HIDE DEF O, R, left, Granting
<1>7. Total(B) = (Total(sp) + Total(R)) + O[d]
    <2>1. \A e \in Dataplanes \ {d} : R[e] = O[e]
        BY <1>4
    <2>2. R \in [Dataplanes \ {d} -> Nat]
        BY <1>1
    <2>3. Parts(Dataplanes, d, sp, O, B, R)
        BY <1>2, <1>5, <1>6, <2>1, <2>2, Zenon DEF Parts, Granting
    <2> QED
        BY <2>3, SumApart
<1>8. grant - sp[d] <= left
    BY DEF left, Granting
<1>9. Total(B) <= limit \/ grant = sp[d]
    BY <1>1, <1>3, <1>7, <1>8 DEF Granting
<1> QED
    BY <1>3, <1>4, <1>9

\* handleSync: the ledger's picture after a heartbeat.
LEMMA HeartbeatKeeps ==
    ASSUME LeasesInv, NEW d \in Dataplanes, NEW delivered \in BOOLEAN, Heartbeat(d, delivered)
    PROVE  LeasesInv' /\ latch' <= tiers'
<1>1. PICK report \in heartbeat[d] :
        LET gone == {e \in Dataplanes \ {d} : Pruned(e)}
            sp == [e \in Dataplanes |-> IF e = d THEN report
                                       ELSE IF e \in gone THEN 0 ELSE spent[e]]
            al == [e \in Dataplanes |-> IF e \in gone THEN 0 ELSE allowance[e]]
            seen == [e \in Dataplanes |-> IF e = d THEN {ticks}
                                         ELSE IF e \in gone THEN {} ELSE lastSeen[e]]
            left == LeaseLeft(d, sp, al, seen)
            grant == report + (IF Slice < left THEN Slice ELSE left)
            granted == [al EXCEPT ![d] = grant]
        IN
        /\ spent' = sp /\ allowance' = granted /\ lastSeen' = seen
        /\ latch' = Latched(Crossed(sp, granted, seen))
        /\ excused' = \/ excused
                      \/ \E e \in gone : total[e] > 0
                      \/ delivered /\ used[d] > grant
                      \/ ~delivered /\ \E l \in lease[d] : l.allow > grant
        /\ lease' = IF delivered
                    THEN [lease EXCEPT ![d] = {[allow |-> grant, until |-> ticks + 3 * Renew]}]
                    ELSE lease
        /\ heartbeat' = [heartbeat EXCEPT ![d] = {}]
        /\ UNCHANGED <<ticks, events, limit, peak, used, total, tiers>>
    BY Zenon DEF Heartbeat
<1> DEFINE gone == {e \in Dataplanes \ {d} : Pruned(e)}
           sp == [e \in Dataplanes |-> IF e = d THEN report
                                      ELSE IF e \in gone THEN 0 ELSE spent[e]]
           al == [e \in Dataplanes |-> IF e \in gone THEN 0 ELSE allowance[e]]
           seen == [e \in Dataplanes |-> IF e = d THEN {ticks}
                                        ELSE IF e \in gone THEN {} ELSE lastSeen[e]]
           left == LeaseLeft(d, sp, al, seen)
           grant == report + (IF Slice < left THEN Slice ELSE left)
           granted == [al EXCEPT ![d] = grant]
           B == [e \in Dataplanes |-> Bound(sp, granted, seen, e)]
           Leases == [allow : Nat, until : Nat]
<1>2. /\ spent' = sp /\ allowance' = granted /\ lastSeen' = seen
      /\ latch' = Latched(Crossed(sp, granted, seen))
    BY <1>1
<1>3. /\ lease' = IF delivered
                  THEN [lease EXCEPT ![d] = {[allow |-> grant, until |-> ticks + 3 * Renew]}]
                  ELSE lease
      /\ heartbeat' = [heartbeat EXCEPT ![d] = {}]
      /\ UNCHANGED <<ticks, events, limit, peak, used, total, tiers>>
    BY <1>1
<1>4. excused' = \/ excused
                 \/ \E e \in gone : total[e] > 0
                 \/ delivered /\ used[d] > grant
                 \/ ~delivered /\ \E l \in lease[d] : l.allow > grant
    BY <1>1
<1>5. LeaseTypes /\ report \in Nat /\ report <= used[d] /\ Renew \in Nat /\ ticks \in Nat /\ limit \in Nat
    BY BudgetLeasesAssumption DEF LeasesInv, LeaseTypes, ReportsTrail
<1>6. /\ sp \in [Dataplanes -> Nat] /\ al \in [Dataplanes -> Nat]
      /\ sp[d] = report /\ seen[d] = {ticks}
      /\ \A e \in gone : sp[e] = 0 /\ al[e] = 0 /\ seen[e] = {}
      /\ \A e \in Dataplanes \ ({d} \cup gone) :
            sp[e] = spent[e] /\ al[e] = allowance[e] /\ seen[e] = lastSeen[e]
      /\ seen \in [Dataplanes -> Optionals(Nat)] /\ gone \subseteq Dataplanes \ {d}
    <2>1. /\ spent \in [Dataplanes -> Nat] /\ allowance \in [Dataplanes -> Nat]
          /\ lastSeen \in [Dataplanes -> Optionals(Nat)]
        BY <1>5 DEF LeaseTypes
    <2>2. gone \subseteq Dataplanes \ {d}
        OBVIOUS
    <2>3. {} \in Optionals(Nat) /\ {ticks} \in Optionals(Nat)
        BY <1>5 DEF Optionals
    <2> HIDE DEF gone
    <2> QED
        BY <1>5, <2>1, <2>2, <2>3
<1>7. \A e \in gone : \A l \in lease[e] : ticks > l.until
    <2> SUFFICES ASSUME NEW e \in gone, NEW l \in lease[e] PROVE ticks > l.until
        OBVIOUS
    <2>1. PICK t \in lastSeen[e] : ticks - t > PruneAfter
        BY DEF Pruned
    <2>2. e \in Dataplanes /\ l.until \in Nat
        BY <1>5 DEF LeaseTypes, Optionals
    <2>3. lastSeen[e] = {t} /\ t \in Nat
        <3>1. lastSeen[e] \in Optionals(Nat)
            BY <1>5, <2>2 DEF LeaseTypes
        <3>2. PICK x \in Nat : lastSeen[e] = {x}
            BY <2>1, <3>1 DEF Optionals
        <3> QED
            BY <2>1, <3>2
    <2>4. PruneAfter \in Nat /\ PruneAfter > 3 * Renew
        BY BudgetLeasesAssumption
    <2>5. ticks > l.until \/ l.until <= t + 3 * Renew
        BY <2>2, <2>3 DEF LeasesInv, LeasesSeen
    <2> QED
        BY <1>5, <2>1, <2>2, <2>3, <2>4, <2>5
<1>8. Fresh(seen[d], ticks)
    BY <1>5, <1>6 DEF Fresh
<1> HIDE DEF gone, sp, al, seen
<1>9. /\ grant \in Nat /\ granted \in [Dataplanes -> Nat] /\ granted[d] = grant
      /\ B \in [Dataplanes -> Nat] /\ B[d] = grant
      /\ \A e \in Dataplanes \ {d} : granted[e] = al[e] /\ B[e] = Bound(sp, al, seen, e)
      /\ Total(B) <= limit \/ grant = report
    <2>1. left \in Nat /\ Slice \in Nat
        <3>1. LeaseLeft(d, sp, al, seen) \in Nat
            BY <1>5, <1>6, LeftIsNat
        <3> QED
            BY <3>1, BudgetLeasesAssumption
    <2> HIDE DEF left
    <2>2. grant \in Nat /\ sp[d] <= grant /\ grant - sp[d] <= left
        BY <1>5, <1>6, <2>1
    <2> HIDE DEF grant
    <2>3. /\ granted \in [Dataplanes -> Nat] /\ granted[d] = grant
          /\ \A e \in Dataplanes \ {d} : granted[e] = al[e]
        BY <1>6, <2>2
    <2> HIDE DEF granted
    <2>4. B \in [Dataplanes -> Nat] /\ \A e \in Dataplanes : B[e] = Bound(sp, granted, seen, e)
        BY <1>6, <2>3, BoundIsNat
    <2> HIDE DEF B
    <2>5. grant - sp[d] <= LeaseLeft(d, sp, al, seen)
        BY <2>2 DEF left
    <2>6. /\ B[d] = grant
          /\ \A e \in Dataplanes \ {d} : B[e] = Bound(sp, al, seen, e)
          /\ Total(B) <= limit \/ grant = sp[d]
        <3>1. /\ limit \in Nat /\ ticks \in Nat
              /\ sp \in [Dataplanes -> Nat] /\ al \in [Dataplanes -> Nat]
            BY <1>5, <1>6
        <3>2. Granting(d, sp, al, seen, grant, granted, B)
            BY <1>8, <2>2, <2>3, <2>4, <2>5, <3>1, Zenon DEF Granting
        <3> QED
            BY <3>1, <3>2, GrantFits
    <2> QED
        BY <1>6, <2>2, <2>3, <2>4, <2>6
<1>10. Bounds' = B
    BY <1>2, <1>3 DEF Bounds, Bound, Unspent, Fresh
<1> HIDE DEF left, grant, granted, B
<1>11. /\ \A e \in gone : B[e] = 0
       /\ \A e \in Dataplanes \ ({d} \cup gone) : B[e] = Bounds[e]
    <2>1. \A e \in gone : ~Fresh(seen[e], ticks)
        BY <1>6 DEF Fresh
    <2>2. \A e \in gone : Bound(sp, al, seen, e) = 0
        BY <1>6, <2>1, BoundIsNat
    <2>3. \A e \in Dataplanes \ ({d} \cup gone) : Bound(sp, al, seen, e) = Bounds[e]
        BY <1>6 DEF Bounds, Bound, Unspent
    <2> QED
        BY <1>6, <1>9, <2>2, <2>3
<1>12. lease' \in [Dataplanes -> Optionals(Leases)]
    <2>1. lease \in [Dataplanes -> Optionals(Leases)]
        BY <1>5 DEF LeaseTypes
    <2>2. {[allow |-> grant, until |-> ticks + 3 * Renew]} \in Optionals(Leases)
        BY <1>5, <1>9 DEF Optionals
    <2> QED
        BY <1>3, <2>1, <2>2
<1>13. latch' \in Nat /\ latch' <= tiers'
    <2>1. Crossed(sp, granted, seen) \in Nat
        <3> DEFINE busy == LedgerTotal(sp) + Outstanding(sp, granted, seen, {})
                   C == {i \in 1 .. tiers : busy * (tiers + 1) >= i * limit}
        <3>1. IsFiniteSet(1 .. tiers)
            BY <1>5, FS_Interval DEF LeaseTypes
        <3>2. C \subseteq 1 .. tiers
            OBVIOUS
        <3> HIDE DEF C
        <3>3. Cardinality(C) \in Nat
            BY <3>1, <3>2, FS_Subset, FS_CardinalityType
        <3> QED
            BY <3>3 DEF C, Crossed
    <2>2. latch \in Nat /\ tiers \in Nat /\ tiers' = tiers
        BY <1>3, <1>5 DEF LeaseTypes
    <2> QED
        BY <1>2, <2>1, <2>2 DEF Latched
<1>14. LeaseTypes'
    <2>1. excused' \in BOOLEAN
        BY <1>4
    <2>2. heartbeat' \in [Dataplanes -> SUBSET Nat]
        BY <1>3, <1>5 DEF LeaseTypes
    <2>3. \A e \in Dataplanes : \A t \in seen[e] : t <= ticks
        BY <1>5, <1>6 DEF LeaseTypes
    <2> QED
        BY <1>2, <1>3, <1>5, <1>6, <1>9, <1>12, <1>13, <2>1, <2>2, <2>3 DEF LeaseTypes
<1>15. ReportsTrail'
    BY <1>3, <1>5 DEF LeasesInv, ReportsTrail, LeaseTypes
<1>16. LeasesSeen'
    <2> SUFFICES ASSUME NEW e \in Dataplanes, NEW l \in lease'[e]
                 PROVE  ticks > l.until \/ \E t \in seen[e] : l.until <= t + 3 * Renew
        BY <1>2, <1>3 DEF LeasesSeen
    <2>1. lease \in [Dataplanes -> Optionals(Leases)]
        BY <1>5 DEF LeaseTypes
    <2>2. l \in Leases
        BY <1>12 DEF Optionals
    <2>3. CASE e = d /\ delivered
        <3>1. l = [allow |-> grant, until |-> ticks + 3 * Renew]
            BY <1>3, <2>1, <2>3
        <3>2. l.until <= ticks + 3 * Renew
            BY <1>5, <3>1
        <3> QED
            BY <1>6, <2>3, <3>2
    <2>4. CASE e = d /\ ~delivered
        <3>1. l \in lease[d]
            BY <1>3, <2>4
        <3>2. ticks > l.until \/ \E t \in lastSeen[d] : l.until <= t + 3 * Renew
            BY <3>1 DEF LeasesInv, LeasesSeen
        <3>3. \A t \in lastSeen[d] : t \in Nat /\ t <= ticks
            BY <1>5 DEF LeaseTypes, Optionals
        <3>4. ticks > l.until \/ l.until <= ticks + 3 * Renew
            BY <1>5, <2>2, <3>2, <3>3
        <3> QED
            BY <1>6, <2>4, <3>4
    <2>5. CASE e # d
        <3>1. l \in lease[e]
            BY <1>3, <2>1, <2>5
        <3>2. ticks > l.until \/ \E t \in lastSeen[e] : l.until <= t + 3 * Renew
            BY <3>1 DEF LeasesInv, LeasesSeen
        <3> QED
            BY <1>6, <1>7, <2>5, <3>1, <3>2
    <2> QED
        BY <2>3, <2>4, <2>5
<1>17. ASSUME ~excused', NEW e \in Dataplanes PROVE InSight(e)'
    <2>1. /\ ~excused /\ \A x \in gone : ~(total[x] > 0)
          /\ delivered => ~(used[d] > grant)
          /\ ~delivered => \A l \in lease[d] : ~(l.allow > grant)
        BY <1>4, <1>17
    <2>2. InSight(e) /\ used[e] \in Nat /\ total[e] \in Nat /\ allowance[e] \in Nat
        BY <1>5, <2>1 DEF LeasesInv, NothingHidden, LeaseTypes
    <2>3. lease \in [Dataplanes -> Optionals(Leases)] /\ \A l \in lease[e] : l.allow \in Nat /\ l.until \in Nat
        BY <1>5 DEF LeaseTypes, Optionals
    <2>4. SUFFICES /\ total[e] = used[e]
                   /\ used[e] = 0 \/ \E l \in lease'[e] : used[e] <= l.allow
                   /\ \A l \in lease'[e] : ticks > l.until \/ l.allow <= granted[e]
                   /\ total[e] <= B[e]
        BY <1>2, <1>3, <1>10 DEF InSight
    <2>5. total[e] = used[e] /\ (used[e] = 0 \/ \E l \in lease[e] : used[e] <= l.allow)
        BY <2>2 DEF InSight
    <2>6. CASE e = d /\ delivered
        <3>1. lease'[e] = {[allow |-> grant, until |-> ticks + 3 * Renew]}
            BY <1>3, <2>3, <2>6
        <3>2. used[d] <= grant
            BY <1>9, <2>1, <2>2, <2>6
        <3> QED
            BY <1>9, <2>5, <2>6, <3>1, <3>2
    <2>7. CASE e = d /\ ~delivered
        <3>1. lease'[e] = lease[e] /\ \A l \in lease[e] : l.allow <= grant
            BY <1>3, <1>9, <2>1, <2>3, <2>7
        <3>2. used[e] <= grant
            BY <1>9, <2>2, <2>3, <2>5, <3>1
        <3> QED
            BY <1>9, <2>5, <2>7, <3>1, <3>2
    <2>8. CASE e \in gone
        <3>1. lease'[e] = lease[e]
            BY <1>3, <1>6, <2>3, <2>8
        <3>2. total[e] = 0
            BY <2>1, <2>2, <2>8
        <3> QED
            BY <1>7, <1>11, <2>5, <2>8, <3>1, <3>2
    <2>9. CASE e # d /\ e \notin gone
        <3>1. lease'[e] = lease[e] /\ granted[e] = allowance[e] /\ B[e] = Bounds[e]
            BY <1>3, <1>6, <1>9, <1>11, <2>3, <2>9
        <3> QED
            BY <2>2, <2>5, <3>1 DEF InSight
    <2> QED
        BY <2>6, <2>7, <2>8, <2>9
<1>18. ~excused' => Total(B) <= peak
    <2> SUFFICES ASSUME ~excused' PROVE Total(B) <= peak
        OBVIOUS
    <2>1. ~excused
        BY <1>4
    <2>2. Bounds \in [Dataplanes -> Nat] /\ IsFiniteSet(Dataplanes)
        BY <1>5, BoundIsNat, BudgetLeasesAssumption DEF LeaseTypes, Bounds
    <2>3. Total(B) \in Nat /\ Total(Bounds) \in Nat /\ peak \in Nat /\ limit <= peak
        BY <1>5, <1>9, <2>2, UnitsFinite DEF LeaseTypes
    <2>4. CASE grant = report
        <3>1. Bounds[d] \in Nat /\ report <= Bounds[d]
            <4>1. InSight(d) /\ used[d] \in Nat /\ total[d] \in Nat
                BY <1>5, <2>1 DEF LeasesInv, NothingHidden, LeaseTypes
            <4>2. total[d] = used[d] /\ total[d] <= Bounds[d]
                BY <4>1 DEF InSight
            <4> QED
                BY <1>5, <2>2, <4>1, <4>2
        <3>2. \A e \in Dataplanes : B[e] <= Bounds[e]
            BY <1>9, <1>11, <2>2, <2>4, <3>1
        <3>3. Total(B) <= Total(Bounds)
            BY <1>9, <2>2, <3>2, TotalMonotone
        <3>4. Total(Bounds) <= peak
            BY <2>1 DEF LeasesInv, NothingHidden
        <3> QED
            BY <2>3, <3>3, <3>4
    <2>5. CASE Total(B) <= limit
        BY <1>5, <2>3, <2>5
    <2> QED
        BY <1>9, <2>4, <2>5
<1>19. NothingHidden'
    BY <1>3, <1>10, <1>17, <1>18 DEF NothingHidden
<1> QED
    BY <1>13, <1>14, <1>15, <1>16, <1>19 DEF LeasesInv

-----------------------------------------------------------------------------
(* The theorem *)

LEMMA LeasesStep == LeasesInv /\ [LeasesNext]_leaseVars => LeasesInv'
<1> SUFFICES ASSUME LeasesInv, [LeasesNext]_leaseVars PROVE LeasesInv'
    OBVIOUS
<1>1. CASE UNCHANGED leaseVars
    <2>1. Bounds' = Bounds
        BY <1>1 DEF leaseVars, Bounds, Bound, Unspent, Fresh
    <2> QED
        BY <1>1, <2>1 DEF leaseVars, LeasesInv, LeaseTypes, ReportsTrail, LeasesSeen, NothingHidden, InSight
<1>2. CASE LeasesNext
    BY <1>2, ReportKeeps, SpendKeeps, RestartKeeps, HeartbeatKeeps, TickShrinks, EditRuleKeeps DEF LeasesNext
<1> QED
    BY <1>1, <1>2

LEMMA LeasesInvImplies == LeasesInv => LeasesTypeOK /\ LeasesCapSpend
<1> SUFFICES ASSUME LeasesInv PROVE LeasesTypeOK /\ LeasesCapSpend
    OBVIOUS
<1>1. \A d \in Dataplanes : Cardinality(lease[d]) <= 1
    <2> SUFFICES ASSUME NEW d \in Dataplanes PROVE Cardinality(lease[d]) <= 1
        OBVIOUS
    <2>1. lease[d] = {} \/ \E x : lease[d] = {x}
        BY DEF LeasesInv, LeaseTypes, Optionals
    <2>2. Cardinality({}) = 0 /\ \A x : Cardinality({x}) = 1
        BY FS_EmptySet, FS_Singleton
    <2>3. CASE lease[d] = {}
        BY <2>2, <2>3
    <2>4. ASSUME NEW x, lease[d] = {x} PROVE Cardinality(lease[d]) <= 1
        <3>1. Cardinality(lease[d]) = 1
            BY <2>2, <2>4, Zenon
        <3> QED
            BY <3>1
    <2> QED
        BY <2>1, <2>3, <2>4
<1>2. LeasesTypeOK
    BY <1>1 DEF LeasesInv, LeaseTypes, LeasesTypeOK
<1>3. ASSUME ~excused PROVE Total(total) <= peak
    <2>1. Bounds \in [Dataplanes -> Nat] /\ IsFiniteSet(Dataplanes) /\ total \in [Dataplanes -> Nat] /\ peak \in Nat
        BY BoundIsNat, BudgetLeasesAssumption DEF LeasesInv, LeaseTypes, Bounds
    <2>2. \A d \in Dataplanes : total[d] <= Bounds[d]
        BY <1>3 DEF LeasesInv, NothingHidden, InSight
    <2>3. Total(total) <= Total(Bounds) /\ Total(Bounds) \in Nat /\ Total(total) \in Nat
        BY <2>1, <2>2, TotalMonotone, UnitsFinite
    <2>4. Total(Bounds) <= peak
        BY <1>3 DEF LeasesInv, NothingHidden
    <2> QED
        BY <2>1, <2>3, <2>4
<1> QED
    BY <1>2, <1>3 DEF LeasesCapSpend, LedgerTotal

LEMMA TierOfHeartbeat ==
    ASSUME LeasesInv, LeasesNext
    PROVE  TierInRange
<1>1. CASE \E d \in Dataplanes, delivered \in BOOLEAN : Heartbeat(d, delivered)
    BY <1>1, HeartbeatKeeps DEF TierInRange
<1>2. CASE lastSeen' = lastSeen
    BY <1>2 DEF TierInRange
<1> QED
    BY <1>1, <1>2 DEF LeasesNext, ReportSpend, Spend, RestartDataplane, LeaseTick, EditRule

(* The legacy leases cap the spend (controlplane.go handleSync and totals,       *)
(* LeaseTable.Blocked): for any number of data planes, every slice, renewal and  *)
(* limit, and however reports, replies and edits interleave, what the data       *)
(* planes spend together stays within the highest limit set, unless the ledger   *)
(* lost sight of money in one of the ways "excused" names; and the tier that a   *)
(* heartbeat hands out is one of the rule's.                                     *)
THEOREM LeasesCapTheSpend == LeasesSpec => LeasesHold
<1>1. LeasesInv /\ LeasesInv' /\ [LeasesNext]_leaseVars
      => [LeasesTypeOK' /\ LeasesCapSpend' /\ TierInRange]_leaseVars
    <2> SUFFICES ASSUME LeasesInv, LeasesInv', LeasesNext
                 PROVE  LeasesTypeOK' /\ LeasesCapSpend' /\ TierInRange
        OBVIOUS
    <2>1. LeasesInv' => LeasesTypeOK' /\ LeasesCapSpend'
        BY LeasesInvImplies, PTL
    <2> QED
        BY <2>1, TierOfHeartbeat
<1> QED
    BY <1>1, LeasesStart, LeasesStep, PTL DEF LeasesSpec, LeasesHold

================================================================================
