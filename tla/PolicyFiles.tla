---------------------------- MODULE PolicyFiles -----------------------------
(***************************************************************************)
(* The policy file watchers.  Both programs poll the modification times of *)
(* their policy files every two seconds and reload on a difference.  The   *)
(* data plane (policy.Store) records the times before it reads the files;  *)
(* the control plane (controlplane.Server) reads first and records after.  *)
(* A writer edits files at any moment, also between two reads of a reload. *)
(***************************************************************************)
EXTENDS Naturals, FiniteSets

CONSTANTS
    Files,     \* policy files
    Watchers,  \* "data" (the data plane) and "control" (the control plane)
    MaxEdits   \* bound on edits

ASSUME PolicyFilesAssumption ==
    IsFiniteSet(Files) /\ {"data"} \subseteq Watchers /\ Watchers \subseteq {"data", "control"} /\ MaxEdits \in Nat

VARIABLES
    disk,      \* [Files -> version]: 0 is an absent file; content and mtime
    broken,    \* versions that do not parse or are refused
    edits,     \* versions written so far
    known,     \* [Watchers -> [Files -> version]]: recorded mtimes
    loaded,    \* [Watchers -> [Files -> version]]: the documents in force
    reload     \* [Watchers -> the reload in progress]

fileVars == <<disk, broken, edits, known, loaded, reload>>

Absent == [f \in Files |-> 0]
NoReload == [step |-> "idle", listed |-> {}, todo |-> {}, done |-> FALSE,
              read |-> Absent, stat |-> Absent]

FilesInit ==
    /\ disk = Absent /\ broken = {} /\ edits = 0
    /\ known = [w \in Watchers |-> Absent]
    /\ loaded = [w \in Watchers |-> Absent]
    /\ reload = [w \in Watchers |-> NoReload]

-----------------------------------------------------------------------------

\* A file is written, well or badly, or removed.
Edit(f) ==
    /\ edits < MaxEdits
    /\ edits' = edits + 1
    /\ \E version \in {0, edits'} : disk' = [disk EXCEPT ![f] = version]
    /\ broken' \in {broken, broken \cup {edits'}}
    /\ UNCHANGED <<known, loaded, reload>>

\* changed(): the listing or a modification time differs from the recorded one.
Changed(w) == disk # known[w]

Listed == {f \in Files : disk[f] # 0}

\* A poll that sees a difference lists the files and starts a reload: the data
\* plane stats them first, the control plane reads them first.
Poll(w) ==
    /\ reload[w].step = "idle"
    /\ Changed(w)
    /\ reload' = [reload EXCEPT ![w] =
            [NoReload EXCEPT !.step = IF w = "data" THEN "stat" ELSE "read",
                             !.listed = Listed, !.todo = Listed]]
    /\ UNCHANGED <<disk, broken, edits, known, loaded>>

\* Mutant: the modification times are recorded again after the reads.
StatAfterReading(w) == "stat"

\* The step that follows the reads.
AfterReading(w) == IF w = "data" THEN "install" ELSE "stat"

\* os.Stat of every listed file.  The data plane goes on to list and read.
Stat(w) ==
    /\ reload[w].step = "stat"
    /\ reload' = [reload EXCEPT ![w] =
        [@ EXCEPT !.stat = [f \in Files |-> IF f \in reload[w].listed THEN disk[f] ELSE 0],
                  !.todo = IF reload[w].done THEN {} ELSE Listed,
                  !.step = IF reload[w].done THEN "install" ELSE "read"]]
    /\ UNCHANGED <<disk, broken, edits, known, loaded>>

\* os.ReadFile of one file; a file removed meanwhile fails the reload.
Read(w) ==
    /\ reload[w].step = "read"
    /\ \E f \in reload[w].todo :
        reload' = [reload EXCEPT ![w] =
            IF disk[f] = 0 THEN NoReload
            ELSE [reload[w] EXCEPT !.read[f] = disk[f], !.todo = reload[w].todo \ {f}]]
    /\ UNCHANGED <<disk, broken, edits, known, loaded>>

ReadAll(w) ==
    /\ reload[w].step = "read"
    /\ reload[w].todo = {}
    /\ reload' = [reload EXCEPT ![w].step = AfterReading(w), ![w].done = TRUE]
    /\ UNCHANGED <<disk, broken, edits, known, loaded>>

\* All or nothing: one refused document keeps the previous set and the
\* previous times, so the next poll tries again.
InstallFiles(w) ==
    /\ reload[w].step = "install"
    /\ LET good == \A f \in Files : reload[w].read[f] \notin broken IN
        /\ loaded' = IF good THEN [loaded EXCEPT ![w] = reload[w].read] ELSE loaded
        /\ known' = IF good THEN [known EXCEPT ![w] = reload[w].stat] ELSE known
    /\ reload' = [reload EXCEPT ![w] = NoReload]
    /\ UNCHANGED <<disk, broken, edits>>

-----------------------------------------------------------------------------

FilesNext ==
    \/ \E f \in Files : Edit(f)
    \/ \E w \in Watchers :
        Poll(w) \/ Stat(w) \/ Read(w) \/ ReadAll(w) \/ InstallFiles(w)

FilesSpec == FilesInit /\ [][FilesNext]_fileVars

-----------------------------------------------------------------------------
(* Properties *)

FilesTypeOK ==
    /\ disk \in [Files -> 0 .. MaxEdits]
    /\ known \in [Watchers -> [Files -> 0 .. MaxEdits]]
    /\ loaded \in [Watchers -> [Files -> 0 .. MaxEdits]]

\* No edit is lost: when the watcher sees no difference, every file that is
\* there is enforced as it stands, even if an edit landed in the middle of a
\* reload.  (A file both created and removed while one reload runs is read
\* without a recorded time, and stays in force until the next change.)
DataEditsSeen ==
    FilesTypeOK /\ (~Changed("data") => \A f \in Listed : loaded["data"][f] = disk[f])
=============================================================================
