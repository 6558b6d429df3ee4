---------------------------- MODULE PolicyWrites ----------------------------
(***************************************************************************)
(* The policy administration path of the control plane: the Postgres       *)
(* policy store (rows and a seed marker) shared by the control-plane       *)
(* replicas, and the replicas themselves, each with the policy set it      *)
(* distributes and at most one write in progress (writeMu).                *)
(*                                                                         *)
(* A policy document is a name and a body; a generation is the hash of a   *)
(* set of documents, modelled by the set itself.  The identity declaration *)
(* of a replica refuses some bodies.  Every store call may fail, and a     *)
(* transaction may commit while its caller sees an error.                  *)
(***************************************************************************)
EXTENDS Naturals, FiniteSets

CONSTANTS
    Replicas,   \* control-plane processes sharing one policy database
    DocNames,      \* policy names
    Bodies,     \* policy bodies
    Refusals,   \* [Replicas -> SUBSET Bodies]: refused by its identity declaration
    SeedFiles,  \* [Replicas -> set of documents]: the --policies files
    MaxOps      \* bound on operations started

Docs == [name : DocNames, body : Bodies]

\* Document sets with at most one document per name.
PolicySets == {S \in SUBSET Docs : \A x, y \in S : x.name = y.name => x = y}

ASSUME PolicyWritesAssumption ==
    /\ MaxOps \in Nat
    /\ Refusals \in [Replicas -> SUBSET Bodies]
    /\ SeedFiles \in [Replicas -> PolicySets]
    /\ \A r \in Replicas : \A d \in SeedFiles[r] : d.body \notin Refusals[r]

VARIABLES
    rows,       \* the policy table
    seeded,     \* the seed marker
    removed,    \* history: documents deleted or replaced since the seed
    wire,       \* [Replicas -> PolicySets]: the distributed set
    attached,   \* replicas that serve from the store
    op,         \* [Replicas -> the operation under writeMu]
    preview,    \* the generation of the operator's last dry run
    last,       \* [Replicas -> how the last import was reported]
    started     \* operations started

writeVars == <<rows, seeded, removed, wire, attached, op, preview, last, started>>

IdleOp == [kind |-> "idle", step |-> "idle", docs |-> {}, expected |-> {}, committed |-> FALSE,
         held |-> FALSE, foreign |-> FALSE, rejected |-> FALSE]
NoReport == [result |-> "none", committed |-> FALSE, held |-> FALSE,
             excused |-> FALSE]

WritesInit ==
    /\ rows = {} /\ seeded = FALSE /\ removed = {}
    /\ wire = SeedFiles
    /\ attached = {}
    /\ op = [r \in Replicas |-> IdleOp]
    /\ preview = [known |-> FALSE, gen |-> {}]
    /\ last = [r \in Replicas |-> NoReport]
    /\ started = 0

-----------------------------------------------------------------------------
(* Helpers *)

StartOp(r, o) == /\ op[r].kind = "idle"
               /\ started < MaxOps
               /\ started' = started + 1
               /\ op' = [op EXCEPT ![r] = o]
               /\ last' = [last EXCEPT ![r] = NoReport]

Goto(r, step) == op' = [op EXCEPT ![r].step = step]
EndOp(r) == op' = [op EXCEPT ![r] = IdleOp]

\* ReloadFromStore refuses the whole set when one stored document is refused.
Acceptable(r, docs) == \A d \in docs : d.body \notin Refusals[r]

\* ReloadFromStore with a successful List.
Reloaded(r) == IF Acceptable(r, rows) THEN [wire EXCEPT ![r] = rows] ELSE wire

\* A transaction writes `after` to the policy table.  Every operation in
\* progress on another replica sees a foreign write.
WriteRows(r, after) ==
    /\ rows' = after
    /\ removed' = (removed \ after) \cup (rows \ after)

Touch(r, o) == [q \in Replicas |->
    IF q = r THEN o
    ELSE IF op[q].kind = "import" THEN [op[q] EXCEPT !.foreign = TRUE] ELSE op[q]]

\* The outcomes of a store transaction: acknowledged, failed, or committed
\* with the acknowledgement lost.
Outcomes == {"ack", "failed", "lost_ack"}

-----------------------------------------------------------------------------
(* Start of a replica: NewServer loads the files, AttachPolicyStore seeds    *)
(* the database at most once and then serves from it.                       *)

\* A replica stops (crash or deployment); NewServer loads its files again.
RestartReplica(r) ==
    /\ r \in attached
    /\ started < MaxOps
    /\ started' = started + 1
    /\ attached' = attached \ {r}
    /\ wire' = [wire EXCEPT ![r] = SeedFiles[r]]
    /\ EndOp(r)
    /\ last' = [last EXCEPT ![r] = NoReport]
    /\ UNCHANGED <<rows, seeded, removed, preview>>

\* Seeded(): the marker is read in a transaction of its own.
AttachCheck(r) ==
    /\ r \notin attached
    /\ op[r].kind = "idle"
    /\ op' = [op EXCEPT ![r] = [IdleOp EXCEPT !.kind = "attach",
                                  !.step = IF seeded THEN "reload" ELSE "seed"]]
    /\ UNCHANGED <<rows, seeded, removed, wire, attached, preview, last, started>>

\* Mutant: the documents are inserted whether or not the marker was there.
SeedAlways(r) == {d \in rows : \A s \in SeedFiles[r] : s.name # d.name} \cup SeedFiles[r]

\* Seed inserts the marker with ON CONFLICT DO NOTHING; only the transaction
\* that inserted it inserts the documents.
SeededRows(r) ==
    IF seeded THEN rows ELSE rows \cup SeedFiles[r]

SeedStore(r) ==
    /\ op[r].kind = "attach" /\ op[r].step = "seed"
    /\ \E outcome \in Outcomes :
        LET done == outcome # "failed" IN
        /\ seeded' = (seeded \/ done)
        /\ rows' = IF done THEN SeededRows(r) ELSE rows
        /\ op' = [op EXCEPT ![r] = IF outcome = "ack" THEN [@ EXCEPT !.step = "reload"]
                                   ELSE IdleOp]   \* the boot fails and is tried again
    /\ UNCHANGED <<removed, wire, attached, preview, last, started>>

AttachReload(r) ==
    /\ op[r].kind = "attach" /\ op[r].step = "reload"
    /\ EndOp(r)
    /\ \/ UNCHANGED <<wire, attached>>            \* List failed
       \/ /\ wire' = Reloaded(r)
          /\ attached' = IF Acceptable(r, rows) THEN attached \cup {r} ELSE attached
    /\ UNCHANGED <<rows, seeded, removed, preview, last, started>>

-----------------------------------------------------------------------------
(* One-document writes *)

\* ApplyWrite up to the store call: one document, the name of the URL, an
\* identity this replica accepts.
BeginPut(r, d) ==
    /\ r \in attached
    /\ d.body \notin Refusals[r]
    /\ StartOp(r, [IdleOp EXCEPT !.kind = "put", !.step = "store", !.docs = {d}])
    /\ UNCHANGED <<rows, seeded, removed, wire, attached, preview>>

\* ApplyDelete: an unknown name is ErrNotFound and changes nothing.
BeginDelete(r, d) ==
    /\ r \in attached
    /\ d \in rows
    /\ StartOp(r, [IdleOp EXCEPT !.kind = "delete", !.step = "store", !.docs = {d}])
    /\ UNCHANGED <<rows, seeded, removed, wire, attached, preview>>

\* Put upserts by name, Delete removes by name.
AfterPut(docs) == {x \in rows : \A d \in docs : x.name # d.name} \cup docs
AfterDelete(docs) == {x \in rows : \A d \in docs : x.name # d.name}

\* The store call of a PUT or DELETE: an error returns at once, without the
\* reload.
StoreWrite(r) ==
    /\ op[r].kind \in {"put", "delete"} /\ op[r].step = "store"
    /\ \E outcome \in Outcomes :
        /\ IF outcome = "failed"
           THEN UNCHANGED <<rows, removed>> /\ EndOp(r)
           ELSE /\ WriteRows(r, IF op[r].kind = "put" THEN AfterPut(op[r].docs)
                                ELSE AfterDelete(op[r].docs))
                /\ op' = Touch(r, IF outcome = "ack"
                                  THEN [op[r] EXCEPT !.step = "reload"] ELSE IdleOp)
    /\ UNCHANGED <<seeded, wire, attached, preview, last, started>>

\* The mutation is recorded, then the set is reloaded; List may fail.
WriteReload(r) ==
    /\ op[r].kind \in {"put", "delete"} /\ op[r].step = "reload"
    /\ EndOp(r)
    /\ wire' \in {wire, Reloaded(r)}
    /\ UNCHANGED <<rows, seeded, removed, attached, preview, last, started>>

-----------------------------------------------------------------------------
(* Import: the whole set replaced, guarded by the generation of a dry run    *)

\* ReloadFromStore under writeMu before anything is compared.
Reconciled(r) == Reloaded(r)

\* A dry run shows the difference against the stored rows and the generation
\* in force; it is one critical section, and a failed List is an error.
DryRun(r) ==
    /\ r \in attached
    /\ op[r].kind = "idle"
    /\ started < MaxOps
    /\ started' = started + 1
    /\ wire' = Reconciled(r)
    /\ preview' = [known |-> TRUE, gen |-> wire'[r]]
    /\ UNCHANGED <<rows, seeded, removed, attached, op, last>>

\* The bundle is validated before the lock; the empty bundle needs allow_empty.
BeginImport(r, docs) ==
    /\ r \in attached
    /\ preview.known
    /\ Acceptable(r, docs)
    /\ StartOp(r, [IdleOp EXCEPT !.kind = "import", !.step = "reconcile", !.docs = docs,
                     !.expected = preview.gen])
    /\ UNCHANGED <<rows, seeded, removed, wire, attached, preview>>

\* Reconcile, then ErrImportConflict unless the generation is the previewed one.
Reconcile(r) ==
    /\ op[r].kind = "import" /\ op[r].step = "reconcile"
    /\ wire' = Reconciled(r)
    /\ op' = [op EXCEPT ![r] =
                IF wire'[r] = op[r].expected
                THEN [op[r] EXCEPT !.step = "replace", !.foreign = FALSE,
                                   !.rejected = ~Acceptable(r, rows)]
                ELSE IdleOp]
    /\ UNCHANGED <<rows, seeded, removed, attached, preview, last, started>>

\* The List of the reconciliation failed: the import is refused.
ReconcileFails(r) ==
    /\ op[r].kind = "import" /\ op[r].step = "reconcile"
    /\ EndOp(r)
    /\ UNCHANGED <<rows, seeded, removed, wire, attached, preview, last, started>>

\* store.Replace: delete all, insert, mark seeded, in one transaction.
ReplaceAll(r) ==
    /\ op[r].kind = "import" /\ op[r].step = "replace"
    /\ \E outcome \in Outcomes :
        IF outcome = "failed"
        THEN Goto(r, "readback") /\ UNCHANGED <<rows, seeded, removed>>
        ELSE /\ WriteRows(r, op[r].docs)
             /\ seeded' = TRUE
             /\ op' = Touch(r, [op[r] EXCEPT !.committed = TRUE, !.held = TRUE,
                                  !.foreign = FALSE,
                                  !.step = IF outcome = "ack" THEN "install"
                                           ELSE "readback"])
    /\ UNCHANGED <<wire, attached, preview, last, started>>

ReportImport(r, result, excused) ==
    /\ last' = [last EXCEPT ![r] =
        [result |-> result, committed |-> op[r].committed,
         held |-> op[r].held \/ rows = op[r].docs, excused |-> excused]]
    /\ EndOp(r)

\* The commit was acknowledged: audit, install the validated set, report.
InstallImport(r) ==
    /\ op[r].kind = "import" /\ op[r].step = "install"
    /\ wire' = [wire EXCEPT ![r] = op[r].docs]
    /\ ReportImport(r, "ok", FALSE)
    /\ UNCHANGED <<rows, seeded, removed, attached, preview, started>>

\* The stored set decides what an unknown outcome was.
ReadBackCommitted(r) == Acceptable(r, rows) /\ rows = op[r].docs

\* Replace returned an error: reload, and compare with the predicted generation.
ReadBack(r) ==
    /\ op[r].kind = "import" /\ op[r].step = "readback"
    /\ \/ /\ wire' = Reloaded(r)
          /\ ReportImport(r, IF ReadBackCommitted(r) THEN "ok" ELSE "error", op[r].foreign)
       \/ /\ UNCHANGED wire                           \* List failed
          /\ ReportImport(r, "error", TRUE)
    /\ UNCHANGED <<rows, seeded, removed, attached, preview, started>>

-----------------------------------------------------------------------------

WritesNext == \E r \in Replicas :
    \/ RestartReplica(r) \/ AttachCheck(r) \/ SeedStore(r) \/ AttachReload(r)
    \/ \E d \in Docs : BeginPut(r, d) \/ BeginDelete(r, d)
    \/ StoreWrite(r) \/ WriteReload(r)
    \/ DryRun(r)
    \/ \E docs \in PolicySets : BeginImport(r, docs)
    \/ Reconcile(r) \/ ReconcileFails(r) \/ ReplaceAll(r) \/ InstallImport(r) \/ ReadBack(r)

WritesSpec == WritesInit /\ [][WritesNext]_writeVars

-----------------------------------------------------------------------------
(* Properties *)

WritesTypeOK ==
    /\ rows \in PolicySets /\ wire \in [Replicas -> PolicySets]
    /\ seeded \in BOOLEAN /\ attached \subseteq Replicas /\ removed \subseteq Docs
    /\ \A r \in Replicas : op[r].docs \in PolicySets

\* A deleted policy stays deleted: a replica that found the store unseeded,
\* and seeds it after another replica seeded and an operator deleted, brings
\* nothing back (policystore Seed, one marker per database).
DeletedStaysDeleted == rows \cap removed = {}

\* An import never destroys a set its operator did not see: the rows Replace
\* is about to delete are the previewed ones, unless another replica wrote
\* since the reconciliation or the stored set was already refused.  A PUT
\* whose acknowledgement was lost is no exception.
ImportSeesTheStore == \A r \in Replicas :
    op[r].step = "replace" /\ ~op[r].foreign /\ ~op[r].rejected
        => rows = op[r].expected

\* What an import reports is what happened: success only when the store held
\* exactly the bundle, failure of a committed import only when the store could
\* not be read back or another replica wrote meanwhile.
ImportReported == \A r \in Replicas :
    /\ last[r].result = "ok" => last[r].held
    /\ last[r].result = "error" /\ last[r].committed => last[r].excused

\* The stored policies are what operators made of them: no deletion is undone
\* by a seed, no import destroys what was not previewed, and each import is
\* told as it went (policystore Seed, controlplane import.go).
StoredAsWritten == WritesTypeOK /\ DeletedStaysDeleted /\ ImportSeesTheStore /\ ImportReported
=============================================================================
