------------------------------ MODULE AuditTrail ------------------------------
(***************************************************************************)
(* The audit chain of one gateway: handlers enqueue records, the single    *)
(* writer links each to its predecessor, makes it durable in the           *)
(* write-ahead log, hands it to a required file sink and to the analytics  *)
(* index, and empties the log once nothing in it is owed.  Storage may     *)
(* fail at any of these points and the process may die between any two.    *)
(* An external witness keeps the head of the chain; verification reads the *)
(* file sink back and compares it with what was witnessed.                 *)
(***************************************************************************)
EXTENDS Naturals, Sequences, FiniteSets, SequencesExt

CONSTANTS Records,          \* records the handlers produce in all
          QueueCapacity,    \* queueCapacity: the queue, and the backlog that closes admission
          IndexCapacity,    \* sinkQueueCap
          Runs,             \* how often the process starts
          StorageFaults     \* how many storage operations fail

ASSUME AuditAssumption ==
  /\ Records \in Nat /\ QueueCapacity \in Nat \ {0} /\ IndexCapacity \in Nat \ {0}
  /\ Runs \in Nat \ {0} /\ StorageFaults \in Nat

VARIABLE au

Genesis == 0
Lost == [id |-> 0, run |-> 0, prev |-> 0, whole |-> FALSE]     \* bytes without their newline
Ids(lines) == {lines[i].id : i \in DOMAIN lines} \ {0}
WholeIds(lines) == {lines[i].id : i \in {j \in DOMAIN lines : lines[j].whole}}

(* Write then newline then Sync: what an append leaves in a file.  A record written        *)
(* behind bytes without a newline shares their line, which no longer parses.               *)
RecordWritten(lines, line, cut) ==
  LET joins == lines # <<>> /\ Last(lines).id = 0
  IN  CASE cut = "none" \/ (joins /\ cut = "torn") -> lines
        [] ~joins /\ cut = "torn" -> Append(lines, Lost)
        [] joins /\ cut \notin {"none", "torn"} -> ReplaceAt(lines, Len(lines), [line EXCEPT !.whole = FALSE])
        [] OTHER -> Append(lines, line)

-------------------------------------------------------------------------------
(* Starting: retainedRecords checks the log's framing and links; what it holds counts as   *)
(* pending and is not replayed; the analytics index is rebuilt from the file.              *)
Linked(lines, i) == lines[i].prev = IF lines[i].run = lines[i - 1].run THEN lines[i - 1].id ELSE Genesis
RetainedValid(lines) ==
  /\ \A i \in DOMAIN lines : lines[i].whole
  /\ \A i \in DOMAIN lines \ {1} : Linked(lines, i)
RetainedRecords(lines) == Len(lines)
Latched(blocked, cause) == IF blocked = "open" THEN cause ELSE blocked
Replay(index, file) == index \cup WholeIds(file)
Started ==
  [au EXCEPT !.up = TRUE, !.run = @ + 1, !.prev = Genesis, !.count = 0, !.head = Genesis, !.anchored = 0,
             !.pending = RetainedRecords(au.wal), !.index = Replay(@, au.file),
             !.blocked = IF RetainedRecords(au.wal) >= QueueCapacity THEN "buffer" ELSE "open"]
NewWriter ==
  /\ ~au.up /\ au.run < Runs /\ RetainedValid(au.wal)
  /\ au' = Started

(* Ready is read when a request arrives; the request's record follows whatever happens     *)
(* in between.  Append blocks while the queue is full.                                     *)
Ready == au.up /\ au.blocked = "open"
AdmitRequest ==
  /\ Ready /\ au.requests < Records
  /\ au' = [au EXCEPT !.requests = @ + 1, !.inflight = @ + 1]
AppendAnyway(canonical) ==
  /\ au.up /\ au.inflight > 0
  /\ au' = [au EXCEPT !.inflight = @ - 1, !.made = @ + 1,
                      !.queue = Append(@, [id |-> au.made + 1, canonical |-> canonical])]
AppendRecord(canonical) ==
  /\ au.up /\ au.inflight > 0 /\ Len(au.queue) < QueueCapacity
  /\ au' = [au EXCEPT !.inflight = @ - 1, !.made = @ + 1,
                      !.queue = Append(@, [id |-> au.made + 1, canonical |-> canonical])]

-------------------------------------------------------------------------------
(* The writer's loop, one step per effect another party or a crash can come between. *)
TakeFails ==
  /\ au.up /\ au.step = "take" /\ au.queue # <<>> /\ ~Head(au.queue).canonical
  /\ au' = [au EXCEPT !.queue = Tail(@), !.blocked = Latched(@, "record")]
Take ==
  /\ au.up /\ au.step = "take" /\ au.queue # <<>> /\ Head(au.queue).canonical
  /\ au' = [au EXCEPT !.queue = Tail(@), !.step = "wal",
                      !.cur = [id |-> Head(au.queue).id, run |-> au.run, prev |-> au.prev, whole |-> TRUE]]

ChainAfter(prev, id, ok) == id
AppendWAL(ok, cut) ==
  /\ au.up /\ au.step = "wal" /\ ok = (cut = "synced")
  /\ ok \/ au.faults < StorageFaults
  /\ au' = [au EXCEPT !.wal = RecordWritten(@, au.cur, cut), !.step = "sinks", !.walOk = ok,
                      !.prev = ChainAfter(@, au.cur.id, ok),
                      !.pending = IF ok THEN @ + 1 ELSE @,
                      !.count = IF ok THEN @ + 1 ELSE @, !.head = IF ok THEN au.cur.id ELSE @,
                      !.durable = IF ok THEN @ \cup {au.cur.id} ELSE @,
                      !.blocked = IF ok THEN @ ELSE Latched(@, "wal"),
                      !.walFailed = @ \/ ~ok, !.faults = IF ok THEN @ ELSE @ + 1]

(* The required file sink, written whether or not the log took the record. *)
WriteSinks(ok, cut) ==
  /\ au.up /\ au.step = "sinks" /\ ok = (cut = "synced")
  /\ ok \/ au.faults < StorageFaults
  /\ au' = [au EXCEPT !.file = RecordWritten(@, au.cur, cut), !.step = "index", !.flushed = ok,
                      !.delivered = IF ok THEN @ \cup {au.cur.id} ELSE @,
                      !.faults = IF ok THEN @ ELSE @ + 1]

(* The analytics sink never blocks the chain: a full queue drops the record. *)
OfferIndex ==
  /\ au.up /\ au.step = "index"
  /\ au' = [au EXCEPT !.step = "settle",
                      !.indexQueue = IF Len(@) < IndexCapacity THEN Append(@, au.cur.id) ELSE @]
IndexWorker ==
  /\ au.up /\ au.indexQueue # <<>>
  /\ au' = [au EXCEPT !.indexQueue = Tail(@), !.index = @ \cup {Head(au.indexQueue)}]

(* Truncate only when the record is durable, delivered and alone in the log; the backlog   *)
(* at capacity closes admission for the rest of the process.                               *)
TruncatesDelivered == au.walOk /\ au.flushed
Truncates == au.walOk /\ au.flushed /\ au.pending = 1
LatchBuffer(blocked, pending) == IF pending >= QueueCapacity THEN Latched(blocked, "buffer") ELSE blocked
Settle(ok) ==
  LET pending == IF Truncates /\ ok THEN 0 ELSE au.pending
      blocked == IF Truncates /\ ~ok THEN Latched(au.blocked, "wal") ELSE au.blocked
  IN  /\ au.up /\ au.step = "settle"
      /\ ok \/ (Truncates /\ au.faults < StorageFaults)
      /\ au' = [au EXCEPT !.step = "take", !.cur = Lost, !.pending = pending,
                          !.wal = IF Truncates /\ ok THEN <<>> ELSE @,
                          !.blocked = LatchBuffer(blocked, pending),
                          !.faults = IF ok THEN @ ELSE @ + 1]

-------------------------------------------------------------------------------
(* anchorOnce: the published head goes to the witness when it moved; a failure leaves the  *)
(* point for the next tick.                                                                *)
AnchorOnce(ok) ==
  /\ au.up /\ au.count > au.anchored
  /\ au' = IF ok THEN [au EXCEPT !.anchored = au.count,
                                 !.witness = [run |-> au.run, hash |-> au.head, count |-> au.count]]
           ELSE au

(* The process dies, or is stopped before its queue drained: what is in memory is gone     *)
(* and an append in progress leaves any part of its line.                                  *)
Crash(cut) ==
  /\ au.up /\ (cut # "none" => au.step \in {"wal", "sinks"})
  /\ au' = [au EXCEPT !.up = FALSE, !.step = "take", !.queue = <<>>, !.indexQueue = <<>>, !.inflight = 0,
                      !.cur = Lost, !.pending = 0,
                      !.wal = IF au.step = "wal" THEN RecordWritten(@, au.cur, cut) ELSE @,
                      !.file = IF au.step = "sinks" THEN RecordWritten(@, au.cur, cut) ELSE @,
                      !.walFailed = @ \/ (au.step = "wal" /\ cut = "torn")]

-------------------------------------------------------------------------------
(* Verification of the file sink: an unterminated tail is set aside, every line parses and *)
(* links, and the latest witnessed point of this instance is found at its position.        *)
Complete(lines) == IF lines # <<>> /\ Last(lines).id = 0 THEN Front(lines) ELSE lines
Verify(lines) == RetainedValid(lines) /\ (lines # <<>> => lines[1].prev = Genesis)
OfRun(lines, run) == SelectSeq(lines, LAMBDA line : line.run = run)
HeadAtCount(lines, run, n) == OfRun(lines, run)[n].id
CheckAnchor(lines, point) ==
  point.run = au.run /\ point.count > 0 =>
    /\ Len(OfRun(lines, point.run)) >= point.count
    /\ HeadAtCount(lines, point.run, point.count) = point.hash
VerifyFile == Verify(Complete(au.file)) /\ CheckAnchor(Complete(au.file), au.witness)

-------------------------------------------------------------------------------
InitAudit ==
  au = [up |-> FALSE, run |-> 0, step |-> "take", queue |-> <<>>, cur |-> Lost, prev |-> Genesis, pending |-> 0,
        count |-> 0, head |-> Genesis, blocked |-> "open", walOk |-> FALSE, flushed |-> FALSE,
        wal |-> <<>>, file |-> <<>>, index |-> {}, indexQueue |-> <<>>, anchored |-> 0,
        witness |-> [run |-> 0, hash |-> Genesis, count |-> 0],
        requests |-> 0, inflight |-> 0, made |-> 0, faults |-> 0,
        durable |-> {}, delivered |-> {}, walFailed |-> FALSE]

Failed == {"none", "torn", "unsynced"}
NextAudit ==
  \/ NewWriter \/ AdmitRequest \/ TakeFails \/ Take \/ OfferIndex \/ IndexWorker
  \/ \E canonical \in BOOLEAN : AppendRecord(canonical)
  \/ AppendWAL(TRUE, "synced") \/ \E cut \in Failed : AppendWAL(FALSE, cut)
  \/ WriteSinks(TRUE, "synced") \/ \E cut \in Failed : WriteSinks(FALSE, cut)
  \/ \E ok \in BOOLEAN : Settle(ok) \/ AnchorOnce(ok)
  \/ \E cut \in {"none", "torn", "synced"} : Crash(cut)

-------------------------------------------------------------------------------
(* What the log took stays on disk: a record whose append succeeded is in the log or has   *)
(* been accepted by the required sink, whatever failed or crashed since (Truncate).        *)
NothingLost == au.durable \subseteq Ids(au.wal) \cup au.delivered

(* The backlog closes admission, in this process and in every later one: while the log     *)
(* holds a queue's worth of records between two of the writer's turns, nothing is admitted *)
(* (blockedBuffer, retainedRecords).                                                       *)
LatchHolds == au.up /\ au.step = "take" /\ Len(au.wal) >= QueueCapacity => ~Ready

(* A gap in the file's chain always names its record, and that record is still in the log  *)
(* unless the log never took it: storage failures and restarts never make the file look    *)
(* edited (prevHash advances whether or not the append succeeded).                         *)
Follows(i) == /\ au.file[i].run = au.file[i - 1].run
              /\ au.file[i].prev # au.file[i - 1].id
GapsAreRetained ==
  \A i \in DOMAIN au.file \ {1} :
    (au.file[i].id # 0 /\ au.file[i - 1].id # 0 /\ Follows(i)) =>
      /\ au.file[i].prev \in 1..(au.file[i].id - 1) \ au.delivered
      /\ au.file[i].prev \in au.durable => au.file[i].prev \in Ids(au.wal)

(* A log that no append or crash cut short is accepted by the next start: crashes at every *)
(* other point leave a log retainedRecords can read.                                       *)
RestartsOpen == ~au.walFailed => RetainedValid(au.wal)

(* Every record the file kept whole in an earlier run is in the analytics index, however   *)
(* many the index's queue dropped or a crash took (Replay on boot).                        *)
IndexHeals == au.up => \A i \in DOMAIN au.file :
                         (au.file[i].whole /\ au.file[i].run < au.run) => au.file[i].id \in au.index

(* While no append to the log fails and the file keeps up, the file verifies against what  *)
(* was witnessed, across restarts: no false report of tampering.                           *)
KeptUp == au.step = "take" /\ (1..au.made) \ au.delivered = {}
AnchorsHold == KeptUp /\ ~au.walFailed => VerifyFile

(* The comment on the published head: after a failed append the witnessed head "simply     *)
(* lags", so the file, which holds every record, still verifies.                           *)
AnchorsLagOnly == KeptUp => VerifyFile

AuditTypeOK ==
  /\ au.step \in {"take", "wal", "sinks", "index", "settle"}
  /\ au.blocked \in {"open", "buffer", "wal", "record"}
  /\ Len(au.queue) <= QueueCapacity /\ Len(au.indexQueue) <= IndexCapacity
  /\ au.index \subseteq 1..Records /\ au.durable \subseteq 1..Records /\ au.delivered \subseteq 1..Records
  /\ au.count \in 0..Records /\ au.anchored \in 0..au.count /\ au.run \in 0..Runs
  /\ Ids(au.wal) \cup Ids(au.file) \subseteq 1..Records

(* The trail survives failures and crashes: no durable record is lost before it is        *)
(* delivered, gaps and latches are kept, every restart opens, the index heals, and anchors *)
(* witness what is there (writer.go, wal.go, verify.go, analytics sink.go).                 *)
AuditKept ==
  /\ AuditTypeOK /\ NothingLost /\ LatchHolds /\ RestartsOpen
  /\ GapsAreRetained /\ IndexHeals /\ AnchorsHold
===============================================================================
