---------------------------- MODULE ExportPipeline ----------------------------
(***************************************************************************)
(* The log pipeline of one exporter: emitters reserve bytes and hand items *)
(* to a bounded channel, one goroutine batches them, checks the runtime    *)
(* limits again before a batch leaves, retries a collector that is         *)
(* unavailable, counts every item once and gives its bytes back.  Shutdown *)
(* flushes until its deadline.                                             *)
(***************************************************************************)
EXTENDS ExportLimits, UnitSums, Sequences, SequencesExt

CONSTANTS Items, SignalOf, SizeOf, Ceiling,
          QueueBytes, QueueItems, BatchItems, BatchBytes, Retries,
          PipelineLimits,   \* limits an operator may install
          LimitEdits

ASSUME PipelineAssumption ==
  /\ QueueBytes \in Nat /\ QueueItems \in Nat \ {0} /\ BatchItems \in Nat \ {0} /\ BatchBytes \in Nat
  /\ Retries \in Nat /\ LimitEdits \in Nat
  /\ IsFiniteSet(Items) /\ \A i \in Items : SizeOf[i] \in Nat

VARIABLE ep

SizesIn(set) == Total([i \in Items |-> IF i \in set THEN SizeOf[i] ELSE 0])
Sizes(items) == SizesIn(Range(items))
Among(stage) == {i \in Items : ep.at[i] = stage}
Counted(pipe, items, outcome) ==
  [pipe EXCEPT !.at = [i \in Items |-> IF i \in items THEN outcome ELSE @[i]],
               !.counts = [i \in Items |-> IF i \in items THEN @[i] + 1 ELSE @[i]]]
SendOutcomes == {"sent", "queue_full", "oversize", "export_error", "withheld"}

-------------------------------------------------------------------------------
(* SetLimits installs a normalized limit at any moment. *)
SetLimits(limit) ==
  /\ ep.edits < LimitEdits /\ Normalizable(Ceiling, limit)
  /\ ep' = [ep EXCEPT !.limit = Normalize(Ceiling, limit), !.edits = @ + 1]

(* EmitContent and emit: the content cap, the ceiling and the limits decide; the item then *)
(* goes to the queue.                                                                      *)
Oversize(i) == SignalOf[i] = "content" /\ SizeOf[i] > ContentLimit(Ceiling, ep.limit)
EmitRefused(i) ==
  /\ ep.at[i] = "new" /\ (Oversize(i) \/ ~Allowed(Ceiling, ep.limit, SignalOf[i]))
  /\ ep' = Counted(ep, {i}, IF Oversize(i) THEN "oversize"
                            ELSE IF SignalOf[i] \in Ceiling.signals THEN "withheld" ELSE "export_error")
Emit(i) ==
  /\ ep.at[i] = "new" /\ ~Oversize(i) /\ Allowed(Ceiling, ep.limit, SignalOf[i])
  /\ ep' = [ep EXCEPT !.at[i] = "emitted"]

(* enqueue: a stopped pipeline turns the item away, unless it was asked before the stop.   *)
(* Bytes are reserved first and given back when the item does not fit; until then the      *)
(* reservation may turn other items away.                                                  *)
EnqueueStopped(i) == ep.at[i] = "emitted" /\ ep.stopped /\ ep' = Counted(ep, {i}, "queue_full")
Admits(i) == ep.at[i] = "emitted" /\ (~ep.stopped \/ i \in ep.racing)
ReserveSlot(i) ==
  /\ Admits(i) /\ ep.queued + SizeOf[i] <= QueueBytes
  /\ ep' = [ep EXCEPT !.at[i] = "reserved", !.queued = @ + SizeOf[i]]
ReserveOver(i) ==
  /\ Admits(i) /\ ep.queued + SizeOf[i] > QueueBytes
  /\ ep' = [ep EXCEPT !.at[i] = "over", !.queued = @ + SizeOf[i]]
ReserveFull(i) ==
  /\ ep.at[i] = "over"
  /\ ep' = [Counted(ep, {i}, "queue_full") EXCEPT !.queued = @ - SizeOf[i]]
Send(i) ==
  /\ ep.at[i] = "reserved" /\ Len(ep.ch) < QueueItems
  /\ ep' = [ep EXCEPT !.at[i] = "queued", !.ch = Append(@, i)]
SendFull(i) ==
  /\ ep.at[i] = "reserved" /\ Len(ep.ch) >= QueueItems
  /\ ep' = [Counted(ep, {i}, "queue_full") EXCEPT !.queued = @ - SizeOf[i]]

-------------------------------------------------------------------------------
(* run: an item that would overfill the batch sends the batch first; a full batch, the     *)
(* ticker and the end of the drain send it too.                                            *)
Overfills(i) == ep.batch # <<>> /\ Sizes(ep.batch) + SizeOf[i] > BatchBytes
TakeItem ==
  /\ ep.stage = "run" /\ ep.ch # <<>> /\ ~Overfills(Head(ep.ch)) /\ Len(ep.batch) < BatchItems
  /\ ep' = [ep EXCEPT !.ch = Tail(@), !.batch = Append(@, Head(ep.ch)), !.at[Head(ep.ch)] = "batched"]

(* export: the whole batch's bytes come back, and what the limits no longer carry is       *)
(* withheld before the first attempt.                                                      *)
Recheck(batch) == {i \in Range(batch) : Carries(ep.limit, SignalOf[i])}
BatchSize(batch) == Sizes(batch)
Export ==
  LET kept == Recheck(ep.batch)
  IN  /\ ep.stage = "run" /\ ep.batch # <<>>
      /\ ep' = [Counted(ep, Range(ep.batch) \ kept, "withheld") EXCEPT
                  !.batch = <<>>, !.exporting = kept, !.returns = BatchSize(ep.batch), !.attempt = 0,
                  !.carried = {s \in Ceiling.signals : Carries(ep.limit, s)},
                  !.stage = IF kept = {} THEN "returning" ELSE "attempting"]
Settles(outcome) ==
  [Counted(ep, ep.exporting, outcome) EXCEPT !.exporting = {}, !.stage = "returning"]
AttemptSent == ep.stage = "attempting" /\ ~ep.cancelled /\ ep' = Settles("sent")
AttemptRetriesForever ==
  ep.stage = "attempting" /\ ~ep.cancelled /\ ep' = [ep EXCEPT !.attempt = (@ + 1) % (Retries + 1)]
AttemptRetries ==
  /\ ep.stage = "attempting" /\ ~ep.cancelled /\ ep.attempt < Retries
  /\ ep' = [ep EXCEPT !.attempt = @ + 1]
AttemptFails(permanent) ==
  /\ ep.stage = "attempting" /\ (ep.cancelled \/ permanent \/ ep.attempt >= Retries)
  /\ ep' = Settles("export_error")
ReturnBytes ==
  /\ ep.stage = "returning"
  /\ ep' = [ep EXCEPT !.queued = @ - ep.returns, !.returns = 0, !.attempt = 0, !.carried = {}, !.stage = "run"]

-------------------------------------------------------------------------------
(* shutdown: the queue drains, and the deadline cuts the attempts short.  Emitters that    *)
(* are in enqueue at the stop (racing) may go on, even when the loop has returned.         *)
Shutdown ==
  /\ ~ep.stopped
  /\ ep' = [ep EXCEPT !.stopped = TRUE,
                      !.racing = Among("emitted") \cup Among("over") \cup Among("reserved")]
Deadline == ep.stopped /\ ~ep.cancelled /\ ep.stage # "done" /\ ep' = [ep EXCEPT !.cancelled = TRUE]
RunReturnsAtOnce ==
  ep.stage = "run" /\ ep.stopped /\ ep.batch = <<>> /\ ep' = [ep EXCEPT !.stage = "done"]
RunReturns ==
  /\ ep.stage = "run" /\ ep.stopped /\ ep.ch = <<>> /\ ep.batch = <<>>
  /\ ep' = [ep EXCEPT !.stage = "done"]

-------------------------------------------------------------------------------
InitPipeline ==
  ep = [limit |-> NoLimit, edits |-> 0, at |-> [i \in Items |-> "new"], counts |-> [i \in Items |-> 0],
        queued |-> 0, ch |-> <<>>, batch |-> <<>>, exporting |-> {}, returns |-> 0, attempt |-> 0,
        carried |-> {}, stage |-> "run", stopped |-> FALSE, racing |-> {}, cancelled |-> FALSE]
Loop == TakeItem \/ Export \/ AttemptSent \/ AttemptRetries \/ ReturnBytes \/ RunReturns
        \/ \E permanent \in BOOLEAN : AttemptFails(permanent)
NextPipeline ==
  \/ Loop \/ Shutdown \/ Deadline
  \/ \E limit \in PipelineLimits : SetLimits(limit)
  \/ \E i \in Items : EmitRefused(i) \/ Emit(i) \/ EnqueueStopped(i) \/ ReserveSlot(i) \/ ReserveOver(i)
                    \/ ReserveFull(i) \/ Send(i) \/ SendFull(i)

PipelineSpec == InitPipeline /\ [][NextPipeline]_ep

-------------------------------------------------------------------------------
(* Reserved bytes are exactly those of the items still held: no outcome, full queue or     *)
(* withheld item leaks room that no later item could use (queued, export's deferred Add).  *)
Holding == Among("over") \cup Among("reserved") \cup Among("queued") \cup Among("batched")
BytesReturn ==
  /\ ep.queued >= SizesIn(Holding)
  /\ ep.stage \in {"run", "done"} => ep.queued = SizesIn(Holding)

(* No item leaves once a limit withholds its signal: what was queued before the edit is    *)
(* stopped at the batch (recheck).                                                         *)
WithheldAtTheDoor == \A i \in ep.exporting : SignalOf[i] \in ep.carried

(* Every item is counted once: never twice, and when the loop has returned no item that    *)
(* had entered the queue is left without an outcome, though batches failed or were cut by  *)
(* the deadline; only one whose enqueue the stop overtook may be.                          *)
CountedExactlyOnce ==
  /\ \A i \in Items : ep.counts[i] <= 1 /\ (ep.counts[i] = 1 <=> ep.at[i] \in SendOutcomes)
  /\ ep.stage = "done" => \A i \in Items \ ep.racing : ep.at[i] \in SendOutcomes \cup {"new", "emitted"}

(* Every queued item leaves: the collector may be down for good, the retries end and the   *)
(* item gets its outcome, unless the stop overtook its enqueue.  Fair is the pipeline's    *)
(* own goroutine: its ticker, its channel and the timeout of each attempt keep it moving.  *)
QueuedLeaves == \A i \in Items : ep.at[i] = "queued" /\ i \notin ep.racing ~> ep.at[i] \in SendOutcomes

PipelineTypeOK ==
  /\ ep.queued \in 0..(QueueBytes + SizesIn(Among("over"))) /\ Len(ep.ch) <= QueueItems /\ Len(ep.batch) <= BatchItems
  /\ ep.attempt \in 0..Retries /\ ep.stage \in {"run", "attempting", "returning", "done"}
  /\ Sizes(ep.batch) <= BatchBytes \/ Len(ep.batch) <= 1

(* Whatever leaves the queue, and on whichever way, is counted once, gives its bytes back *)
(* and goes out only if the limits in force let it (pipeline.go run, export, recheck).    *)
ExportAccounted == PipelineTypeOK /\ CountedExactlyOnce /\ BytesReturn /\ WithheldAtTheDoor
===============================================================================
