----------------------------- MODULE UsageWindows -----------------------------
(***************************************************************************)
(* Usage telemetry: a data plane folds what its requests used into a       *)
(* window, closes the window on a timer, keeps closed windows in a bounded *)
(* buffer and posts them oldest first to the control plane, which replaces *)
(* the window's rows in PostgreSQL and then in memory.  Requests and       *)
(* replies are lost or late, the store fails, the clock steps back, and    *)
(* either side restarts.  A reader is answered from PostgreSQL, or from    *)
(* memory with the answer marked as degraded.                              *)
(***************************************************************************)
EXTENDS Naturals, Sequences, FiniteSets, SequencesExt

CONSTANTS Uses,             \* requests whose usage is recorded
          BufferCap,        \* usageBufferCap
          EntryBound,       \* maxEntryValue, in recorded requests
          Instants,         \* clock readings
          Retention,        \* how far back the memory aggregator reaches
          WireFaults        \* lost replies, outages and restarts in all

ASSUME UsageAssumption ==
  Uses \in Nat /\ BufferCap \in Nat \ {0} /\ EntryBound \in Nat \ {0} /\ Instants \in Nat \ {0}
  /\ Retention \in Nat /\ WireFaults \in Nat

VARIABLE us

Starts == 1..(Instants + Uses + WireFaults)
Backlog(buf) == UNION {buf[i].uses : i \in DOMAIN buf}
Window(start, end, uses) == [start |-> start, end |-> end, uses |-> uses]
Fault == us.faults < WireFaults
Faulted == us.faults + 1

-------------------------------------------------------------------------------
(* Record: the usage joins the open window. *)
RecordUse ==
  /\ us.made < Uses
  /\ us' = [us EXCEPT !.made = @ + 1, !.bucket = @ \cup {us.made + 1}]

(* Drain: the next window starts strictly after this one, whatever the clock says; an      *)
(* empty window is not sent.                                                               *)
WindowEnd(now) == IF now > us.start THEN now ELSE us.start + 1
NextStart(now) == WindowEnd(now)

(* Tick: at capacity the oldest window is dropped before the new one is kept, then the     *)
(* backlog is posted from its oldest window.                                               *)
BufferedAlways(buf, window) == Append(buf, window)
Buffered(buf, window) == Append(IF Len(buf) >= BufferCap THEN Tail(buf) ELSE buf, window)
Overflow(buf) == IF Len(buf) >= BufferCap THEN Head(buf).uses ELSE {}
TickEmpty(now) ==
  /\ us.tick = "idle" /\ us.bucket = {}
  /\ us' = [us EXCEPT !.start = NextStart(now), !.now = now, !.tick = "posting"]
Tick(now) ==
  /\ us.tick = "idle" /\ us.bucket # {}
  /\ us' = [us EXCEPT !.start = NextStart(now), !.now = now, !.bucket = {}, !.tick = "posting",
                      !.buf = Buffered(@, Window(us.start, WindowEnd(now), us.bucket)),
                      !.dropped = @ \cup Overflow(us.buf),
                      !.overflowed = @ \cup Overflow(us.buf)]

Post ==
  /\ us.tick = "posting" /\ us.buf # <<>>
  /\ us' = [us EXCEPT !.tick = "waiting", !.wire = @ \cup {Head(us.buf)}]
FlushDone == us.tick = "posting" /\ us.buf = <<>> /\ us' = [us EXCEPT !.tick = "idle"]

(* post's verdict: 2xx and permanent refusals take the window off the buffer, anything     *)
(* else keeps it for the next tick.                                                        *)
Retryable(code) == code \in {"timeout", "busy", "error"}
UsageReply(code) ==
  [us EXCEPT !.tick = IF Retryable(code) THEN "idle" ELSE "posting",
             !.buf = IF Retryable(code) THEN @ ELSE Tail(@),
             !.acked = IF code = "ok" THEN @ \cup Head(us.buf).uses ELSE @,
             !.dropped = IF code # "ok" /\ ~Retryable(code) THEN @ \cup Head(us.buf).uses ELSE @]
GiveUp == us.tick = "waiting" /\ Fault /\ us' = [UsageReply("timeout") EXCEPT !.faults = Faulted]

-------------------------------------------------------------------------------
(* handleIngest: the batch is validated, PostgreSQL commits the replacement, and only then *)
(* does memory follow; a store failure is an error the data plane retries.                 *)
Validate(window) == window.start < window.end /\ Cardinality(window.uses) <= EntryBound
PgUpsertAppending(rows, window) == [rows EXCEPT ![window.start] = Append(@, window.uses)]
PgUpsert(rows, window) == [rows EXCEPT ![window.start] = <<window.uses>>]
Kept(rows) == [s \in Starts |-> IF s + Retention < us.now THEN <<>> ELSE rows[s]]
MemUpsert(rows, window) == Kept([rows EXCEPT ![window.start] = <<window.uses>>])
Waiting(window) == us.tick = "waiting" /\ Head(us.buf) = window
QueryAnswered(window, code) == IF Waiting(window) THEN UsageReply(code) ELSE us
Refuse(window) ==
  /\ window \in us.wire /\ ~Validate(window)
  /\ us' = [QueryAnswered(window, "rejected") EXCEPT !.wire = @ \ {window}]
Ingested(window, commits) ==
  LET answered == QueryAnswered(window, IF commits THEN "ok" ELSE "error")
  IN  [answered EXCEPT !.wire = @ \ {window},
                       !.mem = IF commits THEN MemUpsert(@, window) ELSE @,
                       !.pg = IF commits THEN PgUpsert(@, window) ELSE @]
Ingest(window) == window \in us.wire /\ Validate(window) /\ us' = Ingested(window, TRUE)
IngestFails(window) ==
  window \in us.wire /\ Validate(window) /\ Fault /\ us' = [Ingested(window, FALSE) EXCEPT !.faults = Faulted]
Throttled(window) ==
  /\ window \in us.wire /\ Waiting(window) /\ Fault
  /\ us' = [UsageReply("busy") EXCEPT !.wire = @ \ {window}, !.faults = Faulted]

-------------------------------------------------------------------------------
(* Either side restarts: the data plane loses its open window and its backlog, the control *)
(* plane its memory.  A new process reads a clock past its predecessor's windows.          *)
RestartDataPlane ==
  /\ Fault
  /\ us' = [us EXCEPT !.faults = Faulted, !.tick = "idle", !.bucket = {}, !.buf = <<>>,
                      !.start = us.start + 1,
                      !.lost = @ \cup us.bucket \cup Backlog(us.buf)]
RestartControlPlane ==
  Fault /\ us' = [us EXCEPT !.faults = Faulted, !.mem = [s \in Starts |-> <<>>]]

(* Query: PostgreSQL's rows, or memory's with the answer marked. *)
UsesOf(rows) == UNION {UNION Range(rows[s]) : s \in Starts}
Query(pgUp) == [degraded |-> ~pgUp, uses |-> UsesOf(IF pgUp THEN us.pg ELSE us.mem)]
Ask(pgUp) ==
  /\ us.asked = 0 /\ us' = [us EXCEPT !.asked = 1, !.answer = Query(pgUp), !.ackedThen = us.acked]

-------------------------------------------------------------------------------
InitUsage ==
  us = [made |-> 0, bucket |-> {}, start |-> 1, now |-> 1, buf |-> <<>>, tick |-> "idle", wire |-> {},
        pg |-> [s \in Starts |-> <<>>], mem |-> [s \in Starts |-> <<>>],
        acked |-> {}, dropped |-> {}, overflowed |-> {}, lost |-> {}, faults |-> 0,
        asked |-> 0, answer |-> [degraded |-> TRUE, uses |-> {}], ackedThen |-> {}]
NextUsage ==
  \/ RecordUse \/ Post \/ FlushDone \/ GiveUp \/ RestartDataPlane \/ RestartControlPlane
  \/ \E now \in 1..Instants : Tick(now) \/ (TickEmpty(now) /\ us.buf # <<>>)
  \/ \E window \in us.wire : Ingest(window) \/ IngestFails(window) \/ Refuse(window) \/ Throttled(window)
  \/ \E pgUp \in BOOLEAN : Ask(pgUp)
UsageSpec == InitUsage /\ [][NextUsage]_us

-------------------------------------------------------------------------------
(* Usage is billed once: however often a window is posted again because an answer was      *)
(* late or lost, each request's usage is in the durable rows at most once.                 *)
CountedOnce ==
  LET stored == {s \in Starts : us.pg[s] # <<>>}
  IN  \A s, t \in stored : \A i \in DOMAIN us.pg[s], j \in DOMAIN us.pg[t] :
        us.pg[s][i] \cap us.pg[t][j] # {} => s = t /\ i = j

(* Usage never vanishes: it is in the open window, in the backlog, in the durable rows, or *)
(* was reported dropped at the buffer's limit or by a refusal, or died with the process.   *)
UsageAccounted ==
  1..us.made \subseteq us.bucket \cup Backlog(us.buf) \cup UsesOf(us.pg) \cup us.dropped \cup us.lost

(* An answer that is not marked degraded holds everything the control plane had            *)
(* acknowledged by then.                                                                   *)
AnswersAreHonest == us.answer.degraded \/ us.ackedThen \subseteq us.answer.uses

(* Memory never shows usage PostgreSQL does not hold: a degraded answer may lag, and never *)
(* reports what a retry could still lose (Upsert commits PostgreSQL first).                *)
MemoryBehind == UsesOf(us.mem) \subseteq UsesOf(us.pg)

(* What the store merely could not take yet is not given up: beside the buffer's overflow  *)
(* only a batch past the entry bound is dropped, never one that met an outage.             *)
OutagesDropNothing ==
  us.dropped \subseteq us.overflowed \/ Cardinality(us.dropped \ us.overflowed) > EntryBound

UsageTypeOK ==
  /\ Len(us.buf) <= BufferCap /\ us.start \in Starts
  /\ us.tick \in {"idle", "posting", "waiting"}
  /\ us.acked \cup us.dropped \cup us.lost \subseteq 1..Uses
  /\ \A i \in DOMAIN us.buf : us.buf[i].start < us.buf[i].end

(* Every use is counted once or accounted for as lost, and answers and memory never claim *)
(* more than the durable rows (collector.go, usagepush.go, telemetry/postgres.go).          *)
UsageKept ==
  /\ UsageTypeOK /\ CountedOnce /\ UsageAccounted
  /\ OutagesDropNothing /\ MemoryBehind /\ AnswersAreHonest
===============================================================================
