-------------------------- MODULE StreamTranslation --------------------------
(***************************************************************************)
(* One streamed answer on its way from a provider to a client: a reader of *)
(* StreamReaders, the provider's wrapper, and the client's side: an OpenAI *)
(* client is teed the native lines, an Anthropic client the re-rendered    *)
(* chunks, a Responses client either the native events of a Responses      *)
(* provider or the events the renderer makes of canonical chunks.          *)
(*                                                                         *)
(* wire "chat" is a chat-completions provider, "responses" a native one,   *)
(* "canon" a provider that already speaks canonical chunks, in any order.  *)
(***************************************************************************)
EXTENDS StreamReaders

CONSTANTS ChatLines,       \* the data lines a chat-completions upstream may send
          NativeEvents,    \* the events a Responses upstream may send
          CanonChunks,     \* the chunks a canonical upstream may send
          LineCap          \* [wire -> how many of them]

ASSUME StreamAssumption == LineCap \in [{"chat", "responses", "canon"} -> Nat]

VARIABLE tr
(* [wire, ingress, wants, lines, rd, seen, sent, rr, conv, terminal, failed, usage, committed, outcome] *)

------------------------------------------------------------------------------
(* The renderer of canonical chunks into Responses events (StreamState).   *)
NewRenderer == [started |-> FALSE, terminal |-> FALSE, hasTool |-> FALSE, blocks |-> <<>>, order |-> <<>>,
                ignored |-> <<>>, usage |-> "none", stop |-> "", seq |-> 0]
Event(kind, out, phase, items) == [kind |-> kind, out |-> out, phase |-> phase, items |-> items, seq |-> 0]
(* s.event: every event made takes the next sequence number. *)
Stamp(r, evs) == [r |-> [r EXCEPT !.seq = @ + Len(evs)],
                  evs |-> [i \in DOMAIN evs |-> [evs[i] EXCEPT !.seq = r.seq + i - 1]]]
Error(r) == [ok |-> FALSE, r |-> r, evs |-> <<>>]
Ok(r, evs) == [ok |-> TRUE, r |-> r, evs |-> evs]

DefaultPhase(r) == IF r.hasTool THEN "commentary" ELSE "final_answer"
ItemPhase(b, default) == IF b.what = "text" THEN (IF b.phase # "" THEN b.phase ELSE default) ELSE ""
(* outputItem: a tool call's arguments must be one JSON object, a custom   *)
(* tool's must hold its input.                                             *)
Renders(b) == \/ b.what = "text"
              \/ b.what = "tool" /\ b.args \in {"", "object"}
              \/ b.what = "custom" /\ b.args = "object"
Join(args, more) == IF args = "" THEN more ELSE IF more = "" THEN args ELSE "broken"

(* closeBlock: text that may still turn out to be commentary keeps its     *)
(* item open until a tool is known or the response has ended.              *)
Defers(r, b, final) == b.what = "text" /\ b.phase = "" /\ ~r.hasTool /\ ~final
DoneEvent(r, b) == Event("item.done", b.out, ItemPhase(b, DefaultPhase(r)), <<>>)
CloseBlock(r, ix, final) ==
  IF ix \notin DOMAIN r.blocks \/ r.blocks[ix].closed \/ ~Renders(r.blocks[ix]) THEN Error(r)
  ELSE LET b    == r.blocks[ix]
           wait == Defers(r, b, final)
       IN Ok([r EXCEPT !.blocks[ix].closed = TRUE, !.blocks[ix].itemDone = ~wait],
             <<Event("part.done", b.out, "", <<>>)>> \o (IF wait THEN <<>> ELSE <<DoneEvent(r, b)>>))

FinishPending(r) ==
  LET owed == SelectSeq(r.order, LAMBDA ix : r.blocks[ix].closed /\ ~r.blocks[ix].itemDone)
  IN Ok([r EXCEPT !.blocks = [ix \in DOMAIN r.blocks |-> [r.blocks[ix] EXCEPT !.itemDone = @ \/ r.blocks[ix].closed]]],
        [i \in DOMAIN owed |-> DoneEvent(r, r.blocks[owed[i]])])

Then(a, step(_)) == IF ~a.ok THEN a ELSE LET b == step(a.r) IN [b EXCEPT !.evs = a.evs \o @]

StartEvents(r) == IF r.started THEN <<>> ELSE <<Event("created", -1, "", <<>>), Event("in_progress", -1, "", <<>>)>>

(* A block is opened once. *)
UnusedAgain(r, ix) == ix \notin DOMAIN r.ignored
Unused(r, ix) == ix \notin DOMAIN r.blocks \cup DOMAIN r.ignored
BlockStart(r, c) ==
  IF ~Unused(r, c.ix) THEN Error(r)
  ELSE IF c.what = "thinking" THEN Ok([r EXCEPT !.ignored = (c.ix :> FALSE) @@ @], <<>>)
  ELSE IF c.what \notin {"text", "tool", "custom"} THEN Error(r)
  ELSE LET b  == [what |-> c.what, phase |-> IF c.what = "text" THEN c.val ELSE "", args |-> "",
                  out |-> Len(r.order), closed |-> FALSE, itemDone |-> FALSE]
           r1 == [r EXCEPT !.blocks = (c.ix :> b) @@ @, !.order = Append(@, c.ix), !.hasTool = @ \/ c.what # "text"]
           added == <<Event("item.added", b.out, "", <<>>)>>
       IN IF c.what = "text" THEN Ok(r1, added \o <<Event("part.added", b.out, "", <<>>)>>)
          ELSE Then(FinishPending(r1), LAMBDA x : Ok(x, added))

BlockDelta(r, c) ==
  IF c.ix \in DOMAIN r.ignored
  THEN IF r.ignored[c.ix] \/ c.what # "thinking" THEN Error(r) ELSE Ok(r, <<>>)
  ELSE IF c.ix \notin DOMAIN r.blocks \/ r.blocks[c.ix].closed THEN Error(r)
  ELSE LET b == r.blocks[c.ix]
       IN CASE c.what = "text" /\ b.what = "text" -> Ok(r, <<Event("text.delta", b.out, "", <<>>)>>)
            [] c.what = "args" /\ b.what # "text" ->
                 Ok([r EXCEPT !.blocks[c.ix].args = Join(@, c.val)],
                    IF b.what = "custom" THEN <<>> ELSE <<Event("args.delta", b.out, "", <<>>)>>)
            [] OTHER -> Error(r)

BlockStop(r, c) ==
  IF c.ix \in DOMAIN r.ignored
  THEN IF r.ignored[c.ix] THEN Error(r) ELSE Ok([r EXCEPT !.ignored[c.ix] = TRUE], <<>>)
  ELSE CloseBlock(r, c.ix, FALSE)

(* responseObject: the items of the final document. *)
DocumentItems(r) ==
  LET tools == \E ix \in DOMAIN r.blocks : r.blocks[ix].what # "text"
  IN [i \in DOMAIN r.order |-> ItemPhase(r.blocks[r.order[i]], IF tools THEN "commentary" ELSE "final_answer")]
FinalEvent(r) ==
  Event(IF r.stop \in {"max_tokens", "refusal"} THEN "incomplete" ELSE "completed", -1, "", DocumentItems(r))
MessageStop(r) ==
  LET closeAll == FoldLeft(LAMBDA a, ix : Then(a, LAMBDA x : IF x.blocks[ix].closed THEN Ok(x, <<>>) ELSE CloseBlock(x, ix, TRUE)),
                           Ok(r, <<>>), r.order)
  IN IF (\E ix \in DOMAIN r.ignored : ~r.ignored[ix]) \/ ~UsableUsage(r.usage) THEN Error(r)
     ELSE Then(Then(closeAll, FinishPending), LAMBDA x : Ok([x EXCEPT !.terminal = TRUE], <<FinalEvent(x)>>))

(* Convert: one canonical chunk. *)
Convert(r, c) ==
  IF c.kind = "ping" THEN Ok(r, <<>>)
  ELSE IF r.terminal \/ (c.kind = "message_start" /\ r.started) THEN Error(r)
  ELSE LET r1  == [r EXCEPT !.started = TRUE, !.usage = FoldUsage(@, c.usage)]
           res == CASE c.kind = "message_start"       -> Ok(r1, <<>>)
                    [] c.kind = "content_block_start" -> BlockStart(r1, c)
                    [] c.kind = "content_block_delta" -> BlockDelta(r1, c)
                    [] c.kind = "content_block_stop"  -> BlockStop(r1, c)
                    [] c.kind = "message_delta"       -> Ok(IF c.val # "" THEN [r1 EXCEPT !.stop = c.val] ELSE r1, <<>>)
                    [] c.kind = "message_stop"        -> MessageStop(r1)
                    [] c.kind = "error"               -> Ok([r1 EXCEPT !.terminal = TRUE], <<Event("failed", -1, "", <<>>)>>)
                    [] OTHER                          -> Error(r1)
           made == Stamp(res.r, StartEvents(r) \o res.evs)
       IN IF res.ok THEN Ok(made.r, made.evs) ELSE Error(res.r)

------------------------------------------------------------------------------
(* What an OpenAI or Anthropic client is teed of one yield: the usage-only *)
(* frame the gateway asked for itself is withheld, an Anthropic client     *)
(* sees chunks and never a native line.                                    *)
Teed(t, y) ==
  IF t.ingress = "anthropic" THEN y.chunk.kind # "none"
  ELSE y.raw /\ (t.wants \/ ~UsageOnly(y.chunk))

Native(t) == t.wire = "responses"
(* One yield, as the client's handler takes it. *)
Take(t, y) ==
  LET u  == [t EXCEPT !.seen     = IF y.chunk.kind = "none" THEN @ ELSE Append(@, y.chunk),
                      !.usage    = FoldUsage(@, y.chunk.usage),
                      !.terminal = @ \/ y.chunk.kind = "message_stop",
                      !.failed   = @ \/ y.chunk.kind = "error"]
      line == Event("line", Len(t.lines), "", <<>>)
      cv == Convert(t.rr, y.chunk)
  IN IF t.conv \/ t.outcome # "open" THEN u
     ELSE IF t.ingress # "responses"
     THEN IF Teed(t, y) THEN [u EXCEPT !.sent = Append(@, [line EXCEPT !.kind = IF t.ingress = "anthropic" THEN y.chunk.kind ELSE "line"]),
                                       !.committed = TRUE] ELSE u
     ELSE IF Native(t)
     THEN IF y.raw THEN [u EXCEPT !.sent = Append(@, line), !.committed = TRUE] ELSE u
     ELSE IF y.chunk.kind = "none" THEN u
     ELSE IF ~cv.ok THEN [u EXCEPT !.conv = TRUE, !.rr = cv.r]
     ELSE [u EXCEPT !.rr = cv.r, !.sent = @ \o cv.evs, !.committed = @ \/ cv.evs # <<>>]
TakeAll(t, ys) == FoldLeft(Take, t, ys)

(* The stream failed: an open reply gets one error event, a reply not yet  *)
(* begun becomes an HTTP error; a native failure with a recovery code      *)
(* begins the reply so that the client learns the code.                    *)
Fail(t, cause) ==
  [t EXCEPT !.outcome = "failed",
            !.committed = @ \/ (Native(t) /\ cause = "coded"),
            !.sent = IF t.committed \/ (Native(t) /\ cause = "coded")
                     THEN Append(@, Event(IF cause = "coded" THEN "failed" ELSE "error", -1, "", <<>>)) ELSE @]

(* The end of the sequence.  The wrapper turns a cross-protocol stream     *)
(* without one parsed frame into an error; the handler demands a terminal  *)
(* frame, and a Responses client's answer its usage.                       *)
Finish(t) ==
  IF t.ingress # "openai" /\ t.wire = "chat" /\ t.seen = <<>> THEN Fail(t, "empty")
  ELSE IF t.ingress # "responses" THEN [t EXCEPT !.outcome = IF t.terminal /\ ~t.failed THEN "success" ELSE "failed"]
  ELSE IF t.conv \/ (~Native(t) /\ ~t.rr.terminal) \/ ~t.committed \/ ~t.terminal \/ t.failed \/ t.usage = "none"
  THEN Fail(t, "incomplete")
  ELSE [t EXCEPT !.outcome = "success"]

------------------------------------------------------------------------------
Reading(wire) == tr.wire = wire /\ tr.outcome = "open"
More(wire) == Reading(wire) /\ Len(tr.lines) < LineCap[wire]
Logged(x) == [tr EXCEPT !.lines = Append(@, x)]

ChatData ==
  /\ More("chat")
  /\ \E f \in ChatLines :
       LET r == ReadLine(tr.rd, f) IN tr' = TakeAll([Logged(f) EXCEPT !.rd = r.rd], r.ys)

(* A line "data:" with nothing behind it. *)
BlankLine == [parses |-> FALSE, choices |-> 0, index |-> 0, text |-> FALSE, tools |-> <<>>, finish |-> "",
              usage |-> "none", error |-> FALSE, delim |-> TRUE]
ChatEmptyData ==
  /\ More("chat")
  /\ LET r == ReadEmpty(tr.rd, TRUE) IN tr' = TakeAll([Logged(BlankLine) EXCEPT !.rd = r.rd], r.ys)

DoneLine == [BlankLine EXCEPT !.finish = "[DONE]"]
ChatSentinel ==
  /\ More("chat")
  /\ LET r == ReadDone(tr.rd) IN tr' = TakeAll([Logged(DoneLine) EXCEPT !.rd = r.rd], r.ys)

ChatEnds ==
  /\ Reading("chat")
  /\ \E whole \in BOOLEAN : tr' = Finish(TakeAll(tr, ReadEnd(tr.rd, whole)))

NativeEvent ==
  /\ More("responses")
  /\ \E v \in NativeEvents :
       LET r == ReadEvent(v)
           t == TakeAll(Logged(v), r.ys)
       IN tr' = IF r.err # "" THEN Fail(t, r.err) ELSE IF r.over THEN Finish(t) ELSE t

CanonChunk ==
  /\ More("canon") /\ ~tr.conv
  /\ \E c \in CanonChunks : tr' = Take(Logged(c), Yield(FALSE, c))
CanonEnds == Reading("canon") /\ tr' = Finish(tr)

(* The connection breaks; on the native wire an end of file without a      *)
(* terminal event is an error as well (ErrTruncated).                      *)
StreamBreaks == tr.outcome = "open" /\ tr' = Fail(tr, "interrupted")

InitStreams ==
  \E w \in {"chat", "responses", "canon"}, g \in {"openai", "anthropic", "responses"}, wants \in BOOLEAN :
    /\ (w # "chat" => g = "responses") /\ (g # "openai" => ~wants)
    /\ tr = [wire |-> w, ingress |-> g, wants |-> wants, lines |-> <<>>, rd |-> NewReader, seen |-> <<>>, sent |-> <<>>,
             rr |-> NewRenderer, conv |-> FALSE, terminal |-> FALSE, failed |-> FALSE, usage |-> "none",
             committed |-> FALSE, outcome |-> "open"]
NextStreams ==
  ChatData \/ ChatEmptyData \/ ChatSentinel \/ ChatEnds \/ NativeEvent \/ CanonChunk \/ CanonEnds \/ StreamBreaks

------------------------------------------------------------------------------
Occurs(kind, s) == {i \in DOMAIN s : s[i].kind = kind}

(* On the canonical view of a chat stream every block that was opened has  *)
(* been closed by the time a message-level frame or the end is announced,  *)
(* however tool fragments, text and finish reasons were batched            *)
(* (openai/sse.go closeOpenBlocks).                                        *)
BlocksClosed ==
  tr.wire = "chat" =>
    \A k \in Occurs("message_delta", tr.seen) \cup Occurs("message_stop", tr.seen) :
      \A i \in Occurs("content_block_start", tr.seen) :
        i < k => \E j \in i .. k : tr.seen[j].kind = "content_block_stop" /\ tr.seen[j].ix = tr.seen[i].ix

(* A chat stream's canonical view opens with its one message_start and     *)
(* never announces the end of a message without a frame a client can read  *)
(* the stop from.                                                          *)
TurnsFramed ==
  tr.wire = "chat" =>
    /\ tr.seen # <<>> => Occurs("message_start", tr.seen) = {1}
    /\ \A k \in Occurs("message_stop", tr.seen) : \E j \in Occurs("message_delta", tr.seen) : j < k

(* Whether the lines of a chat stream prove by themselves that the answer  *)
(* is whole: every line sound and delimited, a valid finish reason, no     *)
(* content behind it, and complete counts in that line or a later one.     *)
SelfEvident(ls) ==
  /\ \A k \in DOMAIN ls : ls[k].parses /\ ls[k].delim /\ ls[k].choices <= 1 /\ ~ls[k].error /\ ls[k].index = 0
                          /\ ls[k].usage \in {"none", "whole"} /\ (ls[k].choices = 1 \/ ls[k].usage = "whole")
  /\ \E i \in DOMAIN ls :
       /\ ls[i].choices = 1 /\ ls[i].finish \in Finishes
       /\ \E j \in i .. Len(ls) : ls[j].usage = "whole"
       /\ \A k \in DOMAIN ls : /\ k < i => ls[k].finish = ""
                               /\ k > i => ~ls[k].text /\ ls[k].tools = <<>> /\ ls[k].finish = ""
SaidDone(ls) == \E k \in DOMAIN ls : ls[k].finish = "[DONE]"

(* Without the sentinel, a chat stream is taken as finished only when its  *)
(* own lines prove it: truncation never reads as a completed turn.         *)
EndIsProved ==
  (tr.wire = "chat" /\ Occurs("message_stop", tr.seen) # {}) => SaidDone(tr.lines) \/ SelfEvident(tr.lines)

Announced == Occurs("completed", tr.sent) \cup Occurs("incomplete", tr.sent)
(* A Responses client told that its answer is complete has received every  *)
(* item's end exactly once, before the announcement, under consecutive     *)
(* sequence numbers, whatever order the provider's blocks came in.         *)
ItemsBalanced ==
  \A k \in Announced :
    /\ \A i \in 1 .. k : tr.sent[i].seq = i - 1
    /\ \A a \in Occurs("item.added", tr.sent) :
         a < k /\ Cardinality({d \in Occurs("item.done", tr.sent) : d < k /\ tr.sent[d].out = tr.sent[a].out}) = 1
    /\ \A d \in Occurs("item.done", tr.sent) : \E p \in Occurs("part.done", tr.sent) : p < d /\ tr.sent[p].out = tr.sent[d].out

(* The phase an item was announced with is the phase the final document    *)
(* gives it: text is called the answer only if no tool call followed.      *)
PhaseAgrees ==
  \A k \in Announced : \A d \in Occurs("item.done", tr.sent) :
    tr.sent[d].phase = tr.sent[k].items[tr.sent[d].out + 1]

(* Success is never inferred: the attempt counts as served only if the     *)
(* upstream ended its answer explicitly (or provably) and, for a Responses *)
(* client, its counts are known and usable.                                *)
SuccessIsExplicit ==
  (tr.outcome = "success" \/ Announced # {}) =>
    CASE tr.wire = "chat"      -> (SaidDone(tr.lines) \/ SelfEvident(tr.lines))
                                  /\ (tr.ingress = "responses" => UsableUsage(tr.rr.usage))
      [] tr.wire = "canon"     -> Occurs("message_stop", tr.lines) # {} /\ UsableUsage(tr.rr.usage)
      [] tr.wire = "responses" -> LET last == tr.lines[Len(tr.lines)]
                                  IN last.ev = "completed" /\ last.ok /\ UsableUsage(last.usage)

(* An OpenAI client sees every native line exactly once and in order, save *)
(* the usage frames it did not ask for; an Anthropic client sees exactly   *)
(* the canonical frames, never a native line.                              *)
TeeIsFaithful ==
  LET asked(f) == tr.wants \/ ~(f.parses /\ ToCanonical(f) # <<>> /\ UsageOnly(ToCanonical(f)[1]))
      wanted   == {n \in DOMAIN tr.lines : tr.lines[n] # BlankLine /\ asked(tr.lines[n])}
      given    == [i \in DOMAIN tr.sent |-> tr.sent[i].out]
  IN /\ (tr.wire = "chat" /\ tr.ingress = "openai" /\ tr.outcome = "open") => given = SetToSortSeq(wanted, <)
     /\ (tr.wire = "chat" /\ tr.ingress = "anthropic" /\ tr.outcome = "open") =>
          [i \in DOMAIN tr.sent |-> tr.sent[i].kind] = [i \in DOMAIN tr.seen |-> tr.seen[i].kind]

(* The type of the state, and that a reply not begun has sent nothing.     *)
StreamsTypeOK ==
  /\ tr.outcome \in {"open", "failed", "success"} /\ tr.usage \in {"none", "partial", "whole", "negative"}
  /\ tr.rd.open \subseteq 0 .. 3 /\ DOMAIN tr.rr.blocks \cap DOMAIN tr.rr.ignored = {}
  /\ Len(tr.rr.order) = Cardinality(DOMAIN tr.rr.blocks) /\ (tr.sent # <<>> <=> tr.committed)

(* Whatever the provider sends and wherever it stops, the client gets whole *)
(* blocks, turns and items in one order, native lines only verbatim, and a *)
(* turn counts as complete, and is settled as a success, only on the       *)
(* provider's word (sse.go of openai and of responses).                    *)
StreamsHold ==
  /\ StreamsTypeOK /\ BlocksClosed /\ TurnsFramed
  /\ ItemsBalanced /\ PhaseAgrees /\ TeeIsFaithful
  /\ EndIsProved /\ SuccessIsExplicit
==============================================================================
