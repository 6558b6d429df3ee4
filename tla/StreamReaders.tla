---------------------------- MODULE StreamReaders ----------------------------
(***************************************************************************)
(* The upstream side of a streamed answer: two readers that turn a         *)
(* provider's event stream into canonical chunks.  The chat-completions    *)
(* wire has neither message frames nor block frames, so its reader invents *)
(* them; the Responses wire is passed through verbatim and observed.  A    *)
(* reader's result is a sequence of yields [raw, chunk]: raw says that the *)
(* native bytes ride on this yield, chunk is the canonical view.           *)
(***************************************************************************)
EXTENDS Integers, Sequences, FiniteSets, SequencesExt

Chunk(kind, ix, what, val, usage) ==
  [kind |-> kind, ix |-> ix, what |-> what, val |-> val, usage |-> usage]
Bare(kind) == Chunk(kind, -1, "", "", "none")
NoChunk == Bare("none")
Yield(raw, c) == [raw |-> raw, chunk |-> c]

(* Token counts: none, the prompt count alone, complete, or complete and   *)
(* negative.  Counts are folded field by field, the later one winning.     *)
FoldUsage(acc, next) ==
  IF next = "none" \/ (next = "partial" /\ acc # "none") THEN acc ELSE next
UsableUsage(u) == u = "whole"

(***************************************************************************)
(* The chat-completions wire.  A line is [parses, choices, index, text,    *)
(* tools, finish, usage, error, delim]; tools is a sequence of fragments   *)
(* [ix, named, args], delim says that a blank line closed the event.       *)
(***************************************************************************)
Finishes == {"stop", "length", "tool_calls"}
StopOf(finish) == CASE finish = "length" -> "max_tokens" [] finish = "tool_calls" -> "tool_use" [] OTHER -> "end_turn"

ToolFrames(f, tc) ==
  (IF tc.named THEN <<Chunk("content_block_start", tc.ix + 1, "tool", "", "none")>> ELSE <<>>)
  \o (IF tc.args # "" THEN <<Chunk("content_block_delta", tc.ix + 1, "args", tc.args, "none")>> ELSE <<>>)

(* ChunkToCanonical: every part of a frame converts, in stream order, and  *)
(* the counts ride on the first of them.                                   *)
ToCanonical(f) ==
  LET text  == IF f.text THEN <<Chunk("content_block_delta", f.index, "text", "", "none")>> ELSE <<>>
      tools == FlattenSeq([i \in DOMAIN f.tools |-> ToolFrames(f, f.tools[i])])
      end   == IF f.finish # "" THEN <<Chunk("message_delta", -1, "stop", StopOf(f.finish), "none")>> ELSE <<>>
      parts == IF f.choices > 0 THEN text \o tools \o end ELSE <<>>
  IN IF parts # <<>> THEN [parts EXCEPT ![1].usage = f.usage]
     ELSE IF f.usage # "none" THEN <<Chunk("message_delta", -1, "", "", f.usage)>> ELSE <<>>

UsageOnly(c) == c.kind = "message_delta" /\ c.usage # "none" /\ c.what = ""

(* chatSSEEOF.observe: what would let a clean end of file finish a stream  *)
(* that never said [DONE].                                                 *)
Malformed(f) == ~f.parses \/ f.choices > 1 \/ (f.choices = 0 /\ f.usage = "none") \/ f.error
BadChoice(e, f) ==
  f.choices > 0 /\ \/ f.index # 0
                   \/ e.finished /\ (f.text \/ f.tools # <<>> \/ f.finish # "")
                   \/ f.finish \notin Finishes \cup {""}
ObserveEarly(e, f) ==
  IF e.invalid \/ Malformed(f) \/ BadChoice(e, f) THEN [e EXCEPT !.invalid = TRUE]
  ELSE LET fin == e.finished \/ (f.choices > 0 /\ f.finish # "")
       IN IF f.usage \in {"partial", "negative"} THEN [e EXCEPT !.finished = fin, !.invalid = TRUE]
          ELSE [e EXCEPT !.finished = fin, !.usage = @ \/ f.usage = "whole"]
Observe(e, f) ==
  IF e.invalid \/ Malformed(f) \/ BadChoice(e, f) THEN [e EXCEPT !.invalid = TRUE]
  ELSE LET fin == e.finished \/ (f.choices > 0 /\ f.finish # "")
       IN IF f.usage \in {"partial", "negative"} THEN [e EXCEPT !.finished = fin, !.invalid = TRUE]
          ELSE IF f.usage = "whole" THEN [e EXCEPT !.finished = fin, !.usage = fin]
          ELSE [e EXCEPT !.finished = fin]

NewReader == [open |-> {}, started |-> FALSE, sawDelta |-> FALSE, done |-> FALSE, pending |-> FALSE,
              eof |-> [finished |-> FALSE, usage |-> FALSE, invalid |-> FALSE]]

(* startMessage and closeOpenBlocks. *)
Starts(rd) == IF rd.started THEN <<>> ELSE <<Yield(FALSE, Bare("message_start"))>>
CloseOpen(rd) ==
  LET s == SetToSortSeq(rd.open, <)
  IN [i \in DOMAIN s |-> Yield(FALSE, Chunk("content_block_stop", s[i], "", "", "none"))]

(* One canonical chunk of a line: the message is opened lazily, a text     *)
(* block by its first delta, and every block is closed before a message-   *)
(* level frame.  The raw line rides on the first chunk only.               *)
ReadChunk(acc, raw, c) ==
  LET rd      == acc.rd
      opened  == IF c.kind = "content_block_start" THEN rd.open \cup {c.ix} ELSE rd.open
      implied == c.kind = "content_block_delta" /\ c.what = "text" /\ c.ix \notin opened
      ends    == c.kind = "message_delta"
  IN [rd |-> [rd EXCEPT !.started = TRUE, !.sawDelta = @ \/ ends,
                        !.open = IF ends THEN {} ELSE IF implied THEN opened \cup {c.ix} ELSE opened],
      ys |-> acc.ys \o Starts(rd)
             \o (IF implied THEN <<Yield(FALSE, Chunk("content_block_start", c.ix, "text", "", "none"))>> ELSE <<>>)
             \o (IF ends THEN CloseOpen(rd) ELSE <<>>)
             \o <<Yield(raw, c)>>]

(* Which of a line's chunks the raw bytes ride on. *)
Rides(i) == i = 1

ReadLine(rd, f) ==
  LET chunks == IF f.parses THEN ToCanonical(f) ELSE <<>>
      eof    == Observe([rd.eof EXCEPT !.invalid = @ \/ rd.pending], f)
      rd1    == [rd EXCEPT !.pending = ~f.delim, !.eof = eof]
  IN IF chunks = <<>> THEN [rd |-> rd1, ys |-> <<Yield(TRUE, NoChunk)>>]
     ELSE FoldLeftDomain(LAMBDA acc, i : ReadChunk(acc, Rides(i), chunks[i]), [rd |-> rd1, ys |-> <<>>], chunks)

(* A data line with no payload is no frame, and spoils the end-of-file proof. *)
ReadEmpty(rd, delim) == [rd |-> [rd EXCEPT !.eof.invalid = TRUE, !.pending = ~delim], ys |-> <<>>]

(* [DONE]: blocks closed, a stop-bearing delta if no message-level frame   *)
(* came, then message_stop; the sentinel itself is native bytes.  The      *)
(* reader goes on reading.                                                 *)
ReadDone(rd) ==
  [rd |-> [rd EXCEPT !.done = TRUE, !.open = {}],
   ys |-> CloseOpen(rd)
          \o (IF rd.started /\ ~rd.sawDelta THEN <<Yield(FALSE, Chunk("message_delta", -1, "stop", "end_turn", "none"))>> ELSE <<>>)
          \o (IF rd.started THEN <<Yield(FALSE, Bare("message_stop"))>> ELSE <<>>)
          \o <<Yield(TRUE, NoChunk)>>]

(* A clean end of file: whole is FALSE when the last line lacked its newline. *)
ReadEnd(rd, whole) ==
  IF whole /\ ~rd.pending /\ ~rd.done /\ rd.started /\ rd.eof.finished /\ rd.eof.usage /\ ~rd.eof.invalid
  THEN CloseOpen(rd) \o <<Yield(FALSE, Bare("message_stop"))>> ELSE <<>>

(***************************************************************************)
(* The Responses wire: an event is [ev, ix, what, usage, ok].  A read      *)
(* gives the yields, whether the reader returned, and with which error.    *)
(***************************************************************************)
EventChunk(v) ==
  CASE v.ev = "created"   -> Bare("message_start")
    [] v.ev = "delta"     -> Chunk("content_block_delta", v.ix, v.what, "x", "none")
    [] v.ev = "added" /\ v.what \in {"text", "tool", "custom"} -> Chunk("content_block_start", v.ix, v.what, "", "none")
    [] v.ev = "itemdone"  -> Chunk("content_block_stop", v.ix, "", "", "none")
    [] v.ev = "completed" -> Chunk("message_delta", -1, "stop", "end_turn", v.usage)
    [] v.ev = "failed"    -> Chunk("error", -1, "", "", IF UsableUsage(v.usage) THEN v.usage ELSE "none")
    [] OTHER              -> NoChunk
(* ResponseToCanonical: a terminal document must match its event, and      *)
(* usageToCanonical must accept its counts.                                *)
TerminalAcceptsAny(v) == TRUE
TerminalAccepts(v) == v.ok /\ UsableUsage(v.usage)

ReadEvent(v) ==
  CASE v.ev = "comment" -> [ys |-> <<Yield(TRUE, NoChunk)>>, over |-> FALSE, err |-> ""]
    [] v.ev = "broken"  -> [ys |-> <<>>, over |-> TRUE, err |-> "invalid"]
    [] v.ev = "failed"  -> [ys |-> <<Yield(FALSE, EventChunk(v))>>, over |-> TRUE,
                            err |-> IF v.what = "coded" THEN "coded" ELSE "failed"]
    [] v.ev = "completed" ->
         IF TerminalAccepts(v)
         THEN [ys |-> <<Yield(TRUE, EventChunk(v)), Yield(FALSE, Bare("message_stop"))>>, over |-> TRUE, err |-> ""]
         ELSE [ys |-> <<>>, over |-> TRUE, err |-> "invalid"]
    [] OTHER -> [ys |-> <<Yield(TRUE, EventChunk(v))>>, over |-> FALSE, err |-> ""]
=============================================================================
