---------------------------- MODULE RequestServing ----------------------------
(***************************************************************************)
(* One inference request through one of the gateway's five ingress         *)
(* handlers (anthropicapi MessagesHandler, openaiapi ChatHandler,          *)
(* bedrockapi InvokeHandler as Invoke and as Converse, responsesapi        *)
(* Handler): the gates before admission, masking, the attempts along the   *)
(* chain, the answer or the stream, and what is left behind - the bytes at *)
(* the client, the audit trail with its attempt evidence, the budget       *)
(* hold of every attempt, the admission, the breaker verdicts and the      *)
(* session affinity.  Upstream outcomes, the client going away and a       *)
(* provider that panics are the environment.                               *)
(***************************************************************************)
EXTENDS Integers, Sequences, FiniteSets

CONSTANTS Ingresses,  \* ingress protocols
          Chains,     \* the policy chains RouteRequest may return: sequences of models
          StreamLen   \* bound: events an upstream stream may carry

ASSUME ServingAssumption ==
  /\ Ingresses \subseteq {"messages", "chat", "invoke", "converse", "responses"}
  /\ \A c \in Chains : c \in Seq({c[i] : i \in DOMAIN c}) /\ c # << >>
  /\ StreamLen \in Nat

VARIABLE rq           \* the request, its context and everything it wrote

Masks == {"policy", "team"}
Codes == {"ok", "validation", "missing", "busy", "broken"}   \* 200 400 404 429 500
Errors == (Codes \ {"ok"}) \cup {"transport", "canceled", "deadline"}
AttemptStatuses == {"none", "open", "ok", "upstream_error", "timeout", "canceled",
                    "model_not_found", "stream_failed"}
NoStream == [usage |-> FALSE, completed |-> FALSE, failed |-> FALSE,
             committed |-> FALSE, unconverted |-> FALSE, events |-> 0]

Targets(r) == 1..Len(r.chain)
LastTarget(r) == r.at = Len(r.chain)
CrossModelNext(r) == ~LastTarget(r) /\ r.chain[r.at + 1] # r.chain[r.at]

-------------------------------------------------------------------------------
(* What a handler writes. *)

(* The status line goes out once; later bytes name the target they came from. *)
WriteHeader(r, status, source) ==
  [r EXCEPT !.lines = Append(@, status), !.from = @ \cup {source}]

(* Every terminal record closes an attempt that is still open and carries the evidence. *)
FinalAttemptStatus(r, status, partial) ==
  CASE r.gone -> "canceled"
    [] ~r.gone /\ partial -> "stream_failed"
    [] ~partial /\ ~r.gone /\ status = "ok" -> "ok"
    [] OTHER -> "upstream_error"

EndOpenAttempt(r, status) ==
  [r EXCEPT !.att = [i \in DOMAIN @ |-> IF @[i] = "open" THEN status ELSE @[i]]]

BeginAttempt(r) == [r EXCEPT !.att[r.at] = "open"]

Finished(r, event, status, partial) ==
  [EndOpenAttempt(r, FinalAttemptStatus(r, status, partial))
     EXCEPT !.trail = Append(@, [event |-> event, status |-> status, partial |-> partial])]

Denied(r, status) == Finished(r, "denied", status, FALSE)
Started(r) == [r EXCEPT !.trail = Append(@, [event |-> "started", status |-> "none", partial |-> FALSE])]
Completed(r, status) == Finished(r, "completed", status, FALSE)
CompletedPartial(r) == Finished(r, "completed", "ok", TRUE)

(* Deferred calls: the budget attempts finish once each, the admission closes. *)
FinishOnce(r, i, complete) ==
  [r EXCEPT !.hold[i] = IF @ = "held" THEN (IF complete THEN "exact" ELSE "retained") ELSE @]
FinishAll(r) ==
  [r EXCEPT !.hold = [i \in DOMAIN @ |-> IF @[i] = "held" THEN "retained" ELSE @[i]]]
Return(r) == [FinishAll(r) EXCEPT !.adm = IF @ = "open" THEN "closed" ELSE @, !.phase = "done"]

RecordResult(r, verdict) == [r EXCEPT !.verdicts[r.at] = Append(@, verdict)]
(* A verdict given while the client is already gone does not pin a session. *)
RecordSuccess(r) == IF r.gone THEN r ELSE [r EXCEPT !.pinned = @ \cup {r.at}]

(* settle() books usage on the admission, SettleBudget finishes the hold. *)
SettleBudget(r, usage, complete) ==
  FinishOnce([r EXCEPT !.booked[r.at] = @ + (IF usage THEN 1 ELSE 0),
                       !.bookedOn = @ \cup (IF usage THEN {r.adm} ELSE {})],
             r.at, usage /\ complete)

Refuse(r, status, audited) ==
  Return(WriteHeader(IF audited THEN Denied(r, status) ELSE r, status, 0))

-------------------------------------------------------------------------------
(* The gates before routing, per ingress: what each may refuse and whether it   *)
(* leaves a record.  Reading and parsing fail before a principal is audited.    *)

MessagesGates == {<<"invalid", FALSE>>, <<"unauthenticated", FALSE>>, <<"forbidden", TRUE>>, <<"missing", TRUE>>}
ChatGates == {<<"invalid", FALSE>>, <<"unauthenticated", FALSE>>, <<"forbidden", TRUE>>, <<"missing", TRUE>>}
InvokeGates == {<<"invalid", FALSE>>, <<"unauthenticated", FALSE>>, <<"missing", TRUE>>, <<"forbidden", TRUE>>}
ResponsesGates == {<<"unauthenticated", FALSE>>, <<"invalid", FALSE>>, <<"invalid", TRUE>>,
                   <<"forbidden", TRUE>>, <<"missing", TRUE>>}

GatesOf(api) == CASE api = "messages" -> MessagesGates
                  [] api = "chat" -> ChatGates
                  [] api \in {"invoke", "converse"} -> InvokeGates
                  [] api = "responses" -> ResponsesGates

(* RouteRequest's verdict: a chain, with the body it sanitised when a policy masks *)
(* it; its redactor combines the policy's detector with the team's.                *)
MessagesRouteRefusals == {"forbidden"}
ChatRouteRefusals == {"forbidden"}
InvokeRouteRefusals == {"missing", "forbidden"}      \* no Bedrock target, or no permitted one
ResponsesRouteRefusals == {"invalid", "forbidden"}   \* window or conversion, or no permitted one
RouteRefusals(api) == CASE api = "messages" -> MessagesRouteRefusals
                        [] api = "chat" -> ChatRouteRefusals
                        [] api \in {"invoke", "converse"} -> InvokeRouteRefusals
                        [] api = "responses" -> ResponsesRouteRefusals

Sanitized(r) == LET redacted == {"policy"} \cup (IF "team" \in r.needs THEN {"team"} ELSE {})
                IN [r EXCEPT !.raw = redacted, !.parsed = redacted]

ApplyRouteStale(r) ==
  IF "policy" \in r.needs
  THEN [Sanitized(r) EXCEPT !.phase = "mask", !.parsed = {}]
  ELSE [r EXCEPT !.phase = "mask"]
ApplyRoute(r) ==
  IF "policy" \in r.needs THEN [Sanitized(r) EXCEPT !.phase = "mask"]
  ELSE [r EXCEPT !.phase = "mask"]

(* The team's own masking.  Messages and Bedrock run it over what routing left,     *)
(* Responses only when the policy did not mask, Chat refuses instead of masking.     *)
MaskBoth(r) == [r EXCEPT !.raw = @ \cup {"team"}, !.parsed = @ \cup {"team"}]
MessagesMask(r) == {MaskBoth(r), Refuse(r, "invalid", TRUE)}
ChatMask(r) == IF "policy" \in r.raw THEN {r} ELSE {Refuse(r, "invalid", TRUE)}
InvokeMask(r) == {MaskBoth(r), Refuse(r, "invalid", TRUE)}
ResponsesMask(r) == IF "policy" \in r.raw THEN {r} ELSE {MaskBoth(r), Refuse(r, "forbidden", TRUE)}

MaskOf(r) == CASE r.api = "messages" -> MessagesMask(r)
               [] r.api = "chat" -> ChatMask(r)
               [] r.api \in {"invoke", "converse"} -> InvokeMask(r)
               [] r.api = "responses" -> ResponsesMask(r)

TeamMasked(r) == IF "team" \notin r.needs THEN {r} ELSE MaskOf(r)

(* The estimate is taken from the body as it will be sent; window, price and       *)
(* PreCheck decide on it, and an admitted request opens its audit trail (Responses  *)
(* opens one per attempt instead).                                                   *)
Estimated(r) == [r EXCEPT !.est = r.raw]
AdmitRefusals(r) == {Refuse(r, status, TRUE) : status \in {"invalid", "payment", "busy"}}
Admit(r) == [r EXCEPT !.adm = "open", !.at = 1, !.phase = "target"]
MessagesAdmits(r) == {Started(Admit(Estimated(r)))} \cup AdmitRefusals(Estimated(r))
ChatAdmits(r) == {Started(Admit(Estimated(r)))} \cup AdmitRefusals(Estimated(r))
InvokeAdmits(r) == {Started(Admit(Estimated(r)))} \cup AdmitRefusals(Estimated(r))
ResponsesAdmits(r) == {Admit(Estimated(r))} \cup AdmitRefusals(Estimated(r))
AdmitsOf(r) == CASE r.api = "messages" -> MessagesAdmits(r)
                 [] r.api = "chat" -> ChatAdmits(r)
                 [] r.api \in {"invoke", "converse"} -> InvokeAdmits(r)
                 [] r.api = "responses" -> ResponsesAdmits(r)

-------------------------------------------------------------------------------
(* Which failures move on to the next target. *)

Retriable(code) == code \in {"busy", "broken"}
ErrorStatus(err) == IF err \in Codes THEN err ELSE "gateway"

MessagesRetries(r, err) ==
  IF err \in Codes THEN Retriable(err) \/ (CrossModelNext(r) /\ err = "missing")
  ELSE err \notin {"canceled", "deadline"}
ChatRetries(r, err) == TRUE
InvokeRetries(r, err) ==
  \/ r.api = "invoke"
  \/ err \notin Codes
  \/ Retriable(err)
  \/ CrossModelNext(r) /\ err \in {"missing", "validation"}
ResponsesRetries(r, err) == Retriable(ErrorStatus(err)) \/ ErrorStatus(err) = "gateway"

RetriesError(r, err) ==
  /\ ~LastTarget(r)
  /\ CASE r.api = "messages" -> MessagesRetries(r, err)
       [] r.api = "chat" -> ChatRetries(r, err)
       [] r.api \in {"invoke", "converse"} -> InvokeRetries(r, err)
       [] r.api = "responses" -> ResponsesRetries(r, err) /\ ~r.gone

IsModelNotFound(r, code) ==
  /\ CrossModelNext(r)
  /\ \/ code = "missing" /\ r.api # "responses"
     \/ code = "validation" /\ r.api \notin {"messages", "responses"}
RetriesAnswer(r, code) == ~LastTarget(r) /\ (Retriable(code) \/ IsModelNotFound(r, code))

(* The status a retried attempt is left with. *)
RetriedStatus(r, err) ==
  CASE IsModelNotFound(r, err) -> "model_not_found"
    [] ~IsModelNotFound(r, err) /\ (err = "canceled" \/ r.gone) -> "canceled"
    [] ~IsModelNotFound(r, err) /\ ~r.gone /\ err = "deadline" -> "timeout"
    [] OTHER -> "upstream_error"
ErrorAttempt(r, err) == CASE err = "canceled" \/ r.gone -> "canceled"
                          [] ~r.gone /\ err = "deadline" -> "timeout"
                          [] OTHER -> "upstream_error"
StreamAttempt(r, complete) == CASE complete -> "ok"
                                [] ~complete /\ r.gone -> "canceled"
                                [] OTHER -> "stream_failed"

(* The loop's tail: the hold of the failed attempt is finished, its provider is   *)
(* charged with a failure and the next target is tried.                            *)

NextTarget(r) == [RecordResult(FinishOnce(r, r.at, FALSE), "failed")
                    EXCEPT !.at = @ + 1, !.phase = "target", !.s = NoStream]
(* Responses writes a completed record and settles on every attempt, retried or not. *)
ResponsesFinish(r, status, usage, partial) ==
  [Finished(SettleBudget(r, usage, status = "ok" /\ ~partial), "completed", status, partial)
     EXCEPT !.adm = "closed"]

-------------------------------------------------------------------------------
(* The non-streaming answer, per ingress.  ans: code, whether it carried usage,  *)
(* whether its body fits the ingress format, and whether the client could take it. *)

FailedCall(r, err) ==
  IF RetriesError(r, err)
  THEN LET ended == EndOpenAttempt(r, RetriedStatus(r, err))
       IN NextTarget(IF r.api = "responses" THEN ResponsesFinish(ended, ErrorStatus(err), FALSE, FALSE)
                     ELSE ended)
  ELSE LET ended == EndOpenAttempt(r, ErrorAttempt(r, err))
           status == ErrorStatus(err)
       IN IF r.api = "responses"
          THEN Return(WriteHeader(ResponsesFinish(ended, status, FALSE, FALSE), status, r.at))
          ELSE Return(Completed(WriteHeader(ended, status, r.at), status))

AnswerAttempt(code) == IF code = "ok" THEN "ok" ELSE "upstream_error"

Pinned(r, ans) == IF ans.code = "ok" /\ ans.usage THEN RecordSuccess(r) ELSE r
Praised(r, ans) == IF ans.code = "ok" THEN RecordResult(r, "ok") ELSE r

MessagesComplete(r, ans) ==
  LET written == WriteHeader(Pinned(Praised(r, ans), ans), ans.code, r.at)
  IN Completed(SettleBudget(written, ans.usage, ans.code = "ok"), ans.code)
ChatComplete(r, ans) ==
  LET written == WriteHeader(Pinned(Praised(r, ans), ans), ans.code, r.at)
  IN Completed(SettleBudget(written, ans.usage, ans.code = "ok"), ans.code)
InvokeComplete(r, ans) ==
  IF ans.code # "ok" THEN Completed(WriteHeader(r, ans.code, r.at), ans.code)
  ELSE Completed(Pinned(Praised(WriteHeader(SettleBudget(r, ans.usage, TRUE), "ok", r.at), ans), ans), "ok")
ResponsesComplete(r, ans) ==
  CASE ans.code # "ok" -> WriteHeader(ResponsesFinish(r, ans.code, ans.usage, FALSE), ans.code, r.at)
    [] ans.code = "ok" /\ ~(ans.usage /\ ans.fits) ->
         WriteHeader(ResponsesFinish(EndOpenAttempt(r, "upstream_error"), "gateway", ans.usage, FALSE),
                     "gateway", r.at)
    [] OTHER ->
         LET praised == Praised(WriteHeader(r, "ok", r.at), ans)
         IN ResponsesFinish(IF ans.taken THEN Pinned(praised, ans) ELSE praised, "ok", TRUE, ~ans.taken)

AnswerOf(r, ans) == CASE r.api = "messages" -> MessagesComplete(r, ans)
                      [] r.api = "chat" -> ChatComplete(r, ans)
                      [] r.api \in {"invoke", "converse"} -> InvokeComplete(r, ans)
                      [] r.api = "responses" -> ResponsesComplete(r, ans)

AnsweredCall(r, ans) ==
  IF RetriesAnswer(r, ans.code)
  THEN LET ended == EndOpenAttempt(r, RetriedStatus(r, ans.code))
       IN NextTarget(IF r.api = "responses" THEN ResponsesFinish(ended, ans.code, ans.usage, FALSE) ELSE ended)
  ELSE LET ended == IF r.api = "responses" /\ ans.code = "ok" /\ ~(ans.usage /\ ans.fits) THEN r
                    ELSE EndOpenAttempt(r, AnswerAttempt(ans.code))
       IN Return(AnswerOf(ended, ans))

-------------------------------------------------------------------------------
(* Streams.  Four ingresses commit the status line as soon as the upstream opened *)
(* its stream; Responses commits with the first event it can convert.              *)

Commit(r) == [WriteHeader(r, "ok", r.at) EXCEPT !.phase = "streaming", !.s.committed = TRUE]
MessagesOpens(r) == Commit(RecordResult(r, "ok"))
ChatOpens(r) == Commit(RecordResult(r, "ok"))
InvokeOpens(r) == Commit(RecordResult(r, "ok"))
ResponsesOpens(r) == [r EXCEPT !.phase = "streaming"]
OpenStream(r) == CASE r.api = "messages" -> MessagesOpens(r)
                   [] r.api = "chat" -> ChatOpens(r)
                   [] r.api \in {"invoke", "converse"} -> InvokeOpens(r)
                   [] r.api = "responses" -> ResponsesOpens(r)
NoFlusher(r) ==
  IF r.api = "responses" THEN 
       Return(ResponsesFinish([WriteHeader(r, "broken", 0) EXCEPT !.att[r.at] = "none"], "broken", FALSE, FALSE))
  ELSE Return(Completed(WriteHeader(EndOpenAttempt(r, "upstream_error"), "broken", 0), "broken"))

(* What an event leaves in the handler's stream state. *)
Observed(s, ev) ==
  [s EXCEPT !.usage = @ \/ ev = "usage", !.completed = @ \/ ev = "stop",
            !.failed = @ \/ ev = "error", !.events = @ + 1]
StreamComplete(s) == s.completed /\ ~s.failed

PartialFinish(r) ==
  Return(CompletedPartial(SettleBudget(EndOpenAttempt(r, StreamAttempt(r, FALSE)), r.s.usage, FALSE)))

(* Responses: nothing was written yet, so the request may still move on - unless   *)
(* an event could not be converted, which no other target would change, or the     *)
(* cause is not one to retry.  A native failure event that the client can recover  *)
(* from (a context or an encrypted item it must drop) is relayed, so it commits.    *)
StreamStatus(cause) == IF cause = "recovery" THEN "gateway" ELSE ErrorStatus(cause)
RetriesStream(r, cause) ==
  ~r.s.unconverted /\ ~LastTarget(r) /\ ~r.gone /\ ResponsesRetries(r, StreamStatus(cause))
FailAndMove(r, cause) ==
  NextTarget(ResponsesFinish(EndOpenAttempt(r, RetriedStatus(r, cause)), StreamStatus(cause), r.s.usage, FALSE))
FailAndTell(r, cause) ==
  Return(WriteHeader(ResponsesFinish(EndOpenAttempt(r, ErrorAttempt(r, cause)), StreamStatus(cause), r.s.usage, FALSE),
                     StreamStatus(cause), r.at))
FailPartial(r) == Return(ResponsesFinish(EndOpenAttempt(r, StreamAttempt(r, FALSE)), "ok", r.s.usage, TRUE))
ResponsesFailRetrying(r, cause) ==
  IF RetriesStream(r, cause) THEN FailAndMove(r, cause)
  ELSE IF r.s.committed THEN FailPartial(r) ELSE FailAndTell(r, cause)
ResponsesFail(r, cause) ==
  CASE r.s.committed -> FailPartial(r)
    [] ~r.s.committed /\ r.native /\ cause = "recovery" -> FailPartial(Commit(r))
    [] OTHER -> IF RetriesStream(r, cause) THEN FailAndMove(r, cause) ELSE FailAndTell(r, cause)

(* The loop over events: write, then merge usage and the terminal flags. *)
MessagesEvent(r, ev) == [r EXCEPT !.s = Observed(@, ev), !.from = @ \cup {r.at}]
ChatEvent(r, ev) == [r EXCEPT !.s = Observed(@, ev), !.from = @ \cup {r.at}]
InvokeEvent(r, ev, taken) ==
  IF ~taken THEN PartialFinish(r) ELSE [r EXCEPT !.s = Observed(@, ev), !.from = @ \cup {r.at}]
ResponsesEvent(r, ev, fits, taken) ==
  LET seen == [r EXCEPT !.s = Observed(@, ev)]
      open == IF seen.s.committed THEN seen
              ELSE [WriteHeader(seen, "ok", r.at) EXCEPT !.s.committed = TRUE]
  IN CASE r.s.unconverted -> seen
       [] ~r.s.unconverted /\ ~fits /\ ~r.native -> [seen EXCEPT !.s.unconverted = TRUE]
       [] OTHER -> IF taken THEN open ELSE ResponsesFail(open, "transport")

StreamEventOf(r, ev, fits, taken) ==
  CASE r.api = "messages" -> MessagesEvent(r, ev)
    [] r.api = "chat" -> ChatEvent(r, ev)
    [] r.api \in {"invoke", "converse"} -> InvokeEvent(r, ev, taken)
    [] r.api = "responses" -> ResponsesEvent(r, ev, fits, taken)

(* The upstream broke off: a committed stream ends in a partial record. *)
StreamBroken(r, cause) == IF r.api = "responses" THEN ResponsesFail(r, cause) ELSE PartialFinish(r)

StreamDoneTrusting(r) ==
  LET settled == SettleBudget(EndOpenAttempt(r, StreamAttempt(r, TRUE)), r.s.usage, TRUE)
  IN Return(Completed(IF r.s.usage THEN RecordSuccess(settled) ELSE settled, "ok"))
StreamDone(r) ==
  LET complete == StreamComplete(r.s)
      settled == SettleBudget(EndOpenAttempt(r, StreamAttempt(r, complete)), r.s.usage, complete)
  IN Return(Completed(IF complete /\ r.s.usage THEN RecordSuccess(settled) ELSE settled, "ok"))
ChatDone(r) == StreamDone(r)
ConverseDone(r) == IF ~StreamComplete(r.s) \/ ~r.s.usage THEN PartialFinish(r) ELSE StreamDone(r)
ResponsesDone(r) ==
  IF r.s.unconverted \/ ~r.s.committed \/ ~StreamComplete(r.s) \/ ~r.s.usage THEN ResponsesFail(r, "transport")
  ELSE Return(ResponsesFinish(EndOpenAttempt(RecordSuccess(RecordResult(r, "ok")), "ok"), "ok", TRUE, FALSE))

StreamEndOf(r) == CASE r.api = "responses" -> ResponsesDone(r)
                    [] r.api = "converse" -> ConverseDone(r)
                    [] r.api = "chat" -> ChatDone(r)
                    [] OTHER -> StreamDone(r)

-------------------------------------------------------------------------------
(* Before each attempt: Messages re-checks the window of a fallback model,        *)
(* Responses re-checks the budget's target and admits every later attempt anew.    *)

MessagesTarget(r) == {r} \cup (IF r.at > 1 THEN {Refuse(r, "invalid", TRUE)} ELSE {})
ChatTarget(r) == {r}
InvokeTarget(r) == {r}

ResponsesTarget(r) ==
  {Refuse(r, "payment", TRUE), Refuse(r, "invalid", TRUE)}
    \cup (IF r.at = 1 THEN {r} ELSE {[r EXCEPT !.adm = "open"], Refuse(r, "busy", TRUE)})
TargetOf(r) == CASE r.api = "messages" -> MessagesTarget(r)
                 [] r.api = "responses" -> ResponsesTarget(r)
                 [] r.api = "chat" -> ChatTarget(r)
                 [] OTHER -> InvokeTarget(r)

(* ReserveBudget: a refusal cancels the admission's dispatch, success holds money   *)
(* until the attempt's finish and begins the attempt's evidence.                    *)
Reserved(r) ==
  LET held == [r EXCEPT !.hold[r.at] = "held", !.phase = "call"]
  IN BeginAttempt(IF r.api = "responses" THEN Started(held) ELSE held)
NotReserved(r) == Refuse(r, "payment", TRUE)

-------------------------------------------------------------------------------
InitServing ==
  \E api \in Ingresses, stream \in BOOLEAN, native \in BOOLEAN, needs \in SUBSET Masks :
    /\ native => api = "responses"
    /\ rq = [api |-> api, stream |-> stream, native |-> native, needs |-> needs,
             chain |-> << >>, phase |-> "gates", at |-> 0, gone |-> FALSE,
             raw |-> {}, parsed |-> {}, est |-> {}, adm |-> "none",
             hold |-> << >>, booked |-> << >>, bookedOn |-> {}, att |-> << >>,
             verdicts |-> << >>, pinned |-> {}, lines |-> << >>, from |-> {},
             trail |-> << >>, s |-> NoStream, panicked |-> FALSE]

(* Any gate may refuse; a request that passes them all is routed. *)
PassGates ==
  /\ rq.phase = "gates"
  /\ \/ \E g \in GatesOf(rq.api) : rq' = Refuse(rq, g[1], g[2])
     \/ rq' = [rq EXCEPT !.phase = "route"]

RouteStep ==
  /\ rq.phase = "route"
  /\ \/ \E status \in RouteRefusals(rq.api) : rq' = Refuse(rq, status, TRUE)
     \/ \E c \in Chains :
          rq' = ApplyRoute([rq EXCEPT !.chain = c,
                              !.hold = [i \in 1..Len(c) |-> "none"],
                              !.booked = [i \in 1..Len(c) |-> 0],
                              !.att = [i \in 1..Len(c) |-> "none"],
                              !.verdicts = [i \in 1..Len(c) |-> << >>]])

MaskStep ==
  /\ rq.phase = "mask"
  /\ \E r \in TeamMasked(rq) : rq' = IF r.phase = "done" THEN r ELSE [r EXCEPT !.phase = "admit"]

AdmitStep == rq.phase = "admit" /\ \E r \in AdmitsOf(rq) : rq' = r

TargetStep ==
  /\ rq.phase = "target"
  /\ \E r \in TargetOf(rq) : rq' = IF r.phase = "done" THEN r ELSE [r EXCEPT !.phase = "reserve"]

ReserveStep == rq.phase = "reserve" /\ (rq' = Reserved(rq) \/ rq' = NotReserved(rq))

(* The provider call returns an error, an answer, or opens a stream.  Bedrock's     *)
(* nil response is an error that only the last target reports.                       *)
CallStep ==
  /\ rq.phase = "call"
  /\ \/ \E err \in Errors : (err = "canceled" => rq.gone) /\ rq' = FailedCall(rq, err)
     \/ /\ ~rq.stream
        /\ \E code \in Codes, usage, fits, taken \in BOOLEAN :
             /\ (taken \/ (rq.gone /\ rq.api = "responses"))
             /\ (fits \/ (rq.api = "responses" /\ ~rq.native))
             /\ rq' = AnsweredCall(rq, [code |-> code, usage |-> usage, fits |-> fits, taken |-> taken])
     \/ rq.stream /\ (rq' = OpenStream(rq) \/ rq' = NoFlusher(rq))

StreamStep ==
  /\ rq.phase = "streaming"
  /\ rq.s.events < StreamLen
  /\ \E ev \in {"delta", "usage", "stop", "error"}, fits, taken \in BOOLEAN :
       /\ (taken \/ rq.gone)
       /\ (fits \/ (rq.api = "responses" /\ ~rq.native))
       /\ rq' = StreamEventOf(rq, ev, fits, taken)

StreamEndStep ==
  /\ rq.phase = "streaming"
  /\ \/ rq' = StreamEndOf(rq)
     \/ \E cause \in {"transport", "deadline", "validation", "broken", "recovery"} : rq' = StreamBroken(rq, cause)

(* The client goes away: its context is cancelled, the handler keeps running. *)
ClientLeaves == rq.phase \notin {"gates", "route", "done"} /\ ~rq.gone /\ rq' = [rq EXCEPT !.gone = TRUE]

(* A provider panics: only the deferred calls run. *)
ProviderPanics == rq.phase \in {"call", "streaming"} /\ rq' = [Return(rq) EXCEPT !.panicked = TRUE]

NextServing == \/ PassGates \/ RouteStep \/ MaskStep \/ AdmitStep \/ TargetStep \/ ReserveStep
               \/ CallStep \/ StreamStep \/ StreamEndStep \/ ClientLeaves \/ ProviderPanics

ServingSpec == InitServing /\ [][NextServing]_rq

-------------------------------------------------------------------------------
ServingTypeOK ==
  /\ rq.phase \in {"gates", "route", "mask", "admit", "target", "reserve", "call", "streaming", "done"}
  /\ rq.raw \subseteq Masks /\ rq.parsed \subseteq Masks /\ rq.est \subseteq Masks
  /\ rq.adm \in {"none", "open", "closed"}
  /\ \A i \in Targets(rq) : /\ rq.hold[i] \in {"none", "held", "exact", "retained"}
                            /\ rq.att[i] \in AttemptStatuses

(* Only what masking left goes to a provider: from the first dispatch on, the raw   *)
(* body and the parsed request carry every masking the policies and the team ask    *)
(* for, and the size the money was checked against is the size of that same body.   *)
EgressIsMasked ==
  rq.phase \in {"target", "reserve", "call", "streaming"} =>
    rq.needs \subseteq rq.raw /\ rq.parsed = rq.raw /\ rq.est = rq.raw

(* The client gets one status line, and bytes of at most one target follow it: a   *)
(* request that has started to answer never falls back to another provider.        *)
OneAnswer ==
  /\ Len(rq.lines) <= 1
  /\ rq.lines # << >> /\ rq.phase # "done" => rq.from = {rq.at}

(* When the request is over - answered, refused, cut off or panicked - no attempt   *)
(* keeps a hold open and the admission is closed.                                   *)
NothingLeftOpen ==
  rq.phase = "done" => /\ \A i \in Targets(rq) : rq.hold[i] # "held"
                       /\ rq.adm # "open"

(* Usage is booked on an open admission, once per attempt at most: no attempt is     *)
(* dispatched or settled on an admission that an earlier attempt already closed.     *)
BookedOnOpenAdmission ==
  /\ rq.bookedOn \subseteq {"open"}
  /\ \A i \in Targets(rq) : rq.booked[i] <= 1
  /\ rq.phase \in {"reserve", "call", "streaming"} => rq.adm = "open"

(* A hold is settled at its exact cost, and a session pinned to a target, only for  *)
(* the target whose complete answer was relayed to the client with its usage; the audit     *)
(* evidence of that attempt says ok.                                                 *)
ExactOnlyWhenWhole ==
  \A i \in Targets(rq) :
    (rq.hold[i] = "exact" \/ i \in rq.pinned) =>
      /\ rq.from \subseteq {i} /\ rq.lines = <<"ok">>
      /\ rq.att[i] = "ok"
      /\ rq.stream => StreamComplete(rq.s) /\ rq.s.usage

(* The last audit record of a request tells what its client saw: same status, and  *)
(* partial exactly when the stream did not run to its end.  No attempt is left open. *)
TrailTellsTheAnswer ==
  rq.phase = "done" /\ ~rq.panicked /\ rq.trail # << >> =>
    LET last == rq.trail[Len(rq.trail)]
    IN /\ last.event # "started"
       /\ rq.lines = <<last.status>>
       /\ \A i \in Targets(rq) : rq.att[i] # "open"

(* Every attempt gives its provider's breaker at most one verdict: a provider that   *)
(* is left for the next one is never also praised for the same attempt.              *)
OneVerdict ==
  \A i \in Targets(rq) : Len(rq.verdicts[i]) <= 1 /\ (i < rq.at => rq.verdicts[i] = <<"failed">>)

(* An attempt that was given up is recorded with a failure, never as ok, and never   *)
(* settles its hold at an exact cost.                                                *)
GivenUpAttemptsFail ==
  \A i \in Targets(rq) :
    i < rq.at => /\ rq.att[i] \in {"upstream_error", "timeout", "canceled", "model_not_found"}
                 /\ rq.hold[i] = "retained"

(* Each attempt ends once and is told as it ended: one answer, one verdict of the breaker,  *)
(* a failure for every attempt given up, and an audit record that agrees with the client.   *)
AttemptsAreHonest ==
  ServingTypeOK /\ OneAnswer /\ OneVerdict /\ GivenUpAttemptsFail /\ TrailTellsTheAnswer

(* Money follows the call: nothing stays held, nothing is booked on a closed admission, and *)
(* only a whole answer settles exactly.                                                     *)
MoneyFollowsTheCall == NothingLeftOpen /\ BookedOnOpenAdmission /\ ExactOnlyWhenWhole
===============================================================================
