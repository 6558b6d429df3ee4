----------------------------- MODULE MC_Requests -----------------------------
(***************************************************************************)
(* A client's request on its way through the gateway, component by         *)
(* component: the handlers that serve it, the policies that route it, the  *)
(* session affinity and the classifiers routing consults, and the          *)
(* translation of its streamed answer.                                     *)
(***************************************************************************)
EXTENDS RequestServing, RequestRouting, AffinitySessions, ClassifierRuns, StreamTranslation, TLC

CONSTANTS s1, s2, q1, q2, q3, t1, t2, p1, p2, run1, run2

VARIABLE scene

-----------------------------------------------------------------------------
(* Serving: one target, the same model on two targets, and two models *)
MCChains == {<<"m">>, <<"m", "m">>, <<"m", "n">>}

-----------------------------------------------------------------------------
(* Routing: a falls back to b, b to c; the sets of models that are internal,   *)
(* permitted, large enough and natively served, and the rules in force         *)
MCModels == {"a", "b", "c"}
MCFallback == [m \in MCModels |-> IF m = "a" THEN "b" ELSE "c"]
MCTopologies ==
  {[internal |-> i, permitted |-> p, roomy |-> w, native |-> {"a"}] :
     i \in {{"b"}, {"b", "c"}, {"a", "c"}}, p \in {MCModels, {"a", "c"}}, w \in {MCModels, {"b", "c"}}}
Privacy(detected, uninspectable, models) ==
  [onDetected |-> detected, onUninspectable |-> uninspectable, models |-> models]
MCPrivacy ==
  {{}, {Privacy("InternalOnly", "Block", {"b", "c"})}, {Privacy("Mask", "InternalOnly", {"a", "b"})},
   {Privacy("Mask", "Mask", {"b"})}, {Privacy("Block", "InternalOnly", {"c"})},
   {Privacy("InternalOnly", "InternalOnly", {"a", "b"}), Privacy("InternalOnly", "InternalOnly", {"b", "c"})},
   {Privacy("Mask", "InternalOnly", {"b"}), Privacy("InternalOnly", "Block", {"b", "c"})}}
Steers(enforce, stable, model) == [enforce |-> enforce, stable |-> stable, model |-> model]
MCContext ==
  {{}, {Steers(TRUE, TRUE, "c")}, {Steers(TRUE, FALSE, "b")}, {Steers(TRUE, TRUE, "b"), Steers(FALSE, TRUE, "b")},
   {Steers(TRUE, TRUE, "b"), Steers(TRUE, TRUE, "c")}}

-----------------------------------------------------------------------------
(* Classifiers: the first finds w1 sensitive from tick 1 on, the second never *)
MCClassifiers == <<"c1", "c2">>
MCSensitivities == {[e \in {"c1", "c2"} |-> [w \in {"w1", "w2"} |-> IF w = "w1" /\ e = "c1" THEN 1 ELSE 9]]}

-----------------------------------------------------------------------------
(* Streams: the lines, events and chunks an upstream may send *)
Line(text, tools, finish, usage) ==
  [parses |-> TRUE, choices |-> 1, index |-> 0, text |-> text, tools |-> tools, finish |-> finish,
   usage |-> usage, error |-> FALSE, delim |-> TRUE]
Fragment(named, args) == [ix |-> 0, named |-> named, args |-> args]
MCChatLines ==
  {Line(TRUE, <<>>, "", "none"), Line(FALSE, <<Fragment(TRUE, "object")>>, "", "none"),
   Line(FALSE, <<Fragment(FALSE, "object")>>, "", "none"),
   Line(TRUE, <<Fragment(TRUE, "object"), [Fragment(TRUE, "object") EXCEPT !.ix = 1]>>, "tool_calls", "whole"),
   Line(FALSE, <<>>, "stop", "none"), Line(FALSE, <<>>, "stop", "whole"), Line(FALSE, <<>>, "other", "whole"),
   Line(FALSE, <<>>, "", "none"), Line(TRUE, <<>>, "", "whole"),
   [Line(FALSE, <<>>, "", "whole") EXCEPT !.choices = 0], [Line(FALSE, <<>>, "", "partial") EXCEPT !.choices = 0],
   [Line(TRUE, <<>>, "", "none") EXCEPT !.delim = FALSE], [Line(FALSE, <<>>, "stop", "whole") EXCEPT !.delim = FALSE],
   [Line(FALSE, <<>>, "", "none") EXCEPT !.parses = FALSE],
   [Line(FALSE, <<>>, "", "none") EXCEPT !.choices = 0, !.error = TRUE]}
NativeLine(ev, what, usage, ok) == [ev |-> ev, ix |-> 0, what |-> what, usage |-> usage, ok |-> ok]
MCNativeEvents ==
  {NativeLine(e, "", "none", TRUE) : e \in {"created", "itemdone", "comment", "broken", "other"}}
  \cup {NativeLine("added", w, "none", TRUE) : w \in {"text", "tool", "reasoning"}}
  \cup {NativeLine("delta", w, "none", TRUE) : w \in {"text", "args"}}
  \cup {NativeLine("failed", w, u, TRUE) : w \in {"", "coded"}, u \in {"none", "whole"}}
  \cup {NativeLine("completed", "", u, b) : u \in {"none", "whole", "negative"}, b \in BOOLEAN}
MCCanonChunks ==
  {[Bare("message_start") EXCEPT !.usage = u] : u \in {"whole", "partial"}}
  \cup {Bare("ping"), Bare("error"), Bare("message_stop"),
        Chunk("message_delta", -1, "stop", "max_tokens", "whole"), Chunk("message_delta", -1, "", "", "negative")}
  \cup {Chunk("content_block_start", 0, w, "", "none") : w \in {"text", "thinking", "image"}}
  \cup {Chunk("content_block_start", 0, "text", "commentary", "none")}
  \cup {Chunk("content_block_start", 1, w, "", "none") : w \in {"tool", "custom"}}
  \cup {Chunk("content_block_delta", 0, w, "", "none") : w \in {"text", "thinking"}}
  \cup {Chunk("content_block_delta", 1, "args", v, "none") : v \in {"object", "broken"}}
  \cup {Chunk("content_block_stop", i, "", "", "none") : i \in {0, 1}}
MCLineCap == [chat |-> 3, responses |-> 3, canon |-> 5]

-----------------------------------------------------------------------------
Swapped == Permutations({q1, q2, q3}) \cup Permutations({t1, t2}) \cup Permutations({run1, run2})

MCInit ==
  /\ scene \in {"serving", "routing", "affinity", "classifier", "streams"}
  /\ InitAffinity /\ InitClassifier
  /\ InitStreams /\ (scene # "streams" => tr.wire = "canon")
  /\ InitRouting
  /\ scene # "routing" => /\ rt.topo = [internal |-> {"b"}, permitted |-> MCModels, roomy |-> MCModels, native |-> {"a"}]
                          /\ rt.privacy = {} /\ rt.context = {} /\ rt.strict = {} /\ ~rt.responses
  /\ InitServing
  /\ scene # "serving" => rq.api = "chat" /\ ~rq.stream /\ ~rq.native /\ rq.needs = {}

MCNext ==
  /\ UNCHANGED scene
  /\ \/ scene = "serving" /\ NextServing /\ UNCHANGED <<rt, af, cl, tr>>
     \/ scene = "routing" /\ NextRouting /\ UNCHANGED <<rq, af, cl, tr>>
     \/ scene = "affinity" /\ NextAffinity /\ UNCHANGED <<rq, rt, cl, tr>>
     \/ scene = "classifier" /\ NextClassifier /\ UNCHANGED <<rq, rt, af, tr>>
     \/ scene = "streams" /\ NextStreams /\ UNCHANGED <<rq, rt, af, cl>>

=============================================================================
