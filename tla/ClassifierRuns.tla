---------------------------- MODULE ClassifierRuns ----------------------------
(***************************************************************************)
(* The PII classifiers a privacy rule consults: every entry of the set is  *)
(* asked concurrently under one deadline, verdicts "clear" are cached, and *)
(* the enforcing entries' outcomes combine into the routing signal.  The   *)
(* service behind an entry is external: it finds a text sensitive from     *)
(* some tick on (a model or a rule list is refreshed), abstains or fails.  *)
(***************************************************************************)
EXTENDS Integers, Sequences, FiniteSets

CONSTANTS Classifiers, Enforcing,    \* the set's entries, in order, and those in Enforce mode
          Prompts,                   \* the sets of texts a request may hold
          PolicyRefs,
          CacheMax, CacheTTL, RunTimeout, LastTime,
          Runs, Sensitivities        \* functions [entry -> [text -> tick]]

ASSUME ClassifierAssumption ==
  /\ {CacheMax, CacheTTL, RunTimeout} \subseteq Nat \ {0} /\ LastTime \in Nat

VARIABLE cl   \* [now, since, cache, runs]

Members == {Classifiers[i] : i \in DOMAIN Classifiers}
Sensitive(c, e, w) == c.now >= c.since[e][w]

(* The cache key: entry and settings, the policies in force, the text. *)
DigestAnyEntry(e, refs, w) == <<"any", refs, w>>
Digest(e, refs, w) == <<e, refs, w>>

(* verdictCache: most recently used first. *)
Find(cache, k) == {i \in DOMAIN cache : cache[i].key = k}
Without(cache, k) == SelectSeq(cache, LAMBDA it : it.key # k)
FreshForever(c, k) == Find(c.cache, k) # {}
Fresh(c, k) == \E i \in Find(c.cache, k) : c.now - c.cache[i].at < CacheTTL
(* clear: a hit moves to the front, an item past its lifetime is deleted. *)
Looked(c, k) ==
  IF Fresh(c, k) THEN LET i == CHOOSE j \in Find(c.cache, k) : TRUE IN <<c.cache[i]>> \o Without(c.cache, k)
  ELSE Without(c.cache, k)
StoreUnbounded(c, k) == <<[key |-> k, at |-> c.now]>> \o Without(c.cache, k)
Store(c, k) == SubSeq(StoreUnbounded(c, k), 1, IF Len(StoreUnbounded(c, k)) < CacheMax THEN Len(StoreUnbounded(c, k)) ELSE CacheMax)

Late(c, r) == c.now >= c.runs[r].started + RunTimeout

-------------------------------------------------------------------------------
InitClassifier ==
  \E since \in Sensitivities :
    cl = [now |-> 0, since |-> since, cache |-> << >>, runs |-> [r \in Runs |-> [state |-> "idle"]]]

Unasked == [step |-> "ask", pending |-> {}, verdict |-> "none", clear |-> {}]

(* Set.Run: no text is skipped, too much text abstains, otherwise every entry starts.     *)
StartRun(r, texts, refs, big) ==
  LET outcome == IF texts = {} THEN "skipped" ELSE "abstain"
  IN /\ cl.runs[r].state = "idle"
     /\ cl' = [cl EXCEPT !.runs[r] =
                 [state |-> IF texts = {} \/ big THEN "combine" ELSE "running", texts |-> texts, refs |-> refs,
                  started |-> cl.now, next |-> 1,
                  asked |-> [e \in Members |-> Unasked],
                  result |-> [e \in Members |-> IF texts = {} \/ big THEN outcome ELSE "none"]]]

(* runEntry: the cache answers what it can, the service gets the rest. *)
AskEntry(r, e) ==
  LET run == cl.runs[r]
      hit == {w \in run.texts : Fresh(cl, Digest(e, run.refs, w))}
      touched == SelectSeq(cl.cache, LAMBDA it : \A w \in run.texts \ hit : it.key # Digest(e, run.refs, w))
  IN /\ run.state = "running" /\ run.asked[e].step = "ask"
     /\ cl' = [cl EXCEPT !.cache = IF Cardinality(hit) = 1 THEN Looked([cl EXCEPT !.cache = touched], Digest(e, run.refs, CHOOSE w \in hit : TRUE)) ELSE touched,
                         !.runs[r].asked[e] = [step |-> IF hit = run.texts THEN "done" ELSE "scoring", pending |-> run.texts \ hit,
                                               verdict |-> IF hit = run.texts THEN "clear" ELSE "none", clear |-> {}]]

(* The service judges the pending texts; what comes back may still be late, or not come.  *)
(* The flagged text wins over an abstention.                                               *)
Judgement(flagged, abstained) == IF flagged # {} THEN "flagged" ELSE IF abstained # {} THEN "abstain" ELSE "clear"
Score(r, e, abstained) ==
  LET asked == cl.runs[r].asked[e]
      flagged == {w \in asked.pending \ abstained : Sensitive(cl, e, w)}
  IN /\ asked.step = "scoring" /\ abstained \subseteq asked.pending
     /\ cl' = [cl EXCEPT !.runs[r].asked[e] =
                 [asked EXCEPT !.step = "judged", !.verdict = Judgement(flagged, abstained),
                               !.clear = {Digest(e, cl.runs[r].refs, w) : w \in asked.pending \ (flagged \cup abstained)}]]

(* The answer reaches runEntry: after the deadline, or on an error, it is an error. *)
Replied(r, e, ok) ==
  LET asked == cl.runs[r].asked[e]
  IN IF ok /\ ~Late(cl, r) THEN [asked EXCEPT !.step = "done"]
     ELSE [asked EXCEPT !.step = "done", !.verdict = "error", !.clear = {}]
Answer(r, e, ok) ==
  /\ cl.runs[r].state = "running" /\ cl.runs[r].asked[e].step = "judged"
  /\ cl' = [cl EXCEPT !.runs[r].asked[e] = Replied(r, e, ok)]

(* Run collects in order.  An answer that is there is accepted, and only now are its      *)
(* clear texts cached; an entry without one at the deadline is an error.                   *)
StoreAll(c, keys) ==   \* storing at most two keys, in either order
  IF keys = {} THEN c.cache
  ELSE LET k == CHOOSE x \in keys : TRUE
           one == [c EXCEPT !.cache = Store(c, k)]
           rest == keys \ {k}
       IN IF rest = {} THEN one.cache ELSE Store(one, CHOOSE x \in rest : TRUE)
Accepted(r, i) == cl.runs[r].asked[Classifiers[i]]
Collected(run, outcome) ==
  [run EXCEPT !.result[Classifiers[run.next]] = outcome, !.next = @ + 1,
              !.asked[Classifiers[run.next]] = [Unasked EXCEPT !.step = "over"],   \* a later answer is dropped
              !.state = IF run.next = Len(Classifiers) THEN "combine" ELSE @]
Accept(r) ==
  LET run == cl.runs[r]
  IN /\ run.state = "running" /\ Accepted(r, run.next).step = "done"
     /\ cl' = [cl EXCEPT !.cache = StoreAll(cl, Accepted(r, run.next).clear),
                         !.runs[r] = Collected(run, Accepted(r, run.next).verdict)]
TimedOut(run) == Collected(run, "error")
Expire(r) == /\ cl.runs[r].state = "running" /\ Late(cl, r)
             /\ cl' = [cl EXCEPT !.runs[r] = TimedOut(cl.runs[r])]

(* Combine: only enforcing entries count. *)
Combine(r) ==
  LET run == cl.runs[r]
  IN /\ run.state = "combine"
     /\ cl' = [cl EXCEPT !.runs[r] =
                 [state |-> "finished", texts |-> run.texts, started |-> run.started,
                  classified |-> \E e \in Enforcing : run.result[e] = "flagged",
                  uninspectable |-> \E e \in Enforcing : run.result[e] \in {"abstain", "error"}]]

(* A run past its deadline is collected before time goes on. *)
TickClassifier == /\ cl.now < LastTime
                  /\ \A r \in Runs : cl.runs[r].state = "running" => ~Late(cl, r)
                  /\ cl' = [cl EXCEPT !.now = @ + 1]

NextClassifier ==
  \/ \E r \in Runs :
       \/ \E texts \in Prompts, refs \in PolicyRefs, big \in BOOLEAN : StartRun(r, texts, refs, big)
       \/ \E e \in Members : AskEntry(r, e) \/ \E ok \in BOOLEAN : Answer(r, e, ok)
       \/ /\ cl.runs[r].state = "running"
          /\ \E e \in Members : \E abstained \in {{}, cl.runs[r].asked[e].pending} : Score(r, e, abstained)
       \/ Accept(r) \/ Expire(r) \/ Combine(r)
  \/ TickClassifier

-------------------------------------------------------------------------------
ClassifierTypeOK ==
  /\ cl.now \in 0..LastTime
  /\ Len(cl.cache) <= CacheMax
  /\ \A i, j \in DOMAIN cl.cache : i # j => cl.cache[i].key # cl.cache[j].key

(* Text an enforcing classifier has long found sensitive never passes as clean: whatever  *)
(* the cache held, whoever answered late or out of order, the request is classified or     *)
(* counts as not inspectable.  A clear verdict outlives the judgement by the cache's        *)
(* lifetime and the deadline of the run that stored it, no longer.                          *)
SensitiveIsSignalled ==
  \A r \in Runs : cl.runs[r].state = "finished" =>
    \A e \in Enforcing, w \in cl.runs[r].texts :
      cl.since[e][w] + CacheTTL + RunTimeout <= cl.runs[r].started
        => cl.runs[r].classified \/ cl.runs[r].uninspectable

(* Overlapping runs share a bounded cache and still signal what is sensitive (run.go, cache.go). *)
VerdictsHold == ClassifierTypeOK /\ SensitiveIsSignalled
===============================================================================
