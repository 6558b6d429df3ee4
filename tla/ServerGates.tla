----------------------------- MODULE ServerGates ------------------------------
(***************************************************************************)
(* The gates every HTTP call passes before a handler sees it.  On the data *)
(* port: the body cap, key authentication, the in-flight body budget, the  *)
(* audit gate and the governance gate; on the admin port: authentication   *)
(* by token or OIDC, and the full-admin check.  An evaluation enters the   *)
(* data port from the admin port with the caller's virtual key.  Each gate *)
(* is one step of one call; the gates read flags that change meanwhile.    *)
(***************************************************************************)
EXTENDS Integers, FiniteSets, UnitSums

CONSTANTS Calls, BodySizes, RequestLimit, InflightLimit, Flips

ASSUME GatesAssumption ==
  /\ {RequestLimit, InflightLimit} \subseteq Nat \ {0} /\ Flips \in Nat
  /\ BodySizes \subseteq Nat /\ IsFiniteSet(Calls)

VARIABLE gt   \* [calls, used, up, flips]: up is the set of what is ready

Unknown == -1
Aborted == -1
DataKinds == {"messages", "count", "models"}
(* What a caller brings: a declared length (or a chunked body) and a key; on the admin    *)
(* port also a credential: a token, or an OIDC token mapped to admin, to a team, to nothing. *)
Credentials == {"none", "token", "oidc_admin", "oidc_team", "oidc_unmapped"}
Count(c) == c.kind = "count"
Generation(c) == c.kind \in {"messages", "evaluation"}

At(i, stage) == gt.calls[i].stage = stage
Put(i, c) == gt' = [gt EXCEPT !.calls[i] = c]
To(i, stage) == Put(i, [gt.calls[i] EXCEPT !.stage = stage])
(* An answered call holds nothing and its request is forgotten. *)
Answered(c, status) ==
  [c EXCEPT !.stage = "answered", !.answer = status, !.held = 0, !.buffered = 0, !.declared = 0, !.size = 0, !.cred = "none"]
Reply(i, status) == Put(i, Answered(gt.calls[i], status))

-------------------------------------------------------------------------------
Arrive(i, kind, declared, size, key, cred) ==
  /\ At(i, "idle")
  /\ declared = Unknown \/ size <= declared
  /\ Put(i, [gt.calls[i] EXCEPT !.kind = kind, !.declared = declared, !.size = size, !.key = key, !.cred = cred,
                                !.stage = IF kind \in {"admin", "evaluation"} THEN "admin" ELSE "capped"])

(* AdminAuth, then Resolve of the groups: who the caller is. *)
AdminAuth(i) ==
  /\ At(i, "admin")
  /\ CASE gt.calls[i].cred = "none" -> Reply(i, 401)
       [] gt.calls[i].cred = "oidc_unmapped" -> Reply(i, 403)
       [] OTHER -> To(i, "identified")

FullAdmin(c) == c.cred \in {"token", "oidc_admin"}
RequireAdmin(i) ==
  /\ At(i, "identified")
  /\ IF FullAdmin(gt.calls[i])
     THEN To(i, IF gt.calls[i].kind = "admin" THEN "handling" ELSE "evaluating")
     ELSE Reply(i, 403)

(* evaluationHandler, until it calls the data port: the body is whole by then. *)
EnterEvaluation(i) ==
  /\ At(i, "evaluating")
  /\ IF gt.calls[i].key = "none" THEN Reply(i, 400)
     ELSE Put(i, [gt.calls[i] EXCEPT !.stage = "capped", !.declared = gt.calls[i].size])

-------------------------------------------------------------------------------
(* maxBytesMiddleware: a declared length over the cap is refused, except a count, which   *)
(* will be answered locally.                                                               *)
Oversized(c) == c.declared > RequestLimit
MaxBytes(i) ==
  /\ At(i, "capped")
  /\ IF Oversized(gt.calls[i]) /\ ~Count(gt.calls[i]) THEN Reply(i, 413) ELSE To(i, "keyed")

(* KeyAuth; an unreachable store answers a count with zero. *)
KeyAuth(i) ==
  LET c == gt.calls[i]
  IN /\ At(i, "keyed")
     /\ CASE c.key = "none" -> Reply(i, 401)
          [] c.key # "none" /\ "store" \notin gt.up -> Reply(i, IF Count(c) THEN 200 ELSE 503)
          [] c.key = "bad" /\ "store" \in gt.up -> Reply(i, 401)
          [] OTHER -> To(i, "reserving")

(* What a call must hold: an unknown or oversized length counts as the cap. *)
Need(c) == IF c.declared = Unknown \/ c.declared > RequestLimit THEN RequestLimit ELSE c.declared

FitsAny(n) == TRUE
Fits(n) == n <= InflightLimit - gt.used

(* writeLocalCount for a count that does not fit; 503 for anything else. *)
Refusal(c) == IF Count(c) THEN 200 ELSE 503

(* inflightMiddleware. *)
Acquire(i) ==
  LET n == Need(gt.calls[i])
  IN /\ At(i, "reserving")
     /\ IF n = 0 THEN To(i, "audited")
        ELSE IF Fits(n)
        THEN gt' = [gt EXCEPT !.used = @ + n, !.calls[i].held = n, !.calls[i].stage = "audited"]
        ELSE Reply(i, Refusal(gt.calls[i]))

(* The deferred release runs however the rest of the call ends. *)
Released(i, status) ==
  [gt EXCEPT !.used = @ - gt.calls[i].held, !.calls[i] = Answered(@, status)]
AuditGate(i) ==
  /\ At(i, "audited")
  /\ IF Generation(gt.calls[i]) /\ "audit" \notin gt.up THEN gt' = Released(i, 503) ELSE To(i, "governed")
GovernanceGate(i) ==
  /\ At(i, "governed")
  /\ IF gt.calls[i].kind \notin {"count", "models"} /\ "governance" \notin gt.up
     THEN gt' = Released(i, 503) ELSE To(i, "handling")

(* The handler reads the body: never past the cap, and a body over it is an error, which  *)
(* a count answers with its local estimate.                                                *)
ReadBody(i) ==
  LET c == gt.calls[i]
  IN /\ At(i, "handling") /\ c.kind # "admin"
     /\ gt' = [gt EXCEPT !.calls[i].buffered = IF c.size > RequestLimit THEN RequestLimit ELSE c.size,
                         !.calls[i].stage = IF c.size > RequestLimit THEN "overread" ELSE "working"]
Overread(i) == At(i, "overread") /\ gt' = Released(i, IF Count(gt.calls[i]) THEN 200 ELSE 413)

(* The handler ends: for a generation after some attempts, each charged when it settles;  *)
(* or it panics.                                                                           *)
Finish(i) == At(i, "working") /\ gt.calls[i].kind # "evaluation" /\ gt' = Released(i, 200)
FinishAdmin(i) == At(i, "handling") /\ gt.calls[i].kind = "admin" /\ Reply(i, 200)
Panic(i) == At(i, "working") /\ gt' = Released(i, Aborted)

(* The evaluation reports the cost of its last settlement, and says it is known only when *)
(* one attempt was made and settled.                                                       *)
KnownIfComplete(attempts, settled) == settled > 0
Known(attempts, settled) == attempts = 1 /\ settled = 1
FinishEvaluation(i, attempts, settled) ==
  /\ At(i, "working") /\ gt.calls[i].kind = "evaluation" /\ settled <= attempts
  /\ gt' = [Released(i, 200) EXCEPT !.calls[i].known = Known(attempts, settled),
                                    !.calls[i].cost = IF settled > 0 THEN 1 ELSE 0, !.calls[i].charged = attempts]

(* Readiness changes under the calls' feet. *)
Flip(x) ==
  /\ gt.flips > 0
  /\ gt' = [gt EXCEPT !.flips = @ - 1, !.up = IF x \in gt.up THEN gt.up \ {x} ELSE gt.up \cup {x}]

-------------------------------------------------------------------------------
IdleCall == [kind |-> "none", declared |-> 0, size |-> 0, key |-> "none", cred |-> "none", stage |-> "idle",
             held |-> 0, buffered |-> 0, answer |-> 0, known |-> FALSE, cost |-> 0, charged |-> 0]
InitGates ==
  \E up \in SUBSET {"store", "audit", "governance"} :
    gt = [calls |-> [i \in Calls |-> IdleCall], used |-> 0, up |-> up, flips |-> Flips]

NextGates ==
  \/ \E i \in Calls :
       \/ \E k \in DataKinds, n \in BodySizes, key \in {"none", "bad", "good"} :
            Arrive(i, k, n, n, key, "none") \/ Arrive(i, k, Unknown, n, key, "none")
       \/ \E k \in {"admin", "evaluation"}, cred \in Credentials, key \in {"none", "bad", "good"} :
            Arrive(i, k, Unknown, 1, key, cred)
       \/ AdminAuth(i) \/ RequireAdmin(i) \/ EnterEvaluation(i) \/ MaxBytes(i) \/ KeyAuth(i) \/ Acquire(i)
       \/ AuditGate(i) \/ GovernanceGate(i) \/ ReadBody(i) \/ Overread(i) \/ Finish(i) \/ FinishAdmin(i) \/ Panic(i)
       \/ \E a, s \in 0..2 : FinishEvaluation(i, a, s)
  \/ \E x \in {"store", "audit", "governance"} : Flip(x)

GatesSpec == InitGates /\ [][NextGates]_gt

-------------------------------------------------------------------------------
GatesTypeOK ==
  /\ gt.used \in 0..InflightLimit /\ gt.flips \in 0..Flips
  /\ \A i \in Calls : gt.calls[i].held \in 0..RequestLimit /\ gt.calls[i].buffered \in 0..RequestLimit

(* Whatever lengths callers declare or hide, the bodies held in memory at one time never  *)
(* exceed the in-flight limit, and the budget is what the running calls hold: nothing is   *)
(* lost when a later gate refuses or a handler panics.                                      *)
BodiesFit ==
  /\ gt.used = Total([i \in Calls |-> gt.calls[i].held])
  /\ Total([i \in Calls |-> gt.calls[i].buffered]) <= InflightLimit

(* A count of a caller with a valid key is answered, even when the store, the audit trail *)
(* or governance is down, the body is too large or the gateway is overloaded.               *)
CountsNeverRefused ==
  \A i \in Calls : gt.calls[i].stage = "answered" /\ gt.calls[i].kind = "count" /\ gt.calls[i].key = "good"
                     => gt.calls[i].answer \in {200, Aborted}

(* Whoever's call is in a handler was entitled to it on every port it came through: a     *)
(* good key for inference, a full admin for an admin route, and both for an evaluation.    *)
HandledIsEntitled ==
  \A i \in Calls : LET c == gt.calls[i] IN
    c.stage \in {"handling", "overread", "working"} =>
      /\ c.kind # "admin" => c.key = "good"
      /\ c.kind \in {"admin", "evaluation"} => c.cred \in {"token", "oidc_admin"}

(* An evaluation that calls its accounting known reports all that its key was charged,    *)
(* although a fallback may have charged it more than once.                                 *)
EvaluationCostIsWhole ==
  \A i \in Calls : gt.calls[i].known => gt.calls[i].cost = gt.calls[i].charged

(* The gates hold under load and failure: bodies fit the budget, counts are answered,       *)
(* handlers serve only the entitled, and an evaluation tells its whole cost.                *)
GatesHold ==
  GatesTypeOK /\ BodiesFit /\ CountsNeverRefused /\ HandledIsEntitled /\ EvaluationCostIsWhole
===============================================================================
