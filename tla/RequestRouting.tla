---------------------------- MODULE RequestRouting ----------------------------
(***************************************************************************)
(* Router.RouteRequest: which targets a request may reach once privacy     *)
(* rules, the strict budget target, the classifiers' signal, masking and   *)
(* context rules have had their say, in the order the code applies them.   *)
(* A model stands for its one target; "permitted" folds the key's rights,  *)
(* the region list and protocol compatibility, which every filter checks,  *)
(* and "roomy" folds context window, capabilities and a known price, which *)
(* only a target the router picked by itself, or one that a Responses      *)
(* request must be translated for (not "native"), must have.  A chain is a *)
(* model with its fallback, or what filters leave of the two: the model is *)
(* tried first while it is among the targets.                              *)
(***************************************************************************)
EXTENDS Integers, FiniteSets

CONSTANTS RouteModels,    \* models of the live state
          Asked,          \* the model the request resolved to
          FallbackFor,    \* model |-> its model-level fallback, or itself
          Topologies,     \* [internal, permitted, roomy, native : SUBSET RouteModels]
          PrivacyRules,   \* [onDetected, onUninspectable : action, models : SUBSET RouteModels]
          ContextRules,   \* [enforce, stable : BOOLEAN, model : RouteModels]
          StrictTargets   \* what the tier's strict mapping may name for Asked: a set of models

ASSUME RoutingAssumption == /\ Asked \in RouteModels
                            /\ FallbackFor \in [RouteModels -> RouteModels]
                            /\ \A s \in StrictTargets : s \subseteq RouteModels
                            /\ \A t \in Topologies : t.internal \cup t.permitted \cup t.roomy \cup t.native \subseteq RouteModels
                            /\ "any" \notin RouteModels

VARIABLE rt   \* the routing decision being made

NoLimit == {"any"}   \* no rule asked for internal processing
Actions == {"InternalOnly", "Mask", "Block"}

WithFallback(m) == [lead |-> m, targets |-> {m, FallbackFor[m]}]
NoChain == [lead |-> Asked, targets |-> {}]
Routable(chain) == chain.targets # {}
Within(chain, S) == [chain EXCEPT !.targets = @ \cap S]
First(chain, m) == m \in chain.targets /\ (chain.lead \in chain.targets => m = chain.lead)

Deny(r, reason) ==
  [r EXCEPT !.phase = "done", !.chain = NoChain, !.pins = {}, !.body = "none", !.reason = reason, !.denied = TRUE]
Settle(r, reason) == [r EXCEPT !.phase = "done", !.reason = reason]

HasPrivacy(r) == r.privacy # {}
Strict(r) == r.strict # {}
(* Two mappings that disagree, once aliases are resolved, leave no target. *)
BudgetConstraint(r) == IF Cardinality(r.strict) = 1 THEN r.strict ELSE {}

-------------------------------------------------------------------------------
(* requestBoundary.filter: the one place that decides on a target. *)
MustFit(r, m, automatic) == automatic \/ m # Asked \/ Strict(r) \/ (r.responses /\ m \notin r.topo.native)
Filter(r, chain, automatic) ==
  Within(chain, {m \in r.topo.permitted :
                   /\ Strict(r) => m \in BudgetConstraint(r)
                   /\ r.limit # NoLimit => ~r.remoteTools /\ m \in r.limit /\ m \in r.topo.internal
                   /\ MustFit(r, m, automatic) => m \in r.topo.roomy})

(* Only the context window stands between the chain and the request. *)
ContextOnly(r) == Routable(Filter([r EXCEPT !.topo.roomy = RouteModels], r.given, FALSE))

(* The model with its fallback, filtered; closed breakers first, all when none is closed. *)
ClosedFirst(chain, up) == IF Routable(Within(chain, up)) THEN Within(chain, up) ELSE chain
RequestChainUnfiltered(r, m, up) == ClosedFirst(WithFallback(m), up)
RequestChain(r, m, up) == ClosedFirst(Filter(r, WithFallback(m), m # Asked), up)

LegacyChain(r) == Within(r.given, r.topo.permitted)

-------------------------------------------------------------------------------
(* Policies, the key's rights and the strict budget target come first. *)
Lookup(r) ==
  CASE Asked \notin r.topo.permitted -> Deny(r, "model_forbidden")
    [] Asked \in r.topo.permitted /\ Strict(r) /\ BudgetConstraint(r) = {} -> Deny(r, "budget_target_unavailable")
    [] OTHER -> [r EXCEPT !.phase = "inspect"]

(* Inspection.  Without privacy rules and strict target the chain is already final,   *)
(* and a failing inspection only costs the context rules.                             *)
Unbound(r) == ~HasPrivacy(r) /\ ~Strict(r)
InspectFails(r) ==
  IF r.responses \/ ~Unbound(r) THEN Deny(r, "inspection_failed")
  ELSE IF ~Routable(LegacyChain(r)) THEN Deny(r, "no_safe_route")
  ELSE Settle([r EXCEPT !.chain = LegacyChain(r)], IF r.context = {} THEN "unchanged" ELSE "context_inspection_failed")
Inspected(r, detected, complete, tools) ==
  LET seen == [r EXCEPT !.detected = detected, !.complete = complete, !.readable = complete, !.remoteTools = tools, !.phase = "signal"]
      chain == IF r.responses THEN Filter(seen, r.given, FALSE) ELSE LegacyChain(seen)
  IN IF ~Unbound(r) THEN seen
     ELSE IF ~Routable(chain) THEN Deny(seen, IF r.responses /\ ContextOnly(seen) THEN "context_window_exceeded" ELSE "no_safe_route")
     ELSE IF r.context = {} THEN Settle([seen EXCEPT !.chain = chain], "unchanged")
     ELSE [seen EXCEPT !.chain = chain, !.phase = "context"]

(* The classifiers' combined signal; a count does not run them and counts an enforced  *)
(* classifier as not inspectable.                                                       *)
Classified(r, flagged, blind) ==
  [r EXCEPT !.flagged = HasPrivacy(r) /\ flagged, !.blind = HasPrivacy(r) /\ blind, !.phase = "trigger"]

(* The four triggers of a privacy rule and what each asks for.  A classifier's finding  *)
(* cannot be masked: it falls under the uninspectable action.                           *)
ClassifiedAction(rule) == IF rule.onDetected = "Mask" THEN rule.onUninspectable ELSE rule.onDetected
Asks(r, rule, action) ==
  \/ r.detected /\ rule.onDetected = action
  \/ ~r.complete /\ rule.onUninspectable = action
  \/ r.flagged /\ ClassifiedAction(rule) = action
  \/ r.blind /\ rule.onUninspectable = action
AsksMaskOnly(r, rule) == r.detected /\ rule.onDetected = "Mask"
AsksBlock(r, rule) ==
  \/ Asks(r, rule, "Block")
  \/ ~r.complete /\ rule.onUninspectable = "Mask"
  \/ r.flagged /\ ClassifiedAction(rule) = "Mask"
  \/ r.blind /\ rule.onUninspectable = "Mask"

LimitBy(r) ==
  LET bound == {rule \in r.privacy : Asks(r, rule, "InternalOnly")}
  IN IF bound = {} THEN NoLimit ELSE {m \in RouteModels : \A rule \in bound : m \in rule.models}

Triggered(r) ==
  IF \E rule \in r.privacy : AsksBlock(r, rule) THEN Deny(r, "sensitive_blocked")
  ELSE LET limited == [r EXCEPT !.limit = LimitBy(r)]
       IN [limited EXCEPT !.phase = IF \E rule \in r.privacy : AsksMaskOnly(r, rule) THEN "mask" ELSE "filter"]

(* Masking: what the redactor returns is inspected again and must come out complete   *)
(* and clean.                                                                          *)
Redacted(r, complete, clean) ==
  IF ~complete \/ ~clean THEN Deny(r, "mask_failed")
  ELSE [r EXCEPT !.body = "sanitized", !.swept = TRUE, !.readable = TRUE, !.phase = "filter"]

(* The chain: the strict target's, else what is safe of the given chain, else - for    *)
(* internal-only requests - the first internal model that has a route.                 *)
InternalAlternatives(r, up) ==
  {m \in RouteModels \cap r.limit : Routable(RequestChain(r, m, up))}
Filtered(r, up) ==
  LET safe == Filter(r, r.given, FALSE)
      chain == CASE Strict(r) -> RequestChain(r, CHOOSE m \in BudgetConstraint(r) : TRUE, up)
                 [] ~Strict(r) /\ (Routable(safe) \/ r.limit = NoLimit) -> safe
                 [] OTHER -> IF InternalAlternatives(r, up) = {} THEN NoChain
                             ELSE RequestChain(r, CHOOSE m \in InternalAlternatives(r, up) : TRUE, up)
  IN IF ~Routable(chain)
     THEN Deny(r, IF Strict(r) THEN "budget_target_unavailable"
                  ELSE IF r.limit = NoLimit /\ ContextOnly(r) THEN "context_window_exceeded" ELSE "no_safe_route")
     ELSE [r EXCEPT !.chain = chain, !.phase = IF r.context = {} THEN "done" ELSE "context",
                    !.reason = IF r.limit # NoLimit THEN "internal_only" ELSE IF Strict(r) THEN "budget_target" ELSE "unchanged"]

-------------------------------------------------------------------------------
(* Context rules recommend a model; the request is steered only when they agree, all    *)
(* enforce, and the recommended model's own chain leads with it.                        *)
Proposed(r) == {rule.model : rule \in r.context}
Enforced(r) == \A rule \in r.context : rule.enforce
Stable(r) == \A rule \in r.context : rule.stable

FinishAffinity(r) == [r EXCEPT !.pins = Filter(r, r.chain, TRUE).targets]

(* A session's pinned target is used while it is still in its model's filtered chain. *)
PinnedChain(r, m, up) ==
  LET chain == Filter(r, RequestChain(r, m, up), TRUE)
  IN IF m \in up /\ m \in chain.targets THEN chain ELSE NoChain

(* turns: no user turn, one plain turn - what a rule without stability demands - or     *)
(* history, tools and the like.                                                          *)
FinishOn(r, reason) == Settle(IF Stable(r) THEN FinishAffinity(r) ELSE r, reason)
SteerTo(r, m, turns, up) ==
  LET steered == [r EXCEPT !.chain = RequestChain(r, m, up)]
  IN IF ~r.readable \/ turns = "none" \/ (~Stable(r) /\ turns # "plain") THEN Settle(r, "context_ineligible")
     ELSE IF First(r.chain, m) THEN FinishOn(r, "context_unchanged")
     ELSE IF First(steered.chain, m) THEN FinishOn(steered, "context_selected")
     ELSE FinishOn(r, "context_unavailable")
ApplyContext(r, pin, turns, up) ==
  LET pinned == IF pin # "" /\ Stable(r) THEN PinnedChain(r, pin, up) ELSE NoChain
  IN IF Cardinality(Proposed(r)) > 1 THEN Settle(r, "context_conflict")
     ELSE IF ~Enforced(r) THEN Settle(r, "context_shadow")
     ELSE IF Routable(pinned) THEN FinishOn([r EXCEPT !.chain = pinned], "context_affinity")
     ELSE SteerTo(r, CHOOSE m \in Proposed(r) : TRUE, turns, up)

-------------------------------------------------------------------------------
InitRouting ==
  \E topo \in Topologies, privacy \in PrivacyRules, context \in ContextRules,
     strict \in StrictTargets, responses \in BOOLEAN :
    rt = [topo |-> topo, privacy |-> privacy, context |-> context, strict |-> strict, responses |-> responses,
          given |-> WithFallback(Asked), phase |-> "lookup", chain |-> NoChain,
          detected |-> FALSE, complete |-> TRUE, readable |-> TRUE, remoteTools |-> FALSE, flagged |-> FALSE, blind |-> FALSE,
          limit |-> NoLimit, body |-> "client", swept |-> FALSE, pins |-> {}, reason |-> "", denied |-> FALSE]

RoutePolicies == rt.phase = "lookup" /\ (rt' = Deny(rt, "policy_lookup_failed") \/ rt' = Lookup(rt))
RouteInspect ==
  /\ rt.phase = "inspect"
  /\ \/ rt' = InspectFails(rt)
     \/ \E detected, complete, tools \in BOOLEAN : rt' = Inspected(rt, detected /\ HasPrivacy(rt), complete, tools)
RouteClassify == rt.phase = "signal" /\ \E f, b \in BOOLEAN : rt' = Classified(rt, f, b)
RouteTrigger == rt.phase = "trigger" /\ rt' = Triggered(rt)
RouteMask == rt.phase = "mask" /\ \E complete, clean \in BOOLEAN : rt' = Redacted(rt, complete, clean)
RouteFilter == rt.phase = "filter" /\ \E up \in {RouteModels, {}, {Asked}} : rt' = Filtered(rt, up)
RouteContext ==
  /\ rt.phase = "context"
  /\ \/ rt' = Settle(rt, rt.reason)   \* a count is not steered
     \/ \E pin \in RouteModels \cup {""}, turns \in {"none", "plain", "long"}, up \in {RouteModels, RouteModels \ {Asked}} :
          rt' = ApplyContext(rt, pin, turns, up)

NextRouting == RoutePolicies \/ RouteInspect \/ RouteClassify \/ RouteTrigger \/ RouteMask \/ RouteFilter \/ RouteContext

RoutingSpec == InitRouting /\ [][NextRouting]_rt

-------------------------------------------------------------------------------
Routed == rt.phase = "done" /\ ~rt.denied
Chosen == rt.chain.targets

RoutingTypeOK ==
  /\ rt.phase \in {"lookup", "inspect", "signal", "trigger", "mask", "filter", "context", "done"}
  /\ Chosen \subseteq RouteModels /\ rt.pins \subseteq RouteModels
  /\ Routed => Routable(rt.chain)

(* Whatever steered the request afterwards - a strict tier, a context rule, a pinned    *)
(* session, a fallback - every target it may reach satisfies each privacy rule that      *)
(* asked for internal processing: internal, and named by that rule.                      *)
PrivacyHolds ==
  Routed => \A rule \in rt.privacy : Asks(rt, rule, "InternalOnly") =>
              Chosen \subseteq rule.models \cap rt.topo.internal /\ ~rt.remoteTools

(* Sensitive text that a rule wants masked reaches a target only as a body that was      *)
(* inspected again and found clean, and text a rule wants blocked reaches none.          *)
DetectedIsMaskedOrStopped ==
  Routed => \A rule \in rt.privacy :
              /\ rt.detected /\ rule.onDetected = "Mask" => rt.body = "sanitized" /\ rt.swept
              /\ ~AsksBlock(rt, rule)

(* Under a strict tier every target, fallbacks and pinned sessions included, is the      *)
(* tier's model.                                                                          *)
BudgetTargetHolds == Routed /\ Strict(rt) => Chosen \subseteq BudgetConstraint(rt)

(* A target the client did not ask for has a window, the capabilities and a price for     *)
(* this request; the key may use it.                                                       *)
SteeredTargetsFit ==
  Routed => /\ Chosen \subseteq rt.topo.permitted
            /\ (rt.reason \in {"context_selected", "context_affinity"} \/ HasPrivacy(rt) \/ Strict(rt) => Chosen \ {Asked} \subseteq rt.topo.roomy)

(* A later success may pin the session only to a target this request was allowed to use. *)
PinsAreEligible == rt.pins \subseteq Chosen \cap rt.topo.permitted \cap rt.topo.roomy

(* However often the chain is rebuilt, each target in it satisfies every rule in force: the *)
(* privacy rules, the budget's target, the size and permission limits; and what the rules   *)
(* want masked or stopped is (request_routing.go, affinity.go).                             *)
RoutesHold ==
  /\ RoutingTypeOK /\ PrivacyHolds /\ DetectedIsMaskedOrStopped
  /\ BudgetTargetHolds /\ SteeredTargetsFit /\ PinsAreEligible
===============================================================================
