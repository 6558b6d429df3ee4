---------------------------- MODULE PolicyMerge -----------------------------
(***************************************************************************)
(* From policy documents to what is enforced: validation of a wire         *)
(* document (FromV1Alpha1), and the merges over the accepted documents:    *)
(* team limits, user limits, model access, lease grants, budget tiers and  *)
(* observability.  The merges are loops over the documents in listing      *)
(* order; one step of this module is one iteration, so every order of      *)
(* every small set of documents is taken.                                  *)
(*                                                                         *)
(* A document is a record [name, team, user, rules]; "" is an absent team  *)
(* or user.  A rule has a name, a kind, a failure policy and the fields of *)
(* its kind.  Money is in units of MicroPerMilli, with its width kept.     *)
(***************************************************************************)
EXTENDS Integers, Sequences, FiniteSets, FiniteSetsExt, Functions

CONSTANTS
    WireDocs,       \* the documents offered
    MaxInt,         \* the largest money value (2^63-1 in the program)
    MicroPerMilli,  \* wire unit to enforced unit (1000)
    GrantBP, BPUnit,\* the default lease share (10 of 10000)
    MaxOffers       \* bound on documents offered

ASSUME PolicyMergeAssumption ==
    /\ {MaxInt, MicroPerMilli, GrantBP, BPUnit, MaxOffers} \subseteq Nat \ {0}
    /\ GrantBP <= MicroPerMilli /\ BPUnit > GrantBP

Periods == {"day", "month"}
NoWindow == [limit |-> 0, hard |-> FALSE, rule |-> <<>>]
NoLimits == [rpm |-> 0, rpmRule |-> <<>>, tpm |-> 0, tpmRule |-> <<>>,
             budget |-> [p \in Periods |-> NoWindow],
             routing |-> [p \in Periods |-> 0]]
NoDecision == [traces |-> <<>>, audit |-> {}, content |-> "", conflict |-> FALSE]

VARIABLES
    docs,     \* the accepted documents
    offers,   \* documents offered so far
    limits,   \* [subject -> limits]: the team and user maps of the snapshot
    leases,   \* [<<team, period>> -> lease]: LeaseTable
    tierMap,  \* [subject -> [model -> choice]]: tier.Table
    strict,   \* [subject -> [model -> target]]: tier.Table
    exports   \* [caller -> observability decision]

mergeVars == <<docs, offers, limits, leases, tierMap, strict, exports>>

Empty == <<>>   \* the function with the empty domain

\* The callers worth asking about: a team's user, named by some document.
Callers == {<<d.team, e.user>> : d, e \in WireDocs}

MergeInit ==
    /\ docs = {} /\ offers = 0
    /\ limits = Empty /\ leases = Empty /\ tierMap = Empty /\ strict = Empty
    /\ exports = [c \in Callers |-> NoDecision]

-----------------------------------------------------------------------------
(* Validation *)

MaxWire == MaxInt \div MicroPerMilli

\* budgetFromV1Alpha1: what is refused.
BudgetValid(r) ==
    IF r.unlimited
    THEN r.limit = 0 /\ ~r.hard /\ r.grant = 0 /\ r.period = ""
    ELSE /\ r.limit \in 1 .. MaxWire
         /\ r.hard => r.fail = "FailClosed"
         /\ r.period \in Periods \cup {""}
         /\ r.grant \in 0 .. MaxWire

\* budgetFromV1Alpha1: defaults, and milli-dollars to micro-dollars.
PeriodOf(r) == IF r.period = "" THEN "month" ELSE r.period
DefaultGrant(r) == LET share == (r.limit * GrantBP) \div BPUnit
                   IN IF share < 1 THEN 1 ELSE share
GrantOf(r) == MicroPerMilli * (IF r.grant = 0 THEN DefaultGrant(r) ELSE r.grant)
LimitOf(r) == MicroPerMilli * r.limit

\* One tier's substitution: not empty, nothing to itself, no chains.
SubstituteValid(t) ==
    /\ t.sub # Empty
    /\ DOMAIN t.sub \cap Range(t.sub) = {}

\* routingFromV1Alpha1, the budget tiers.
TiersValid(r, doc) ==
    /\ r.enforce => doc.team # "" /\ doc.user = ""
    /\ \E i \in DOMAIN doc.rules :
        /\ doc.rules[i].name = r.ref /\ doc.rules[i].kind = "budget"
        /\ ~doc.rules[i].unlimited
    /\ r.tiers # <<>>
    /\ \A i \in DOMAIN r.tiers :
        /\ r.tiers[i].percent \in 1 .. (IF r.enforce THEN 100 ELSE 99)
        /\ i > 1 => r.tiers[i].percent > r.tiers[i - 1].percent
        /\ SubstituteValid(r.tiers[i])

RateValid(r) == IF r.unlimited THEN r.rpm = 0 /\ r.tpm = 0
                ELSE r.rpm >= 0 /\ r.tpm >= 0 /\ r.rpm + r.tpm > 0

\* observabilityFromV1Alpha1: best effort, and at least one signal.
ObservabilityValid(r) ==
    /\ r.fail = "FailOpen"
    /\ r.traces # <<>> \/ r.audit # "" \/ r.content # ""
    /\ r.traces # <<>> => r.traces[2] \in 1 .. 100

\* sensitiveDataFromV1Alpha1; internal models are explicit names, never patterns.
SensitiveValid(r) ==
    /\ r.fail = "FailClosed"
    /\ r.onDetected \in {"InternalOnly", "Block", "Mask"}
    /\ r.onUninspectable \in {"InternalOnly", "Block"}
    /\ "InternalOnly" \in {r.onDetected, r.onUninspectable} => r.internal # {}
    /\ "*" \notin r.internal

\* contextFromV1Alpha1: explicit models, increasing token bounds, and a session
\* that lives at least as long as its hold.
ContextValid(r) ==
    /\ r.fail = "FailOpen"
    /\ r.mode \in {"", "Shadow", "Enforce"}
    /\ r.from # {} /\ "*" \notin r.from \cup {r.simple, r.complex}
    /\ r.maxSimple > 0
    /\ IF r.normal = "" THEN r.maxNormal = 0 ELSE r.maxNormal > r.maxSimple
    /\ r.ttl > 0 /\ r.hold \in 0 .. r.ttl /\ r.requests >= 1

QuotaValid(r) == r.fail = "FailClosed" /\ r.limit > 0 /\ r.period \in Periods

RuleValid(r, doc) ==
    /\ r.fail \in {"FailOpen", "FailClosed"}
    /\ CASE r.kind = "budget" -> BudgetValid(r)
         [] r.kind = "tiers" -> TiersValid(r, doc)
         [] r.kind = "rate" -> RateValid(r)
         [] r.kind = "access" -> r.allow # {}
         [] r.kind = "sensitive" -> SensitiveValid(r)
         [] r.kind = "context" -> ContextValid(r)
         [] r.kind = "quota" -> QuotaValid(r)
         [] r.kind = "observability" -> ObservabilityValid(r)

\* FromV1Alpha1: a subject, at least one rule, distinct rule names, every rule
\* valid; one refused rule refuses the document.
Accepts(doc) ==
    /\ doc.team # "" \/ doc.user # ""
    /\ doc.rules # <<>>
    /\ \A i, j \in DOMAIN doc.rules : doc.rules[i].name = doc.rules[j].name => i = j
    /\ \A i \in DOMAIN doc.rules : RuleValid(doc.rules[i], doc)

Subject(doc) == <<doc.team, doc.user>>
Rules(doc, kind) == {doc.rules[i] : i \in {j \in DOMAIN doc.rules : doc.rules[j].kind = kind}}
Ref(doc, r) == <<doc.name, r.name>>
Lookup(f, key, default) == IF key \in DOMAIN f THEN f[key] ELSE default
Set(f, key, value) == [k \in DOMAIN f \cup {key} |-> IF k = key THEN value ELSE f[k]]

\* Subject.matches: what a document sets applies to a caller.
Matches(subject, team, user) ==
    /\ subject[1] # "" => subject[1] = team
    /\ subject[2] # "" => user # "" /\ subject[2] = user

\* IsRoutingOnlyBudget: a soft team budget that only drives strict tiers.
RoutingOnly(doc, r) ==
    /\ doc.team # "" /\ doc.user = ""
    /\ ~r.hard /\ ~r.unlimited
    /\ \E t \in Rules(doc, "tiers") : t.enforce /\ t.ref = r.name

-----------------------------------------------------------------------------
(* Limits *)

TakesRate(current, next) == next # 0 /\ (current = 0 \/ next < current)
MinNonZero(a, b) == IF a = 0 THEN b ELSE IF b = 0 THEN a ELSE IF b < a THEN b ELSE a

\* Mutant: the lower limit wins whatever its hardness.
TakesLower(w, next) == next.limit # 0 /\ (w.limit = 0 \/ next.limit < w.limit)

\* takesBudget: a hard limit beats a soft one, then the lower limit wins.
TakesBudget(w, next) ==
    /\ next.limit # 0
    /\ \/ w.limit = 0
       \/ next.hard /\ ~w.hard
       \/ next.hard = w.hard /\ next.limit < w.limit

\* mergeBudgetWindow.
MergeWindow(w, next) == IF TakesBudget(w, next) THEN next ELSE w

\* One budget rule folded into the limits of its subject.
MergeBudget(l, doc, r) ==
    IF RoutingOnly(doc, r)
    THEN [l EXCEPT !.routing[PeriodOf(r)] = MinNonZero(@, LimitOf(r))]
    ELSE IF r.unlimited THEN l
    ELSE [l EXCEPT !.budget[PeriodOf(r)] =
            MergeWindow(@, [limit |-> LimitOf(r), hard |-> r.hard, rule |-> Ref(doc, r)])]

MergeRate(l, doc, r) ==
    [l EXCEPT !.rpmRule = IF TakesRate(l.rpm, r.rpm) THEN Ref(doc, r) ELSE @,
              !.tpmRule = IF TakesRate(l.tpm, r.tpm) THEN Ref(doc, r) ELSE @,
              !.rpm = MinNonZero(@, r.rpm), !.tpm = MinNonZero(@, r.tpm)]

\* mergeTeamLimits and mergeUserLimits: a team document contributes budgets
\* and rates, a user document budgets; other rules contribute nothing.
MergeLimits(doc) ==
    LET budgets == Rules(doc, "budget")
        rates == IF doc.user = "" THEN Rules(doc, "rate") ELSE {}
        folded == FoldSet(LAMBDA r, l : MergeRate(l, doc, r),
                     FoldSet(LAMBDA r, l : MergeBudget(l, doc, r),
                             Lookup(limits, Subject(doc), NoLimits), budgets), rates)
    IN IF budgets \cup rates = {} THEN limits ELSE Set(limits, Subject(doc), folded)

\* UserLimits: the scoped entry narrowed by the global one.
UserBudget(team, user, period) ==
    LET scoped == Lookup(limits, <<team, user>>, NoLimits).budget[period]
        global == Lookup(limits, <<"", user>>, NoLimits).budget[period]
    IN MergeWindow(scoped, global)

\* LeaseTable.set folds one grant per budget rule into the team's window.
MergeLease(l, grant) ==
    IF l = {} THEN {grant}
    ELSE LET old == CHOOSE x \in l : TRUE IN
         IF grant.hard # old.hard THEN (IF grant.hard THEN {grant} ELSE l)
         ELSE {[old EXCEPT !.allow = IF grant.allow < @ THEN grant.allow ELSE @]}

MergeLeases(doc) ==
    FoldSet(LAMBDA r, f : Set(f, <<doc.team, PeriodOf(r)>>,
                MergeLease(Lookup(f, <<doc.team, PeriodOf(r)>>, {}),
                           [allow |-> GrantOf(r), hard |-> r.hard])),
            leases, {r \in Rules(doc, "budget") : doc.team # "" /\ ~r.unlimited})

-----------------------------------------------------------------------------
(* Tiers and observability *)

\* higherPressure: the higher threshold, then the smaller policy, then rule.
HigherPressure(a, b) ==
    IF a.percent # b.percent THEN a.percent > b.percent
    ELSE IF a.doc # b.doc THEN a.doc < b.doc ELSE a.rule < b.rule

\* mergeConstraints: two different targets leave none ("").
MergeConstraint(f, from, to) ==
    Set(f, from, IF from \in DOMAIN f /\ f[from] # to THEN "" ELSE to)

\* The last tier of every tier rule is taken to be the active one.
ActiveTiers(doc) ==
    {[sub |-> r.tiers[Len(r.tiers)].sub, percent |-> r.tiers[Len(r.tiers)].percent,
      doc |-> doc.name, rule |-> r.name, enforce |-> r.enforce] : r \in Rules(doc, "tiers")}

\* Table.Set for one active tier.
MergeChoice(f, a, from) ==
    IF from \in DOMAIN f /\ ~HigherPressure(a, f[from]) THEN f
    ELSE Set(f, from, [target |-> a.sub[from], percent |-> a.percent,
                       doc |-> a.doc, rule |-> a.rule])

MergeTiers(doc) ==
    FoldSet(LAMBDA a, f : Set(f, Subject(doc),
                FoldSet(LAMBDA from, g : MergeChoice(g, a, from),
                        Lookup(f, Subject(doc), Empty), DOMAIN a.sub)),
            tierMap, ActiveTiers(doc))

MergeStrict(doc) ==
    FoldSet(LAMBDA a, f : Set(f, Subject(doc),
                FoldSet(LAMBDA from, g : MergeConstraint(g, from, a.sub[from]),
                        Lookup(f, Subject(doc), Empty), DOMAIN a.sub)),
            strict, {a \in ActiveTiers(doc) : a.enforce})

\* GetForSubject and ConstraintsForSubject over the keys that match a caller.
Keys(c) == {<<c[1], "">>, <<"", c[2]>>, c} \ {<<"", "">>}

\* ConstraintsForSubject: the optional strict target of a model for a caller.
Constraint(c, from) ==
    LET targets == {strict[k][from] : k \in {j \in Keys(c) \cap DOMAIN strict :
                                                from \in DOMAIN strict[j]}}
    IN IF Cardinality(targets) > 1 THEN {""} ELSE targets

\* GetForSubject: the optional choice of a model for a caller.
Choice(c, from) ==
    LET choices == {tierMap[k][from] : k \in {j \in Keys(c) \cap DOMAIN tierMap :
                                                 from \in DOMAIN tierMap[j]}}
    IN {x \in choices : \A y \in choices : ~HigherPressure(y, x)}

\* MergeObservability for one rule: the highest sampling rate per exporter, the
\* union of audit exporters, one content exporter or none.
MergeExport(d, r) ==
    [d EXCEPT !.traces = IF r.traces = <<>> THEN @
                         ELSE Set(@, r.traces[1],
                                  LET old == Lookup(d.traces, r.traces[1], 0)
                                  IN IF r.traces[2] > old THEN r.traces[2] ELSE old),
              !.audit = IF r.audit = "" THEN @ ELSE @ \cup {r.audit},
              !.conflict = @ \/ (r.content # "" /\ d.content \notin {"", r.content}),
              !.content = IF r.content = "" THEN @ ELSE r.content]

MergeExports(doc) == [c \in Callers |->
    IF ~Matches(Subject(doc), c[1], c[2]) THEN exports[c]
    ELSE FoldSet(LAMBDA r, d : MergeExport(d, r), exports[c], Rules(doc, "observability"))]

-----------------------------------------------------------------------------

\* One document of the listing: refused whole, or folded into every merge.
Offer(doc) ==
    /\ offers < MaxOffers
    /\ doc.name \notin {d.name : d \in docs}
    /\ offers' = offers + 1
    /\ IF Accepts(doc)
       THEN /\ docs' = docs \cup {doc}
            /\ limits' = MergeLimits(doc)
            /\ leases' = MergeLeases(doc)
            /\ tierMap' = MergeTiers(doc)
            /\ strict' = MergeStrict(doc)
            /\ exports' = MergeExports(doc)
       ELSE UNCHANGED <<docs, limits, leases, tierMap, strict, exports>>

MergeNext == \E doc \in WireDocs : Offer(doc)

MergeSpec == MergeInit /\ [][MergeNext]_mergeVars

-----------------------------------------------------------------------------
(* Properties *)

\* Every enforced budget rule of a subject, as <<document, rule>>.
BudgetRules(subject, period) ==
    {p \in UNION {{<<d, r>> : r \in Rules(d, "budget")} : d \in {x \in docs : Subject(x) = subject}} :
        PeriodOf(p[2]) = period /\ ~p[2].unlimited /\ ~RoutingOnly(p[1], p[2])}

\* The binding rules of a set: hard before soft, then the lowest limit.
Binding(rules) ==
    LET hard == {p \in rules : p[2].hard}
        class == IF hard # {} THEN hard ELSE rules
    IN {p \in class : \A q \in class : LimitOf(p[2]) <= LimitOf(q[2])}

InForce(w, rules) ==
    IF rules = {} THEN w = NoWindow
    ELSE \E p \in Binding(rules) :
            w = [limit |-> LimitOf(p[2]), hard |-> p[2].hard, rule |-> Ref(p[1], p[2])]

\* Whatever the order of the documents, the window in force is the binding rule
\* of all of them and the rule a refusal names is that rule; for a user, over
\* the rules of the team's user and of the user everywhere.  A team's lease is
\* hard when one of its grants is, and the smallest of the grants like it.
BudgetsBind ==
    /\ \A s \in {Subject(d) : d \in docs}, p \in Periods :
        InForce(Lookup(limits, s, NoLimits).budget[p], BudgetRules(s, p))
    /\ \A k \in DOMAIN leases : \A l \in leases[k] :
        LET grants == {r \in UNION {Rules(d, "budget") : d \in {x \in docs : x.team = k[1]}} :
                        PeriodOf(r) = k[2] /\ ~r.unlimited}
        IN /\ l.hard <=> \E r \in grants : r.hard
           /\ l.allow = Min({GrantOf(r) : r \in {q \in grants : q.hard = l.hard}})
    /\ \A s \in {Subject(d) : d \in {x \in docs : x.user # ""}}, p \in Periods :
        InForce(UserBudget(s[1], s[2], p), BudgetRules(s, p) \cup BudgetRules(<<"", s[2]>>, p))

\* No conversion of an accepted budget overflows, and no grant is empty.
BudgetsFit == \A d \in docs : \A r \in Rules(d, "budget") : ~r.unlimited =>
    /\ LimitOf(r) \in 1 .. MaxInt
    /\ GrantOf(r) \in 1 .. MaxInt
    /\ r.limit * GrantBP <= MaxInt

\* The active tiers that apply to a caller and replace a model.
Replacing(c, from) ==
    {a \in UNION {ActiveTiers(d) : d \in {x \in docs : Matches(Subject(x), c[1], c[2])}} :
        from \in DOMAIN a.sub}

Models == UNION {DOMAIN a.sub : a \in UNION {ActiveTiers(d) : d \in docs}}

\* A strict target is the one every strict rule of the caller agrees on,
\* whatever scopes the rules come from; a disagreement leaves no target, so the
\* request is refused rather than sent to either.
StrictTargets == \A c \in Callers, from \in Models :
    LET targets == {a.sub[from] : a \in {x \in Replacing(c, from) : x.enforce}}
    IN Constraint(c, from) = IF Cardinality(targets) <= 1 THEN targets ELSE {""}

\* The substitution in force for a caller is that of the most pressed rule,
\* across the rules of the team, the user, and the user in the team.
TierChoices == \A c \in Callers, from \in Models :
    /\ Choice(c, from) = {} <=> Replacing(c, from) = {}
    /\ \A x \in Choice(c, from), a \in Replacing(c, from) : x.percent >= a.percent
    /\ \A x \in Choice(c, from) : \E a \in Replacing(c, from) :
        x.target = a.sub[from] /\ x.percent = a.percent

\* Content is exported to one place: two matching documents that disagree
\* export none, however many agree before or after.
OneContentExporter == \A c \in Callers :
    LET named == {r.content : r \in UNION {Rules(d, "observability") :
                    d \in {x \in docs : Matches(Subject(x), c[1], c[2])}}} \ {""}
    IN /\ exports[c].conflict <=> Cardinality(named) > 1
       /\ exports[c].content = "" <=> named = {}

\* The order of documents decides nothing: budgets, strict targets, tiers and
\* exports in force are those that the accepted rules as a set demand
\* (store.go, tier.go, observability.go, policy.go).
MergesBind == BudgetsFit /\ BudgetsBind /\ StrictTargets /\ TierChoices /\ OneContentExporter
=============================================================================
