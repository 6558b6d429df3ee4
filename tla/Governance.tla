------------------------------ MODULE Governance ------------------------------
(***************************************************************************)
(* Two-phase admission of a request by one data plane that keeps its       *)
(* counters in memory (internal/governance, internal/server/requestpolicy).*)
(* PreCheck walks the limits of the team, the key and the user, one store  *)
(* call at a time; every dispatch attempt then claims the money it may     *)
(* cost (ReserveLocalBudget, then the durable authority when there is one);*)
(* Settle and FinishLocalBudget book what the provider reported, and the   *)
(* deferred Close ends what nobody settled.                                *)
(*                                                                         *)
(* A limit is named <<kind, owner>>, kind being rpm, tpm, quota, month or  *)
(* day and the owner the team, a key or a user; limit 0 means none.  The   *)
(* mode in which the shared database decides is module SharedAdmission.    *)
(***************************************************************************)
EXTENDS CounterStores, Sequences, SequencesExt

CONSTANTS
    Requests,      \* requests in flight
    Team,          \* their team
    KeyOf, UserOf, \* the key and the user of each request
    Limits,        \* [limit names -> Nat], the limits at start
    WarnLimits,    \* limits whose exceeded mode is "warn"
    Edits,         \* limit -> values an administrator may give it while running
    Estimate,      \* token estimate of a request
    Bound,         \* micro-dollars one attempt can cost when its price is known
    Answers,       \* what a provider may report: [kind, cost, tokens]
    Attempts,      \* number of targets in the chain of each request
    MoneyCap,      \* most local money states (100_000 in the code)
    LeaseBlocks,   \* answers the legacy lease gate may give
    AuthorityModes,\* whether a durable budget authority may be configured
    MaxNow

Gates == DOMAIN Limits
MoneyGates == {g \in Gates : g[1] \in {"month", "day"}}
RateGates == {g \in Gates : g[1] \in {"rpm", "tpm"}}

ASSUME GovernanceAssumption ==
    /\ Limits \in [Gates -> Nat]
    /\ WarnLimits \subseteq Gates
    /\ DOMAIN Edits \subseteq {g \in MoneyGates : g[2] = Team}
    /\ {Estimate, MoneyCap, MaxNow} \subseteq Nat /\ Bound \in Nat \ {0}
    /\ Attempts \in [Requests -> Nat \ {0}]
    /\ \A a \in Answers : a.kind \in {"complete", "partial", "invalid", "uncountable"}
    /\ LeaseBlocks \subseteq BOOLEAN /\ AuthorityModes \subseteq BOOLEAN
    /\ \A g \in RateGates : Limits[g] % MinuteTicks = 0

VARIABLES
    now,
    lim,      \* limiter.Memory
    bud,      \* budget.Memory
    money,    \* Governor.localMoney: limit name -> [ends, held, frozen]
    limit,    \* the limits in force
    hasAuthority, \* fixed at start-up
    req,      \* the handler of each request
    charged,  \* history: net tokens taken from each bucket
    served,   \* history: cost of the calls settled in the current window
    liable,   \* history: amounts claimed in the current window and not released
    slack,    \* history: cost settled in the window above the amount held in it
    edited,   \* history: limits edited in their current window
    tainted   \* history: limits with a malformed usage in their current window

governanceVars == <<hasAuthority, now, lim, bud, money, limit, req, charged, served, liable, slack, edited, tainted>>
ghosts == <<charged, served, liable, slack, edited, tainted>>

NothingUsed == -1

NoPermit == [scopes |-> << >>, holds |-> {}]

NewRequest == [pc |-> "new", todo |-> << >>, refused |-> FALSE, rates |-> {},
               open |-> TRUE, dispatched |-> FALSE, owned |-> FALSE,
               permit |-> NoPermit, bounded |-> TRUE, left |-> 0,
               out |-> [kind |-> "none", cost |-> 0, tokens |-> 0]]

\* A handler that has returned holds nothing.
Returned == [NewRequest EXCEPT !.pc = "done", !.open = FALSE]

InitGovernance ==
    /\ now = 0
    /\ lim = EmptyLimiter
    /\ bud = << >>
    /\ money = << >>
    /\ limit = Limits
    /\ hasAuthority \in AuthorityModes
    /\ req = [r \in Requests |-> [NewRequest EXCEPT !.left = Attempts[r]]]
    /\ charged = [g \in RateGates |-> 0]
    /\ served = [g \in MoneyGates |-> 0]
    /\ slack = [g \in MoneyGates |-> 0]
    /\ liable = [g \in MoneyGates |-> 0]
    /\ edited = {}
    /\ tainted = {}

----------------------------------------------------------------------------
(* Limits of a request, in the order in which PreCheck consults them. *)

GateOrder(r) ==
    LET k == KeyOf[r]
        u == UserOf[r]
    IN << <<"rpm", Team>>, <<"tpm", Team>>, <<"quota", Team>>, <<"month", Team>>, <<"day", Team>>,
          <<"rpm", k>>, <<"tpm", k>>, <<"month", k>>, <<"day", k>>,
          <<"month", u>>, <<"day", u>> >>

InForce(g) == g \in Gates /\ limit[g] > 0

IsMoney(g) == g[1] \in {"month", "day"}

\* The money limits of a request, its local money scopes.
LocalMoneyScopes(r) == SelectSeq(GateOrder(r), LAMBDA g : IsMoney(g) /\ InForce(g))

Hard(g) == g \notin WarnLimits

\* The team's request bucket holds at least one token.
RateBurst(g) == IF g[2] = Team THEN Greater(limit[g], 1) ELSE limit[g]

----------------------------------------------------------------------------
(* PreCheck *)

MustDenyBudget(says, g) == says = "capacity" \/ (says = "block" /\ Hard(g))

\* End the token reservations of r, each giving back `credit' tokens.
FinishRates(L, r, credit) ==
    FoldSet(LAMBDA g, acc : FinishRate(acc, g, credit), L, req[r].rates)

Uncharge(r, credit) ==
    [g \in RateGates |-> IF g \in req[r].rates THEN charged[g] - credit ELSE charged[g]]

\* Admission.Cancel: everything reserved for tokens goes back.
Cancel(L, r) ==
    IF req[r].open
    THEN [lim |-> FinishRates(L, r, Estimate), charged |-> Uncharge(r, Estimate)]
    ELSE [lim |-> L, charged |-> charged]

Deny(r, L) ==
    LET c == Cancel(L, r)
    IN /\ lim' = c.lim
       /\ charged' = c.charged
       /\ req' = [req EXCEPT ![r] = Returned]

\* The lease gate, then the list of limits this request has to pass.
StartPreCheck(r) ==
    /\ req[r].pc = "new"
    /\ \E blocked \in LeaseBlocks :
         IF blocked
         THEN Deny(r, lim)
         ELSE /\ req' = [req EXCEPT ![r].pc = "checking",
                                    ![r].todo = SelectSeq(GateOrder(r), InForce)]
              /\ UNCHANGED <<lim, charged>>
    /\ UNCHANGED <<now, bud, money, limit, served, liable, slack, edited, tainted>>

Checking(r, kinds) ==
    /\ req[r].pc = "checking"
    /\ req[r].todo # << >>
    /\ Head(req[r].todo)[1] \in kinds

Pass(r) == [req EXCEPT ![r].todo = Tail(@)]

\* Requests per minute: a token that is never given back.
CheckRpm(r) ==
    /\ Checking(r, {"rpm"})
    /\ \E swept \in BOOLEAN :
         LET g == Head(req[r].todo)
             A == AllowRate(lim, g, 1, limit[g], RateBurst(g), now, swept)
         IN IF A.ok
            THEN /\ lim' = A.store
                 /\ charged' = [charged EXCEPT ![g] = @ + 1]
                 /\ req' = Pass(r)
            ELSE Deny(r, A.store)
    /\ UNCHANGED <<now, bud, money, limit, served, liable, slack, edited, tainted>>

\* Tokens per minute: the estimate is reserved until the usage is known.
CheckTpm(r) ==
    /\ Checking(r, {"tpm"})
    /\ \E swept \in BOOLEAN :
         LET g == Head(req[r].todo)
             A == ReserveRate(lim, g, Estimate, limit[g], now, swept)
         IN IF A.ok
            THEN /\ lim' = A.store
                 /\ charged' = [charged EXCEPT ![g] = @ + Estimate]
                 /\ req' = [Pass(r) EXCEPT ![r].rates = @ \cup {g}]
            ELSE Deny(r, A.store)
    /\ UNCHANGED <<now, bud, money, limit, served, liable, slack, edited, tainted>>

CheckDayQuota(r) ==
    /\ Checking(r, {"quota"})
    /\ \E swept \in BOOLEAN :
         LET g == Head(req[r].todo)
             A == CheckQuota(lim, g, Estimate, limit[g], now, swept)
         IN IF A.ok \/ ~Hard(g)
            THEN lim' = A.store /\ charged' = charged /\ req' = Pass(r)
            ELSE Deny(r, A.store)
    /\ UNCHANGED <<now, bud, money, limit, served, liable, slack, edited, tainted>>

\* Month and day budgets of one owner are both consulted before the request is
\* turned away, so that the refusal can name the one that resets sooner.
CheckMoney(r) ==
    /\ Checking(r, {"month", "day"})
    /\ \E swept \in BOOLEAN :
         LET g == Head(req[r].todo)
             rest == Tail(req[r].todo)
             more == rest # << >> /\ IsMoney(Head(rest)) /\ Head(rest)[2] = g[2]
             A == CheckBudget(bud, g, 0, limit[g], now, swept)
             refused == req[r].refused \/ MustDenyBudget(A.says, g)
         IN /\ bud' = A.store
            /\ IF refused /\ ~more
               THEN Deny(r, lim)
               ELSE req' = [Pass(r) EXCEPT ![r].refused = refused] /\ UNCHANGED <<lim, charged>>
    /\ UNCHANGED <<now, money, limit, served, liable, slack, edited, tainted>>

Admit(r) ==
    /\ req[r].pc = "checking"
    /\ req[r].todo = << >>
    /\ req' = [req EXCEPT ![r].pc = "admitted"]
    /\ UNCHANGED <<now, lim, bud, money, limit, ghosts>>

----------------------------------------------------------------------------
(* ReserveBudget: the money one dispatch attempt may cost. *)

MoneyState(ends) == [ends |-> ends, held |-> 0, frozen |-> FALSE]

\* Mutation: holds do not keep a state, only a freeze does.
KeepMoneyFrozen(m) == now < m.ends /\ m.frozen

\* A state the capacity sweep must keep.
KeepMoney(m) == now < m.ends /\ (m.held > 0 \/ m.frozen)

SweepMoney == Restrict(money, {g \in DOMAIN money : KeepMoney(money[g])})

\* An attempt may start while spend and liability are below the cap.
Room(m, spent, cap) == ~m.frozen /\ spent < cap /\ m.held < cap - spent

\* The money state of g in the window that ends at `ends'.
StateIn(states, g, ends) ==
    IF g \in DOMAIN states /\ states[g].ends = ends THEN states[g] ELSE MoneyState(ends)

\* A scope with its counter read (A) and its state found (m): room, then the
\* counter's own answer.
ClaimRoom(acc, g, bounded, A, m, C) ==
    LET roomy == Room(m, SpentOf(A, g), limit[g])
    IN [bud   |-> IF roomy THEN C.store ELSE A.store,
        money |-> Put(acc.money, g, m),
        ok    |-> roomy /\ C.says = "allow",
        holds |-> acc.holds \cup {[gate |-> g, ends |-> m.ends,
                     amount |-> IF bounded THEN Bound ELSE limit[g] - SpentOf(A, g)]}]

ClaimState(acc, g, bounded, A, m) ==
    ClaimRoom(acc, g, bounded, A, m, CheckBudget(A.store, g, m.held, limit[g], now, FALSE))

ClaimEntry(acc, g, bounded, A) ==
    LET ends == IF A.ok THEN A.store[g].ends ELSE WindowEnd(now, g)
    IN ClaimState(acc, g, bounded, A, StateIn(acc.money, g, ends))

\* One turn of the loop over the scopes: window, state, room and counter.
ClaimScope(acc, g, bounded) ==
    IF ~acc.ok \/ ~Hard(g)
    THEN acc
    ELSE ClaimEntry(acc, g, bounded, CurEntry(acc.bud, g, now, FALSE))

\* The claims on all scopes, from the states the capacity sweep left.
ClaimScopes(scopes, kept, bounded) ==
    LET claim(acc, g) == ClaimScope(acc, g, bounded)
        start == [bud |-> bud, money |-> kept, holds |-> {},
                  ok |-> Cardinality(DOMAIN kept) + Len(scopes) <= MoneyCap]
    IN FoldLeft(claim, start, scopes)

\* The claimed amount is held on a state; an overflow freezes it.
AddHold(m, n) == [m EXCEPT !.held = Lesser(n, MaxAmount), !.frozen = @ \/ n > MaxAmount]

HoldOn(m, holds) ==
    IF holds = {} THEN m ELSE AddHold(m, m.held + (CHOOSE h \in holds : TRUE).amount)

\* All scopes or none: the holds are added only after every scope had room.
HoldAll(scopes, end) ==
    [bud    |-> end.bud,
     money  |-> IF end.ok
                THEN [g \in DOMAIN end.money |->
                        HoldOn(end.money[g], {h \in end.holds : h.gate = g})]
                ELSE end.money,
     ok     |-> end.ok,
     permit |-> [scopes |-> scopes, holds |-> end.holds]]

ReserveLocalBudget(r, bounded) ==
    LET scopes == LocalMoneyScopes(r)
        kept == IF Cardinality(DOMAIN money) + Len(scopes) > MoneyCap THEN SweepMoney ELSE money
    IN HoldAll(scopes, ClaimScopes(scopes, kept, bounded))

\* A dispatch refused before the provider was called gives the tokens back,
\* unless an earlier attempt was dispatched; Close then keeps that charge.
Refuse(r) ==
    IF req[r].dispatched
    THEN /\ req' = [req EXCEPT ![r].pc = "closing", ![r].permit = NoPermit, ![r].out = NewRequest.out]
         /\ UNCHANGED <<lim, charged>>
    ELSE Deny(r, lim)

\* The liability with the amounts of these holds added (sign 1) or taken off.
Claimed(holds, sign) ==
    LET open(g) == {h \in holds : h.gate = g /\ now < h.ends}
    IN [g \in MoneyGates |-> IF open(g) = {} THEN liable[g]
                             ELSE liable[g] + sign * (CHOOSE h \in open(g) : TRUE).amount]

\* The attempt owns its claims and goes to the authority, if there is one, or
\* to the provider; without room it is refused.
TakeClaims(r, bounded, R) ==
    /\ bud' = R.bud
    /\ money' = R.money
    /\ liable' = IF R.ok THEN Claimed(R.permit.holds, 1) ELSE liable
    /\ IF R.ok
       THEN /\ req' = [req EXCEPT ![r].pc = IF hasAuthority THEN "asking" ELSE "dispatched",
                                  ![r].dispatched = @ \/ ~hasAuthority,
                                  ![r].owned = TRUE,
                                  ![r].bounded = bounded,
                                  ![r].permit = R.permit,
                                  ![r].left = @ - 1]
            /\ UNCHANGED <<lim, charged>>
       ELSE Refuse(r)

Reserve(r) ==
    /\ req[r].pc = "admitted"
    /\ LocalMoneyScopes(r) # << >>
    /\ \E bounded \in IF hasAuthority THEN {TRUE} ELSE BOOLEAN :
         TakeClaims(r, bounded, ReserveLocalBudget(r, bounded))
    /\ UNCHANGED <<now, limit, served, slack, edited, tainted>>

\* No money limit: nothing to claim but the authority's reservation.
Unlimited(r) ==
    /\ req[r].pc = "admitted"
    /\ LocalMoneyScopes(r) = << >>
    /\ req' = [req EXCEPT ![r].pc = IF hasAuthority THEN "asking" ELSE "dispatched",
                          ![r].dispatched = @ \/ ~hasAuthority,
                          ![r].bounded = TRUE, ![r].left = @ - 1]
    /\ UNCHANGED <<now, lim, bud, money, limit, ghosts>>

\* A body that asks for several generations, an unknown route or, with an
\* authority, an unknown price is refused before any money is claimed.
RefuseUnpriced(r) ==
    /\ req[r].pc = "admitted"
    /\ hasAuthority \/ LocalMoneyScopes(r) # << >>
    /\ Refuse(r)
    /\ UNCHANGED <<now, bud, money, limit, served, liable, slack, edited, tainted>>

----------------------------------------------------------------------------
(* Settlement *)

\* Whether hold h still points at the state the map holds for its limit.
Current(h, m) == h.gate \in DOMAIN m /\ m[h.gate].ends = h.ends

\* What the end of an attempt does to the state its hold points at.
FinishHold(m, amount, complete, invalid) ==
    IF invalid THEN [m EXCEPT !.frozen = TRUE]
    ELSE IF complete THEN [m EXCEPT !.held = @ - amount] ELSE m

\* FinishLocalBudget: debit first, then release what was proved complete; an
\* invalid observation freezes the scope until its window ends.
FinishLocalBudget(r, actual, complete, invalid) ==
    LET p == req[r].permit
        debit(B, g) == DebitBudget(B, g, actual, now, FALSE)
        held(g) == {h \in p.holds : h.gate = g /\ Current(h, money)}
        finish(m, g) ==
            IF held(g) = {} THEN m
            ELSE FinishHold(m, (CHOOSE h \in held(g) : TRUE).amount, complete, invalid)
    IN /\ bud' = IF actual < 0 THEN bud ELSE FoldLeft(debit, bud, p.scopes)
       /\ money' = [g \in DOMAIN money |-> finish(money[g], g)]

AuthorityAnswers(r) ==
    /\ req[r].pc = "asking"
    /\ \/ /\ req' = [req EXCEPT ![r].pc = "dispatched", ![r].dispatched = TRUE]
          /\ UNCHANGED <<lim, charged, bud, money, liable>>
       \/ /\ FinishLocalBudget(r, NothingUsed, TRUE, FALSE)
          /\ liable' = Claimed(req[r].permit.holds, -1)
          /\ Refuse(r)
    /\ UNCHANGED <<now, limit, served, slack, edited, tainted>>

\* The provider answered: a complete priced usage, a partial one, a malformed
\* one, or one whose token counts do not even add up.  Only a complete usage is
\* sure to have a known cost, and an attempt of known price costs at most Bound.
Respond(r) ==
    /\ req[r].pc = "dispatched"
    /\ \E a \in Answers :
         /\ req[r].bounded => a.cost <= Bound
         /\ req' = [req EXCEPT ![r].pc = "settling", ![r].out = a]
    /\ UNCHANGED <<now, lim, bud, money, limit, ghosts>>

\* The attempt failed without usage: its money stays held.  The next target is
\* tried, or the handler returns.
Fail(r) ==
    /\ req[r].pc = "dispatched"
    /\ FinishLocalBudget(r, NothingUsed, FALSE, FALSE)
    /\ req' = [req EXCEPT ![r].permit = NoPermit,
                          ![r].pc = IF req[r].left > 0 THEN "admitted" ELSE "closing"]
    /\ UNCHANGED <<now, lim, limit, ghosts>>

\* The cost a settled call adds to what this window served, and how much of it
\* came on top of the holds: no hold of this window covered it, or the hold of
\* an incomplete call stays beside the cost it was seen to have.
Serve(r, cost, scopes) ==
    LET amount(g) == IF req[r].out.kind = "complete" /\ \E h \in req[r].permit.holds : h.gate = g /\ Current(h, money)
                     THEN (CHOOSE h \in req[r].permit.holds : h.gate = g).amount ELSE 0
    IN /\ served' = [g \in MoneyGates |-> served[g] + IF g \in ToSet(scopes) THEN cost ELSE 0]
       /\ slack' = [g \in MoneyGates |-> slack[g] +
                      IF g \in ToSet(scopes) THEN Greater(cost - amount(g), 0) ELSE 0]

\* The limits Settle debits itself: none once a permit owns the money.
SettleDebits(r) == IF req[r].owned THEN << >> ELSE LocalMoneyScopes(r)

\* Governor.Settle: quota, token reservations and, without a permit, budgets.
Settle(r) ==
    /\ req[r].pc = "settling"
    /\ req[r].open
    /\ \E swept \in BOOLEAN :
         LET out == req[r].out
             counted == out.kind # "uncountable"
             quota == <<"quota", Team>>
             L == IF counted /\ InForce(quota) THEN DebitQuota(lim, quota, out.tokens, now, swept) ELSE lim
             actual == IF out.kind = "partial" \* Usage.Uncertain
                       THEN Greater(out.tokens, Estimate) ELSE out.tokens
             credit == IF counted THEN Estimate - actual ELSE 0
             debit(B, g) == DebitBudget(B, g, Greater(out.cost, 0), now, swept)
         IN /\ lim' = FinishRates(L, r, credit)
            /\ charged' = Uncharge(r, credit)
            /\ bud' = FoldLeft(debit, bud, SettleDebits(r))
            /\ IF req[r].owned
               THEN UNCHANGED <<served, slack>>
               ELSE Serve(r, Greater(out.cost, 0), LocalMoneyScopes(r))
            /\ req' = [req EXCEPT ![r].open = FALSE, ![r].rates = {}]
    /\ UNCHANGED <<now, money, limit, liable, edited, tainted>>

\* SettleBudget: the permit of the attempt is finished with what was observed.
SettleMoney(r) ==
    /\ req[r].pc = "settling"
    /\ ~req[r].open
    /\ LET out == req[r].out
           malformed == out.kind \in {"invalid", "uncountable"}
       IN /\ FinishLocalBudget(r, out.cost, out.kind = "complete", malformed)
          /\ Serve(r, Greater(out.cost, 0), req[r].permit.scopes)
          /\ liable' = IF out.kind = "complete" THEN Claimed(req[r].permit.holds, -1) ELSE liable
          /\ tainted' = tainted \cup
               IF malformed THEN {h.gate : h \in {x \in req[r].permit.holds : Current(x, money)
                                                  /\ now < x.ends}} ELSE {}
    /\ req' = [req EXCEPT ![r].pc = "closing", ![r].permit = NoPermit, ![r].out = NewRequest.out]
    /\ UNCHANGED <<now, lim, limit, charged, edited>>

\* The deferred Close: reservations nobody settled keep their charge.
Close(r) ==
    /\ req[r].pc = "closing"
    /\ lim' = IF req[r].open THEN FinishRates(lim, r, 0) ELSE lim
    /\ req' = [req EXCEPT ![r] = Returned]
    /\ UNCHANGED <<now, bud, money, limit, ghosts>>

----------------------------------------------------------------------------
(* Usage report, policy edits and time *)

\* What the usage endpoint says is left of limit g: nothing once frozen.
Remaining(g) ==
    LET A == CurEntry(bud, g, now, FALSE)
        m == IF g \in DOMAIN money /\ A.ok /\ money[g].ends = A.store[g].ends
             THEN money[g] ELSE MoneyState(now)
        unspent == Greater(0, limit[g] - SpentOf(A, g))
    IN IF m.frozen THEN 0 ELSE unspent - Lesser(m.held, unspent)

\* Reading the usage creates or rolls the counters it reads.
ReadUsage(r) ==
    /\ req[r].pc = "new"
    /\ LET touch(B, g) == CurEntry(B, g, now, FALSE).store
       IN bud' = FoldLeft(touch, bud, LocalMoneyScopes(r))
    /\ UNCHANGED <<now, lim, money, limit, req, ghosts>>

\* A synced policy or an administrator changes a limit of the team, at most
\* once in each of its windows (a bound of the model).
EditLimit ==
    /\ \E g \in DOMAIN Edits, v \in UNION {Edits[x] : x \in DOMAIN Edits} :
         /\ v \in Edits[g] \ {limit[g]} /\ g \notin edited
         /\ limit' = [limit EXCEPT ![g] = v]
         /\ edited' = edited \cup {g}
    /\ UNCHANGED <<now, lim, bud, money, req, charged, served, liable, slack, tainted>>

Tick ==
    /\ now < MaxNow
    /\ now' = now + 1
    /\ LET rolls(g) == (now + 1) % WindowTicks(g) = 0
       IN /\ served' = [g \in MoneyGates |-> IF rolls(g) THEN 0 ELSE served[g]]
          /\ slack' = [g \in MoneyGates |-> IF rolls(g) THEN 0 ELSE slack[g]]
          /\ liable' = [g \in MoneyGates |-> IF rolls(g) THEN 0 ELSE liable[g]]
          /\ edited' = {g \in edited : ~rolls(g)}
          /\ tainted' = {g \in tainted : ~rolls(g)}
    /\ UNCHANGED <<lim, bud, money, limit, req, charged>>

Finished == (\A r \in Requests : req[r].pc = "done") /\ UNCHANGED governanceVars

Handle(r) ==
    \/ StartPreCheck(r) \/ CheckRpm(r) \/ CheckTpm(r) \/ CheckDayQuota(r) \/ CheckMoney(r)
    \/ Admit(r) \/ Reserve(r) \/ Unlimited(r) \/ RefuseUnpriced(r) \/ AuthorityAnswers(r)
    \/ Respond(r) \/ Fail(r) \/ Settle(r) \/ SettleMoney(r) \/ Close(r) \/ ReadUsage(r)

Step == (\E r \in Requests : Handle(r)) \/ EditLimit \/ Tick

NextGovernance == (Step /\ UNCHANGED hasAuthority) \/ Finished

GovernanceSpec == InitGovernance /\ [][NextGovernance]_governanceVars

----------------------------------------------------------------------------
(* Properties *)

\* Every counter keeps its type and both stores stay within their capacity.
GovernanceTypeOK ==
    /\ now \in 0..MaxNow
    /\ DOMAIN lim.buckets \subseteq RateGates
    /\ \A g \in DOMAIN lim.buckets : lim.buckets[g].tokens <= lim.buckets[g].burst
    /\ LimiterEntries(lim) <= LimiterCap
    /\ DOMAIN bud \subseteq MoneyGates /\ Cardinality(DOMAIN bud) <= BudgetCap
    /\ \A g \in DOMAIN bud : bud[g].spent \in 0..MaxAmount
    /\ DOMAIN money \subseteq MoneyGates /\ Cardinality(DOMAIN money) <= MoneyCap
    /\ \A g \in DOMAIN money : money[g].held \in 0..MaxAmount
    /\ \A r \in Requests :
         /\ req[r].pc \in {"new", "checking", "admitted", "asking", "dispatched", "settling", "closing", "done"}
         /\ req[r].left \in 0..Attempts[r]

\* The spend of limit g in the window that holds `now'.
Spent(g) == IF g \in DOMAIN bud /\ ~Elapsed(bud[g], now) THEN bud[g].spent ELSE 0

LargestClaim(g) == IF hasAuthority THEN Bound ELSE Greater(Bound, limit[g])

\* ReserveLocalBudget's contract: however many attempts overlap, fail and are
\* retried, a blocking limit is overshot by at most one attempt, apart from cost
\* beside the holds (calls of an earlier window, the observed part of an
\* incomplete call whose hold stays).
OneCallOvershoot ==
    \A g \in MoneyGates :
        InForce(g) /\ Hard(g) /\ g \notin edited
            => Spent(g) + liable[g] <= limit[g] - 1 + LargestClaim(g) + slack[g]

\* Settle and FinishLocalBudget share one call: between them its cost is booked
\* once, even when the limit appeared while the call was in flight.
BookedOnce == \A g \in MoneyGates : Spent(g) <= served[g]

\* A token bucket never gives out more than its burst and its refill, although
\* reservations are credited late and idle buckets are dropped and recreated.
RateBound ==
    \A g \in RateGates :
        IF g \in DOMAIN lim.buckets
        THEN LET b == lim.buckets[g]
             IN b.tokens + charged[g] <= b.burst + b.last * PerTick(b.rate)
        ELSE charged[g] <= now * PerTick(Limits[g])

\* Whatever way a handler returns, its token reservations end with it, and no
\* sweep drops a bucket or a money state that an open claim points at.
OpenClaimsCounted ==
    /\ \A g \in RateGates :
         LET open == {r \in Requests : g \in req[r].rates}
         IN /\ open # {} => g \in DOMAIN lim.buckets
            /\ g \in DOMAIN lim.buckets => lim.buckets[g].pending = Cardinality(open)
    /\ \A r \in Requests : req[r].pc = "done" => req[r].rates = {}
    /\ \A r \in Requests : \A h \in req[r].permit.holds :
         now < h.ends => Current(h, money) /\ money[h.gate].held >= h.amount

\* Rolling the window of a known key is never refused for lack of room.
RolloverNeverRefused ==
    \A swept \in BOOLEAN :
        /\ \A g \in DOMAIN bud : CurEntry(bud, g, now, swept).ok
        /\ \A g \in DOMAIN lim.quotas : CurWindow(lim, g, now, swept).ok

\* After a malformed usage nothing starts on the limit until its window ends,
\* whatever was swept, settled or reported since.
MalformedUsageFreezes ==
    \A g \in tainted :
        /\ g \in DOMAIN money
        /\ money[g].ends = WindowEnd(now, g)
        /\ ~Room(money[g], Spent(g), limit[g])

\* The usage report promises money exactly when the next attempt would get it.
UsageAgrees ==
    \A g \in MoneyGates :
        InForce(g) /\ Hard(g) /\ CurEntry(bud, g, now, FALSE).ok
            => LET m == IF g \in DOMAIN money /\ money[g].ends = WindowEnd(now, g)
                        THEN money[g] ELSE MoneyState(now)
               IN Remaining(g) > 0 <=> Room(m, Spent(g), limit[g])

\* A request passes a money limit only if the store could hold its counter:
\* at capacity the limit fails closed, in warn mode too.
CapacityFailsClosed ==
    \A r \in Requests :
      Checking(r, {"month", "day"}) /\ req'[r].pc = "checking" /\ ~req'[r].refused
         => Head(req[r].todo) \in DOMAIN bud' \/ req'[r] = req[r]

\* Money limits hold in the gateway: overlapping attempts overshoot one by at
\* most a call, each call is booked once, a false usage freezes, and the usage
\* report agrees with the next admission (local_money.go, governance.go).
MoneyLimitsHold ==
  /\ GovernanceTypeOK /\ OneCallOvershoot /\ BookedOnce
  /\ MalformedUsageFreezes /\ UsageAgrees

\* The bounded tables keep what counts: claims survive sweeps, buckets never
\* give more than they refill, and known keys roll over (limiter.go and
\* budget.go at capacity).
CountersHold == OpenClaimsCounted /\ RateBound /\ RolloverNeverRefused
=============================================================================
