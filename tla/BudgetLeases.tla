---------------------------- MODULE BudgetLeases ----------------------------
(***************************************************************************)
(* The in-memory (legacy) budget leases: the control plane's ledger of one *)
(* hard budget rule, and the data planes that spend under the allowance of *)
(* their last heartbeat.  Allowances and reports are cumulative in a budget*)
(* window.  A reply may be lost after the ledger recorded its grant, spend *)
(* goes on while a report travels, data planes fall silent, restart with   *)
(* empty counters and are pruned, and the limit and its tiers are edited.  *)
(* The behaviour of one budget window: this ledger has no window of its    *)
(* own and takes a lower report for a rollover.  A lease lives 3 renewals. *)
(***************************************************************************)
EXTENDS Naturals, FiniteSets, UnitSums

CONSTANTS
    Dataplanes,
    Limits,       \* the limits an operator may set, in money units
    Slice,        \* the lease grant: budget handed out per heartbeat
    Renew,        \* ticks between heartbeats; a lease expires after 3 of them
    PruneAfter,   \* ticks after which a silent data plane is dropped
    TierCounts,   \* how many tier thresholds the rule may have
    MaxTicks, MaxEvents

ASSUME BudgetLeasesAssumption ==
    /\ IsFiniteSet(Dataplanes)
    /\ Limits \subseteq Nat /\ Slice \in Nat \ {0} /\ Renew \in Nat \ {0}
    /\ PruneAfter \in Nat /\ PruneAfter > 3 * Renew
    /\ TierCounts \subseteq Nat
    /\ MaxTicks \in Nat /\ MaxEvents \in Nat

VARIABLES
    ticks, events,
    limit, peak,      \* the limit, and the highest so far
    spent, allowance, \* the ledger, per data plane (0 when absent)
    lastSeen,         \* [Dataplanes -> optional tick of the last heartbeat]
    used,             \* the data plane's own counter for this window
    total,            \* history: what it really spent in this window
    lease,            \* [Dataplanes -> optional [allow, until]]
    heartbeat,        \* [Dataplanes -> optional report on its way]
    tiers, latch,     \* number of tiers, and the latched index (0: none)
    excused           \* history: spend the ledger could not know was released

leaseVars == <<ticks, events, limit, peak, spent, allowance, lastSeen,
               used, total, lease, heartbeat, tiers, latch, excused>>

LeasesInit ==
    /\ ticks = 0 /\ events = 0
    /\ limit \in Limits /\ peak = limit
    /\ spent = [d \in Dataplanes |-> 0] /\ allowance = [d \in Dataplanes |-> 0]
    /\ lastSeen = [d \in Dataplanes |-> {}]
    /\ used = [d \in Dataplanes |-> 0] /\ total = [d \in Dataplanes |-> 0]
    /\ lease = [d \in Dataplanes |-> {}]
    /\ heartbeat = [d \in Dataplanes |-> {}]
    /\ tiers \in TierCounts /\ latch = 0
    /\ excused = FALSE

-----------------------------------------------------------------------------
(* The ledger *)

LedgerTotal(f) == Total(f)

\* A grant may still be spent: its holder was seen within 3 renewals.
Fresh(seen, now) == \E t \in seen : now - t <= 3 * Renew

\* Mutant: the grants of the other data planes are not counted.
OutstandingNone(sp, al, seen, except) == 0

\* totals: outstanding allowance beyond reported spend, except for some.
Unspent(sp, al, seen, d) ==
    IF Fresh(seen[d], ticks) /\ al[d] > sp[d] THEN al[d] - sp[d] ELSE 0
Outstanding(sp, al, seen, except) ==
    Total([d \in Dataplanes \ except |-> Unspent(sp, al, seen, d)])

\* What is left for the reporting data plane, never negative.
LeaseLeft(d, sp, al, seen) ==
    LET gone == LedgerTotal(sp) + Outstanding(sp, al, seen, {d})
    IN IF gone < limit THEN limit - gone ELSE 0

\* tier.UtilizedPercent against evenly spaced thresholds: how many are crossed.
Crossed(sp, al, seen) ==
    LET busy == LedgerTotal(sp) + Outstanding(sp, al, seen, {})
    IN Cardinality({i \in 1 .. tiers : busy * (tiers + 1) >= i * limit})

\* Latch.Evaluate: never down within a window, never past the rule's last tier.
Latched(crossed) ==
    LET up == IF crossed > latch THEN crossed ELSE latch
    IN IF up > tiers THEN tiers ELSE up

-----------------------------------------------------------------------------
(* Heartbeats *)

\* syncOnce reads the local counters and posts them.
ReportSpend(d) ==
    /\ heartbeat[d] = {}
    /\ heartbeat' = [heartbeat EXCEPT ![d] = {used[d]}]
    /\ UNCHANGED <<ticks, events, limit, peak, spent, allowance, lastSeen,
                   used, total, lease, tiers, latch, excused>>

\* Data planes silent for too long lose their rows.
Pruned(d) == \E t \in lastSeen[d] : ticks - t > PruneAfter

\* handleSync: register the caller, absorb the report, prune, grant, judge the
\* tiers with the new grant.  The reply carries the allowance, or is lost.
Heartbeat(d, delivered) ==
    \E report \in heartbeat[d] :
        LET gone == {e \in Dataplanes \ {d} : Pruned(e)}
            sp == [e \in Dataplanes |-> IF e = d THEN report
                                       ELSE IF e \in gone THEN 0 ELSE spent[e]]
            al == [e \in Dataplanes |-> IF e \in gone THEN 0 ELSE allowance[e]]
            seen == [e \in Dataplanes |-> IF e = d THEN {ticks}
                                         ELSE IF e \in gone THEN {} ELSE lastSeen[e]]
            left == LeaseLeft(d, sp, al, seen)
            grant == report + (IF Slice < left THEN Slice ELSE left)
            granted == [al EXCEPT ![d] = grant]
        IN
        /\ spent' = sp /\ allowance' = granted /\ lastSeen' = seen
        /\ latch' = Latched(Crossed(sp, granted, seen))
        /\ excused' = \/ excused
                      \/ \E e \in gone : total[e] > 0
                      \/ delivered /\ used[d] > grant
                      \/ ~delivered /\ \E l \in lease[d] : l.allow > grant
        /\ lease' = IF delivered
                    THEN [lease EXCEPT ![d] = {[allow |-> grant, until |-> ticks + 3 * Renew]}]
                    ELSE lease
        /\ heartbeat' = [heartbeat EXCEPT ![d] = {}]
        /\ UNCHANGED <<ticks, events, limit, peak, used, total, tiers>>

-----------------------------------------------------------------------------
(* The data plane *)

\* Mutant: an expired lease does not block.
BlockedNever(d) == \E l \in lease[d] : l.allow = 0

\* LeaseTable.Blocked for a hard lease.
Blocked(d) == \E l \in lease[d] : ticks > l.until \/ l.allow = 0

\* A request of one unit: the gate, then the budget clamped to the allowance.
\* With require_sync no request runs before the first heartbeat's lease.
Spend(d) ==
    /\ ~Blocked(d)
    /\ \E l \in lease[d] : used[d] < l.allow
    /\ used' = [used EXCEPT ![d] = @ + 1]
    /\ total' = [total EXCEPT ![d] = @ + 1]
    /\ UNCHANGED <<ticks, events, limit, peak, spent, allowance, lastSeen,
                   lease, heartbeat, tiers, latch, excused>>

\* The process restarts: counters and lease are gone, the spend is not.
RestartDataplane(d) ==
    /\ events < MaxEvents
    /\ events' = events + 1
    /\ used' = [used EXCEPT ![d] = 0]
    /\ lease' = [lease EXCEPT ![d] = {}]
    /\ heartbeat' = [heartbeat EXCEPT ![d] = {}]
    /\ excused' = (excused \/ used[d] > 0)
    /\ UNCHANGED <<ticks, limit, peak, spent, allowance, lastSeen, total,
                   tiers, latch>>

-----------------------------------------------------------------------------
(* Time and edits *)

\* Time passes.  A lease that ends with spend its holder never reported gives
\* that money back to the others: the one thing the ledger cannot see.
LeaseTick ==
    /\ ticks < MaxTicks
    /\ ticks' = ticks + 1
    /\ excused' = (excused \/ \E d \in Dataplanes : 
                   /\ Fresh(lastSeen[d], ticks) /\ ~Fresh(lastSeen[d], ticks + 1)
                   /\ total[d] > spent[d])
    /\ UNCHANGED <<events, limit, peak, spent, allowance, lastSeen, used,
                   total, lease, heartbeat, tiers, latch>>

\* applyWire with an edited rule: spend and allowances are carried over.
EditRule ==
    /\ events < MaxEvents
    /\ events' = events + 1
    /\ limit' \in Limits /\ tiers' \in TierCounts
    /\ <<limit', tiers'>> # <<limit, tiers>>
    /\ peak' = IF limit' > peak THEN limit' ELSE peak
    /\ UNCHANGED <<ticks, spent, allowance, lastSeen, used, total, lease,
                   heartbeat, latch, excused>>

LeasesNext ==
    \/ \E d \in Dataplanes : \/ ReportSpend(d) \/ Spend(d) \/ RestartDataplane(d)
                             \/ \E delivered \in BOOLEAN : Heartbeat(d, delivered)
    \/ LeaseTick \/ EditRule

LeasesSpec == LeasesInit /\ [][LeasesNext]_leaseVars

-----------------------------------------------------------------------------
(* Properties *)

LeasesTypeOK ==
    /\ spent \in [Dataplanes -> Nat] /\ allowance \in [Dataplanes -> Nat]
    /\ used \in [Dataplanes -> Nat] /\ latch \in Nat
    /\ \A d \in Dataplanes : used[d] <= total[d] /\ Cardinality(lease[d]) <= 1

\* Together the data planes never spend more than the highest limit set so
\* far in one window, however reports, replies and edits interleave - unless
\* the ledger lost sight of money: a restart, a prune, a lease that ended
\* unreported, or a holder left with a larger allowance than the ledger knows
\* (a lowered limit whose reply was lost).
LeasesCapSpend == ~excused => LedgerTotal(total) <= peak

\* The tier a heartbeat hands out exists in the rule as it is now.
TierInRange == \A d \in Dataplanes : lastSeen'[d] # lastSeen[d] => latch' <= tiers'

\* Leases together stay within the limit, and the tier of a heartbeat within
\* the rule (controlplane.go heartbeat, tier.go Evaluate).
LeasesHold == [][LeasesTypeOK' /\ LeasesCapSpend' /\ TierInRange]_leaseVars
=============================================================================
