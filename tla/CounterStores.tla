---------------------------- MODULE CounterStores ----------------------------
(***************************************************************************)
(* The two in-process counter stores of a data plane that runs without a   *)
(* shared database: the rate and quota store (internal/limiter) and the    *)
(* budget store (internal/budget).  Both are bounded maps behind a mutex;  *)
(* every operator below is one critical section and takes the store, the   *)
(* clock reading t and `swept', which says whether this call is the one in *)
(* 256 that also runs the amortised sweep.                                 *)
(*                                                                         *)
(* A limiter store is [buckets, quotas], two partial functions from keys;  *)
(* a budget store is one partial function from keys.  Time is in ticks; a  *)
(* bucket of limit n refills n \div MinuteTicks tokens per tick.           *)
(***************************************************************************)
EXTENDS Integers, FiniteSets, Functions

CONSTANTS
    LimiterCap,   \* maxEntries of limiter.Memory
    BudgetCap,    \* maxEntries of budget.Memory
    MinuteTicks,  \* ticks in a minute
    DayTicks,     \* ticks in a day, the quota window and the day budget
    MonthTicks,   \* ticks in a month
    MaxAmount     \* stands for math.MaxInt64

ASSUME StoresAssumption ==
    /\ {LimiterCap, BudgetCap, MinuteTicks, DayTicks, MonthTicks} \subseteq Nat \ {0}
    /\ MaxAmount \in Nat

Lesser(a, b) == IF a < b THEN a ELSE b
Greater(a, b) == IF a > b THEN a ELSE b

\* f with key k set to v, k being new or not.
Put(f, k, v) == [x \in DOMAIN f \cup {k} |-> IF x = k THEN v ELSE f[x]]

\* Addition that saturates at the largest integer.
SaturatingAdd(a, b) == Lesser(a + b, MaxAmount)

----------------------------------------------------------------------------
(* The rate and quota store. *)

EmptyLimiter == [buckets |-> << >>, quotas |-> << >>]

PerTick(limit) == limit \div MinuteTicks

\* The tokens a bucket would hold at t, before the cap.
Projected(b, t) == b.tokens + (t - b.last) * PerTick(b.rate)

\* Mutation: an idle bucket goes with the debt it still has.
ReclaimableWhenIdle(b, t) == b.rate > 0 /\ b.pending = 0 /\ t > b.last

\* A bucket whose removal nobody can observe: no reservation is open on it and
\* it has refilled to its burst, which is how an absent bucket starts.
Reclaimable(b, t) == b.rate > 0 /\ b.pending = 0 /\ Projected(b, t) >= b.burst

Elapsed(w, t) == t >= w.ends

SweepReclaimable(L, t) ==
    [buckets |-> Restrict(L.buckets, {k \in DOMAIN L.buckets : ~Reclaimable(L.buckets[k], t)}),
     quotas  |-> Restrict(L.quotas, {k \in DOMAIN L.quotas : ~Elapsed(L.quotas[k], t)})]

SweptLimiter(L, t, swept) == IF swept THEN SweepReclaimable(L, t) ELSE L

LimiterEntries(L) == Cardinality(DOMAIN L.buckets) + Cardinality(DOMAIN L.quotas)

\* Mutation: a full store takes the entry all the same.
AdmitEntryAlways(L, t) == [store |-> SweepReclaimable(L, t), ok |-> TRUE]

\* Room for one more entry, after a last sweep when the store is full.
AdmitEntry(L, t) ==
    LET M == IF LimiterEntries(L) < LimiterCap THEN L ELSE SweepReclaimable(L, t)
    IN [store |-> M, ok |-> LimiterEntries(M) < LimiterCap]

\* Bucket b refilled at t to at most its burst.
Refilled(b, limit, burst, t) ==
    [tokens |-> Lesser(burst, b.tokens + (t - b.last) * PerTick(limit)),
     last |-> t, pending |-> b.pending, rate |-> limit, burst |-> burst]

\* A bucket with too few tokens is kept, refilled, and nothing is taken.
TakeTokens(L, k, b, cost) ==
    [store |-> [L EXCEPT !.buckets = Put(@, k, IF b.tokens >= cost THEN [b EXCEPT !.tokens = @ - cost] ELSE b)],
     ok    |-> b.tokens >= cost]

\* The bucket of k in a store that has, or has made, room for it.
TakeFrom(A, k, cost, limit, burst, t) ==
    IF ~A.ok
    THEN A
    ELSE LET b == IF k \in DOMAIN A.store.buckets THEN A.store.buckets[k]
                  ELSE [tokens |-> burst, last |-> t, pending |-> 0]
         IN TakeTokens(A.store, k, Refilled(b, limit, burst, t), cost)

\* A bucket that exists needs no room.
RoomFor(L, k, t) == IF k \in DOMAIN L.buckets THEN [store |-> L, ok |-> TRUE] ELSE AdmitEntry(L, t)

\* Take cost tokens from the bucket of k.  A full store refuses a new key.
AllowRate(L, k, cost, limit, burst, t, swept) ==
    TakeFrom(RoomFor(SweptLimiter(L, t, swept), k, t), k, cost, limit, burst, t)

\* A bucket that was taken from counts one more open reservation.
Pending(A, k) == IF A.ok THEN [A EXCEPT !.store.buckets[k].pending = @ + 1] ELSE A

\* AllowRate that leaves a reservation open on the bucket until FinishRate.
ReserveRate(L, k, cost, limit, t, swept) ==
    Pending(AllowRate(L, k, cost, limit, limit, t, swept), k)

\* Close a reservation of cost tokens.  credit = 0 keeps the whole charge;
\* otherwise the difference between the estimate and the usage goes back,
\* which is a debit when the usage was larger.
FinishRate(L, k, credit) ==
    IF k \in DOMAIN L.buckets
    THEN [L EXCEPT !.buckets[k] = [@ EXCEPT !.pending = @ - 1,
                                            !.tokens = Lesser(@ + credit, L.buckets[k].burst)]]
    ELSE L

\* The quota window of k.  The lookup comes before the sweep, so the rollover
\* of a known key is never mistaken for a new entry.
CurWindow(L, k, t, swept) ==
    LET known == k \in DOMAIN L.quotas
        M == SweptLimiter(L, t, swept)
        A == IF known THEN [store |-> M, ok |-> TRUE] ELSE AdmitEntry(M, t)
        fresh == [used |-> 0, ends |-> t + DayTicks]
    IN IF ~A.ok
       THEN A
       ELSE [store |-> [A.store EXCEPT !.quotas =
                          Put(@, k, IF known /\ ~Elapsed(L.quotas[k], t) THEN L.quotas[k] ELSE fresh)],
             ok    |-> TRUE]

CheckQuota(L, k, estimate, limit, t, swept) ==
    LET A == CurWindow(L, k, t, swept)
    IN [store |-> A.store,
        ok    |-> A.ok /\ A.store.quotas[k].used + estimate <= limit]

\* At capacity there is nothing to record the usage against.
DebitQuota(L, k, actual, t, swept) ==
    LET A == CurWindow(L, k, t, swept)
    IN IF A.ok THEN [A.store EXCEPT !.quotas[k].used = SaturatingAdd(@, actual)] ELSE A.store

----------------------------------------------------------------------------
(* The budget store. *)

\* The calendar window that holds t: a day or a month.
WindowTicks(k) == IF k[1] = "day" THEN DayTicks ELSE MonthTicks

WindowEnd(t, k) == (t \div WindowTicks(k) + 1) * WindowTicks(k)

SweepExpired(B, t) == Restrict(B, {k \in DOMAIN B : ~Elapsed(B[k], t)})

\* The current entry of k, created or rolled as needed.  Only a key without an
\* entry can be refused: a rollover replaces an entry and cannot grow the map.
CurEntry(B, k, t, swept) ==
    LET C == IF swept THEN SweepExpired(B, t) ELSE B
        D == IF k \notin DOMAIN C /\ Cardinality(DOMAIN C) >= BudgetCap
             THEN SweepExpired(C, t) ELSE C
    IN IF k \in DOMAIN C /\ ~Elapsed(C[k], t)
       THEN [store |-> C, ok |-> TRUE]
       ELSE IF k \notin DOMAIN D /\ Cardinality(DOMAIN D) >= BudgetCap
            THEN [store |-> D, ok |-> FALSE]
            ELSE [store |-> Put(D, k, [spent |-> 0, ends |-> WindowEnd(t, k)]), ok |-> TRUE]

SpentOf(A, k) == IF A.ok THEN A.store[k].spent ELSE 0

\* "allow", "block" or "capacity".  A store that cannot hold the counter of a
\* real limit answers "capacity", which no warn mode may wave through.
CheckBudget(B, k, estimate, limit, t, swept) ==
    LET A == CurEntry(B, k, t, swept)
    IN [store |-> A.store,
        says  |-> IF ~A.ok THEN "capacity"
                  ELSE IF A.store[k].spent > limit \/ estimate > limit - A.store[k].spent
                       THEN "block" ELSE "allow"]

DebitBudget(B, k, actual, t, swept) ==
    LET A == CurEntry(B, k, t, swept)
    IN IF A.ok THEN [A.store EXCEPT ![k].spent = SaturatingAdd(@, actual)] ELSE A.store
=============================================================================
